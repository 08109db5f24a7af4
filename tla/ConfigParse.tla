---------------------------- MODULE ConfigParse ----------------------------
(***************************************************************************)
(* From a configuration file to the seed archive of an image:              *)
(* internal/config (load.go, validate.go, schema.go) and internal/seed.    *)
(*                                                                         *)
(*   read, sops, [ decrypt, ] decode, version, defaults, validate, render  *)
(*                                                                         *)
(* What YAML and SOPS make of the bytes is an input.  A diagnostic of      *)
(* theirs is a sequence of words: "text", the quotation marks "dq", "bq"   *)
(* and "sq", and "value", a piece of a value of the file.                  *)
(***************************************************************************)
EXTENDS Naturals, Sequences, FiniteSets, Loops

CONSTANTS
    Documents,   \* the documents a file may hold
    Messages,    \* diagnostics of the libraries, sequences of words
    Diagnostics  \* what the strict decoder may complain of, see Decode

DefaultChannel == "stable"
currentSchemaVersion == 1
defaultSeedVersion == "1"
checkFrequencyNever == "never"

Customizer == <<"applications", "incus", "operations-center", "migration-manager",
                "install", "network", "provider", "services", "update">>
CLIOnly == <<"kernel", "security">>

\* The sections of a document.  `seeds` is a function of those that are present;
\* each has a version and a body, of which only what the code looks at is kept.  The
\* code lists the eleven again for the defaults, for the build.Spec and for the archive.
SectionNames ==
    {"applications", "incus", "install", "migration-manager", "network",
     "operations-center", "provider", "services", "update", "kernel", "security"}

\* What the model keeps of a document.
SeedSections == [version : STRING, body : STRING]
IsDocument(d) ==
    /\ d \in [version : Nat, type : STRING, arch : STRING, channel : STRING,
             offline : BOOLEAN, seeds : {d.seeds}]
    /\ DOMAIN d.seeds \subseteq SectionNames /\ d.seeds \in [DOMAIN d.seeds -> SeedSections]

\* Of a diagnostic nothing is assumed: a library may print a value between marks
\* that the value holds itself, or between none.
ASSUME ConfigAssumption ==
    /\ \A d \in Documents : IsDocument(d)
    /\ Messages \subseteq Seq(STRING)
    /\ \A ds \in Diagnostics : \A i \in DOMAIN ds :
          IF ds[i].unknown THEN ds[i].field \in STRING \ {"value"}
          ELSE ds[i].message \in Seq(STRING)

VARIABLES
    pc,        \* the next step, "done" or "failed"
    sops,      \* the file has a top-level sops key
    raw,       \* history: the document as it was decoded
    doc,       \* the document, later the build.Spec
    archive,   \* the seed files, in order
    failure    \* the sentinel of the error and what the error says, with the step and
               \* the diagnostics that it is from (history)

vars == <<pc, sops, raw, doc, archive, failure>>

NoDocument == [version |-> 0, type |-> "", arch |-> "", channel |-> "",
               offline |-> FALSE, seeds |-> <<>>]

Init ==
    /\ pc = "read" /\ sops = FALSE
    /\ raw = NoDocument /\ doc = NoDocument
    /\ archive = <<>>
    /\ failure = [class |-> "none", at |-> "none", says |-> {}, from |-> {}]

FailFrom(class, says, from) ==
    /\ pc' = "failed"
    /\ failure' = [class |-> class, at |-> pc, says |-> says, from |-> from]
    /\ UNCHANGED <<sops, raw, doc, archive>>

Fail(class, says) == FailFrom(class, says, {})

-----------------------------------------------------------------------------
\* What errors say.

\* Mutant: any mark ends a quoted literal.
sanitizeAnyMark(m) ==
    LET read[n \in 0..Len(m)] ==
            IF n = 0 THEN [quote |-> "", out |-> <<>>]
            ELSE LET b == read[n - 1] IN
                 CASE b.quote # "" /\ m[n] \in {"dq", "bq"} -> [quote |-> "", out |-> b.out]
                   [] b.quote # "" -> b
                   [] b.quote = "" /\ m[n] \in {"dq", "bq"} -> [b EXCEPT !.quote = m[n]]
                   [] OTHER -> [b EXCEPT !.out = Append(@, m[n])]
    IN read[Len(m)].out

\* One byte that opens a literal and closes it.
Marks == {"dq", "bq"}

\* One word further: outside a literal, where quote is "", or in one.
readWord(b, w) ==
    IF b.quote # ""
    THEN IF w # b.quote THEN b ELSE [quote |-> "", out |-> Append(b.out, "<value>")]
    ELSE IF w \in Marks THEN [quote |-> w, out |-> b.out]
    ELSE [quote |-> "", out |-> Append(b.out, w)]

sanitizeYAMLMessage(m) ==
    LET read[n \in 0..Len(m)] ==
            IF n = 0 THEN [quote |-> "", out |-> <<>>] ELSE readWord(read[n - 1], m[n])
    IN read[Len(m)].out

\* The path of a Go type of the schema; "document" has none, and neither has any
\* type that is not listed.
PathPrefix ==
    [image |-> <<"image">>, seeds |-> <<"seeds">>,
     Applications |-> <<"seeds", "applications">>, Application |-> <<"seeds", "applications">>,
     InstallTarget |-> <<"seeds", "install", "target">>,
     InstallSecurity |-> <<"seeds", "install", "security">>,
     Install |-> <<"seeds", "install">>,
     MigrationManager |-> <<"seeds", "migration-manager">>,
     OperationsCenter |-> <<"seeds", "operations-center">>,
     Incus |-> <<"seeds", "incus">>, Network |-> <<"seeds", "network">>,
     Provider |-> <<"seeds", "provider">>, Services |-> <<"seeds", "services">>,
     Update |-> <<"seeds", "update">>, Kernel |-> <<"seeds", "kernel">>,
     Security |-> <<"seeds", "security">>]

yamlPathPrefix(t) == IF t \in DOMAIN PathPrefix THEN PathPrefix[t] ELSE <<>>

fieldPath(t, field) == Append(yamlPathPrefix(t), field)

\* A complaint is about an unknown field of a type, or is some other message.
formatLoadError(d) ==
    IF d.unknown THEN fieldPath(d.type, d.field) ELSE sanitizeYAMLMessage(d.message)

\* A diagnostic of a library becomes an error of one line.
FailWith(class, m) == FailFrom(class, {sanitizeYAMLMessage(m)}, {m})

-----------------------------------------------------------------------------
\* Load and Parse, up to the decoded document.

readConfig ==
    /\ pc = "read"
    /\ \/ pc' = "sops" /\ UNCHANGED <<sops, raw, doc, archive, failure>>
       \/ Fail("config", {<<"text">>})

\* The presence of the key is all that counts.
hasTopLevelSOPS ==
    /\ pc = "sops"
    /\ \/ /\ sops' \in BOOLEAN
          /\ pc' = IF sops' THEN "decrypt" ELSE "decode"
          /\ UNCHANGED <<raw, doc, archive, failure>>
       \/ \E m \in Messages : FailWith("config", m)

\* Mutant: a file that cannot be decrypted is refused as one that cannot be decoded.
DecryptAsDecode ==
    /\ pc = "decrypt"
    /\ \/ pc' = "decode" /\ UNCHANGED <<sops, raw, doc, archive, failure>>
       \/ \E m \in Messages : FailWith("config", m)

Decrypt ==
    /\ pc = "decrypt"
    /\ \/ pc' = "decode" /\ UNCHANGED <<sops, raw, doc, archive, failure>>
       \/ \E m \in Messages : FailWith("decrypt", m)

\* A strict decoder: it gives a document or a list of complaints.
Decode ==
    /\ pc = "decode"
    /\ \/ /\ doc' \in Documents /\ raw' = doc'
          /\ pc' = "version"
          /\ UNCHANGED <<sops, archive, failure>>
       \/ \E ds \in Diagnostics :
              FailFrom("config", {formatLoadError(ds[i]) : i \in DOMAIN ds},
                       {ds[i].message : i \in {j \in DOMAIN ds : ~ds[j].unknown}})

checkVersion ==
    /\ pc = "version"
    /\ IF doc.version = currentSchemaVersion
       THEN pc' = "defaults" /\ UNCHANGED <<sops, raw, doc, archive, failure>>
       ELSE Fail("config", {<<"version">>})

-----------------------------------------------------------------------------
\* Defaults, validation and the conversion to a build.Spec.

\* Mutant: every section gets the default version.
setEveryVersion(s) == [s EXCEPT !.version = defaultSeedVersion]

setDefaultVersion(s) ==
    IF s.version = "" THEN [s EXCEPT !.version = defaultSeedVersion] ELSE s

\* Mutant: the sections that only this program has were forgotten.
presentUpstream(seeds) == DOMAIN seeds \ {"kernel", "security"}

presentSeedVersions(seeds) ==
    {"applications", "incus", "install", "migration-manager", "network", "operations-center",
     "provider", "services", "update", "kernel", "security"} \cap DOMAIN seeds

defaultSeedVersions(seeds) ==
    [n \in DOMAIN seeds |->
        IF n \in presentSeedVersions(seeds) THEN setDefaultVersion(seeds[n]) ELSE seeds[n]]

\* An offline image has an update seed, and it never asks for updates.
neverUpdate(seeds) ==
    [n \in DOMAIN seeds \cup {"update"} |->
        IF n # "update" THEN seeds[n]
        ELSE [version |-> IF n \in DOMAIN seeds THEN seeds[n].version ELSE defaultSeedVersion,
              body |-> checkFrequencyNever]]

WithDefaults(d) ==
    [d EXCEPT !.channel = IF d.channel = "" THEN DefaultChannel ELSE d.channel,
              !.seeds = IF d.offline THEN neverUpdate(defaultSeedVersions(d.seeds))
                        ELSE defaultSeedVersions(d.seeds)]

applyDefaults ==
    /\ pc = "defaults"
    /\ doc' = WithDefaults(doc)
    /\ pc' = "validate"
    /\ UNCHANGED <<sops, raw, archive, failure>>

\* Each validator gives the path of the first fault it finds, or none.
validateImage(d) ==
    IF d.type \notin {"iso", "raw"} THEN <<"image", "type">>
    ELSE IF d.arch \notin {"x86_64", "aarch64"} THEN <<"image", "architecture">>
    ELSE <<>>

\* The comparison takes no notice of case; "no target" is an install without one.
SortOrders == {"no target", "", "smallest", "Largest"}

validateInstall(d) ==
    IF "install" \in DOMAIN d.seeds /\ d.seeds["install"].body \notin SortOrders
    THEN <<"seeds", "install", "target", "sort_order">> ELSE <<>>

validateSecurity(d) ==
    IF "security" \in DOMAIN d.seeds /\ d.seeds["security"].body = "recovery keys"
    THEN <<"seeds", "security", "encryption_recovery_keys">> ELSE <<>>

\* Mutant: an empty list of applications will do.
validateSection(d) ==
    IF d.offline /\ "applications" \notin DOMAIN d.seeds
    THEN <<"seeds", "applications">> ELSE <<>>

validateOffline(d) ==
    IF d.offline /\ ("applications" \notin DOMAIN d.seeds
                     \/ d.seeds["applications"].body = "no application")
    THEN <<"seeds", "applications">> ELSE <<>>

\* The first of the paths that is one.
FirstPath(paths) ==
    LET faults == {i \in DOMAIN paths : paths[i] # <<>>} IN
    IF faults = {} THEN <<>> ELSE paths[Least(faults)]

\* Mutant: an installation is looked at only for an online image.
FaultOnline(d) ==
    FirstPath(<<validateImage(d), IF d.offline THEN <<>> ELSE validateInstall(d),
                validateSecurity(d), validateOffline(d)>>)

Fault(d) ==
    FirstPath(<<validateImage(d), validateInstall(d), validateSecurity(d),
                validateOffline(d)>>)

\* Mutant: a section was forgotten.
specWithoutServices(d) ==
    [d EXCEPT !.seeds = [n \in DOMAIN d.seeds \ {"services"} |-> d.seeds[n]]]

\* The sections that the build.Spec takes over.
spec(d) ==
    [d EXCEPT !.seeds =
        [n \in DOMAIN d.seeds \cap
                 {"applications", "incus", "install", "migration-manager", "network",
                  "operations-center", "provider", "services", "update", "kernel", "security"}
            |-> d.seeds[n]]]

validate ==
    /\ pc = "validate"
    /\ IF Fault(doc) = <<>>
       THEN pc' = "render" /\ doc' = spec(doc) /\ UNCHANGED <<sops, raw, archive, failure>>
       ELSE Fail("config", {Fault(doc)})

-----------------------------------------------------------------------------
\* seed.Render.

\* The sections of names that are present.
appendIfPresent(names, seeds) == Kept(names, {i \in DOMAIN names : names[i] \in DOMAIN seeds})

appendCustomizerSeeds(seeds) == appendIfPresent(Customizer, seeds)

appendCLISeeds(seeds) == appendIfPresent(CLIOnly, seeds)

collectSeedYAML(seeds) == appendCustomizerSeeds(seeds) \o appendCLISeeds(seeds)

writeSeedTar(names) ==
    [i \in DOMAIN names |-> [name |-> names[i], content |-> doc.seeds[names[i]]]]

\* A dump that fails, of any section, leaves nothing of the archive.
Render ==
    /\ pc = "render"
    /\ \/ /\ archive' = writeSeedTar(collectSeedYAML(doc.seeds))
          /\ pc' = "done"
          /\ UNCHANGED <<sops, raw, doc, failure>>
       \/ DOMAIN doc.seeds # {} /\ Fail("general", {<<"text">>})

Done == pc \in {"done", "failed"} /\ UNCHANGED vars

Next ==
    \/ readConfig \/ hasTopLevelSOPS \/ Decrypt \/ Decode \/ checkVersion
    \/ applyDefaults \/ validate \/ Render
    \/ Done

Spec == Init /\ [][Next]_vars
=============================================================================
