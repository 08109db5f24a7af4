----------------------- MODULE ConfigParseProperties -----------------------
(* What an accepted configuration promises to the build, and what a refused *)
(* one promises to its author.                                              *)
EXTENDS ConfigParse

TypeOK ==
    /\ pc \in {"read", "sops", "decrypt", "decode", "version", "defaults", "validate",
               "render", "done", "failed"}
    /\ sops \in BOOLEAN
    /\ raw \in Documents \cup {NoDocument}
    /\ DOMAIN doc.seeds \subseteq SectionNames
    /\ failure.class \in {"none", "config", "decrypt", "general"}
    /\ pc = "done" => failure.class = "none"
    /\ pc = "failed" => failure.class # "none" /\ archive = <<>>

Entry(n) == {i \in DOMAIN archive : archive[i].name = n}

\* An offline image carries an update seed that never asks for updates and at least
\* one application, whatever the file says of either (applyDefaults, validateOffline,
\* Render).
OfflineImageIsSelfContained ==
    pc = "done" /\ raw.offline =>
        /\ \E i \in Entry("update") :
              archive[i].content.body = checkFrequencyNever /\ archive[i].content.version # ""
        /\ \E i \in Entry("applications") : archive[i].content.body # "no application"

\* The image holds what the file says: a section of the file is in the archive once,
\* with its own version if it has one, and nothing else is, but for the update seed of
\* an offline image.  Sections that only this program writes come last (applyDefaults,
\* document.spec, collectSeedYAML).
ArchiveIsTheFile ==
    pc = "done" =>
        /\ {archive[i].name : i \in DOMAIN archive} =
               DOMAIN raw.seeds \cup (IF raw.offline THEN {"update"} ELSE {})
        /\ \A n \in DOMAIN raw.seeds : \E i \in DOMAIN archive :
              /\ Entry(n) = {i}
              /\ archive[i].content.version =
                     IF raw.seeds[n].version = "" THEN "1" ELSE raw.seeds[n].version
              /\ (n = "update" /\ raw.offline) \/ archive[i].content.body = raw.seeds[n].body
        /\ \A i, j \in DOMAIN archive :
              archive[i].name \in {"kernel", "security"} /\ i < j
                  => archive[j].name \in {"kernel", "security"}

\* An image is what its file says, and an offline one can do without the server.
ImageIsAsConfigured == TypeOK /\ OfflineImageIsSelfContained /\ ArchiveIsTheFile

\* The section n of d has a body of bs, if it is there.
SectionIn(d, n, bs) == n \in DOMAIN d.seeds => d.seeds[n].body \in bs

\* What is wrong with a document, whatever is looked at first.
Wrong(d) ==
    (IF d.version # 1 THEN {<<"version">>} ELSE {})
    \cup (IF d.type \in {"iso", "raw"} THEN {} ELSE {<<"image", "type">>})
    \cup (IF d.arch \in {"x86_64", "aarch64"} THEN {} ELSE {<<"image", "architecture">>})
    \cup (IF SectionIn(d, "install", {"no target", "", "smallest", "Largest"})
          THEN {} ELSE {<<"seeds", "install", "target", "sort_order">>})
    \cup (IF SectionIn(d, "security", STRING \ {"recovery keys"})
          THEN {} ELSE {<<"seeds", "security", "encryption_recovery_keys">>})
    \cup (IF d.offline => /\ "applications" \in DOMAIN d.seeds
                          /\ SectionIn(d, "applications", STRING \ {"no application"})
          THEN {} ELSE {<<"seeds", "applications">>})

\* A refusal names a field that is wrong in the file as it was written, and what is
\* accepted had nothing wrong: defaults neither cause a refusal nor hide one
\* (checkVersion, applyDefaults, validate).
RefusalNamesTheFault ==
    /\ failure.at \in {"version", "validate"} =>
          Wrong(raw) # {} /\ failure.says \subseteq Wrong(raw)
    /\ pc \in {"render", "done"} => Wrong(raw) = {}

\* The sentinel tells whether a key is missing or the file is wrong: status 4 is for a
\* file with a sops key that was not decrypted and for nothing else, so that no schema
\* error is seen before the decryption succeeds, and after it an error is one of the
\* plaintext, also of a file that was encrypted (Parse, wrapDecodeError).
SentinelOfStage ==
    /\ failure.class = "decrypt" <=> failure.at = "decrypt"
    /\ failure.class = "decrypt" => sops
    /\ failure.class = "general" <=> failure.at = "render"

\* A literal of a diagnostic: from a mark up to the next one of the same kind.
Literals(m) ==
    {l \in (DOMAIN m) \X (DOMAIN m) :
        /\ l[1] < l[2] /\ m[l[1]] \in Marks /\ m[l[2]] = m[l[1]]
        /\ \A k \in l[1] + 1 .. l[2] - 1 : m[k] # m[l[1]]}

\* Every value in m stands between marks, and holds none of their kind.
IsQuoted(m) ==
    \E L \in SUBSET Literals(m) :
        /\ \A k, l \in L : k = l \/ k[2] < l[1] \/ l[2] < k[1]
        /\ \A i \in DOMAIN m : m[i] \in Marks \cup {"value"} =>
              \E l \in L : l[1] <= i /\ i <= l[2]

HasValue(m) == \E i \in DOMAIN m : m[i] = "value"

\* A value of the file, which may be a secret, is told by a diagnostic that does not
\* quote it, or quotes it with a mark that it holds, and by nothing else: not by one
\* that quotes it, whatever other marks the value holds, not beside an unknown field,
\* and not by the validators (sanitizeYAMLMessage, wrapDecodeError, validate).
OnlyUnquotedIsTold ==
    \A s \in failure.says : HasValue(s) =>
        \E m \in failure.from : ~IsQuoted(m) /\ s = sanitizeYAMLMessage(m)

\* An author learns from a refusal what is wrong, by its status and by the field it
\* names, and a log learns no value from it that its diagnostic quotes.
RefusalTellsFieldOnly == RefusalNamesTheFault /\ SentinelOfStage /\ OnlyUnquotedIsTold

-----------------------------------------------------------------------------
(* Behind the properties: what each step relies on.                         *)

\* The document is that of the file until the defaults come, the rest follows from it.
DocumentOfFile ==
    /\ pc \in {"version", "defaults", "validate", "render", "done"} => raw \in Documents
    /\ pc = "decrypt" => sops
    /\ pc \in {"version", "defaults"} => doc = raw
    /\ pc \in {"validate", "render", "done"} => doc = WithDefaults(raw)
    /\ pc \in {"defaults", "validate", "render", "done"} => raw.version = currentSchemaVersion
    /\ archive = (IF pc = "done" THEN writeSeedTar(collectSeedYAML(doc.seeds)) ELSE <<>>)
    /\ IF pc = "failed" THEN failure.at # "none"
       ELSE failure.at = "none" /\ failure.class = "none"

ConfigInv == ImageIsAsConfigured /\ RefusalTellsFieldOnly /\ DocumentOfFile
=============================================================================
