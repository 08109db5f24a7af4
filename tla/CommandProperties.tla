-------------------------- MODULE CommandProperties --------------------------
(* What a process owes to the script that started it: its exit status, its  *)
(* standard output and the files it leaves.                                 *)
EXTENDS Command

TypeOK ==
    /\ args \in CommandLine
    /\ pc \in Steps /\ at \in Steps \cup {"none", "media"}
    /\ err \subseteq Sentinels
    /\ offline \in BOOLEAN
    /\ out \in Seq(Items) /\ Len(out) <= 1
    /\ file \in Files /\ prior \in {"absent", "old"}
    /\ cancelled \in Steps \cup {"no"}
    /\ code \in 0..6

Exits == At("exit")

\* JSON is asked for by the policy, or, for an error in the flags or operands,
\* by a --json that was parsed before it.
Asked == IF at = "parse" THEN args.json = "true" /\ args.bad # "first" ELSE JSON

\* A command that was asked for JSON writes exactly one document, its result if
\* and only if it exits with 0; one that was not asked writes none; and a
\* document that standard output does not take is a failure of the command
\* (finishBuild, finishCommand, reportBuildError, jsonRequested).
OneDocument ==
    Exits =>
        IF ~Asked THEN \A i \in DOMAIN out : out[i].kind \notin {"result", "error"}
        ELSE IF Closed("stdout") THEN out = <<>> /\ code # 0
        ELSE Len(out) = 1 /\ out[1].kind = (IF code = 0 THEN "result" ELSE "error")

\* The code of an error document is the exit status, unless the error line
\* cannot be written: the status of every failure is then 1 (writeErrorJSON,
\* Execute).
DocumentHasStatus ==
    Exits =>
        /\ Closed("stderr") => code \in {0, 1}
        /\ \A i \in DOMAIN out : out[i].kind \in {"result", "error"} =>
              out[i].code = code \/ (Closed("stderr") /\ code = 1)

\* What a script that asks for JSON can rely on, whichever streams are closed.
DocumentIsReliable == TypeOK /\ OneDocument /\ DocumentHasStatus

\* With -o - standard output holds bytes of the artifact and nothing else, and
\* all of them when the command exits with 0 (streamBuild, finishBuild,
\* writeInitOutput).
StreamIsArtifact ==
    /\ args.dash /\ ~JSON /\ at # "parse" => \A i \in DOMAIN out : out[i].kind \in {"part", "whole"}
    /\ args.dash /\ Exits /\ code = 0 => out = <<Doc("whole", 0)>>

\* The exit status of a build or an init that names a file is 0 if and only if
\* the new files are complete; the one exception is a result that cannot be
\* written, when the files are there, complete, and the status is 1
\* (publishBuild, finishBuild, runInit).
StatusTellsFile ==
    Exits /\ args.cmd \in {"build", "init"} /\ ~args.dash =>
        IF at = "result" THEN code = 1 /\ file = "new" ELSE code = 0 <=> file = "new"

\* Exit status 0 means that the artifact is whole, be it a file or the stream, and in a
\* file only that.
StatusTellsArtifact == StreamIsArtifact /\ StatusTellsFile

\* A signal that arrives before the build begins, at the overwrite question for
\* example, leaves the files of the previous build alone: the answer may still
\* be yes, but nothing is published (publishBuild, runBuild).
CancelledBuildKeepsFiles ==
    Command("build") /\ cancelled \in {"parse", "policy", "flags", "load",
        "source", "begin", "confirm", "image"} => file = prior

\* init never changes a file that was there, be it a configuration or the part
\* of one that an earlier init could not finish (writeInitOutput).
InitKeepsFile == Command("init") /\ prior = "old" => file = "old"

\* A user's earlier files survive a command that was not allowed, or not able, to
\* put a whole new one in their place.
EarlierFilesStay == CancelledBuildKeepsFiles /\ InitKeepsFile

\* Wrapping keeps the code (docs/docs/reference/automation.md): each sentinel
\* that an error carries after all that wrapped it, of an asset inside the
\* rescue media for example, has the exit status for its code, so that the order
\* in which exitCode looks for them decides nothing (outputWrap, exitCode, Execute).
WrappingKeepsOneCode ==
    /\ \A s, t \in err \ {"other"} : codeOf[s] = codeOf[t]
    /\ Exits /\ ~Closed("stderr") => \A s \in err \ {"other"} : code = codeOf[s]

-----------------------------------------------------------------------------
(* Behind the properties: what is so after each step of a command.          *)

Ended == pc \in {"execute", "exit"}

\* The sentinels that the error of a step can carry.
ErrorsAt(step) ==
    CASE step \in {"parse", "policy", "flags"} -> {"usage"}
      [] step = "load" -> {"usage", "config", "decrypt"}
      [] step = "source" -> {"usage", "fetch"}
      [] step = "index" -> {"fetch"}
      [] step = "begin" -> {"usage", "output"}
      [] step \in {"image", "stream"} -> {"fetch", "version", "config", "output", "other"}
      [] step \in {"media", "publish"} -> {"output"}
      [] step \in {"answers", "write"} -> {"usage", "other"}
      [] step = "result" -> {"other"}
      [] OTHER -> {}

\* An error carries one sentinel, one of the step that failed, and ends the run.
OneSentinel ==
    IF at = "none" THEN err = {}
    ELSE Ended /\ \E s \in ErrorsAt(at) : err = {s}

StatusIsOfError ==
    code = (IF ~Exits THEN 0
            ELSE IF err # {} /\ Closed("stderr") THEN 1 ELSE exitCode(err))

\* No command streams its artifact to where its JSON document goes.
OneStream ==
    args.dash =>
        /\ args.cmd \in {"build", "init"}
        /\ JSON => /\ pc \in {"parse", "policy", "flags", "execute", "exit"}
                   /\ Ended => at \in {"parse", "policy", "flags"}

StepOfFlags ==
    /\ pc \in {"stream", "begin", "confirm", "image", "publish"} => Command("build")
    /\ at \in {"stream", "begin", "image", "media", "publish"} => Command("build")
    /\ pc \in {"answers", "write"} \/ at \in {"answers", "write"} => Command("init")
    /\ pc = "index" \/ at = "index" => Command("versions")
    /\ pc = "stream" \/ at = "stream" => args.dash
    /\ pc \in {"begin", "confirm", "image", "publish"} => ~args.dash
    /\ at \in {"begin", "image", "media", "publish"} => ~args.dash

\* What a command that came to its result left on standard output before it.
Artifact == IF args.dash THEN <<Doc("whole", 0)>> ELSE <<>>

Document(kind, c) == IF Closed("stdout") THEN <<>> ELSE <<Doc(kind, c)>>

OutputOf ==
    IF pc = "result" THEN out = Artifact /\ (args.dash => ~Closed("stdout"))
    ELSE IF ~Ended THEN out = <<>>
    ELSE CASE at = "none" ->
                IF args.dash THEN out = Artifact
                ELSE /\ JSON => ~Closed("stdout")
                     /\ out = IF JSON THEN Document("result", 0)
                              ELSE IF args.quiet THEN <<>> ELSE Document("text", 0)
           [] at = "parse" -> out = IF jsonRequested THEN Document("error", 2) ELSE <<>>
           [] at = "stream" -> out \in {<<>>, Document("part", 0)}
           [] at = "result" -> out = <<>> /\ Closed("stdout") /\ ~args.dash
           [] OTHER -> out = IF JSON THEN Document("error", exitCode(err)) ELSE <<>>

\* The commands that write a file have it when they come to their result.
FileOf ==
    IF /\ args.cmd \in {"build", "init"} /\ ~args.dash
       /\ pc = "result" \/ (Ended /\ at \in {"none", "result"})
    THEN file = "new" /\ (Command("init") => prior = "absent")
    ELSE \/ file = prior
         \/ at = "publish" /\ file = "mixed"
         \/ at = "write" /\ file = "part" /\ prior = "absent"

\* A build whose context was done before it asked for the index ends in an
\* error before it publishes.
CancelledBuildFails ==
    Command("build") /\ cancelled \in {"parse", "policy", "flags", "load",
        "source", "begin", "confirm", "image"} =>
        /\ pc \notin {"publish", "result"} /\ at \notin {"publish", "result"}
        /\ Ended => at # "none"

CommandInv ==
    /\ TypeOK
    /\ OneSentinel /\ StatusIsOfError /\ OneStream /\ StepOfFlags
    /\ OutputOf /\ FileOf /\ CancelledBuildFails

\* Every command comes to its end, unless it waits for the server or for
\* somebody at the terminal; without prompts nobody is waited for
\* (autoNoInput, confirmFor, collectInitAnswers).
Ends ==
    <>[](\/ Exits
         \/ pc \in {"index", "stream", "image"} /\ cancelled = "no"
         \/ pc \in {"confirm", "answers"} /\ ~NoInput)
=============================================================================
