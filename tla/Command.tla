------------------------------ MODULE Command ------------------------------
(***************************************************************************)
(* One incusos-builder process, from its command line to its exit status:  *)
(* internal/cli (root.go, policy.go, build.go, validate.go, versions.go,   *)
(* init.go, exit.go, execute.go) under cmd/incusos-builder.                *)
(*                                                                         *)
(*   parse, policy                                   every command         *)
(*   flags, load, source, (stream | begin, [confirm], image, publish),     *)
(*      result                                       build                 *)
(*   load, result                                    validate              *)
(*   source, index, result                           versions              *)
(*   flags, answers, write, result                   init                  *)
(*   execute, exit                                   every command         *)
(*                                                                         *)
(* A build and a publication are single steps here; ImageBuild and         *)
(* Publisher have their insides.                                           *)
(***************************************************************************)
EXTENDS Naturals, Sequences

CONSTANT CommandLines   \* the command lines and terminals to start from

CommandLine ==
    [cmd     : {"build", "validate", "versions", "init"},
     bad     : {"none", "first", "last"}, \* a flag that does not parse, before
                                          \* or after any --json
     operand : BOOLEAN,                   \* a positional argument
     json    : {"absent", "true", "false"},  \* --json
     env     : BOOLEAN,                   \* INCUSOS_BUILDER_JSON
     invalid : BOOLEAN,                   \* --color, --progress, --verbose with -q
     quiet   : BOOLEAN,
     dash    : BOOLEAN,                   \* -o -
     force   : BOOLEAN,
     resources : {"absent", "dash", "image", "other"},  \* --resources-output:
                                          \* no path, -, that of -o, another one
     noInput : BOOLEAN,                   \* --no-input, as flag or environment
     ci      : BOOLEAN,                   \* CI is set
     tty     : SUBSET {"stdin", "stdout"},
     closed  : SUBSET {"stdout", "stderr"}]  \* streams that refuse every write

\* Only build and init have the flag -o (newBuildCommand, newInitCommand).
ASSUME CommandAssumption ==
    /\ CommandLines \subseteq CommandLine
    /\ \A l \in CommandLines : l.dash => l.cmd \in {"build", "init"}

\* An error is the set of the sentinels in its chain, {"other"} if it has none
\* of them and {} for nil.
Sentinels == {"usage", "config", "decrypt", "fetch", "version", "output", "other"}

Steps == {"parse", "policy", "flags", "load", "source", "index", "stream",
          "begin", "confirm", "image", "publish", "answers", "write",
          "result", "execute", "exit"}

Files == {"absent", "old", "part", "mixed", "new"}

VARIABLES
    args,       \* the command line
    pc,         \* the next step
    err,        \* the error that the command returns
    at,         \* history: the step that failed
    offline,    \* Spec.Offline
    out,        \* what standard output holds
    file,       \* the files at -o and --resources-output
    prior,      \* history: file before the command
    cancelled,  \* history: the step at which SIGINT or SIGTERM came, or "no"
    code        \* the exit status

history == <<prior, cancelled>>
vars == <<args, pc, err, at, offline, out, file, code, history>>
fixed == <<args, offline, code, history>>

-----------------------------------------------------------------------------
At(s) == pc = s

Go(s) == pc' = s /\ UNCHANGED <<err, at>>

Command(c) == args.cmd = c

Closed(stream) == stream \in args.closed

Write(item) == IF Closed("stdout") THEN out ELSE Append(out, item)

\* policy.JSON: a flag that was passed hides the environment.
JSON == args.json = "true" \/ (args.json = "absent" /\ args.env)

\* Mutant: --json=false counts as --json.
jsonUnread == args.json # "absent" /\ args.bad # "first"

\* jsonRequested before PersistentPreRunE: only a flag that was parsed counts.
jsonRequested == args.json = "true" /\ args.bad # "first"

\* policy.NoInput, with autoNoInput.
NoInput == args.noInput \/ args.ci \/ args.tty # {"stdin", "stdout"}

codeOf == [usage |-> 2, config |-> 3, decrypt |-> 4, fetch |-> 5, version |-> 5,
           output |-> 6]

\* The cases of the switch stand in the order of their codes.
exitCode(e) ==
    LET codes == {codeOf[s] : s \in e \ {"other"}} IN
    IF e = {} THEN 0
    ELSE IF codes = {} THEN 1
    ELSE CHOOSE c \in codes : \A d \in codes : c <= d

Doc(kind, c) == [kind |-> kind, code |-> c]

Items == [kind : {"result", "error", "text", "part", "whole"}, code : 0..6]

Return(step, e) == pc' = "execute" /\ err' = e /\ at' = step

\* reportBuildError: the envelope, when asked for, and the same error.
Report(json, step, e) ==
    /\ Return(step, e)
    /\ out' = IF json THEN Write(Doc("error", exitCode(e))) ELSE out

\* Mutant: the error is returned without an envelope.
FailSilently(step, e) == Return(step, e) /\ UNCHANGED out

\* finishCommand, finishInit.
Fail(step, e) == Report(JSON, step, e)

Init ==
    /\ args \in CommandLines
    /\ pc = "parse" /\ err = {} /\ at = "none" /\ out = <<>>
    /\ file \in {"absent", "old"} /\ prior = file
    /\ offline = FALSE /\ cancelled = "no" /\ code = 0

-----------------------------------------------------------------------------
(* Every command.                                                           *)

\* Cobra parses the flags and then the operands, before any hook runs.
Parse ==
    /\ At("parse")
    /\ IF args.bad # "none" \/ args.operand
       THEN Report(jsonRequested, "parse", {"usage"})
       ELSE Go("policy") /\ UNCHANGED out
    /\ UNCHANGED <<fixed, file>>

FirstStep == [build |-> "flags", validate |-> "load", versions |-> "source",
              init |-> "flags"]

\* PersistentPreRunE: initializeConfig and resolvePolicy.
resolvePolicy ==
    /\ At("policy")
    /\ IF args.invalid
       THEN Fail("policy", {"usage"})
       ELSE Go(FirstStep[args.cmd]) /\ UNCHANGED out
    /\ UNCHANGED <<fixed, file>>

\* Required flags, and one stream for two documents.
checkFlags ==
    /\ At("flags")
    /\ \/ ~(JSON /\ args.dash) /\ Go(IF Command("init") THEN "answers" ELSE "load")
          /\ UNCHANGED out
       \/ (Command("build") \/ (JSON /\ args.dash)) /\ Fail("flags", {"usage"})
    /\ UNCHANGED <<fixed, file>>

\* loadBuildSpec, then checkBuildSpecUsage; validate looks for -f here.
loadBuildSpec ==
    /\ At("load")
    /\ offline' \in BOOLEAN
    /\ \/ ~(offline' /\ args.dash)
          /\ Go(IF Command("validate") THEN "result" ELSE "source") /\ UNCHANGED out
       \/ \E s \in {"config", "decrypt"} : Fail("load", {s})
       \/ (Command("validate") \/ (offline' /\ args.dash)) /\ Fail("load", {"usage"})
    /\ UNCHANGED <<args, code, history, file>>

AfterSource ==
    IF Command("versions") THEN "index" ELSE IF args.dash THEN "stream" ELSE "begin"

\* openImageSource: a --server of neither kind, or an unusable cache directory.
openImageSource ==
    /\ At("source")
    /\ \/ Go(AfterSource) /\ UNCHANGED out
       \/ \E s \in {"usage", "fetch"} : Fail("source", {s})
    /\ UNCHANGED <<fixed, file>>

Index ==
    /\ At("index")
    /\ \/ cancelled = "no" /\ Go("result") /\ UNCHANGED out
       \/ Fail("index", {"fetch"})
    /\ UNCHANGED <<fixed, file>>

\* writeBuildSummary and VersionsTable drop the errors of their writes.
SummaryCanFail == Command("validate") \/ Command("init")

\* Mutant: a summary follows the image on standard output.
SummaryAnyway ==
    /\ At("result")
    /\ Go("execute")
    /\ out' = Write(Doc(IF JSON THEN "result" ELSE "text", 0))
    /\ UNCHANGED <<fixed, file>>

\* Mutant: the write of the result is not looked at.
finishLossy ==
    LET silent == ~JSON /\ (args.quiet \/ args.dash) IN
    /\ At("result")
    /\ Go("execute")
    /\ out' = IF silent THEN out ELSE Write(Doc(IF JSON THEN "result" ELSE "text", 0))
    /\ UNCHANGED <<fixed, file>>

\* finishBuild and the ends of runValidate, runVersions and runInit: the error
\* of the last write is returned as it is.
finishBuild ==
    LET silent == ~JSON /\ (args.quiet \/ args.dash) IN
    /\ At("result")
    /\ IF Closed("stdout") /\ ~silent /\ (JSON \/ SummaryCanFail)
       THEN Return("result", {"other"})
       ELSE Go("execute")
    /\ out' = IF silent THEN out ELSE Write(Doc(IF JSON THEN "result" ELSE "text", 0))
    /\ UNCHANGED <<fixed, file>>

\* Mutant: an interrupted command is an internal error.
ExecuteInterrupted ==
    /\ At("execute")
    /\ code' = IF err # {} /\ (Closed("stderr") \/ cancelled # "no")
               THEN 1 ELSE exitCode(err)
    /\ Go("exit")
    /\ UNCHANGED <<args, offline, history, out, file>>

\* Mutant: a failing error line does not change the status.
ExecuteAnyway ==
    /\ At("execute")
    /\ code' = exitCode(err)
    /\ Go("exit")
    /\ UNCHANGED <<args, offline, history, out, file>>

\* Execute: the error line, then the status.
Execute ==
    /\ At("execute")
    /\ code' = IF err # {} /\ Closed("stderr") THEN 1 ELSE exitCode(err)
    /\ Go("exit")
    /\ UNCHANGED <<args, offline, history, out, file>>

-----------------------------------------------------------------------------
(* build.                                                                   *)

\* fmt.Errorf with two %w: both chains.
Wrapped(s, e) == {s} \cup (e \ {"other"})

\* outputWrap of the publisher: an error that is classified already keeps its class.
outputWrap(e) == IF e \cap {"usage", "output"} # {} THEN e ELSE Wrapped("output", e)

\* Mutant: the rescue writer wraps the error that it is given.
FlattenedWrapping(e) == Wrapped("output", e)

\* outputWrap of the rescue writer: of the error that it is given only the text.
Flattened(e) == {"output"}

\* Resolution and acquisition; the seed; the read side and the write side of
\* the image and the end of its compression; anything else.
BuildErrors ==
    {{"fetch"}, {"version"}, {"config"}, {"other"}}
    \cup {Wrapped("fetch", e) : e \in {{"fetch"}, {"other"}}}
    \cup {Wrapped("output", {"other"}), outputWrap({"other"})}

\* Mutant: the context is not looked at.
BuildAnyway == TRUE

\* build.Build returns nil only if the context was alive when it asked for the
\* index.
CanBuild == cancelled = "no"

\* streamBuild, whose errors reach no envelope (--json is refused with -o -).
streamBuild ==
    /\ At("stream")
    /\ \/ CanBuild /\ ~Closed("stdout") /\ Go("result") /\ out' = Write(Doc("whole", 0))
       \/ \E e \in BuildErrors : Return("stream", e) /\ UNCHANGED out
       \/ \E e \in BuildErrors \ {{"version"}, {"config"}, {"other"}} :
             Return("stream", e) /\ out' = Write(Doc("part", 0))
    /\ UNCHANGED <<fixed, file>>

\* resolvePaths: the resources of an online build, a stream, the same name.
RefusesPaths == args.resources \in (IF offline THEN {"dash", "image"}
                                    ELSE {"dash", "image", "other"})

\* authorize: nothing is in the way, or --force.
Authorized == file = "absent" \/ args.force

\* Mutant: the question is asked without anybody to answer it.
AskAlways == TRUE

\* confirmFor.
MayAsk == ~NoInput

\* Begin: resolvePaths, authorize, createTemps.
Begin ==
    /\ At("begin")
    /\ \/ RefusesPaths /\ Fail("begin", {"usage"})
       \/ ~RefusesPaths /\ Authorized /\ Go("image") /\ UNCHANGED out
       \/ ~RefusesPaths /\ ~Authorized /\ ~MayAsk /\ Fail("begin", {"usage"})
       \/ ~RefusesPaths /\ ~Authorized /\ MayAsk /\ Go("confirm") /\ UNCHANGED out
       \/ ~RefusesPaths /\ Fail("begin", {"output"})
    /\ UNCHANGED <<fixed, file>>

\* promptConfirm: yes, no or end of input, and a failing read or write, which
\* authorize wraps once more.
promptConfirm ==
    /\ At("confirm")
    /\ \/ ~Closed("stderr") /\ Go("image") /\ UNCHANGED out
       \/ ~Closed("stderr") /\ Fail("begin", {"usage"})
       \/ Fail("begin", outputWrap(outputWrap({"other"})))
    /\ UNCHANGED <<fixed, file>>

\* build.Build into the temps, and the closer of the stored writer; the rescue
\* media fail for an asset that cannot be read or a call of their own.
Image ==
    /\ At("image")
    /\ \/ CanBuild /\ Go("publish") /\ UNCHANGED out
       \/ \E e \in BuildErrors : Fail("image", e)
       \/ offline /\ \E e \in {{"fetch"}, {"other"}} : Fail("media", Flattened(e))
    /\ UNCHANGED <<fixed, file>>

\* Mutant: the error of Publish is lost.
PublishLossy ==
    /\ At("publish")
    /\ file' \in {"new", prior}
    /\ Go("result")
    /\ UNCHANGED <<fixed, out>>

\* Session.Publish; a failing rollback leaves a mixture.
Publish ==
    /\ At("publish")
    /\ \/ file' = "new" /\ Go("result") /\ UNCHANGED out
       \/ file' \in {prior, "mixed"} /\ Fail("publish", {"output"})
    /\ UNCHANGED fixed

-----------------------------------------------------------------------------
(* init.                                                                    *)

\* collectInitAnswers: the example without prompts, the form with them.
collectInitAnswers ==
    /\ At("answers")
    /\ \/ Go("write") /\ UNCHANGED out
       \/ ~NoInput /\ Fail("answers", {"usage"})
       \/ ~NoInput /\ cancelled = "no" /\ Fail("answers", {"other"})
    /\ UNCHANGED <<fixed, file>>

\* Mutant: the file is truncated instead of refused.
writeTruncating ==
    /\ At("write")
    /\ \/ Go("result") /\ file' = "new" /\ UNCHANGED out
       \/ Fail("write", {"other"}) /\ file' = "part"
    /\ UNCHANGED fixed

\* writeInitOutput: standard output, or exclusive creation and one write.
writeInitOutput ==
    /\ At("write")
    /\ \/ /\ args.dash /\ ~Closed("stdout") /\ UNCHANGED file
          /\ Go("result") /\ out' = Write(Doc("whole", 0))
       \/ args.dash /\ Fail("write", {"other"}) /\ UNCHANGED file
       \/ ~args.dash /\ file = "old" /\ Fail("write", {"usage"}) /\ UNCHANGED file
       \/ ~args.dash /\ file = "absent" /\ Go("result") /\ file' = "new" /\ UNCHANGED out
       \/ ~args.dash /\ Fail("write", {"other"})
          /\ file' \in (IF file = "absent" THEN {"absent", "part"} ELSE {file})
    /\ UNCHANGED fixed

-----------------------------------------------------------------------------
\* signal.NotifyContext: the first signal cancels the context.
Cancel ==
    /\ cancelled = "no" /\ ~At("exit")
    /\ cancelled' = pc
    /\ UNCHANGED <<args, pc, err, at, offline, out, file, prior, code>>

RunBuild ==
    /\ Command("build")
    /\ \/ checkFlags \/ loadBuildSpec \/ openImageSource \/ streamBuild
       \/ Begin \/ promptConfirm \/ Image \/ Publish \/ finishBuild

RunValidate == Command("validate") /\ (loadBuildSpec \/ finishBuild)

RunVersions == Command("versions") /\ (openImageSource \/ Index \/ finishBuild)

RunInit ==
    /\ Command("init")
    /\ checkFlags \/ collectInitAnswers \/ writeInitOutput \/ finishBuild

Run ==
    \/ Parse \/ resolvePolicy
    \/ RunBuild \/ RunValidate \/ RunVersions \/ RunInit
    \/ Execute

Exited == At("exit") /\ UNCHANGED vars

Next == Run \/ Cancel \/ Exited

\* The overwrite question ignores the context; the form and the server are
\* waited for until the context is done.
Waits ==
    \/ At("confirm")
    \/ At("answers") /\ ~NoInput /\ cancelled = "no"
    \/ pc \in {"index", "stream", "image"} /\ cancelled = "no"

Spec == Init /\ [][Next]_vars /\ WF_vars(Run /\ ~Waits)
=============================================================================
