--------------------------- MODULE CommandProofs ---------------------------
(***************************************************************************)
(* Proofs about Command: for every set of command lines, every stream that  *)
(* refuses writes and a signal at every step, what a process reports is     *)
(* what it did.                                                             *)
(***************************************************************************)
EXTENDS CommandProperties, TLAPS

-----------------------------------------------------------------------------
(* Sequences and codes.                                                     *)

(* Standard output is empty or holds one item. *)
LEMMA OutTypes ==
    /\ <<>> \in Seq(Items) /\ Len(<<>>) <= 1
    /\ \A i \in Items : <<i>> \in Seq(Items) /\ Len(<<i>>) <= 1
OBVIOUS

(* An item that exists. *)
LEMMA DocTypes ==
    \A kind \in {"result", "error", "text", "part", "whole"}, c \in 0..6 :
        Doc(kind, c) \in Items
BY DEF Doc, Items

(* The status of an error with one sentinel, and of none. *)
LEMMA ExitCodes ==
    /\ exitCode({}) = 0
    /\ exitCode({"usage"}) = 2 /\ exitCode({"config"}) = 3
    /\ exitCode({"decrypt"}) = 4 /\ exitCode({"fetch"}) = 5
    /\ exitCode({"version"}) = 5 /\ exitCode({"output"}) = 6
    /\ exitCode({"other"}) = 1
<1>1. exitCode({}) = 0
    BY DEF exitCode
<1>2. {codeOf[s] : s \in {"other"} \ {"other"}} = {}
    OBVIOUS
<1>3. exitCode({"other"}) = 1
    BY <1>2 DEF exitCode
<1>4. ASSUME NEW s \in {"usage", "config", "decrypt", "fetch", "version", "output"}
      PROVE  exitCode({s}) = codeOf[s]
  <2>1. {codeOf[t] : t \in {s} \ {"other"}} = {codeOf[s]}
      BY <1>4
  <2>2. codeOf[s] \in Nat
      BY <1>4 DEF codeOf
  <2>3. (CHOOSE c \in {codeOf[s]} : \A d \in {codeOf[s]} : c <= d) = codeOf[s]
      BY <2>2
  <2>4. QED BY <2>1, <2>3 DEF exitCode
<1>5. QED BY <1>1, <1>3, <1>4 DEF codeOf

(* Wrapping by the publisher and by the rescue media leaves one sentinel, and so
   do the errors of a build (outputWrap, BuildErrors). *)
LEMMA Chains ==
    /\ outputWrap(outputWrap({"other"})) = {"output"}
    /\ \A e : Flattened(e) = {"output"}
    /\ BuildErrors = {{"fetch"}, {"version"}, {"config"}, {"other"}, {"output"}}
<1>1. Wrapped("output", {"other"}) = {"output"}
    BY DEF Wrapped
<1>2. outputWrap({"other"}) = {"output"} /\ outputWrap({"output"}) = {"output"}
    BY <1>1 DEF outputWrap
<1>3. {Wrapped("fetch", e) : e \in {{"fetch"}, {"other"}}} = {{"fetch"}}
  <2>1. Wrapped("fetch", {"fetch"}) = {"fetch"} /\ Wrapped("fetch", {"other"}) = {"fetch"}
      BY DEF Wrapped
  <2>2. QED BY <2>1
<1>4. BuildErrors = {{"fetch"}, {"version"}, {"config"}, {"other"}, {"output"}}
    BY <1>1, <1>2, <1>3 DEF BuildErrors
<1>5. QED BY <1>2, <1>4 DEF Flattened

(* Sentinels of a step are sentinels. *)
LEMMA ErrorTypes ==
    ASSUME NEW step, NEW s \in ErrorsAt(step)
    PROVE  s \in Sentinels /\ exitCode({s}) \in 1..6
<1>1. s \in Sentinels
    BY DEF ErrorsAt, Sentinels
<1>2. QED BY <1>1, ExitCodes DEF Sentinels

-----------------------------------------------------------------------------
(* The first state, and the ways a step ends.                               *)

(* A process starts with its invariant. *)
LEMMA InitInv == Init => CommandInv
<1> SUFFICES ASSUME Init PROVE CommandInv
    OBVIOUS
<1>1. TypeOK
  <2>1. args \in CommandLine
      BY CommandAssumption DEF Init
  <2>2. out \in Seq(Items) /\ Len(out) <= 1
      BY OutTypes DEF Init
  <2>3. err \subseteq Sentinels
      BY DEF Init
  <2>4. /\ pc \in Steps /\ at \in Steps \cup {"none", "media"}
        /\ cancelled \in Steps \cup {"no"}
      BY DEF Init, Steps
  <2>5. file \in Files /\ prior \in {"absent", "old"} /\ code \in 0..6
      BY DEF Init, Files
  <2>6. offline \in BOOLEAN
      BY DEF Init
  <2>7. QED BY <2>1, <2>2, <2>3, <2>4, <2>5, <2>6 DEF TypeOK
<1>2. OneSentinel /\ StatusIsOfError
    BY DEF Init, OneSentinel, StatusIsOfError, Exits, At
<1>3. OneStream /\ StepOfFlags
    BY CommandAssumption DEF Init, OneStream, StepOfFlags, Ended, CommandLine
<1>4. OutputOf /\ FileOf /\ CancelledBuildFails
    BY DEF Init, OutputOf, FileOf, CancelledBuildFails, Ended
<1>5. QED BY <1>1, <1>2, <1>3, <1>4 DEF CommandInv

(* Before its result a command has written nothing, changed no file and met no
   error. *)
LEMMA Running ==
    ASSUME CommandInv, pc \notin {"result", "execute", "exit"}
    PROVE  /\ ~Ended /\ out = <<>> /\ file = prior /\ err = {} /\ at = "none"
           /\ code = 0
BY DEF CommandInv, OneSentinel, StatusIsOfError, OutputOf, FileOf, Ended, Exits, At

(* A step that is followed by another one keeps the invariant. *)
LEMMA StepGoes ==
    ASSUME CommandInv, pc \notin {"result", "execute", "exit"},
           NEW next \in Steps \ {"parse", "result", "execute", "exit"}, Go(next),
           UNCHANGED <<args, code, history, out, file>>, offline' \in BOOLEAN,
           args.dash /\ JSON => next \in {"policy", "flags"},
           next \in {"stream", "begin", "confirm", "image", "publish"} => Command("build"),
           next \in {"answers", "write"} => Command("init"),
           next = "index" => Command("versions"),
           next = "stream" => args.dash,
           next \in {"begin", "confirm", "image", "publish"} => ~args.dash,
           next = "publish" => cancelled = "no"
    PROVE  CommandInv'
<1>1. /\ ~Ended /\ out = <<>> /\ file = prior /\ err = {} /\ at = "none" /\ code = 0
    BY Running
<1>2. /\ pc' = next /\ err' = {} /\ at' = "none" /\ out' = <<>> /\ file' = prior
      /\ prior' = prior /\ args' = args /\ code' = 0 /\ cancelled' = cancelled
    BY <1>1 DEF Go, history
<1>3. ~Ended'
    BY <1>2 DEF Ended
<1>4. TypeOK'
    BY <1>2, OutTypes DEF CommandInv, TypeOK
<1>5. OneSentinel' /\ StatusIsOfError'
    BY <1>2 DEF OneSentinel, StatusIsOfError, Exits, At
<1>6. OneStream'
    BY <1>2, <1>3 DEF CommandInv, OneStream, JSON
<1>7. StepOfFlags'
    BY <1>2 DEF StepOfFlags, Command
<1>8. OutputOf' /\ FileOf'
    BY <1>2, <1>3 DEF OutputOf, FileOf
<1>9. CancelledBuildFails'
    BY <1>2, <1>3 DEF CancelledBuildFails
<1>10. QED BY <1>4, <1>5, <1>6, <1>7, <1>8, <1>9 DEF CommandInv

(* So does a step that fails, if its error is one of its own, it is reported as
   the errors of a command are, and the files are what such a failure leaves. *)
LEMMA StepFails ==
    ASSUME CommandInv, pc \notin {"result", "execute", "exit"},
           NEW step \in Steps \cup {"media"}, NEW s \in ErrorsAt(step),
           step \notin {"parse", "stream", "result"}, Fail(step, {s}),
           UNCHANGED <<args, code, history>>, offline' \in BOOLEAN, file' \in Files,
           args.dash /\ JSON => step \in {"policy", "flags"},
           step \in {"begin", "image", "media", "publish"} => Command("build") /\ ~args.dash,
           step \in {"answers", "write"} => Command("init"),
           step = "index" => Command("versions"),
           step = "publish" => cancelled = "no" \/ (CancelledBuildFails /\ pc = "publish"),
           \/ file' = file
           \/ step = "publish" /\ file' = "mixed"
           \/ step = "write" /\ file' = "part" /\ prior = "absent"
    PROVE  CommandInv'
<1>1. /\ ~Ended /\ out = <<>> /\ file = prior /\ err = {} /\ at = "none" /\ code = 0
    BY Running
<1>2. /\ pc' = "execute" /\ err' = {s} /\ at' = step
      /\ out' = IF JSON THEN Document("error", exitCode({s})) ELSE <<>>
    BY <1>1 DEF Fail, Report, Return, Write, Document
<1>3. /\ prior' = prior /\ args' = args /\ code' = 0 /\ cancelled' = cancelled
    BY <1>1 DEF history
<1>4. Ended' /\ at' # "none" /\ s \in Sentinels /\ exitCode({s}) \in 0..6
    BY <1>2, ErrorTypes DEF Ended, Steps
<1>5. out' \in Seq(Items) /\ Len(out') <= 1
    BY <1>2, <1>4, OutTypes, DocTypes DEF Document
<1>6. TypeOK'
    BY <1>2, <1>3, <1>4, <1>5 DEF CommandInv, TypeOK, Steps
<1>7. OneSentinel' /\ StatusIsOfError'
    BY <1>2, <1>3, <1>4 DEF OneSentinel, StatusIsOfError, Exits, At
<1>8. OneStream'
    BY <1>2, <1>3 DEF CommandInv, OneStream, JSON
<1>9. StepOfFlags'
    BY <1>2, <1>3 DEF StepOfFlags, Command
<1>10. OutputOf'
    BY <1>2, <1>3, <1>4 DEF OutputOf, JSON, Document, Closed
<1>11. FileOf'
    BY <1>1, <1>2, <1>3, <1>4 DEF FileOf
<1>12. CancelledBuildFails'
    BY <1>2, <1>3, <1>4 DEF CommandInv, CancelledBuildFails, Command
<1>13. QED
    BY <1>6, <1>7, <1>8, <1>9, <1>10, <1>11, <1>12 DEF CommandInv

(* So does a step that has all a command was asked for. *)
LEMMA StepSucceeds ==
    ASSUME CommandInv, pc \notin {"result", "execute", "exit"}, Go("result"),
           UNCHANGED <<args, code, history>>, offline' \in BOOLEAN,
           out' = Artifact, args.dash => ~Closed("stdout") /\ ~JSON,
           Command("build") => cancelled = "no" \/ (CancelledBuildFails /\ pc = "publish"),
           args.cmd \in {"build", "init"} /\ ~args.dash =>
               file' = "new" /\ (Command("init") => prior = "absent"),
           args.cmd \notin {"build", "init"} \/ args.dash => file' = file
    PROVE  CommandInv'
<1>1. /\ ~Ended /\ out = <<>> /\ file = prior /\ err = {} /\ at = "none" /\ code = 0
    BY Running
<1>2. /\ pc' = "result" /\ err' = {} /\ at' = "none"
      /\ prior' = prior /\ args' = args /\ code' = 0 /\ cancelled' = cancelled
    BY <1>1 DEF Go, history
<1>3. ~Ended'
    BY <1>2 DEF Ended
<1>4. out' \in Seq(Items) /\ Len(out') <= 1
    BY OutTypes, DocTypes DEF Artifact
<1>5. file' \in Files
    BY <1>1 DEF CommandInv, TypeOK, Files
<1>6. TypeOK'
    BY <1>2, <1>4, <1>5 DEF CommandInv, TypeOK, Steps
<1>7. OneSentinel' /\ StatusIsOfError'
    BY <1>2 DEF OneSentinel, StatusIsOfError, Exits, At
<1>8. OneStream'
    BY <1>2, <1>3 DEF CommandInv, OneStream, JSON
<1>9. StepOfFlags'
    BY <1>2 DEF StepOfFlags
<1>10. OutputOf'
    BY <1>2 DEF OutputOf, Artifact, Closed
<1>11. FileOf'
    BY <1>1, <1>2 DEF FileOf, Command
<1>12. CancelledBuildFails'
    BY <1>2, <1>3 DEF CommandInv, CancelledBuildFails, Command
<1>13. QED
    BY <1>6, <1>7, <1>8, <1>9, <1>10, <1>11, <1>12 DEF CommandInv

-----------------------------------------------------------------------------
(* The steps of every command.                                              *)

(* Flags and operands. *)
LEMMA ParseStep == ASSUME CommandInv, Parse PROVE CommandInv'
<1>1. /\ At("parse") /\ UNCHANGED <<args, code, history, file, offline>>
    BY DEF Parse, fixed
<1>2. /\ ~Ended /\ out = <<>> /\ file = prior /\ err = {} /\ at = "none" /\ code = 0
      /\ offline \in BOOLEAN
    BY <1>1, Running DEF At, CommandInv, TypeOK
<1>3. CASE Go("policy") /\ UNCHANGED out
    BY <1>1, <1>2, <1>3, StepGoes DEF At, Steps
<1>4. CASE Report(jsonRequested, "parse", {"usage"})
  <2>1. /\ pc' = "execute" /\ err' = {"usage"} /\ at' = "parse"
        /\ out' = IF jsonRequested THEN Document("error", 2) ELSE <<>>
      BY <1>2, <1>4, ExitCodes DEF Report, Return, Write, Document
  <2>2. prior' = prior /\ args' = args /\ code' = 0 /\ cancelled' = cancelled /\ file' = prior
      BY <1>1, <1>2 DEF history
  <2>3. Ended' /\ "usage" \in ErrorsAt("parse")
      BY <2>1 DEF Ended, ErrorsAt
  <2>4. out' \in Seq(Items) /\ Len(out') <= 1
    <3>1. Doc("error", 2) \in Items
        BY DocTypes
    <3>2. QED BY <2>1, <3>1, OutTypes DEF Document
  <2>5. TypeOK'
      BY <1>1, <2>1, <2>2, <2>4 DEF CommandInv, TypeOK, Steps, Sentinels
  <2>6. OneSentinel' /\ StatusIsOfError'
      BY <2>1, <2>2, <2>3 DEF OneSentinel, StatusIsOfError, Exits, At
  <2>7. OneStream' /\ StepOfFlags'
      BY <2>1, <2>2 DEF CommandInv, OneStream, StepOfFlags, JSON
  <2>8. OutputOf'
      BY <2>1, <2>2, <2>3 DEF OutputOf, Document, Closed, jsonRequested
  <2>9. FileOf' /\ CancelledBuildFails'
      BY <2>1, <2>2, <2>3 DEF CommandInv, FileOf, CancelledBuildFails
  <2>10. QED BY <2>5, <2>6, <2>7, <2>8, <2>9 DEF CommandInv
<1>5. QED BY <1>3, <1>4 DEF Parse

(* The resolved policy. *)
LEMMA PolicyStep == ASSUME CommandInv, resolvePolicy PROVE CommandInv'
<1>1. /\ pc = "policy" /\ UNCHANGED <<args, code, history, file, offline>>
      /\ offline' \in BOOLEAN /\ file' \in Files
    BY DEF resolvePolicy, fixed, At, CommandInv, TypeOK
<1>2. CASE Fail("policy", {"usage"})
    BY <1>1, <1>2, StepFails DEF ErrorsAt, Steps
<1>3. CASE Go(FirstStep[args.cmd]) /\ UNCHANGED out
  <2>1. args.cmd \in {"build", "validate", "versions", "init"}
      BY DEF CommandInv, TypeOK, CommandLine
  <2>2. CASE Go("flags") /\ args.cmd \in {"build", "init"}
      BY <1>1, <1>3, <2>2, StepGoes DEF Steps
  <2>3. CASE Go("load") /\ args.cmd = "validate"
      BY <1>1, <1>3, <2>3, StepGoes DEF Steps, CommandInv, OneStream
  <2>4. CASE Go("source") /\ args.cmd = "versions"
      BY <1>1, <1>3, <2>4, StepGoes DEF Steps, CommandInv, OneStream
  <2>5. QED BY <1>3, <2>1, <2>2, <2>3, <2>4 DEF FirstStep
<1>4. QED BY <1>2, <1>3 DEF resolvePolicy

(* The exit status. *)
LEMMA ExecuteStep == ASSUME CommandInv, Execute PROVE CommandInv'
<1>1. /\ pc = "execute" /\ pc' = "exit"
      /\ UNCHANGED <<args, err, at, offline, prior, cancelled, out, file>>
      /\ code' = IF err # {} /\ Closed("stderr") THEN 1 ELSE exitCode(err)
    BY DEF Execute, At, Go, history
<1>2. Ended /\ Ended'
    BY <1>1 DEF Ended
<1>3. code' \in 0..6
  <2>1. CASE at = "none"
      BY <1>1, <2>1, ExitCodes DEF CommandInv, OneSentinel
  <2>2. CASE at # "none"
    <3>1. PICK s \in ErrorsAt(at) : err = {s}
        BY <2>2 DEF CommandInv, OneSentinel
    <3>2. QED BY <1>1, <3>1, ErrorTypes
  <2>3. QED BY <2>1, <2>2
<1>4. TypeOK'
    BY <1>1, <1>3 DEF CommandInv, TypeOK, Steps
<1>5. OneSentinel' /\ StatusIsOfError'
    BY <1>1, <1>2 DEF CommandInv, OneSentinel, StatusIsOfError, Exits, At, Closed
<1>6. OneStream' /\ StepOfFlags'
    BY <1>1, <1>2 DEF CommandInv, OneStream, StepOfFlags, JSON, Command
<1>7. OutputOf'
    BY <1>1, <1>2 DEF CommandInv, OutputOf, Artifact, Document, JSON, Closed, jsonRequested
<1>8. FileOf' /\ CancelledBuildFails'
    BY <1>1, <1>2 DEF CommandInv, FileOf, CancelledBuildFails, Command
<1>9. QED BY <1>4, <1>5, <1>6, <1>7, <1>8 DEF CommandInv

(* The result of the command. *)
LEMMA ResultStep == ASSUME CommandInv, finishBuild PROVE CommandInv'
<1> DEFINE silent == ~JSON /\ (args.quiet \/ args.dash)
           fails == Closed("stdout") /\ ~silent /\ (JSON \/ SummaryCanFail)
           kind == IF JSON THEN "result" ELSE "text"
<1>1. /\ pc = "result" /\ pc' = "execute"
      /\ UNCHANGED <<args, offline, prior, cancelled, code, file>>
      /\ fails => err' = {"other"} /\ at' = "result"
      /\ ~fails => UNCHANGED <<err, at>>
      /\ out' = IF silent THEN out ELSE Write(Doc(kind, 0))
    BY DEF finishBuild, At, Go, Return, fixed, history
<1>2. /\ ~Ended /\ Ended' /\ err = {} /\ at = "none" /\ code = 0
      /\ out = Artifact /\ (args.dash => ~Closed("stdout") /\ ~JSON)
    BY <1>1 DEF CommandInv, OneSentinel, OneStream, OutputOf, StatusIsOfError, Ended,
                Exits, At
<1>3. args.dash => silent
    BY <1>2
<1>4. out' = IF args.dash THEN Artifact ELSE IF silent THEN <<>> ELSE Document(kind, 0)
  <2>1. CASE silent
      BY <1>1, <1>2, <2>1 DEF Artifact
  <2>2. CASE ~silent
    <3>1. ~args.dash /\ out = <<>>
        BY <1>2, <1>3, <2>2 DEF Artifact
    <3>2. Append(<<>>, Doc(kind, 0)) = <<Doc(kind, 0)>>
        OBVIOUS
    <3>3. QED BY <1>1, <2>2, <3>1, <3>2 DEF Write, Document
  <2>3. QED BY <2>1, <2>2
<1>5. out' \in Seq(Items) /\ Len(out') <= 1
    BY <1>4, OutTypes, DocTypes DEF Artifact, Document
<1>6. TypeOK'
    BY <1>1, <1>2, <1>5 DEF CommandInv, TypeOK, Steps, Sentinels
<1>7. OneSentinel' /\ StatusIsOfError'
    BY <1>1, <1>2 DEF OneSentinel, StatusIsOfError, Exits, At, ErrorsAt
<1>8. OneStream' /\ StepOfFlags'
    BY <1>1, <1>2 DEF CommandInv, OneStream, StepOfFlags, JSON, Command
<1>9. OutputOf'
  <2>1. CASE fails
    <3>1. out' = <<>> /\ ~args.dash /\ at' = "result"
        BY <1>1, <1>3, <1>4, <2>1 DEF Document
    <3>2. QED BY <1>1, <1>2, <2>1, <3>1 DEF OutputOf, Closed
  <2>2. CASE ~fails
    <3>1. pc' = "execute" /\ at' = "none" /\ args' = args
        BY <1>1, <1>2, <2>2
    <3>2. JSON => ~Closed("stdout")
        BY <2>2
    <3>3. Ended' /\ (JSON' <=> JSON) /\ (Closed("stdout")' <=> Closed("stdout"))
        BY <1>2, <3>1 DEF JSON, Closed
    <3>4. QED
        BY <1>2, <1>4, <3>1, <3>2, <3>3 DEF OutputOf, Artifact, Document, Closed
  <2>3. QED BY <2>1, <2>2
<1>10. FileOf' /\ CancelledBuildFails'
    BY <1>1, <1>2 DEF CommandInv, FileOf, CancelledBuildFails, Command
<1>11. QED BY <1>6, <1>7, <1>8, <1>9, <1>10 DEF CommandInv

(* A signal. *)
LEMMA CancelStep == ASSUME CommandInv, Cancel PROVE CommandInv'
<1>1. /\ pc # "exit" /\ cancelled' = pc
      /\ UNCHANGED <<args, pc, err, at, offline, out, file, prior, code>>
    BY DEF Cancel, At
<1>2. TypeOK'
    BY <1>1 DEF CommandInv, TypeOK
<1>3. OneSentinel' /\ StatusIsOfError'
    BY <1>1 DEF CommandInv, OneSentinel, StatusIsOfError, Exits, At, Closed, Ended
<1>4. OneStream' /\ StepOfFlags' /\ FileOf'
    BY <1>1 DEF CommandInv, OneStream, StepOfFlags, FileOf, JSON, Command, Ended
<1>5. OutputOf'
    BY <1>1 DEF CommandInv, OutputOf, Artifact, Document, JSON, Closed, Ended,
                jsonRequested
<1>6. CancelledBuildFails'
    BY <1>1 DEF CommandInv, CancelledBuildFails, OneSentinel, Ended
<1>7. QED BY <1>2, <1>3, <1>4, <1>5, <1>6 DEF CommandInv

-----------------------------------------------------------------------------
(* The steps of build, validate and versions.                               *)

(* Required flags. *)
LEMMA FlagsStep ==
    ASSUME CommandInv, checkFlags, args.cmd \in {"build", "init"} PROVE CommandInv'
<1>1. /\ pc = "flags" /\ UNCHANGED <<args, code, history, file, offline>>
      /\ offline' \in BOOLEAN /\ file' \in Files
    BY DEF checkFlags, fixed, At, CommandInv, TypeOK
<1>2. CASE Fail("flags", {"usage"})
    BY <1>1, <1>2, StepFails DEF ErrorsAt, Steps
<1>3. CASE ~(JSON /\ args.dash) /\ UNCHANGED out /\ Go("answers") /\ Command("init")
    BY <1>1, <1>3, StepGoes DEF Steps
<1>4. CASE ~(JSON /\ args.dash) /\ UNCHANGED out /\ Go("load")
    BY <1>1, <1>4, StepGoes DEF Steps
<1>5. QED BY <1>2, <1>3, <1>4 DEF checkFlags

(* The configuration. *)
LEMMA LoadStep ==
    ASSUME CommandInv, loadBuildSpec, args.cmd \in {"build", "validate"}
    PROVE  CommandInv'
<1>1. /\ pc = "load" /\ UNCHANGED <<args, code, history, file>>
      /\ offline' \in BOOLEAN /\ file' \in Files /\ file' = file
    BY DEF loadBuildSpec, At, CommandInv, TypeOK
<1>2. ~(args.dash /\ JSON)
    BY <1>1 DEF CommandInv, OneStream
<1>3. ASSUME NEW s \in {"usage", "config", "decrypt"}, Fail("load", {s})
      PROVE  CommandInv'
    BY <1>1, <1>2, <1>3, StepFails DEF ErrorsAt, Steps
<1>4. CASE UNCHANGED out /\ Go("source")
    BY <1>1, <1>2, <1>4, StepGoes DEF Steps
<1>5. CASE UNCHANGED out /\ Go("result") /\ Command("validate")
  <2>1. ~args.dash /\ out = <<>>
      BY <1>1, <1>5, Running DEF Command, CommandInv, OneStream
  <2>2. out' = Artifact
      BY <1>5, <2>1 DEF Artifact
  <2>3. QED BY <1>1, <1>5, <2>1, <2>2, StepSucceeds DEF Command
<1>6. QED BY <1>3, <1>4, <1>5 DEF loadBuildSpec

(* The source of the release. *)
LEMMA SourceStep ==
    ASSUME CommandInv, openImageSource, args.cmd \in {"build", "versions"}
    PROVE  CommandInv'
<1>1. /\ pc = "source" /\ UNCHANGED <<args, code, history, file, offline>>
      /\ offline' \in BOOLEAN /\ file' \in Files
    BY DEF openImageSource, fixed, At, CommandInv, TypeOK
<1>2. ~(args.dash /\ JSON)
    BY <1>1 DEF CommandInv, OneStream
<1>3. ASSUME NEW s \in {"usage", "fetch"}, Fail("source", {s})
      PROVE  CommandInv'
    BY <1>1, <1>2, <1>3, StepFails DEF ErrorsAt, Steps
<1>4. CASE UNCHANGED out /\ Go(AfterSource)
  <2>1. CASE Command("versions")
      BY <1>1, <1>2, <1>4, <2>1, StepGoes DEF Steps, AfterSource
  <2>2. CASE ~Command("versions") /\ args.dash
      BY <1>1, <1>2, <1>4, <2>2, StepGoes DEF Steps, AfterSource, Command
  <2>3. CASE ~Command("versions") /\ ~args.dash
      BY <1>1, <1>2, <1>4, <2>3, StepGoes DEF Steps, AfterSource, Command
  <2>4. QED BY <2>1, <2>2, <2>3
<1>5. QED BY <1>3, <1>4 DEF openImageSource

(* The list of releases. *)
LEMMA IndexStep ==
    ASSUME CommandInv, Index, Command("versions") PROVE CommandInv'
<1>1. /\ pc = "index" /\ UNCHANGED <<args, code, history, file, offline>>
      /\ offline' \in BOOLEAN /\ file' \in Files
    BY DEF Index, fixed, At, CommandInv, TypeOK
<1>2. ~args.dash /\ out = <<>>
    BY <1>1, Running DEF Command, CommandInv, OneStream
<1>3. CASE Fail("index", {"fetch"})
    BY <1>1, <1>2, <1>3, StepFails DEF ErrorsAt, Steps
<1>4. CASE UNCHANGED out /\ Go("result")
  <2>1. out' = Artifact
      BY <1>2, <1>4 DEF Artifact
  <2>2. QED BY <1>1, <1>2, <1>4, <2>1, StepSucceeds DEF Command
<1>5. QED BY <1>3, <1>4 DEF Index

(* Paths, what is in their way, temporaries. *)
LEMMA BeginStep ==
    ASSUME CommandInv, Begin, Command("build") PROVE CommandInv'
<1>1. /\ pc = "begin" /\ UNCHANGED <<args, code, history, file, offline>>
      /\ offline' \in BOOLEAN /\ file' \in Files /\ ~args.dash
    BY DEF Begin, fixed, At, CommandInv, TypeOK, StepOfFlags
<1>2. ASSUME NEW s \in {"usage", "output"}, Fail("begin", {s})
      PROVE  CommandInv'
    BY <1>1, <1>2, StepFails DEF ErrorsAt, Steps
<1>3. ASSUME NEW next \in {"image", "confirm"}, UNCHANGED out, Go(next)
      PROVE  CommandInv'
    BY <1>1, <1>3, StepGoes DEF Steps
<1>4. QED BY <1>2, <1>3 DEF Begin

(* The question. *)
LEMMA ConfirmStep ==
    ASSUME CommandInv, promptConfirm, Command("build") PROVE CommandInv'
<1>1. /\ pc = "confirm" /\ UNCHANGED <<args, code, history, file, offline>>
      /\ offline' \in BOOLEAN /\ file' \in Files /\ ~args.dash
    BY DEF promptConfirm, fixed, At, CommandInv, TypeOK, StepOfFlags
<1>2. ASSUME NEW s \in {"usage", "output"}, Fail("begin", {s})
      PROVE  CommandInv'
    BY <1>1, <1>2, StepFails DEF ErrorsAt, Steps
<1>3. CASE UNCHANGED out /\ Go("image")
    BY <1>1, <1>3, StepGoes DEF Steps
<1>4. QED BY <1>2, <1>3, Chains DEF promptConfirm

(* The image and the rescue media. *)
LEMMA ImageStep ==
    ASSUME CommandInv, Image, Command("build") PROVE CommandInv'
<1>1. /\ pc = "image" /\ UNCHANGED <<args, code, history, file, offline>>
      /\ offline' \in BOOLEAN /\ file' \in Files /\ ~args.dash
    BY DEF Image, fixed, At, CommandInv, TypeOK, StepOfFlags
<1>2. ASSUME NEW s \in {"fetch", "version", "config", "output", "other"},
             Fail("image", {s})
      PROVE  CommandInv'
    BY <1>1, <1>2, StepFails DEF ErrorsAt, Steps
<1>3. CASE Fail("media", {"output"})
    BY <1>1, <1>3, StepFails DEF ErrorsAt, Steps
<1>4. CASE UNCHANGED out /\ Go("publish") /\ CanBuild
    BY <1>1, <1>4, StepGoes DEF Steps, CanBuild
<1>5. QED
  <2>1. CASE \E e \in BuildErrors : Fail("image", e)
      BY <1>2, <2>1, Chains
  <2>2. CASE \E e \in {{"fetch"}, {"other"}} : Fail("media", Flattened(e))
      BY <1>3, <2>2, Chains
  <2>3. QED BY <1>4, <2>1, <2>2 DEF Image

(* The publication. *)
LEMMA PublishStep ==
    ASSUME CommandInv, Publish, Command("build") PROVE CommandInv'
<1>1. /\ pc = "publish" /\ UNCHANGED <<args, code, history, offline>>
      /\ offline' \in BOOLEAN /\ ~args.dash /\ CancelledBuildFails
      /\ out = <<>> /\ file = prior
    BY Running DEF Publish, fixed, At, CommandInv, TypeOK, StepOfFlags
<1>2. CASE file' \in {prior, "mixed"} /\ Fail("publish", {"output"})
  <2>1. file' \in Files
      BY <1>2 DEF CommandInv, TypeOK, Files
  <2>2. QED BY <1>1, <1>2, <2>1, StepFails DEF ErrorsAt, Steps
<1>3. CASE file' = "new" /\ Go("result") /\ UNCHANGED out
  <2>1. out' = Artifact
      BY <1>1, <1>3 DEF Artifact
  <2>2. QED BY <1>1, <1>3, <2>1, StepSucceeds DEF Command
<1>4. QED BY <1>2, <1>3 DEF Publish

(* The image on standard output. *)
LEMMA StreamStep ==
    ASSUME CommandInv, streamBuild, Command("build") PROVE CommandInv'
<1>1. /\ pc = "stream" /\ UNCHANGED <<args, code, history, file, offline>>
      /\ offline' \in BOOLEAN /\ file' \in Files /\ args.dash /\ ~JSON
      /\ ~Ended /\ out = <<>> /\ file = prior /\ err = {} /\ at = "none" /\ code = 0
    BY Running DEF streamBuild, fixed, At, CommandInv, TypeOK, StepOfFlags, OneStream
<1>2. CASE CanBuild /\ ~Closed("stdout") /\ Go("result") /\ out' = Write(Doc("whole", 0))
  <2>1. Append(<<>>, Doc("whole", 0)) = <<Doc("whole", 0)>>
      OBVIOUS
  <2>2. out' = Artifact
      BY <1>1, <1>2, <2>1 DEF Artifact, Write
  <2>3. /\ pc \notin {"result", "execute", "exit"} /\ Go("result")
        /\ UNCHANGED <<args, code, history>> /\ offline' \in BOOLEAN
        /\ args.dash => ~Closed("stdout") /\ ~JSON
        /\ cancelled = "no"
      BY <1>1, <1>2 DEF CanBuild
  <2>4. /\ args.cmd \in {"build", "init"} /\ ~args.dash =>
              file' = "new" /\ (Command("init") => prior = "absent")
        /\ args.cmd \notin {"build", "init"} \/ args.dash => file' = file
      BY <1>1
  <2>5. QED BY <2>2, <2>3, <2>4, StepSucceeds
<1>3. ASSUME NEW s \in {"fetch", "version", "config", "output", "other"},
             Return("stream", {s}),
             out' \in {<<>>, Document("part", 0)}
      PROVE  CommandInv'
  <2>1. /\ pc' = "execute" /\ err' = {s} /\ at' = "stream"
        /\ prior' = prior /\ args' = args /\ code' = 0 /\ cancelled' = cancelled
        /\ file' = prior /\ s \in ErrorsAt("stream")
      BY <1>1, <1>3 DEF Return, history, ErrorsAt
  <2>2. Ended' /\ s \in Sentinels
      BY <2>1, ErrorTypes DEF Ended
  <2>3. out' \in Seq(Items) /\ Len(out') <= 1
    <3>1. Doc("part", 0) \in Items
        BY DocTypes
    <3>2. QED BY <1>3, <3>1, OutTypes DEF Document
  <2>4. TypeOK'
      BY <1>1, <2>1, <2>2, <2>3 DEF CommandInv, TypeOK, Steps
  <2>5. OneSentinel' /\ StatusIsOfError'
      BY <2>1, <2>2 DEF OneSentinel, StatusIsOfError, Exits, At
  <2>6. OneStream'
      BY <1>1, <2>1 DEF CommandInv, OneStream, JSON
  <2>7. StepOfFlags'
      BY <1>1, <2>1 DEF StepOfFlags, Command
  <2>8. OutputOf'
      BY <1>3, <2>1, <2>2 DEF OutputOf, Document, Closed
  <2>9. FileOf' /\ CancelledBuildFails'
      BY <1>1, <2>1 DEF FileOf, CancelledBuildFails
  <2>10. QED BY <2>4, <2>5, <2>6, <2>7, <2>8, <2>9 DEF CommandInv
<1>4. Write(Doc("part", 0)) = Document("part", 0)
  <2>1. Append(<<>>, Doc("part", 0)) = <<Doc("part", 0)>>
      OBVIOUS
  <2>2. QED BY <1>1, <2>1 DEF Write, Document
<1>5. QED
  <2>1. ASSUME NEW e \in BuildErrors, Return("stream", e),
               out' \in {<<>>, Document("part", 0)}
        PROVE  CommandInv'
      BY <1>3, <2>1, Chains
  <2>2. QED BY <1>1, <1>2, <1>4, <2>1 DEF streamBuild

-----------------------------------------------------------------------------
(* The steps of init.                                                       *)

(* The answers. *)
LEMMA AnswersStep ==
    ASSUME CommandInv, collectInitAnswers, Command("init") PROVE CommandInv'
<1>1. /\ pc = "answers" /\ UNCHANGED <<args, code, history, file, offline>>
      /\ offline' \in BOOLEAN /\ file' \in Files /\ ~(args.dash /\ JSON)
    BY DEF collectInitAnswers, fixed, At, CommandInv, TypeOK, OneStream
<1>2. ASSUME NEW s \in {"usage", "other"}, Fail("answers", {s})
      PROVE  CommandInv'
    BY <1>1, <1>2, StepFails DEF ErrorsAt, Steps
<1>3. CASE UNCHANGED out /\ Go("write")
    BY <1>1, <1>3, StepGoes DEF Steps
<1>4. QED BY <1>2, <1>3 DEF collectInitAnswers

(* The configuration that init writes. *)
LEMMA WriteStep ==
    ASSUME CommandInv, writeInitOutput, Command("init") PROVE CommandInv'
<1>1. /\ pc = "write" /\ UNCHANGED <<args, code, history, offline>>
      /\ offline' \in BOOLEAN /\ ~(args.dash /\ JSON)
      /\ out = <<>> /\ file = prior /\ prior \in {"absent", "old"}
    BY Running DEF writeInitOutput, fixed, At, CommandInv, TypeOK, OneStream
<1>2. ASSUME NEW s \in {"usage", "other"}, Fail("write", {s}),
             file' = file \/ (file' = "part" /\ prior = "absent")
      PROVE  CommandInv'
  <2>1. file' \in Files
      BY <1>1, <1>2 DEF Files
  <2>2. QED BY <1>1, <1>2, <2>1, StepFails DEF ErrorsAt, Steps
<1>3. CASE /\ args.dash /\ ~Closed("stdout") /\ UNCHANGED file
           /\ Go("result") /\ out' = Write(Doc("whole", 0))
  <2>1. Append(<<>>, Doc("whole", 0)) = <<Doc("whole", 0)>>
      OBVIOUS
  <2>2. out' = Artifact
      BY <1>1, <1>3, <2>1 DEF Artifact, Write
  <2>3. QED BY <1>1, <1>3, <2>2, StepSucceeds DEF Command
<1>4. CASE ~args.dash /\ file = "absent" /\ Go("result") /\ file' = "new" /\ UNCHANGED out
  <2>1. out' = Artifact
      BY <1>1, <1>4 DEF Artifact
  <2>2. QED BY <1>1, <1>4, <2>1, StepSucceeds DEF Command
<1>5. QED BY <1>1, <1>2, <1>3, <1>4 DEF writeInitOutput

-----------------------------------------------------------------------------
(* The theorems.                                                            *)

(* Every step of the program, and every signal, keeps the invariant. *)
LEMMA NextInv == ASSUME CommandInv, [Next]_vars PROVE CommandInv'
<1>1. ASSUME RunBuild PROVE CommandInv'
    BY <1>1, FlagsStep, LoadStep, SourceStep, StreamStep, BeginStep, ConfirmStep,
       ImageStep, PublishStep, ResultStep
    DEF RunBuild, Command
<1>2. ASSUME RunValidate PROVE CommandInv'
    BY <1>2, LoadStep, ResultStep DEF RunValidate, Command
<1>3. ASSUME RunVersions PROVE CommandInv'
    BY <1>3, SourceStep, IndexStep, ResultStep DEF RunVersions, Command
<1>4. ASSUME RunInit PROVE CommandInv'
    BY <1>4, FlagsStep, AnswersStep, WriteStep, ResultStep DEF RunInit, Command
<1>5. ASSUME UNCHANGED vars PROVE CommandInv'
  <2>1. UNCHANGED <<args, pc, err, at, offline, out, file, code, prior, cancelled>>
      BY <1>5 DEF vars, history
  <2>2. TypeOK' /\ OneSentinel' /\ StatusIsOfError'
      BY <2>1 DEF CommandInv, TypeOK, OneSentinel, StatusIsOfError, Exits, At, Closed,
                  Ended
  <2>3. OneStream' /\ StepOfFlags' /\ FileOf' /\ CancelledBuildFails'
      BY <2>1 DEF CommandInv, OneStream, StepOfFlags, FileOf, CancelledBuildFails,
                  JSON, Command, Ended
  <2>4. OutputOf'
      BY <2>1 DEF CommandInv, OutputOf, Artifact, Document, JSON, Closed, Ended,
                  jsonRequested
  <2>5. QED BY <2>2, <2>3, <2>4 DEF CommandInv
<1>6. QED
    BY <1>1, <1>2, <1>3, <1>4, <1>5, ParseStep, PolicyStep, ExecuteStep, CancelStep
    DEF Next, Run, Exited

(* In every reachable state of every command line, its types are right, an
   error carries one sentinel of the step that failed, and standard output and
   the files are what that step leaves of them (runBuild, runInit,
   finishCommand, Execute). *)
THEOREM CommandInvariant == Spec => []CommandInv
<1>1. Init => CommandInv
    BY InitInv
<1>2. CommandInv /\ [Next]_vars => CommandInv'
    BY NextInv
<1>3. QED BY <1>1, <1>2, PTL DEF Spec

(* The exit status is 0 without an error, and else that of its sentinel. *)
LEMMA StatusCases ==
    ASSUME CommandInv, Exits
    PROVE  IF at = "none" THEN err = {} /\ code = 0
           ELSE \E s \in ErrorsAt(at) :
                   /\ err = {s} /\ exitCode({s}) \in 1..6 /\ code # 0
                   /\ ~Closed("stderr") => code = exitCode({s})
<1>1. CASE at = "none"
    BY <1>1, ExitCodes DEF CommandInv, OneSentinel, StatusIsOfError
<1>2. CASE at # "none"
  <2>1. PICK s \in ErrorsAt(at) : err = {s}
      BY <1>2 DEF CommandInv, OneSentinel
  <2>2. exitCode({s}) \in 1..6
      BY ErrorTypes
  <2>3. QED BY <1>2, <2>1, <2>2 DEF CommandInv, StatusIsOfError
<1>3. QED BY <1>1, <1>2

(* A command that was asked for JSON writes one document, its result if it
   exits with 0 and else an error with the exit status in it; without the request
   it writes none; a document that cannot be written is a failure, and so is an
   error line, whose status is 1 (finishBuild, finishCommand, writeErrorJSON,
   Execute). *)
THEOREM DocumentCanBeRelied == Spec => []DocumentIsReliable
<1>1. ASSUME CommandInv, Exits
      PROVE  out = (CASE at = "none" ->
                           IF args.dash THEN Artifact
                           ELSE IF JSON THEN Document("result", 0)
                           ELSE IF args.quiet THEN <<>> ELSE Document("text", 0)
                      [] at = "result" -> <<>>
                      [] at = "stream" -> out
                      [] OTHER -> IF Asked THEN Document("error", exitCode(err)) ELSE <<>>)
  <2>1. pc = "exit" /\ Ended
      BY <1>1 DEF Exits, At, Ended
  <2>2. at = "parse" => exitCode(err) = 2
      BY <1>1, ExitCodes DEF CommandInv, OneSentinel, ErrorsAt
  <2>3. CASE at = "parse"
      BY <1>1, <2>1, <2>2, <2>3 DEF CommandInv, OutputOf, Asked, jsonRequested
  <2>4. CASE at # "parse"
      BY <1>1, <2>1, <2>4 DEF CommandInv, OutputOf, Asked
  <2>5. QED BY <2>3, <2>4
<1>2. ASSUME CommandInv, at = "stream", Exits
      PROVE  ~Asked /\ out \in {<<>>, Document("part", 0)}
  <2>1. pc = "exit" /\ Ended
      BY <1>2 DEF Exits, At, Ended
  <2>2. QED BY <1>2, <2>1 DEF CommandInv, OutputOf, OneStream, StepOfFlags, Asked
<1>3. ASSUME CommandInv, Exits, at = "result"
      PROVE  Closed("stdout") /\ out = <<>>
  <2>1. pc = "exit" /\ Ended
      BY <1>3 DEF Exits, At, Ended
  <2>2. QED BY <1>3, <2>1 DEF CommandInv, OutputOf
<1>4. ASSUME CommandInv, Exits, args.dash, at = "none" PROVE ~Asked
    BY <1>4 DEF CommandInv, OneStream, Asked, Exits, At, Ended
<1>5. ASSUME NEW kind, NEW c, NEW i \in DOMAIN out, out = Document(kind, c)
      PROVE  out[i].kind = kind /\ out[i].code = c
    BY <1>5 DEF Document, Doc
<1>6. CommandInv => OneDocument
  <2>1. ASSUME CommandInv, Exits, ~Asked, NEW i \in DOMAIN out
        PROVE  out[i].kind \notin {"result", "error"}
    <3>1. CASE at = "none"
      <4>1. out \in {<<>>, <<Doc("whole", 0)>>, Document("text", 0)}
          BY <1>1, <2>1, <3>1 DEF Asked, Artifact
      <4>2. QED BY <1>5, <2>1, <4>1 DEF Doc
    <3>2. CASE at = "stream"
        BY <1>2, <1>5, <2>1, <3>2
    <3>3. CASE at = "result"
        BY <1>3, <2>1, <3>3
    <3>4. CASE at \notin {"none", "stream", "result"}
        BY <1>1, <2>1, <3>4
    <3>5. QED BY <3>1, <3>2, <3>3, <3>4
  <2>2. ASSUME CommandInv, Exits, Asked, Closed("stdout")
        PROVE  out = <<>> /\ code # 0
    <3>1. at # "none"
      <4>1. ASSUME at = "none" PROVE FALSE
        <5>1. pc = "exit" /\ Ended /\ ~args.dash /\ JSON
            BY <1>4, <2>2, <4>1 DEF Exits, At, Ended, Asked
        <5>2. QED BY <2>2, <4>1, <5>1 DEF CommandInv, OutputOf
      <4>2. QED BY <4>1
    <3>2. QED BY <1>1, <1>2, <1>3, <2>2, <3>1, StatusCases DEF Document
  <2>3. ASSUME CommandInv, Exits, Asked, ~Closed("stdout")
        PROVE  /\ Len(out) = 1
               /\ out[1].kind = (IF code = 0 THEN "result" ELSE "error")
    <3>1. CASE at = "none"
      <4>1. out = <<Doc("result", 0)>>
          BY <1>1, <1>4, <2>3, <3>1 DEF Document, Asked
      <4>2. QED BY StatusCases, <2>3, <3>1, <4>1 DEF Doc
    <3>2. CASE at # "none"
      <4>1. out = <<Doc("error", exitCode(err))>>
          BY <1>1, <1>2, <1>3, <2>3, <3>2 DEF Document
      <4>2. QED BY StatusCases, <2>3, <3>2, <4>1 DEF Doc
    <3>3. QED BY <3>1, <3>2
  <2>4. QED BY <2>1, <2>2, <2>3 DEF OneDocument
<1>7. CommandInv => DocumentHasStatus
  <2>1. ASSUME CommandInv, Exits, Closed("stderr") PROVE code \in {0, 1}
      BY <2>1, StatusCases DEF CommandInv, StatusIsOfError
  <2>2. ASSUME CommandInv, Exits, NEW i \in DOMAIN out, out[i].kind \in {"result", "error"}
        PROVE  out[i].code = code \/ (Closed("stderr") /\ code = 1)
    <3>1. CASE at = "none"
      <4>1. code = 0
          BY <2>2, <3>1, StatusCases
      <4>2. out \in {<<>>, <<Doc("whole", 0)>>, Document("text", 0), Document("result", 0)}
          BY <1>1, <2>2, <3>1 DEF Artifact
      <4>3. QED BY <1>5, <2>2, <4>1, <4>2 DEF Doc
    <3>2. CASE at = "stream"
        BY <1>2, <1>5, <2>2, <3>2
    <3>3. CASE at = "result"
        BY <1>3, <2>2, <3>3
    <3>4. CASE at \notin {"none", "stream", "result"}
      <4>1. out[i].code = exitCode(err)
          BY <1>1, <1>5, <2>2, <3>4
      <4>2. PICK s \in ErrorsAt(at) : err = {s}
          BY <3>4, <2>2 DEF CommandInv, OneSentinel
      <4>3. code = (IF Closed("stderr") THEN 1 ELSE exitCode(err))
          BY <2>2, <4>2 DEF CommandInv, StatusIsOfError
      <4>4. QED BY <4>1, <4>3
    <3>5. QED BY <3>1, <3>2, <3>3, <3>4
  <2>3. QED BY <2>1, <2>2 DEF DocumentHasStatus
<1>8. CommandInv => DocumentIsReliable
    BY <1>6, <1>7 DEF DocumentIsReliable, CommandInv
<1>9. QED BY <1>8, CommandInvariant, PTL

(* With -o - standard output holds the artifact and nothing else, and exit
   status 0 means that it is whole, in a file or in the stream (streamBuild,
   publishBuild, writeInitOutput). *)
THEOREM StatusTells == Spec => []StatusTellsArtifact
<1>1. ASSUME CommandInv, Exits PROVE code = 0 <=> at = "none"
    BY <1>1, StatusCases
<1>2. ASSUME CommandInv, args.dash, ~JSON, at # "parse"
      PROVE  out \in {<<>>, <<Doc("whole", 0)>>, <<Doc("part", 0)>>}
  <2>1. CASE pc = "result"
      BY <1>2, <2>1 DEF CommandInv, OutputOf, Artifact
  <2>2. CASE pc # "result"
      BY <1>2, <2>2 DEF CommandInv, OutputOf, Artifact, Document
  <2>3. QED BY <2>1, <2>2
<1>3. ASSUME CommandInv, args.dash, Exits, code = 0
      PROVE  out = <<Doc("whole", 0)>>
  <2>1. at = "none"
      BY <1>1, <1>3
  <2>2. QED BY <1>3, <2>1 DEF CommandInv, OutputOf, Artifact, Ended, Exits, At
<1>4. CommandInv => StreamIsArtifact
  <2>1. ASSUME CommandInv, args.dash, ~JSON, at # "parse"
        PROVE  \A i \in DOMAIN out : out[i].kind \in {"part", "whole"}
      BY <1>2, <2>1 DEF Doc
  <2>2. QED BY <1>3, <2>1 DEF StreamIsArtifact
<1>5. CommandInv => StatusTellsFile
  <2> SUFFICES ASSUME CommandInv, Exits, args.cmd \in {"build", "init"}, ~args.dash
               PROVE  IF at = "result" THEN code = 1 /\ file = "new"
                      ELSE code = 0 <=> file = "new"
      BY DEF StatusTellsFile
  <2>1. CASE at = "none"
      BY <1>1, <2>1 DEF CommandInv, FileOf, Ended, Exits, At
  <2>2. CASE at = "result"
    <3>1. file = "new"
        BY <2>2 DEF CommandInv, FileOf, Ended, Exits, At
    <3>2. err = {"other"}
        BY <2>2 DEF CommandInv, OneSentinel, ErrorsAt
    <3>3. code = 1
        BY <3>2, ExitCodes DEF CommandInv, StatusIsOfError
    <3>4. QED BY <2>2, <3>1, <3>3
  <2>3. CASE at \notin {"none", "result"}
    <3>1. file \in {prior, "mixed", "part"}
        BY <2>3 DEF CommandInv, FileOf, Exits, At
    <3>2. QED BY <1>1, <2>3, <3>1 DEF CommandInv, TypeOK
  <2>4. QED BY <2>1, <2>2, <2>3
<1>6. CommandInv => StatusTellsArtifact
    BY <1>4, <1>5 DEF StatusTellsArtifact
<1>7. QED BY <1>6, CommandInvariant, PTL

(* A build that was interrupted before it asked for the index, and an init
   that found a file, leave the earlier files alone (publishBuild,
   writeInitOutput). *)
THEOREM EarlierFilesAreKept == Spec => []EarlierFilesStay
<1>1. CommandInv => CancelledBuildKeepsFiles
  <2> SUFFICES ASSUME CommandInv, Command("build"),
                      cancelled \in {"parse", "policy", "flags", "load", "source",
                                     "begin", "confirm", "image"}
               PROVE  file = prior
      BY DEF CancelledBuildKeepsFiles
  <2>1. /\ pc # "result" /\ at \notin {"publish", "result"}
        /\ Ended => at # "none"
      BY DEF CommandInv, CancelledBuildFails
  <2>2. at # "write"
      BY DEF CommandInv, StepOfFlags, Command
  <2>3. QED BY <2>1, <2>2 DEF CommandInv, FileOf
<1>2. CommandInv => InitKeepsFile
  <2>1. ASSUME CommandInv, Command("init"), prior = "old" PROVE file = "old"
    <3>1. at # "publish"
        BY <2>1 DEF CommandInv, StepOfFlags, Command
    <3>2. QED BY <2>1, <3>1 DEF CommandInv, FileOf
  <2>2. QED BY <2>1 DEF InitKeepsFile
<1>3. CommandInv => EarlierFilesStay
    BY <1>1, <1>2 DEF EarlierFilesStay
<1>4. QED BY <1>3, CommandInvariant, PTL

(* The exit status is the code of every sentinel that the error carries, whatever
   wrapped it on its way and in whatever order they are looked for (outputWrap of
   the publisher and of the rescue media, exitCode, Execute). *)
THEOREM WrappingKeepsTheCode == Spec => []WrappingKeepsOneCode
<1>1. ASSUME CommandInv, NEW s \in err \ {"other"} PROVE err = {s}
  <2>1. PICK t \in ErrorsAt(at) : err = {t}
      BY <1>1 DEF CommandInv, OneSentinel
  <2>2. QED BY <1>1, <2>1
<1>2. ASSUME CommandInv, Exits, ~Closed("stderr"), NEW s \in err \ {"other"}
      PROVE  code = codeOf[s]
  <2>1. err = {s} /\ s \in Sentinels
      BY <1>1, <1>2 DEF CommandInv, TypeOK
  <2>2. exitCode({s}) = codeOf[s]
      BY <1>2, <2>1, ExitCodes DEF Sentinels, codeOf
  <2>3. QED BY <1>2, <2>1, <2>2 DEF CommandInv, StatusIsOfError
<1>3. CommandInv => WrappingKeepsOneCode
    BY <1>1, <1>2 DEF WrappingKeepsOneCode
<1>4. QED BY <1>3, CommandInvariant, PTL
=============================================================================
