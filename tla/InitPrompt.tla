---------------------------- MODULE InitPrompt ----------------------------
(***************************************************************************)
(* The line prompts of init (internal/cli/init.go) and the configuration   *)
(* made of their answers.  A scanner goroutine reads standard input and    *)
(* hands each line over an unbuffered channel to the goroutine that asks;  *)
(* its last error goes into a channel of one place, and then it closes the *)
(* lines.  Both sides look at the context.                                 *)
(*                                                                         *)
(* A goroutine that enters a select takes any case that is ready and waits *)
(* ("parked") when there is none; whoever makes a case of a parked         *)
(* goroutine ready also completes it.                                      *)
(***************************************************************************)
EXTENDS Naturals, Sequences

CONSTANT MaxLines   \* bound: the lines that standard input has at most

\* Contents of a line without the spaces around it: "wild" is a text that YAML
\* reads as something else than a scalar.
Lines == {"blank", "2", "y", "wild"}

Questions == <<"type", "arch", "channel", "offline", "application">>

\* errInvalid stands for the reprompt of a loop.
errInvalid == "invalid"

VARIABLES
    scanner,    \* "scan", "send", "parked", "closing", "gone"
    read,       \* history: the lines scanned
    errs,       \* the place of the error channel, or "none"
    asking,     \* the number of the question
    parked,     \* the prompting goroutine waits in line()
    taken,      \* history: the lines that line() returned
    answers,    \* what the questions were answered
    err,        \* what line() failed with, or "none"
    ctxDone,
    result      \* "none", "answers", "usage", "failure"

asker == <<asking, parked, taken, answers, err, result>>
vars == <<scanner, read, errs, ctxDone, asker>>

-----------------------------------------------------------------------------
\* Answer 1 is the default; a number outside the options is asked for again.
selectOption(l) == CASE l = "blank" -> "1" [] l = "2" -> l [] OTHER -> errInvalid

text(l, default) == IF l = "blank" THEN default ELSE l

confirm(l) == CASE l = "blank" -> "n" [] l = "y" -> l [] OTHER -> errInvalid

Value(q, l) ==
    CASE q \in {"type", "arch"} -> selectOption(l)
      [] q = "channel" -> text(l, "stable")
      [] q = "application" -> text(l, "incus")
      [] q = "offline" -> confirm(l)

exampleInitAnswers ==
    [type |-> "1", arch |-> "1", channel |-> "stable", offline |-> "n",
     application |-> "incus"]

\* The application is asked for in an offline configuration only.
IsLast(i, v) == i = Len(Questions) \/ (Questions[i] = "offline" /\ v = "n")

\* line() returns l: it is asked again, the next question follows, or
\* finalizeInitAnswers ends the form.
Take(l) ==
    LET q == Questions[asking]
        v == Value(q, l) IN
    /\ result = "none" /\ err = "none"
    /\ taken' = Append(taken, l) /\ parked' = FALSE
    /\ answers' = IF v = errInvalid THEN answers ELSE [answers EXCEPT ![q] = v]
    /\ IF v # errInvalid /\ IsLast(asking, v)
       THEN result' = "answers" /\ UNCHANGED asking
       ELSE /\ asking' = IF v = errInvalid THEN asking ELSE asking + 1
            /\ UNCHANGED result
    /\ UNCHANGED err

Throw(e) ==
    /\ err' = e /\ parked' = FALSE
    /\ UNCHANGED <<asking, taken, answers, result>>

\* Mutant: the end of the input stands for the default answers.
ThrowDefault(e) ==
    /\ err' = e /\ parked' = FALSE
    /\ result' = IF e = "eof" THEN "answers" ELSE "usage"
    /\ UNCHANGED <<asking, taken, answers>>

\* selectOption, text and confirm give up the form with the error of line().
Stop(e) == Throw(e)

newInitLinePrompt ==
    /\ scanner = "scan" /\ read = <<>> /\ errs = "none"
    /\ asking = 1 /\ parked = FALSE /\ taken = <<>> /\ answers = exampleInitAnswers
    /\ err = "none" /\ result = "none" /\ ctxDone = FALSE

-----------------------------------------------------------------------------
(* scanInitLines.                                                           *)

Scan ==
    /\ scanner = "scan" /\ Len(read) < MaxLines
    /\ \E l \in Lines : read' = Append(read, l)
    /\ scanner' = "send"
    /\ UNCHANGED <<errs, ctxDone, asker>>

\* Mutant: a line nobody waits for is dropped.
SendOrDrop ==
    /\ scanner = "send" /\ scanner' = "scan"
    /\ \/ parked /\ Take(read[Len(read)])
       \/ ~parked /\ UNCHANGED asker
    /\ UNCHANGED <<read, errs, ctxDone>>

\* Mutant: the scanner waits without looking for a waiting receiver.
SendBlind ==
    /\ scanner = "send" /\ scanner' = "parked"
    /\ UNCHANGED <<read, errs, ctxDone, asker>>

Send ==
    /\ scanner = "send"
    /\ \/ parked /\ scanner' = "scan" /\ Take(read[Len(read)])
       \/ ctxDone /\ scanner' = "closing" /\ UNCHANGED asker
       \/ ~parked /\ ~ctxDone /\ scanner' = "parked" /\ UNCHANGED asker
    /\ UNCHANGED <<read, errs, ctxDone>>

\* The end of the input, or a read that fails (a line too long, for example).
ScanEnd ==
    /\ scanner = "scan" /\ scanner' = "closing"
    /\ \E e \in {"eof", "failure"} :
          IF parked THEN Stop(e) /\ UNCHANGED errs ELSE errs' = e /\ UNCHANGED asker
    /\ UNCHANGED <<read, ctxDone>>

\* The deferred close.
CloseLines ==
    /\ scanner = "closing" /\ scanner' = "gone"
    /\ IF parked THEN Stop("eof") ELSE UNCHANGED asker
    /\ UNCHANGED <<read, errs, ctxDone>>

-----------------------------------------------------------------------------
(* The prompting goroutine.                                                 *)

Asks == result = "none" /\ err = "none" /\ ~parked

\* Mutant: line() does not look at the context.
lineDeaf ==
    /\ Asks
    /\ \/ errs # "none" /\ errs' = "none" /\ Stop(errs) /\ UNCHANGED scanner
       \/ scanner = "parked" /\ scanner' = "scan" /\ Take(read[Len(read)])
          /\ UNCHANGED errs
       \/ scanner = "gone" /\ Stop("eof") /\ UNCHANGED <<scanner, errs>>
       \/ /\ errs = "none" /\ scanner \notin {"parked", "gone"} /\ parked' = TRUE
          /\ UNCHANGED <<scanner, errs, asking, taken, answers, err, result>>
    /\ UNCHANGED <<read, ctxDone>>

line ==
    /\ Asks
    /\ \/ ctxDone /\ Stop("cancelled") /\ UNCHANGED <<scanner, errs>>
       \/ errs # "none" /\ errs' = "none" /\ Stop(errs) /\ UNCHANGED scanner
       \/ scanner = "parked" /\ scanner' = "scan" /\ Take(read[Len(read)])
          /\ UNCHANGED errs
       \/ scanner = "gone" /\ Stop("eof") /\ UNCHANGED <<scanner, errs>>
       \/ /\ ~ctxDone /\ errs = "none" /\ scanner \notin {"parked", "gone"}
          /\ parked' = TRUE
          /\ UNCHANGED <<scanner, errs, asking, taken, answers, err, result>>
    /\ UNCHANGED <<read, ctxDone>>

wrapInitFormError ==
    /\ err # "none" /\ result = "none"
    /\ result' = IF err \in {"eof", "cancelled"} \/ ctxDone THEN "usage" ELSE "failure"
    /\ UNCHANGED <<scanner, read, errs, ctxDone, asking, parked, taken, answers, err>>

\* A signal completes the selects that wait.
Cancel ==
    /\ ~ctxDone /\ ctxDone' = TRUE
    /\ scanner' = IF scanner = "parked" THEN "closing" ELSE scanner
    /\ IF parked THEN Stop("cancelled") ELSE UNCHANGED asker
    /\ UNCHANGED <<read, errs>>

-----------------------------------------------------------------------------
\* Mutant: the seed is written for an online image only.
writeOnlineApplicationSeed(a) ==
    [n \in {"applications"} \ (IF a.offline = "n" THEN {} ELSE {"applications"}) |->
        [version |-> "", body |-> a.application]]

\* The seed names the application in quotes; without an offline image there is none.
writeOfflineApplicationSeed(a) ==
    [n \in {"applications"} \ (IF a.offline = "y" THEN {} ELSE {"applications"}) |->
        [version |-> "", body |-> a.application]]

\* The document, as a reader of YAML sees it unless the channel, which is written
\* as it was typed, is a wild one.
renderInitConfig(a) ==
    [version |-> 1,
     type |-> IF a.type = "1" THEN "iso" ELSE "raw",
     arch |-> IF a.arch = "1" THEN "x86_64" ELSE "aarch64",
     channel |-> a.channel,
     offline |-> a.offline = "y",
     seeds |-> writeOfflineApplicationSeed(a)]

Steps == Scan \/ Send \/ ScanEnd \/ CloseLines \/ line \/ wrapInitFormError

Finished == result # "none" /\ UNCHANGED vars

Next == Steps \/ Cancel \/ Finished

\* Nobody has to type: the scanner may wait in Scan for ever.
Spec == newInitLinePrompt /\ [][Next]_vars
        /\ WF_vars(Send) /\ WF_vars(CloseLines) /\ WF_vars(line)
        /\ WF_vars(wrapInitFormError)
=============================================================================
