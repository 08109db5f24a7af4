----------------------- MODULE InitPromptProperties -----------------------
(* What init owes to the person, or the pipe, that answers it.             *)
EXTENDS InitPrompt

\* Every question has an answer that it allows.
LegalAnswers ==
    [type : {"1", "2"}, arch : {"1", "2"}, offline : {"y", "n"},
     channel : {"stable"} \cup (Lines \ {"blank"}),
     application : {"incus"} \cup (Lines \ {"blank"})]

TypeOK ==
    /\ scanner \in {"scan", "send", "parked", "closing", "gone"}
    /\ read \in Seq(Lines) /\ taken \in Seq(Lines)
    /\ errs \in {"none", "eof", "failure"}
    /\ err \in {"none", "eof", "failure", "cancelled"}
    /\ asking \in DOMAIN Questions
    /\ parked \in BOOLEAN /\ ctxDone \in BOOLEAN
    /\ answers \in LegalAnswers
    /\ result \in {"none", "answers", "usage", "failure"}

\* The two goroutines never wait for each other: whoever comes second finds the
\* first (newInitLinePrompt, scanInitLines, line).
NoMissedMeeting == ~(parked /\ scanner = "parked")

\* Lines reach the questions in the order of the input, none twice and none left
\* out: the scanner is at most the one line ahead that it holds, or gave up
\* because of the signal (scanInitLines, line).
NoLineLost ==
    /\ Len(taken) <= Len(read) /\ taken = SubSeq(read, 1, Len(taken))
    /\ Len(read) = Len(taken) + (IF scanner \in {"send", "parked"} THEN 1 ELSE 0)
       \/ (ctxDone /\ Len(read) = Len(taken) + 1)

\* The question, the answers so far, and whether it was the last, after a line.
After(p, l) ==
    LET q == Questions[p[1]]
        v == Value(q, l)
        a == [p[2] EXCEPT ![q] = v]
    IN IF v = errInvalid THEN p
       ELSE IF q = "application" \/ (q = "offline" /\ v = "n") THEN <<p[1], a, TRUE>>
       ELSE <<p[1] + 1, a, FALSE>>

\* The same after the lines s.
Replay(s) ==
    LET after[n \in 0..Len(s)] ==
            IF n = 0 THEN <<1, exampleInitAnswers, FALSE>> ELSE After(after[n - 1], s[n])
    IN after[Len(s)]

\* The answers are those of the lines and of nothing else: neither the end of the
\* input nor a signal answers a question with its default, which is why Huh's
\* accessible runner is not used (runInitForm).
AnswersAreLines ==
    <<asking, answers, result = "answers">> = Replay(taken)

\* What was typed is what is asked for: the two goroutines meet, and pass on every
\* line once and in order, at any interleaving with the signal and the end of input.
LinesBecomeAnswers == TypeOK /\ NoMissedMeeting /\ NoLineLost /\ AnswersAreLines

\* A signal, and the end of the input, end the form (line, scanInitLines).
Ends ==
    /\ ctxDone ~> result # "none"
    /\ scanner = "gone" ~> result # "none"

-----------------------------------------------------------------------------
(* Behind the properties: what each side relies on.                         *)

\* The scanner holds one line while it hands it over, and none while it reads.
OneLineAhead ==
    /\ scanner \in {"send", "parked"} => Len(read) = Len(taken) + 1
    /\ scanner = "scan" => Len(read) = Len(taken)

PromptInv == LinesBecomeAnswers /\ OneLineAhead
=============================================================================
