-------------------------- MODULE InitConfigProofs --------------------------
(***************************************************************************)
(* Proofs about InitConfig: for any number of lines and questions asked     *)
(* again, the answers are those that were typed; for any document, the      *)
(* archive is the file and a refusal names what is wrong, and tells a value *)
(* only if its diagnostic does not quote it; and what init writes is        *)
(* accepted.                                                                *)
(***************************************************************************)
EXTENDS InitConfig, LoopProofs

-----------------------------------------------------------------------------
(* What the lines at the prompts are answered with.                         *)

Start == <<1, P!exampleInitAnswers, FALSE>>
Forms == (1..5) \X P!LegalAnswers \X BOOLEAN

(* A line leaves the form at a question, with an answer to each. *)
LEMMA AfterIsForm ==
    ASSUME NEW p \in Forms, NEW l \in P!Lines
    PROVE  P!After(p, l) \in Forms
<1> DEFINE q == P!Questions[p[1]]
           v == P!Value(q, l)
<1>1. /\ p[1] \in 1..5 /\ p[2] \in P!LegalAnswers /\ p[3] \in BOOLEAN
      /\ p = <<p[1], p[2], p[3]>>
    BY DEF Forms
<1>2. /\ q \in {"type", "arch", "channel", "offline", "application"}
      /\ q # "application" => p[1] + 1 \in 1..5
    BY <1>1 DEF P!Questions
<1>3. v # P!errInvalid => [p[2] EXCEPT ![q] = v] \in P!LegalAnswers
  <2>1. CASE q = "type"
      BY <1>1, <2>1 DEF P!LegalAnswers, P!Value, P!selectOption, P!errInvalid
  <2>2. CASE q = "arch"
      BY <1>1, <2>2 DEF P!LegalAnswers, P!Value, P!selectOption, P!errInvalid
  <2>3. CASE q = "channel"
      BY <1>1, <2>3 DEF P!LegalAnswers, P!Value, P!text, P!Lines
  <2>4. CASE q = "offline"
      BY <1>1, <2>4 DEF P!LegalAnswers, P!Value, P!confirm, P!errInvalid
  <2>5. CASE q = "application"
      BY <1>1, <2>5 DEF P!LegalAnswers, P!Value, P!text, P!Lines
  <2>6. QED BY <1>2, <2>1, <2>2, <2>3, <2>4, <2>5
<1> HIDE DEF q, v
<1>4. PICK a : a = [p[2] EXCEPT ![q] = v]
    OBVIOUS
<1>5. P!After(p, l) = IF v = P!errInvalid THEN p
                      ELSE IF q = "application" \/ (q = "offline" /\ v = "n")
                      THEN <<p[1], a, TRUE>> ELSE <<p[1] + 1, a, FALSE>>
    BY <1>4 DEF P!After, q, v
<1>6. CASE v = P!errInvalid
    BY <1>5, <1>6
<1>7. CASE v # P!errInvalid
  <2>1. a \in P!LegalAnswers
      BY <1>3, <1>4, <1>7
  <2>2. <<p[1], a, TRUE>> \in Forms
      BY <1>1, <2>1 DEF Forms
  <2>3. q # "application" => <<p[1] + 1, a, FALSE>> \in Forms
      BY <1>2, <2>1 DEF Forms
  <2>4. QED BY <1>5, <1>7, <2>2, <2>3
<1>8. QED BY <1>6, <1>7

(* The form starts with the example answers. *)
LEMMA StartIsForm == Start \in Forms
<1>1. P!exampleInitAnswers \in P!LegalAnswers
    BY DEF P!exampleInitAnswers, P!LegalAnswers
<1>2. PICK a : a = P!exampleInitAnswers
    OBVIOUS
<1>3. <<1, a, FALSE>> \in Forms
  <2>1. a \in P!LegalAnswers
      BY <1>1, <1>2
  <2>2. PICK i \in 1..5 : i = 1
      OBVIOUS
  <2>3. <<i, a, FALSE>> \in Forms
      BY <2>1 DEF Forms
  <2>4. QED BY <2>2, <2>3
<1>4. QED BY <1>2, <1>3 DEF Start

Replays(f, s) ==
    /\ f \in [0..Len(s) -> Forms] /\ f[0] = Start
    /\ \A n \in 1..Len(s) : f[n] = P!After(f[n - 1], s[n])

(* The replay of lines goes from form to form. *)
LEMMA ReplayRuns ==
    ASSUME NEW s \in Seq(P!Lines)
    PROVE  \E f : Replays(f, s) /\ P!Replay(s) = f[Len(s)]
<1>1. PICK N : N = Len(s) /\ N \in Nat /\ \A k \in 1..N : s[k] \in P!Lines
    BY LenProperties
<1> DEFINE H == [t \in (1..N) \X Forms |-> P!After(t[2], s[t[1]])]
           Turn(f) == [n \in 0..N |-> IF n = 0 THEN Start ELSE P!After(f[n - 1], s[n])]
           after == CHOOSE f : f = Turn(f)
<1>2. \A n \in 1..N, p \in Forms : H[<<n, p>>] = P!After(p, s[n])
    OBVIOUS
<1> HIDE DEF H
<1>3. PICK f : Computes(f, H, N, Forms, Start)
  <2>1. IsTurn(H, N, Forms)
      BY <1>1, <1>2, AfterIsForm DEF IsTurn
  <2>2. QED BY <1>1, <2>1, StartIsForm, LoopIsDefined
<1>4. ASSUME NEW n \in 1..N PROVE f[n] = P!After(f[n - 1], s[n])
  <2>1. n - 1 \in 0..N
      BY <1>1
  <2>2. f[n - 1] \in Forms
      BY <1>3, <2>1 DEF Computes
  <2>3. QED BY <1>2, <1>3, <2>2 DEF Computes
<1>5. f = Turn(f)
  <2>1. \A n \in 0..N : n # 0 => n \in 1..N
      BY <1>1
  <2>2. QED BY <1>3, <1>4, <2>1 DEF Computes
<1>6. after = Turn(after)
    BY <1>5
<1>7. P!Replay(s) = after[N]
    BY <1>1 DEF P!Replay, Start
<1> HIDE DEF after
<1>8. after[0] = Start /\ \A n \in 1..N : after[n] = P!After(after[n - 1], s[n])
  <2>1. 0 \in 0..N /\ \A n \in 1..N : n \in 0..N /\ n # 0
      BY <1>1
  <2>2. QED BY <1>6, <2>1
<1> DEFINE T == {n \in 0..N : after[n] \in Forms}
<1>9. 0 \in T
  <2>1. 0 \in 0..N /\ after[0] \in Forms
      BY <1>1, <1>8, StartIsForm
  <2>2. QED BY <2>1
<1>10. ASSUME NEW n \in 1..N, n - 1 \in T PROVE n \in T
  <2>1. after[n - 1] \in Forms /\ s[n] \in P!Lines /\ n \in 0..N
      BY <1>1, <1>10
  <2>2. after[n] \in Forms
      BY <1>8, <2>1, AfterIsForm
  <2>3. QED BY <2>1, <2>2
<1> HIDE DEF T
<1>11. \A n \in 0..N : n \in T
    BY <1>1, <1>9, <1>10, LoopInduction
<1>12. \A n \in 0..N : after[n] \in Forms
    BY <1>11 DEF T
<1>13. after = [n \in 0..N |-> after[n]]
    BY <1>6
<1>14. after \in [0..N -> Forms]
    BY <1>12, <1>13
<1>15. QED BY <1>1, <1>7, <1>8, <1>14 DEF Replays

(* Nothing was typed yet. *)
LEMMA ReplayOfNothing == P!Replay(<<>>) = Start
<1>1. <<>> \in Seq(P!Lines) /\ Len(<<>>) = 0
    OBVIOUS
<1>2. QED BY <1>1, ReplayRuns DEF Replays

(* One more line. *)
LEMMA ReplayOfLine ==
    ASSUME NEW s \in Seq(P!Lines), NEW l \in P!Lines
    PROVE  P!Replay(Append(s, l)) = P!After(P!Replay(s), l)
<1>1. PICK N : N = Len(s) /\ N \in Nat
    BY LenProperties
<1>2. PICK t : t = Append(s, l)
    OBVIOUS
<1>3. /\ t \in Seq(P!Lines) /\ Len(t) = N + 1 /\ t[N + 1] = l
      /\ \A n \in 1..N : t[n] = s[n]
    BY <1>1, <1>2, AppendProperties
<1>4. PICK f : Replays(f, s) /\ P!Replay(s) = f[N]
    BY <1>1, ReplayRuns
<1>5. PICK g : Replays(g, t) /\ P!Replay(t) = g[N + 1]
    BY <1>3, ReplayRuns
<1> DEFINE T == {n \in 0..N : f[n] = g[n]}
<1>6. 0 \in T
  <2>1. 0 \in 0..N /\ f[0] = g[0]
      BY <1>1, <1>4, <1>5 DEF Replays
  <2>2. QED BY <2>1
<1>7. ASSUME NEW n \in 1..N, n - 1 \in T PROVE n \in T
  <2>1. f[n - 1] = g[n - 1] /\ n \in 0..N /\ n \in 1..N + 1
      BY <1>1, <1>7
  <2>2. f[n] = P!After(f[n - 1], s[n])
      BY <1>1, <1>4 DEF Replays
  <2>3. g[n] = P!After(g[n - 1], t[n])
      BY <1>3, <1>5, <2>1 DEF Replays
  <2>4. f[n] = g[n]
      BY <1>3, <2>1, <2>2, <2>3
  <2>5. QED BY <2>1, <2>4
<1> HIDE DEF T
<1>8. \A n \in 0..N : n \in T
    BY <1>1, <1>6, <1>7, LoopInduction
<1>9. f[N] = g[N]
    BY <1>1, <1>8 DEF T
<1>10. PICK k \in 1..N + 1 : k = N + 1 /\ k - 1 = N
    BY <1>1
<1>11. \A n \in 1..N + 1 : g[n] = P!After(g[n - 1], t[n])
    BY <1>3, <1>5 DEF Replays
<1>12. g[k] = P!After(g[N], l)
  <2>1. g[k] = P!After(g[k - 1], t[k])
      BY <1>11
  <2>2. t[k] = l
      BY <1>3, <1>10
  <2>3. QED BY <1>10, <2>1, <2>2
<1>13. QED BY <1>2, <1>4, <1>5, <1>9, <1>10, <1>12

-----------------------------------------------------------------------------
(* The two goroutines.                                                      *)

(* What it is to be the beginning of a sequence. *)
LEMMA BeginningIs ==
    ASSUME NEW s \in Seq(P!Lines), NEW t \in Seq(P!Lines), Len(s) <= Len(t)
    PROVE  s = SubSeq(t, 1, Len(s)) <=> \A i \in 1..Len(s) : s[i] = t[i]
<1>1. PICK b : b = SubSeq(t, 1, Len(s))
    OBVIOUS
<1>2. /\ b \in Seq(P!Lines) /\ Len(b) = Len(s)
      /\ \A i \in 1..Len(s) : b[i] = t[i]
    BY <1>1, LenProperties, SubSeqProperties
<1>3. ASSUME \A i \in 1..Len(s) : s[i] = t[i] PROVE s = b
    BY <1>2, <1>3, SeqEqual
<1>4. QED BY <1>1, <1>2, <1>3

(* A line that is taken becomes the answer to its question. *)
LEMMA TakeKeeps ==
    ASSUME P!TypeOK, P!AnswersAreLines, NEW l \in P!Lines, P!Take(l)
    PROVE  /\ taken' = Append(taken, l) /\ taken' \in Seq(P!Lines)
           /\ asking' \in DOMAIN P!Questions /\ answers' \in P!LegalAnswers
           /\ result' \in {"none", "answers"} /\ err' = err /\ parked' = FALSE
           /\ P!AnswersAreLines'
<1>1. /\ taken \in Seq(P!Lines) /\ asking \in 1..5 /\ answers \in P!LegalAnswers
      /\ result = "none"
    BY DEF P!TypeOK, P!Take, P!Questions
<1>2. PICK p \in Forms : p = <<asking, answers, FALSE>>
    BY <1>1 DEF Forms
<1>3. P!Replay(taken) = p
    BY <1>1, <1>2 DEF P!AnswersAreLines
<1>4. taken' = Append(taken, l) /\ taken' \in Seq(P!Lines)
    BY <1>1, AppendProperties DEF P!Take
<1>5. P!Replay(taken') = P!After(p, l) /\ P!After(p, l) \in Forms
    BY <1>1, <1>2, <1>3, <1>4, ReplayOfLine, AfterIsForm
<1> DEFINE q == P!Questions[asking]
           v == P!Value(q, l)
<1>6. /\ answers' = IF v = P!errInvalid THEN answers ELSE [answers EXCEPT ![q] = v]
      /\ IF v # P!errInvalid /\ P!IsLast(asking, v)
         THEN result' = "answers" /\ asking' = asking
         ELSE /\ asking' = IF v = P!errInvalid THEN asking ELSE asking + 1
              /\ result' = result
      /\ err' = err /\ parked' = FALSE
    BY DEF P!Take
<1>7. P!After(p, l) =
         IF v = P!errInvalid THEN p
         ELSE IF q = "application" \/ (q = "offline" /\ v = "n")
         THEN <<asking, [answers EXCEPT ![q] = v], TRUE>>
         ELSE <<asking + 1, [answers EXCEPT ![q] = v], FALSE>>
    BY <1>2 DEF P!After
<1>8. P!IsLast(asking, v) <=> q = "application" \/ (q = "offline" /\ v = "n")
    BY <1>1 DEF P!IsLast, P!Questions
<1> HIDE DEF q, v
<1>9. P!After(p, l) = <<asking', answers', result' = "answers">>
    BY <1>1, <1>2, <1>6, <1>7, <1>8
<1>10. /\ asking' \in DOMAIN P!Questions /\ answers' \in P!LegalAnswers
       /\ result' \in {"none", "answers"}
    BY <1>1, <1>5, <1>6, <1>9 DEF Forms, P!Questions
<1>11. P!AnswersAreLines'
    BY <1>5, <1>9 DEF P!AnswersAreLines
<1>12. QED BY <1>4, <1>6, <1>10, <1>11

(* The lines that were taken are those that were read. *)
LEMMA HandedOver ==
    ASSUME P!TypeOK, P!NoLineLost, Len(read) = Len(taken) + 1, P!Take(read[Len(read)])
    PROVE  read[Len(read)] \in P!Lines /\ taken' = read
<1>1. PICK N : N = Len(taken) /\ N \in Nat /\ Len(read) = N + 1
    BY DEF P!TypeOK
<1>2. taken \in Seq(P!Lines) /\ read \in Seq(P!Lines)
    BY DEF P!TypeOK
<1>3. \A i \in 1..N + 1 : read[i] \in P!Lines
    BY <1>1, <1>2, LenProperties
<1>4. \A i \in 1..N : taken[i] = read[i]
    BY <1>1, <1>2, BeginningIs DEF P!NoLineLost
<1>5. PICK l \in P!Lines : l = read[N + 1]
    BY <1>1, <1>3
<1>6. taken' = Append(taken, l)
    BY <1>1, <1>5 DEF P!Take
<1>7. /\ taken' \in Seq(P!Lines) /\ Len(taken') = N + 1 /\ taken'[N + 1] = l
      /\ \A i \in 1..N : taken'[i] = taken[i]
    BY <1>1, <1>2, <1>6, AppendProperties
<1>8. \A i \in 1..N + 1 : taken'[i] = read[i]
    BY <1>1, <1>4, <1>5, <1>7
<1>9. taken' = read
    BY <1>1, <1>2, <1>7, <1>8, SeqEqual
<1>10. QED BY <1>1, <1>5, <1>9

(* The scanner, or the prompt, hands a line over. *)
LEMMA MeetingKeeps ==
    ASSUME P!PromptInv, scanner \in {"send", "parked"}, P!Take(read[Len(read)]),
           scanner' = "scan", UNCHANGED <<read, errs, ctxDone>>
    PROVE  P!PromptInv'
<1>1. P!TypeOK /\ P!NoLineLost /\ P!AnswersAreLines /\ Len(read) = Len(taken) + 1
    BY DEF P!PromptInv, P!LinesBecomeAnswers, P!OneLineAhead
<1>2. PICK l \in P!Lines : l = read[Len(read)]
    BY <1>1, HandedOver
<1>3. P!Take(l)
    BY <1>2
<1>4. /\ taken' \in Seq(P!Lines) /\ asking' \in DOMAIN P!Questions
      /\ answers' \in P!LegalAnswers /\ result' \in {"none", "answers"}
      /\ err' = err /\ parked' = FALSE /\ P!AnswersAreLines'
    BY <1>1, <1>3, TakeKeeps
<1>5. taken' = read'
    BY <1>1, HandedOver
<1>6. P!TypeOK'
    BY <1>1, <1>4 DEF P!TypeOK
<1>7. P!NoMissedMeeting'
    BY <1>4 DEF P!NoMissedMeeting
<1>8. read' \in Seq(P!Lines) /\ Len(read') \in Nat
    BY <1>4, <1>5
<1>9. taken' = SubSeq(read', 1, Len(taken'))
    BY <1>5, <1>8, BeginningIs
<1>10. P!NoLineLost'
  <2>1. PICK n \in Nat : n = Len(read') /\ n = Len(taken')
      BY <1>5, <1>8
  <2>2. n <= n /\ n = n + (IF scanner' \in {"send", "parked"} THEN 1 ELSE 0)
      OBVIOUS
  <2>3. QED BY <1>9, <2>1, <2>2 DEF P!NoLineLost
<1>11. P!OneLineAhead'
    BY <1>5 DEF P!OneLineAhead
<1>12. QED BY <1>4, <1>6, <1>7, <1>10, <1>11 DEF P!PromptInv, P!LinesBecomeAnswers

(* Everything else takes no line. *)
LEMMA NothingIsTaken ==
    ASSUME P!PromptInv, UNCHANGED <<read, asking, taken, answers>>,
           result' = result \/ (result = "none" /\ result' \in {"usage", "failure"}),
           scanner' \in {"scan", "send", "parked", "closing", "gone"},
           scanner' # scanner =>
              \/ scanner = "send" /\ scanner' = "parked"
              \/ scanner \in {"send", "parked"} /\ scanner' = "closing" /\ ctxDone'
              \/ scanner = "scan" /\ scanner' = "closing"
              \/ scanner = "closing" /\ scanner' = "gone",
           errs' \in {"none", "eof", "failure"},
           err' \in {"none", "eof", "failure", "cancelled"},
           parked' \in BOOLEAN, ctxDone' \in BOOLEAN, ctxDone => ctxDone',
           ~(parked' /\ scanner' = "parked")
    PROVE  P!PromptInv'
<1>1. /\ P!TypeOK /\ P!NoLineLost /\ P!AnswersAreLines /\ P!OneLineAhead
    BY DEF P!PromptInv, P!LinesBecomeAnswers
<1>2. P!TypeOK'
    BY <1>1 DEF P!TypeOK
<1>3. P!NoMissedMeeting'
    BY DEF P!NoMissedMeeting
<1>4. P!NoLineLost'
  <2>1. Len(taken') <= Len(read') /\ taken' = SubSeq(read', 1, Len(taken'))
      BY <1>1 DEF P!NoLineLost
  <2>2. Len(read) = Len(read') /\ Len(taken) = Len(taken')
      OBVIOUS
  <2>3. PICK n \in Nat, m \in Nat : n = Len(read) /\ m = Len(taken)
      BY <1>1, LenProperties DEF P!TypeOK
  <2>4. n = m + (IF scanner' \in {"send", "parked"} THEN 1 ELSE 0) \/ (ctxDone' /\ n = m + 1)
      BY <1>1, <2>3 DEF P!NoLineLost, P!OneLineAhead
  <2>5. QED BY <2>1, <2>2, <2>3, <2>4 DEF P!NoLineLost
<1>5. P!OneLineAhead'
    BY <1>1 DEF P!OneLineAhead
<1>6. P!AnswersAreLines'
  <2>1. (result' = "answers") = (result = "answers")
      OBVIOUS
  <2>2. QED BY <1>1, <2>1 DEF P!AnswersAreLines
<1>7. QED BY <1>2, <1>3, <1>4, <1>5, <1>6 DEF P!PromptInv, P!LinesBecomeAnswers

LEMMA ScanKeeps ==
    ASSUME P!PromptInv, P!Scan PROVE P!PromptInv'
<1>1. /\ P!TypeOK /\ P!NoLineLost /\ P!AnswersAreLines /\ P!OneLineAhead
    BY DEF P!PromptInv, P!LinesBecomeAnswers
<1>2. /\ scanner = "scan" /\ scanner' = "send"
      /\ UNCHANGED <<errs, ctxDone, asking, parked, taken, answers, err, result>>
    BY DEF P!Scan, P!asker
<1>3. PICK l \in P!Lines : read' = Append(read, l)
    BY DEF P!Scan
<1>4. PICK n \in Nat : n = Len(read) /\ n = Len(taken)
    BY <1>1, <1>2, LenProperties DEF P!TypeOK, P!OneLineAhead
<1>5. /\ read' \in Seq(P!Lines) /\ Len(read') = n + 1
      /\ \A i \in 1..n : read'[i] = read[i]
  <2>1. read \in Seq(P!Lines)
      BY <1>1 DEF P!TypeOK
  <2>2. /\ Append(read, l) \in Seq(P!Lines) /\ Len(Append(read, l)) = Len(read) + 1
        /\ \A i \in 1..Len(read) : Append(read, l)[i] = read[i]
      BY <2>1, AppendProperties
  <2>3. QED BY <1>3, <1>4, <2>2
<1>6. \A i \in 1..n : taken[i] = read[i]
    BY <1>1, <1>4, BeginningIs DEF P!TypeOK, P!NoLineLost
<1>7. taken' = SubSeq(read', 1, Len(taken'))
  <2>1. /\ taken' \in Seq(P!Lines) /\ Len(taken') = n
        /\ \A i \in 1..n : taken'[i] = read'[i]
      BY <1>1, <1>2, <1>4, <1>5, <1>6 DEF P!TypeOK
  <2>2. QED BY <1>5, <2>1, BeginningIs
<1>8. P!TypeOK'
    BY <1>1, <1>2, <1>5 DEF P!TypeOK
<1>9. P!NoMissedMeeting'
    BY <1>2 DEF P!NoMissedMeeting
<1>10. P!NoLineLost'
    BY <1>2, <1>4, <1>5, <1>7 DEF P!NoLineLost
<1>11. P!OneLineAhead'
    BY <1>2, <1>4, <1>5 DEF P!OneLineAhead
<1>12. P!AnswersAreLines'
    BY <1>1, <1>2 DEF P!AnswersAreLines
<1>13. QED BY <1>8, <1>9, <1>10, <1>11, <1>12 DEF P!PromptInv, P!LinesBecomeAnswers

LEMMA SendKeeps ==
    ASSUME P!PromptInv, P!Send PROVE P!PromptInv'
<1>1. P!TypeOK /\ UNCHANGED <<read, errs, ctxDone>> /\ scanner = "send"
    BY DEF P!PromptInv, P!LinesBecomeAnswers, P!Send
<1>2. CASE parked /\ scanner' = "scan" /\ P!Take(read[Len(read)])
    BY <1>1, <1>2, MeetingKeeps
<1>3. CASE ctxDone /\ scanner' = "closing" /\ UNCHANGED P!asker
    BY <1>1, <1>3, NothingIsTaken DEF P!TypeOK, P!asker
<1>4. CASE ~parked /\ ~ctxDone /\ scanner' = "parked" /\ UNCHANGED P!asker
    BY <1>1, <1>4, NothingIsTaken DEF P!TypeOK, P!asker
<1>5. QED BY <1>2, <1>3, <1>4 DEF P!Send

LEMMA ScanEndKeeps ==
    ASSUME P!PromptInv, P!ScanEnd PROVE P!PromptInv'
<1>1. P!TypeOK /\ UNCHANGED <<read, ctxDone>> /\ scanner = "scan" /\ scanner' = "closing"
    BY DEF P!PromptInv, P!LinesBecomeAnswers, P!ScanEnd
<1>2. PICK e \in {"eof", "failure"} :
         IF parked THEN P!Stop(e) /\ errs' = errs ELSE errs' = e /\ UNCHANGED P!asker
    BY DEF P!ScanEnd
<1>3. QED BY <1>1, <1>2, NothingIsTaken DEF P!TypeOK, P!asker, P!Stop, P!Throw

LEMMA CloseLinesKeeps ==
    ASSUME P!PromptInv, P!CloseLines PROVE P!PromptInv'
<1>1. P!TypeOK
    BY DEF P!PromptInv, P!LinesBecomeAnswers
<1>2. QED BY <1>1, NothingIsTaken DEF P!CloseLines, P!TypeOK, P!asker, P!Stop, P!Throw

LEMMA lineKeeps ==
    ASSUME P!PromptInv, P!line PROVE P!PromptInv'
<1>1. P!TypeOK /\ UNCHANGED <<read, ctxDone>> /\ P!Asks
    BY DEF P!PromptInv, P!LinesBecomeAnswers, P!line
<1>2. CASE ctxDone /\ P!Stop("cancelled") /\ UNCHANGED <<scanner, errs>>
    BY <1>1, <1>2, NothingIsTaken DEF P!TypeOK, P!Stop, P!Throw
<1>3. CASE errs # "none" /\ errs' = "none" /\ P!Stop(errs) /\ UNCHANGED scanner
    BY <1>1, <1>3, NothingIsTaken DEF P!TypeOK, P!Stop, P!Throw
<1>4. CASE scanner = "parked" /\ scanner' = "scan" /\ P!Take(read[Len(read)]) /\ UNCHANGED errs
    BY <1>1, <1>4, MeetingKeeps
<1>5. CASE scanner = "gone" /\ P!Stop("eof") /\ UNCHANGED <<scanner, errs>>
    BY <1>1, <1>5, NothingIsTaken DEF P!TypeOK, P!Stop, P!Throw
<1>6. CASE /\ ~ctxDone /\ errs = "none" /\ scanner \notin {"parked", "gone"}
           /\ parked' = TRUE
           /\ UNCHANGED <<scanner, errs, asking, taken, answers, err, result>>
    BY <1>1, <1>6, NothingIsTaken DEF P!TypeOK
<1>7. QED BY <1>2, <1>3, <1>4, <1>5, <1>6 DEF P!line

LEMMA wrapInitFormErrorKeeps ==
    ASSUME P!PromptInv, P!wrapInitFormError PROVE P!PromptInv'
<1>1. P!TypeOK /\ P!NoMissedMeeting
    BY DEF P!PromptInv, P!LinesBecomeAnswers
<1>2. QED BY <1>1, NothingIsTaken DEF P!wrapInitFormError, P!TypeOK, P!NoMissedMeeting

LEMMA CancelKeeps ==
    ASSUME P!PromptInv, P!Cancel PROVE P!PromptInv'
<1>1. P!TypeOK /\ P!NoMissedMeeting
    BY DEF P!PromptInv, P!LinesBecomeAnswers
<1>2. QED
    BY <1>1, NothingIsTaken
       DEF P!Cancel, P!TypeOK, P!NoMissedMeeting, P!asker, P!Stop, P!Throw

(* Init of the prompts. *)
LEMMA PromptStarts ==
    ASSUME P!newInitLinePrompt PROVE P!PromptInv
<1>1. /\ read = <<>> /\ taken = <<>> /\ scanner = "scan" /\ asking = 1
      /\ answers = P!exampleInitAnswers /\ result = "none" /\ ~parked
    BY DEF P!newInitLinePrompt
<1>2. /\ <<>> \in Seq(P!Lines) /\ Len(<<>>) = 0
    OBVIOUS
<1>3. P!TypeOK
  <2>1. P!exampleInitAnswers \in P!LegalAnswers
      BY DEF P!exampleInitAnswers, P!LegalAnswers
  <2>2. asking \in DOMAIN P!Questions
      BY <1>1 DEF P!Questions
  <2>3. QED BY <1>1, <1>2, <2>1, <2>2 DEF P!newInitLinePrompt, P!TypeOK
<1>4. P!NoLineLost
  <2>1. <<>> = SubSeq(<<>>, 1, Len(<<>>))
      BY <1>2, BeginningIs
  <2>2. QED BY <1>1, <1>2, <2>1 DEF P!NoLineLost
<1>5. P!AnswersAreLines
    BY <1>1, ReplayOfNothing DEF P!AnswersAreLines, Start
<1>6. P!NoMissedMeeting /\ P!OneLineAhead
    BY <1>1, <1>2 DEF P!NoMissedMeeting, P!OneLineAhead
<1>7. QED BY <1>3, <1>4, <1>5, <1>6 DEF P!PromptInv, P!LinesBecomeAnswers

(* Nobody at the prompts moves. *)
LEMMA PromptStutters ==
    ASSUME P!PromptInv, UNCHANGED promptVars PROVE P!PromptInv'
BY DEF promptVars, P!PromptInv, P!LinesBecomeAnswers, P!TypeOK, P!NoMissedMeeting,
       P!NoLineLost, P!AnswersAreLines, P!OneLineAhead

(* Every step of the prompts keeps their invariant. *)
LEMMA AskStepsKeep ==
    ASSUME P!PromptInv, AskSteps PROVE P!PromptInv'
BY ScanKeeps, SendKeeps, ScanEndKeeps, CloseLinesKeeps, lineKeeps, wrapInitFormErrorKeeps,
   CancelKeeps DEF AskSteps, Prompts, promptSend, promptClose, promptLine, promptEnd

-----------------------------------------------------------------------------
(* What errors say.                                                         *)

Words == STRING \cup {"<value>"}
Readings == [quote : {"", "dq", "bq"}, out : Seq(Words)]
Unread == [quote |-> "", out |-> <<>>]

(* A word further. *)
LEMMA WordIsRead ==
    ASSUME NEW b \in Readings, NEW w \in Words
    PROVE  readWord(b, w) \in Readings
<1>1. b.quote \in {"", "dq", "bq"} /\ b.out \in Seq(Words) /\ "<value>" \in Words
    BY DEF Readings, Words
<1>2. Append(b.out, "<value>") \in Seq(Words) /\ Append(b.out, w) \in Seq(Words)
    BY <1>1, AppendProperties
<1>3. PICK o1, o2 : o1 = Append(b.out, "<value>") /\ o2 = Append(b.out, w)
    OBVIOUS
<1>4. readWord(b, w) = IF b.quote # ""
                       THEN IF w # b.quote THEN b ELSE [quote |-> "", out |-> o1]
                       ELSE IF w \in Marks THEN [quote |-> w, out |-> b.out]
                       ELSE [quote |-> "", out |-> o2]
    BY <1>3 DEF readWord
<1>5. [quote |-> "", out |-> o1] \in Readings /\ [quote |-> "", out |-> o2] \in Readings
    BY <1>2, <1>3 DEF Readings
<1>6. w \in Marks => [quote |-> w, out |-> b.out] \in Readings
    BY <1>1 DEF Readings, Marks
<1>7. QED BY <1>4, <1>5, <1>6

ReadsAll(f, m) ==
    /\ f \in [0..Len(m) -> Readings] /\ f[0] = Unread
    /\ \A n \in 1..Len(m) : f[n] = readWord(f[n - 1], m[n])

(* The loop over the words runs to its end. *)
LEMMA SanitizeRuns ==
    ASSUME NEW m \in Seq(STRING)
    PROVE  \E f : ReadsAll(f, m) /\ sanitizeYAMLMessage(m) = f[Len(m)].out
<1>1. PICK N : N = Len(m) /\ N \in Nat /\ \A k \in 1..N : m[k] \in Words
    BY LenProperties DEF Words
<1> DEFINE H == [t \in (1..N) \X Readings |-> readWord(t[2], m[t[1]])]
           Turn(f) == [n \in 0..N |-> IF n = 0 THEN Unread ELSE readWord(f[n - 1], m[n])]
           reads == CHOOSE f : f = Turn(f)
<1>2. \A n \in 1..N, p \in Readings : H[<<n, p>>] = readWord(p, m[n])
    OBVIOUS
<1> HIDE DEF H
<1>3. PICK f : Computes(f, H, N, Readings, Unread)
  <2>1. IsTurn(H, N, Readings)
      BY <1>1, <1>2, WordIsRead DEF IsTurn
  <2>2. Unread \in Readings
      BY EmptySeq DEF Unread, Readings
  <2>3. QED BY <1>1, <2>1, <2>2, LoopIsDefined
<1>4. ASSUME NEW n \in 1..N PROVE f[n] = readWord(f[n - 1], m[n])
  <2>1. n - 1 \in 0..N
      BY <1>1
  <2>2. f[n - 1] \in Readings
      BY <1>3, <2>1 DEF Computes
  <2>3. QED BY <1>2, <1>3, <2>2 DEF Computes
<1>5. f = Turn(f)
  <2>1. \A n \in 0..N : n # 0 => n \in 1..N
      BY <1>1
  <2>2. QED BY <1>3, <1>4, <2>1 DEF Computes
<1>6. reads = Turn(reads)
    BY <1>5
<1>7. sanitizeYAMLMessage(m) = reads[N].out
    BY <1>1 DEF sanitizeYAMLMessage, Unread
<1> HIDE DEF reads
<1>8. reads[0] = Unread /\ \A n \in 1..N : reads[n] = readWord(reads[n - 1], m[n])
  <2>1. 0 \in 0..N /\ \A n \in 1..N : n \in 0..N /\ n # 0
      BY <1>1
  <2>2. QED BY <1>6, <2>1
<1> DEFINE T == {n \in 0..N : reads[n] \in Readings}
<1>9. 0 \in T
  <2>1. Unread \in Readings
      BY EmptySeq DEF Unread, Readings
  <2>2. 0 \in 0..N /\ reads[0] \in Readings
      BY <1>1, <1>8, <2>1
  <2>3. QED BY <2>2
<1>10. ASSUME NEW n \in 1..N, n - 1 \in T PROVE n \in T
  <2>1. reads[n - 1] \in Readings /\ m[n] \in Words /\ n \in 0..N
      BY <1>1, <1>10
  <2>2. reads[n] \in Readings
      BY <1>8, <2>1, WordIsRead
  <2>3. QED BY <2>1, <2>2
<1> HIDE DEF T
<1>11. \A n \in 0..N : n \in T
    BY <1>1, <1>9, <1>10, LoopInduction
<1>12. \A n \in 0..N : reads[n] \in Readings
    BY <1>11 DEF T
<1>13. reads = [n \in 0..N |-> reads[n]]
    BY <1>6
<1>14. reads \in [0..N -> Readings]
    BY <1>12, <1>13
<1>15. QED BY <1>1, <1>7, <1>8, <1>14 DEF ReadsAll

\* The words up to n are in a literal of L just when the reader is.
InLiteral(b, m, L, n) ==
    /\ b.quote = "" => ~ \E l \in L : l[1] <= n /\ n < l[2]
    /\ b.quote # "" => \E l \in L : l[1] <= n /\ n < l[2] /\ b.quote = m[l[1]]

NoValue(says) == \A i \in 1..Len(says) : says[i] # "value"

(* A literal that is quoted with a mark it does not contain leaves nothing of it. *)
LEMMA WordIsCut ==
    ASSUME NEW m \in Seq(STRING), NEW L \in SUBSET Literals(m),
           \A k, l \in L : k = l \/ k[2] < l[1] \/ l[2] < k[1],
           \A i \in DOMAIN m : m[i] \in Marks \cup {"value"} =>
              \E l \in L : l[1] <= i /\ i <= l[2],
           NEW n \in 1..Len(m), NEW b \in Readings,
           InLiteral(b, m, L, n - 1), NoValue(b.out)
    PROVE  InLiteral(readWord(b, m[n]), m, L, n) /\ NoValue(readWord(b, m[n]).out)
<1>1. PICK N \in Nat : N = Len(m) /\ DOMAIN m = 1..N /\ n \in 1..N
    BY LenProperties
<1>2. b.quote \in {"", "dq", "bq"} /\ b.out \in Seq(Words)
    BY DEF Readings
<1>3. \A l \in L : /\ l[1] \in 1..N /\ l[2] \in 1..N /\ l[1] < l[2]
                   /\ m[l[1]] \in Marks /\ m[l[2]] = m[l[1]]
                   /\ \A k \in l[1] + 1 .. l[2] - 1 : m[k] # m[l[1]]
    BY <1>1 DEF Literals
<1>4. ASSUME NEW w \in Words, w # "value" PROVE NoValue(Append(b.out, w))
  <2>1. PICK o : o = Append(b.out, w)
      OBVIOUS
  <2>2. PICK k \in Nat : k = Len(b.out)
      BY <1>2, LenProperties
  <2>3. Len(o) = k + 1 /\ o[k + 1] = w /\ \A i \in 1..k : o[i] = b.out[i]
    <3>1. PICK s \in Seq(Words) : s = b.out
        BY <1>2
    <3>2. /\ Len(Append(s, w)) = Len(s) + 1 /\ Append(s, w)[Len(s) + 1] = w
          /\ \A i \in 1..Len(s) : Append(s, w)[i] = s[i]
        BY <1>4, AppendProperties
    <3>3. QED BY <2>1, <2>2, <3>1, <3>2
  <2>4. ASSUME NEW i \in 1..k + 1 PROVE o[i] # "value"
    <3>1. i = k + 1 \/ i \in 1..k
        BY <2>4
    <3>2. QED BY <1>4, <2>2, <2>3, <3>1 DEF NoValue
  <2>5. QED BY <2>1, <2>3, <2>4 DEF NoValue
<1>5. CASE b.quote # ""
  <2>1. PICK l \in L : l[1] <= n - 1 /\ n - 1 < l[2] /\ b.quote = m[l[1]]
      BY <1>5 DEF InLiteral
  <2>2. CASE m[n] # b.quote
    <3>1. readWord(b, m[n]) = b
        BY <1>5, <2>2 DEF readWord
    <3>2. n # l[2]
        BY <1>3, <2>1, <2>2
    <3>3. l[1] <= n /\ n < l[2]
        BY <1>1, <1>3, <2>1, <3>2
    <3>4. InLiteral(b, m, L, n)
        BY <1>5, <2>1, <3>3 DEF InLiteral
    <3>5. QED BY <3>1, <3>4
  <2>3. CASE m[n] = b.quote
    <3>1. PICK o : o = Append(b.out, "<value>")
        OBVIOUS
    <3>2. readWord(b, m[n]) = [quote |-> "", out |-> o]
        BY <1>5, <2>3, <3>1 DEF readWord
    <3>3. n = l[2]
      <4>1. n \in l[1] + 1 .. l[2]
          BY <1>1, <1>3, <2>1
      <4>2. n \notin l[1] + 1 .. l[2] - 1
          BY <1>3, <2>1, <2>3
      <4>3. QED BY <1>3, <4>1, <4>2
    <3>4. ~ \E k \in L : k[1] <= n /\ n < k[2]
        BY <1>1, <1>3, <3>3
    <3>5. NoValue(o)
        BY <1>4, <3>1 DEF Words
    <3>6. PICK r : r = [quote |-> "", out |-> o]
        OBVIOUS
    <3>7. r.quote = "" /\ r.out = o
        BY <3>6
    <3>8. InLiteral(r, m, L, n) /\ NoValue(r.out)
        BY <3>4, <3>5, <3>7 DEF InLiteral
    <3>9. QED BY <3>2, <3>6, <3>8
  <2>4. QED BY <2>2, <2>3
<1>6. CASE b.quote = "" /\ m[n] \in Marks
  <2>1. PICK l \in L : l[1] <= n /\ n <= l[2]
      BY <1>1, <1>6
  <2>2. ~(l[1] <= n - 1 /\ n - 1 < l[2])
      BY <1>6 DEF InLiteral
  <2>3. l[1] = n /\ n < l[2]
      BY <1>1, <1>3, <2>1, <2>2
  <2>4. PICK r : r = [quote |-> m[n], out |-> b.out]
      OBVIOUS
  <2>5. r.quote = m[n] /\ r.out = b.out
      BY <2>4
  <2>6. readWord(b, m[n]) = r
      BY <1>6, <2>4 DEF readWord
  <2>7. m[n] # ""
      BY <1>6 DEF Marks
  <2>8. l[1] <= n /\ n < l[2] /\ r.quote = m[l[1]]
      BY <1>1, <2>3, <2>5
  <2>9. InLiteral(r, m, L, n)
      BY <2>5, <2>7, <2>8 DEF InLiteral
  <2>10. QED BY <2>5, <2>6, <2>9
<1>7. CASE b.quote = "" /\ m[n] \notin Marks
  <2>1. ASSUME NEW l \in L, l[1] <= n, n <= l[2] PROVE FALSE
    <3>1. l[1] # n
        BY <1>3, <1>7
    <3>2. l[1] <= n - 1 /\ n - 1 < l[2]
        BY <1>1, <1>3, <2>1, <3>1
    <3>3. QED BY <1>7, <3>2 DEF InLiteral
  <2>2. m[n] # "value" /\ m[n] \in Words
      BY <1>1, <2>1, LenProperties DEF Words
  <2>3. PICK o : o = Append(b.out, m[n])
      OBVIOUS
  <2>4. NoValue(o)
      BY <1>4, <2>2, <2>3
  <2>5. PICK r : r = [quote |-> "", out |-> o]
      OBVIOUS
  <2>6. r.quote = "" /\ r.out = o
      BY <2>5
  <2>7. readWord(b, m[n]) = r
      BY <1>7, <2>3, <2>5 DEF readWord
  <2>8. InLiteral(r, m, L, n)
    <3>1. \A l \in L : ~(l[1] <= n /\ n < l[2])
        BY <1>1, <1>3, <2>1
    <3>2. QED BY <2>6, <3>1 DEF InLiteral
  <2>9. QED BY <2>4, <2>6, <2>7, <2>8
<1>8. QED BY <1>2, <1>5, <1>6, <1>7

\* No value is in what is said.
TellsNothing(says) == \A i \in DOMAIN says : says[i] # "value"

(* No value is in what is left of a diagnostic that quotes its values. *)
LEMMA NoValueIsLeft ==
    ASSUME NEW m \in Seq(STRING), IsQuoted(m)
    PROVE  TellsNothing(sanitizeYAMLMessage(m))
<1>1. PICK N \in Nat : N = Len(m)
    BY LenProperties
<1>2. PICK f : ReadsAll(f, m) /\ sanitizeYAMLMessage(m) = f[N].out
    BY <1>1, SanitizeRuns
<1>3. PICK L \in SUBSET Literals(m) :
         /\ \A k, l \in L : k = l \/ k[2] < l[1] \/ l[2] < k[1]
         /\ \A i \in DOMAIN m : m[i] \in Marks \cup {"value"} =>
               \E l \in L : l[1] <= i /\ i <= l[2]
    BY DEF IsQuoted
<1> DEFINE T == {n \in 0..N : InLiteral(f[n], m, L, n) /\ NoValue(f[n].out)}
<1>4. 0 \in T
  <2>1. PICK b : b = f[0]
      OBVIOUS
  <2>2. b.quote = "" /\ b.out = <<>>
    <3>1. b = Unread
        BY <1>2, <2>1 DEF ReadsAll
    <3>2. QED BY <3>1 DEF Unread
  <2>3. \A l \in L : l[1] \in DOMAIN m
      BY DEF Literals
  <2>4. \A l \in L : ~(l[1] <= 0)
      BY <2>3, LenProperties
  <2>5. InLiteral(b, m, L, 0) /\ NoValue(b.out)
    <3>1. InLiteral(b, m, L, 0)
        BY <2>2, <2>4 DEF InLiteral
    <3>2. Len(<<>>) = 0
        OBVIOUS
    <3>3. NoValue(<<>>)
        BY <3>2 DEF NoValue
    <3>4. QED BY <2>2, <3>1, <3>3
  <2>6. QED BY <1>1, <2>1, <2>5
<1>5. ASSUME NEW n \in 1..N, n - 1 \in T PROVE n \in T
  <2>1. n \in 0..N /\ n - 1 \in 0..N /\ n \in 1..Len(m)
      BY <1>1
  <2>2. f[n - 1] \in Readings /\ f[n] = readWord(f[n - 1], m[n])
      BY <1>1, <1>2, <2>1 DEF ReadsAll
  <2>3. InLiteral(f[n - 1], m, L, n - 1) /\ NoValue(f[n - 1].out)
      BY <1>5
  <2>4. InLiteral(f[n], m, L, n) /\ NoValue(f[n].out)
      BY <1>3, <2>1, <2>2, <2>3, WordIsCut
  <2>5. QED BY <2>1, <2>4
<1> HIDE DEF T
<1>6. \A n \in 0..N : n \in T
    BY <1>1, <1>4, <1>5, LoopInduction
<1>7. PICK o \in Seq(Words) : o = f[N].out /\ NoValue(o)
  <2>1. N \in 0..N
      BY <1>1
  <2>2. f[N] \in Readings /\ NoValue(f[N].out)
      BY <1>1, <1>2, <1>6, <2>1 DEF T, ReadsAll
  <2>3. QED BY <2>2 DEF Readings
<1>8. QED BY <1>2, <1>7, LenProperties DEF NoValue, TellsNothing

PathWords ==
    {"image", "seeds", "applications", "install", "target", "security", "migration-manager",
     "operations-center", "incus", "network", "provider", "services", "update", "kernel"}

(* A path is made of the names of the schema. *)
LEMMA PathsAre ==
    ASSUME NEW t
    PROVE  yamlPathPrefix(t) \in Seq(PathWords)
<1>1. ASSUME t \in DOMAIN PathPrefix PROVE PathPrefix[t] \in Seq(PathWords)
  <2>1. \A a, b, c \in PathWords : /\ <<a>> \in Seq(PathWords)
                                  /\ <<a, b>> \in Seq(PathWords)
                                  /\ <<a, b, c>> \in Seq(PathWords)
      OBVIOUS
  <2>2. t \in {"image", "seeds"} \/ t \in {"InstallTarget", "InstallSecurity"}
        \/ t \in {"Applications", "Application", "Install", "MigrationManager",
                  "OperationsCenter", "Incus", "Network", "Provider", "Services", "Update",
                  "Kernel", "Security"}
      BY <1>1 DEF PathPrefix
  <2>3. CASE t \in {"image", "seeds"}
    <3>1. PathPrefix[t] = <<t>>
        BY <2>3 DEF PathPrefix
    <3>2. t \in PathWords
        BY <2>3 DEF PathWords
    <3>3. QED BY <2>1, <3>1, <3>2
  <2>4. CASE t \in {"InstallTarget", "InstallSecurity"}
    <3>1. \E c \in {"target", "security"} : PathPrefix[t] = <<"seeds", "install", c>>
        BY <2>4 DEF PathPrefix
    <3>2. {"seeds", "install", "target", "security"} \subseteq PathWords
        BY DEF PathWords
    <3>3. QED BY <2>1, <3>1, <3>2
  <2>5. CASE t \in {"Applications", "Application", "Install", "MigrationManager",
                    "OperationsCenter", "Incus", "Network", "Provider", "Services", "Update",
                    "Kernel", "Security"}
    <3>1. \E b \in PathWords : PathPrefix[t] = <<"seeds", b>>
        BY <2>5 DEF PathPrefix, PathWords
    <3>2. "seeds" \in PathWords
        BY DEF PathWords
    <3>3. QED BY <2>1, <3>1, <3>2
  <2>6. QED BY <2>2, <2>3, <2>4, <2>5
<1>2. <<>> \in Seq(PathWords)
    OBVIOUS
<1>3. QED BY <1>1, <1>2 DEF yamlPathPrefix

\* What OnlyUnquotedIsTold says of one message.
ToldBy(s, from) ==
    TellsNothing(s) \/ \E m \in from : ~IsQuoted(m) /\ s = sanitizeYAMLMessage(m)

(* A diagnostic tells a value only if it does not quote it. *)
LEMMA DiagnosticTells ==
    ASSUME NEW from, NEW m \in from, m \in Seq(STRING)
    PROVE  ToldBy(sanitizeYAMLMessage(m), from)
<1>1. CASE IsQuoted(m)
    BY <1>1, NoValueIsLeft DEF ToldBy
<1>2. CASE ~IsQuoted(m)
    BY <1>2 DEF ToldBy
<1>3. QED BY <1>1, <1>2

(* A complaint of the decoder tells a value only if it does not quote it. *)
LEMMA ComplaintTells ==
    ASSUME NEW ds \in Diagnostics, NEW i \in DOMAIN ds, NEW from,
           ~ds[i].unknown => ds[i].message \in from
    PROVE  ToldBy(formatLoadError(ds[i]), from)
<1>1. PICK d : d = ds[i]
    OBVIOUS
<1>2. IF d.unknown THEN d.field \in STRING \ {"value"}
      ELSE d.message \in Seq(STRING) 
    BY <1>1, ConfigAssumption
<1>3. CASE ~d.unknown
    BY <1>1, <1>2, <1>3, DiagnosticTells DEF formatLoadError
<1>4. CASE d.unknown
  <2>1. PICK p \in Seq(PathWords) : p = yamlPathPrefix(d.type)
      BY PathsAre
  <2>2. PICK w : w = d.field /\ w # "value"
      BY <1>2, <1>4
  <2>3. PICK o : o = Append(p, w)
      OBVIOUS
  <2>4. formatLoadError(d) = o
      BY <1>4, <2>1, <2>2, <2>3 DEF formatLoadError, fieldPath
  <2>5. PICK k \in Nat : k = Len(p) /\ \A j \in 1..k : p[j] \in PathWords
      BY LenProperties
  <2>6. DOMAIN o = 1..k + 1 /\ o[k + 1] = w /\ \A j \in 1..k : o[j] = p[j]
    <3> DEFINE W == PathWords \cup {w}
    <3>1. p \in Seq(W) /\ w \in W
      <4>1. \A j \in 1..Len(p) : p[j] \in W
          BY <2>5
      <4>2. p = [j \in 1..Len(p) |-> p[j]]
          BY LenProperties
      <4>3. QED BY <2>5, <4>1, <4>2
    <3> HIDE DEF W
    <3>2. /\ Append(p, w) \in Seq(W)
          /\ Len(Append(p, w)) = Len(p) + 1 /\ Append(p, w)[Len(p) + 1] = w
          /\ \A j \in 1..Len(p) : Append(p, w)[j] = p[j]
        BY <3>1, AppendProperties
    <3>3. QED BY <2>3, <2>5, <3>2, LenProperties
  <2>7. "value" \notin PathWords
      BY DEF PathWords
  <2>8. \A j \in 1..k + 1 : j = k + 1 \/ j \in 1..k
      BY <2>5
  <2>9. TellsNothing(o)
      BY <2>2, <2>5, <2>6, <2>7, <2>8 DEF TellsNothing
  <2>10. QED BY <1>1, <2>4, <2>9 DEF ToldBy
<1>5. QED BY <1>1, <1>3, <1>4

-----------------------------------------------------------------------------
(* What becomes of a document.                                              *)

SeedVersion(s) == IF s.version = "" THEN "1" ELSE s.version

(* A section keeps its body, and its version if it has one. *)
LEMMA VersionIsSet ==
    ASSUME NEW s \in SeedSections
    PROVE  /\ setDefaultVersion(s).version = SeedVersion(s)
           /\ setDefaultVersion(s).body = s.body
           /\ SeedVersion(s) # ""
BY DEF SeedSections, setDefaultVersion, defaultSeedVersion, SeedVersion

\* e has the sections of d and, offline, an update section that never asks.
SeedsDefaulted(d, e) ==
    /\ DOMAIN e.seeds = DOMAIN d.seeds \cup (IF d.offline THEN {"update"} ELSE {})
    /\ \A n \in DOMAIN d.seeds :
          /\ e.seeds[n].version = SeedVersion(d.seeds[n])
          /\ (n = "update" /\ d.offline) \/ e.seeds[n].body = d.seeds[n].body
    /\ d.offline => e.seeds["update"].body = "never" /\ e.seeds["update"].version # ""

ImageDefaulted(d, e) ==
    /\ e.version = d.version /\ e.type = d.type /\ e.arch = d.arch /\ e.offline = d.offline
    /\ e.channel = IF d.channel = "" THEN "stable" ELSE d.channel

(* Defaults change nothing else of a document. *)
LEMMA DefaultsAre ==
    ASSUME NEW d, IsDocument(d)
    PROVE  ImageDefaulted(d, WithDefaults(d)) /\ SeedsDefaulted(d, WithDefaults(d))
<1>1. PICK s : s = d.seeds
    OBVIOUS
<1>2. /\ DOMAIN s \subseteq SectionNames
      /\ d \in [version : Nat, type : STRING, arch : STRING, channel : STRING,
                offline : BOOLEAN, seeds : {s}]
      /\ s \in [DOMAIN s -> SeedSections]
    BY <1>1 DEF IsDocument
<1>3. PICK v : v = defaultSeedVersions(s)
    OBVIOUS
<1>4. /\ DOMAIN v = DOMAIN s
      /\ \A n \in DOMAIN s : /\ v[n].version = SeedVersion(s[n]) /\ v[n].body = s[n].body
                             /\ v[n].version # ""
  <2>1. v = [n \in DOMAIN s |-> setDefaultVersion(s[n])]
    <3>1. \A n \in DOMAIN s : n \in presentSeedVersions(s)
        BY <1>2 DEF presentSeedVersions, SectionNames
    <3>2. QED BY <1>3, <3>1 DEF defaultSeedVersions
  <2>2. \A n \in DOMAIN s : s[n] \in SeedSections
      BY <1>2
  <2>3. \A n \in DOMAIN s : v[n] = setDefaultVersion(s[n])
      BY <2>1
  <2>4. QED BY <2>1, <2>2, <2>3, VersionIsSet
<1>5. PICK u : u = neverUpdate(v)
    OBVIOUS
<1>6. /\ DOMAIN u = DOMAIN s \cup {"update"}
      /\ \A n \in DOMAIN s : n # "update" => u[n] = v[n]
      /\ u["update"].body = "never"
      /\ u["update"].version = IF "update" \in DOMAIN s THEN v["update"].version ELSE "1"
  <2>1. PICK b : b = [version |-> IF "update" \in DOMAIN v THEN v["update"].version
                                  ELSE defaultSeedVersion,
                      body |-> checkFrequencyNever]
      OBVIOUS
  <2>2. /\ b.body = "never"
        /\ b.version = IF "update" \in DOMAIN s THEN v["update"].version ELSE "1"
      BY <1>4, <2>1 DEF checkFrequencyNever, defaultSeedVersion
  <2>3. u = [n \in DOMAIN v \cup {"update"} |-> IF n # "update" THEN v[n] ELSE b]
    <3>1. \A n \in DOMAIN v \cup {"update"} :
             (IF n # "update" THEN v[n]
              ELSE [version |-> IF n \in DOMAIN v THEN v[n].version ELSE defaultSeedVersion,
                    body |-> checkFrequencyNever])
             = IF n # "update" THEN v[n] ELSE b
        BY <2>1
    <3>2. QED BY <1>5, <3>1 DEF neverUpdate
  <2>4. u["update"] = b
      BY <2>3
  <2>5. QED BY <1>4, <2>2, <2>3, <2>4
<1>7. PICK e : e = WithDefaults(d)
    OBVIOUS
<1>8. PICK t : t = (IF d.offline THEN u ELSE v)
    OBVIOUS
<1>9. PICK c : c = IF d.channel = "" THEN DefaultChannel ELSE d.channel
    OBVIOUS
<1>10. e = [d EXCEPT !.channel = c, !.seeds = t]
    BY <1>1, <1>3, <1>5, <1>7, <1>8, <1>9 DEF WithDefaults
<1>11. /\ e.version = d.version /\ e.type = d.type /\ e.arch = d.arch
       /\ e.offline = d.offline /\ e.channel = c /\ e.seeds = t
    BY <1>2, <1>10
<1>12. ImageDefaulted(d, e)
    BY <1>9, <1>11 DEF ImageDefaulted, DefaultChannel
<1>13. SeedsDefaulted(d, e)
  <2>1. d.offline \in BOOLEAN
      BY <1>2
  <2>2. CASE ~d.offline
    <3>1. e.seeds = v
        BY <1>8, <1>11, <2>2
    <3>2. QED BY <1>1, <1>4, <2>2, <3>1 DEF SeedsDefaulted
  <2>3. CASE d.offline
    <3>1. e.seeds = u
        BY <1>8, <1>11, <2>3
    <3>2. DOMAIN e.seeds = DOMAIN d.seeds \cup {"update"}
        BY <1>1, <1>6, <3>1
    <3>3. u["update"].version # "" /\ u["update"].body = "never"
        BY <1>4, <1>6
    <3>4. ASSUME NEW n \in DOMAIN d.seeds
          PROVE  /\ e.seeds[n].version = SeedVersion(d.seeds[n])
                 /\ n = "update" \/ e.seeds[n].body = d.seeds[n].body
        BY <1>1, <1>4, <1>6, <3>1
    <3>5. QED BY <2>3, <3>1, <3>2, <3>3, <3>4 DEF SeedsDefaulted
  <2>4. QED BY <2>1, <2>2, <2>3
<1>14. QED BY <1>7, <1>12, <1>13

(* The build.Spec takes over every section of a document. *)
LEMMA SpecIsAll ==
    ASSUME NEW d, IsDocument(d)
    PROVE  spec(WithDefaults(d)) = WithDefaults(d)
<1>1. PICK e : e = WithDefaults(d)
    OBVIOUS
<1>2. PICK s : s = e.seeds
    OBVIOUS
<1>3. DOMAIN s \subseteq SectionNames
  <2>1. DOMAIN s \subseteq DOMAIN d.seeds \cup {"update"}
      BY <1>1, <1>2, DefaultsAre DEF SeedsDefaulted
  <2>2. "update" \in SectionNames /\ DOMAIN d.seeds \subseteq SectionNames
      BY DEF SectionNames, IsDocument
  <2>3. QED BY <2>1, <2>2
<1>4. s = [n \in DOMAIN s |-> s[n]]
  <2>1. PICK v : v = IF d.offline THEN neverUpdate(defaultSeedVersions(d.seeds))
                     ELSE defaultSeedVersions(d.seeds)
      OBVIOUS
  <2>2. PICK c : c = IF d.channel = "" THEN DefaultChannel ELSE d.channel
      OBVIOUS
  <2>3. e = [d EXCEPT !.channel = c, !.seeds = v]
      BY <1>1, <2>1, <2>2 DEF WithDefaults
  <2>4. s = v
      BY <1>2, <2>3 DEF IsDocument
  <2>5. v = [n \in DOMAIN v |-> v[n]]
      BY <2>1 DEF neverUpdate, defaultSeedVersions
  <2>6. QED BY <2>4, <2>5
<1>5. s = [n \in DOMAIN s \cap SectionNames |-> s[n]]
  <2>1. DOMAIN s = DOMAIN s \cap SectionNames
      BY <1>3
  <2>2. QED BY <1>4, <2>1
<1>6. spec(e) = [e EXCEPT !.seeds = s]
    BY <1>2, <1>5 DEF spec, SectionNames
<1>7. [e EXCEPT !.seeds = s] = e
    BY <1>1, <1>2 DEF WithDefaults, IsDocument
<1>8. QED BY <1>1, <1>6, <1>7

(* The first path of four is one of them, and there is one if one of them is. *)
LEMMA FirstPathIs ==
    ASSUME NEW a, NEW b, NEW c, NEW e
    PROVE  LET f == FirstPath(<<a, b, c, e>>) IN
           /\ f = <<>> <=> a = <<>> /\ b = <<>> /\ c = <<>> /\ e = <<>>
           /\ f \in {<<>>, a, b, c, e}
<1>1. PICK p : p = <<a, b, c, e>>
    OBVIOUS
<1>2. DOMAIN p = 1..4 /\ p[1] = a /\ p[2] = b /\ p[3] = c /\ p[4] = e
    BY <1>1
<1> DEFINE F == {i \in DOMAIN p : p[i] # <<>>}
<1>3. FirstPath(p) = IF F = {} THEN <<>> ELSE p[Least(F)]
    BY DEF FirstPath
<1>4. F \subseteq Nat /\ F \subseteq {1, 2, 3, 4}
    BY <1>2
<1>5. F # {} => Least(F) \in F
    BY <1>4, LeastIsLeast
<1>6. F = {} <=> a = <<>> /\ b = <<>> /\ c = <<>> /\ e = <<>>
  <2>1. \A i \in 1..4 : i = 1 \/ i = 2 \/ i = 3 \/ i = 4
      OBVIOUS
  <2>2. QED BY <1>2, <2>1
<1>7. CASE F = {}
    BY <1>1, <1>3, <1>6, <1>7
<1>8. CASE F # {}
  <2>1. PICK k \in F : k = Least(F)
      BY <1>5, <1>8
  <2>2. p[k] # <<>> /\ p[k] \in {a, b, c, e}
      BY <1>2, <1>4, <2>1
  <2>3. FirstPath(p) = p[k]
      BY <1>3, <1>8, <2>1
  <2>4. QED BY <1>1, <1>6, <1>8, <2>2, <2>3
<1>9. QED BY <1>7, <1>8

(* A path is not the path of nothing. *)
LEMMA PathIsSome ==
    \A a, b, c, e : <<a, b>> # <<>> /\ <<a, b, c>> # <<>> /\ <<a, b, c, e>> # <<>>
<1>1. TAKE a, b, c, e
<1>2. Len(<<>>) = 0 /\ Len(<<a, b>>) = 2 /\ Len(<<a, b, c>>) = 3 /\ Len(<<a, b, c, e>>) = 4
    OBVIOUS
<1>3. QED BY <1>2

(* A refusal names what is wrong in the file; what is accepted had nothing wrong. *)
LEMMA FaultIsWrong ==
    ASSUME NEW d, IsDocument(d), d.version = 1
    PROVE  IF Fault(WithDefaults(d)) = <<>> THEN Wrong(d) = {}
           ELSE Fault(WithDefaults(d)) \in Wrong(d)
<1>1. PICK e : e = WithDefaults(d)
    OBVIOUS
<1>2. PICK off \in BOOLEAN : off = d.offline
    BY DEF IsDocument
<1>3. ImageDefaulted(d, e) /\ SeedsDefaulted(d, e)
    BY <1>1, DefaultsAre
<1>4. ASSUME NEW n \in {"install", "security", "applications"}
      PROVE  /\ n \in DOMAIN e.seeds <=> n \in DOMAIN d.seeds
             /\ n \in DOMAIN d.seeds => e.seeds[n].body = d.seeds[n].body
  <2>1. n # "update"
      OBVIOUS
  <2>2. QED BY <1>3, <2>1 DEF SeedsDefaulted
<1>5. e.type = d.type /\ e.arch = d.arch /\ e.offline = off
    BY <1>2, <1>3 DEF ImageDefaulted
<1>6. PICK pt : pt = <<"image", "type">> /\ pt # <<>>
    BY PathIsSome
<1>7. PICK pa : pa = <<"image", "architecture">> /\ pa # <<>>
    BY PathIsSome
<1>8. PICK pi : pi = <<"seeds", "install", "target", "sort_order">> /\ pi # <<>>
    BY PathIsSome
<1>9. PICK ps : ps = <<"seeds", "security", "encryption_recovery_keys">> /\ ps # <<>>
    BY PathIsSome
<1>10. PICK po : po = <<"seeds", "applications">> /\ po # <<>>
    BY PathIsSome
<1> DEFINE Type == d.type \in {"iso", "raw"}
           Arch == d.arch \in {"x86_64", "aarch64"}
           Order == SectionIn(d, "install", {"no target", "", "smallest", "Largest"})
           Keys == SectionIn(d, "security", STRING \ {"recovery keys"})
           Holds == off => /\ "applications" \in DOMAIN d.seeds
                           /\ SectionIn(d, "applications", STRING \ {"no application"})
<1>11. Wrong(d) = (IF Type THEN {} ELSE {pt}) \cup (IF Arch THEN {} ELSE {pa})
                  \cup (IF Order THEN {} ELSE {pi}) \cup (IF Keys THEN {} ELSE {ps})
                  \cup (IF Holds THEN {} ELSE {po})
    BY <1>2, <1>6, <1>7, <1>8, <1>9, <1>10 DEF Wrong
<1>12. PICK i : i = validateImage(e)
    OBVIOUS
<1>13. PICK n : n = validateInstall(e)
    OBVIOUS
<1>14. PICK s : s = validateSecurity(e)
    OBVIOUS
<1>15. PICK o : o = validateOffline(e)
    OBVIOUS
<1>16. \A m \in DOMAIN d.seeds : d.seeds[m].body \in STRING
    BY DEF IsDocument, SeedSections
<1>17. i = IF ~Type THEN pt ELSE IF ~Arch THEN pa ELSE <<>>
    BY <1>5, <1>6, <1>7, <1>12 DEF validateImage
<1>18. n = IF Order THEN <<>> ELSE pi
    BY <1>4, <1>8, <1>13 DEF validateInstall, SortOrders, SectionIn
<1>19. s = IF Keys THEN <<>> ELSE ps
    BY <1>4, <1>9, <1>14, <1>16 DEF validateSecurity, SectionIn
<1>20. o = IF Holds THEN <<>> ELSE po
    BY <1>4, <1>5, <1>10, <1>15, <1>16 DEF validateOffline, SectionIn
<1>21. PICK f : f = Fault(e)
    OBVIOUS
<1>22. f = FirstPath(<<i, n, s, o>>)
    BY <1>12, <1>13, <1>14, <1>15, <1>21 DEF Fault
<1>23. /\ f = <<>> <=> i = <<>> /\ n = <<>> /\ s = <<>> /\ o = <<>>
       /\ f \in {<<>>, i, n, s, o}
    BY <1>22, FirstPathIs
<1> HIDE DEF Type, Arch, Order, Keys, Holds
<1>24. f = <<>> => Wrong(d) = {}
    BY <1>6, <1>7, <1>8, <1>9, <1>10, <1>11, <1>17, <1>18, <1>19, <1>20, <1>23
<1>25. f # <<>> => f \in Wrong(d)
    BY <1>11, <1>17, <1>18, <1>19, <1>20, <1>23
<1>26. QED BY <1>1, <1>21, <1>24, <1>25

(* The update seed that an offline image is given is a section of the schema. *)
LEMMA UpdateIsSection == "update" \in SectionNames
<1>1. PICK c : c = Customizer
    OBVIOUS
<1>2. c[9] = "update" /\ 9 \in DOMAIN c
    BY <1>1 DEF Customizer
<1>3. QED BY <1>1, <1>2 DEF SectionNames

CLINames == {"kernel", "security"}

(* The two lists of sections have each section once. *)
LEMMA ListsAre ==
    /\ Customizer \in Seq(SectionNames) /\ CLIOnly \in Seq(SectionNames)
    /\ \A k, l \in 1..Len(Customizer) : Customizer[k] = Customizer[l] => k = l
    /\ \A k, l \in 1..Len(CLIOnly) : CLIOnly[k] = CLIOnly[l] => k = l
    /\ \A k \in 1..Len(Customizer) : Customizer[k] \in SectionNames \ CLINames
    /\ \A k \in 1..Len(CLIOnly) : CLIOnly[k] \in CLINames
    /\ \A n \in SectionNames \ CLINames : \E k \in 1..Len(Customizer) : Customizer[k] = n
    /\ \A n \in CLINames : \E k \in 1..Len(CLIOnly) : CLIOnly[k] = n
<1>1. PICK c : c = Customizer
    OBVIOUS
<1>2. /\ c = <<c[1], c[2], c[3], c[4], c[5], c[6], c[7], c[8], c[9]>>
      /\ c[1] = "applications" /\ c[2] = "incus" /\ c[3] = "operations-center"
      /\ c[4] = "migration-manager" /\ c[5] = "install" /\ c[6] = "network"
      /\ c[7] = "provider" /\ c[8] = "services" /\ c[9] = "update"
    BY <1>1 DEF Customizer
<1>3. DOMAIN c = 1..9 /\ Len(c) = 9
    BY <1>2
<1>4. \A k \in 1..9 : k = 1 \/ k = 2 \/ k = 3 \/ k = 4 \/ k = 5 \/ k = 6 \/ k = 7 \/ k = 8 \/ k = 9
    OBVIOUS
<1>5. PICK C : C = {c[i] : i \in 1..9}
    OBVIOUS
<1>6. SectionNames = C \cup CLINames
  <2>1. C = {c[1], c[2], c[3], c[4], c[5], c[6], c[7], c[8], c[9]}
      BY <1>4, <1>5
  <2>2. C = {"applications", "incus", "operations-center", "migration-manager", "install",
             "network", "provider", "services", "update"}
      BY <1>2, <2>1
  <2>3. QED BY <2>2 DEF SectionNames, CLINames
<1>7. \A k \in 1..9 : c[k] \in C /\ c[k] \notin CLINames
    BY <1>2, <1>4, <1>5 DEF CLINames
<1>8. c \in Seq(SectionNames)
  <2>1. \A k \in 1..9 : c[k] \in SectionNames
      BY <1>6, <1>7
  <2>2. c[1] \in SectionNames /\ c[2] \in SectionNames /\ c[3] \in SectionNames
        /\ c[4] \in SectionNames /\ c[5] \in SectionNames /\ c[6] \in SectionNames
        /\ c[7] \in SectionNames /\ c[8] \in SectionNames /\ c[9] \in SectionNames
      BY <2>1
  <2>3. \A x1, x2, x3, x4, x5, x6, x7, x8, x9 \in SectionNames :
           <<x1, x2, x3, x4, x5, x6, x7, x8, x9>> \in Seq(SectionNames)
      OBVIOUS
  <2>4. c = <<c[1], c[2], c[3], c[4], c[5], c[6], c[7], c[8], c[9]>>
      BY <1>2
  <2>5. <<c[1], c[2], c[3], c[4], c[5], c[6], c[7], c[8], c[9]>> \in Seq(SectionNames)
      BY <2>2, <2>3
  <2>6. QED BY <2>4, <2>5, Zenon
<1>9. \A k, l \in 1..9 : c[k] = c[l] => k = l
    BY <1>2, <1>4
<1>10. \A n \in SectionNames \ CLINames : \E k \in 1..9 : c[k] = n
    BY <1>5, <1>6
<1>11. PICK o : o = CLIOnly
    OBVIOUS
<1>12. o = <<"kernel", "security">>
    BY <1>11 DEF CLIOnly
<1>13. Len(o) = 2 /\ o[1] = "kernel" /\ o[2] = "security"
    BY <1>12
<1>14. \A k \in 1..2 : k = 1 \/ k = 2
    OBVIOUS
<1>15. /\ \A k, l \in 1..2 : o[k] = o[l] => k = l
       /\ \A k \in 1..2 : o[k] \in CLINames
       /\ \A n \in CLINames : \E k \in 1..2 : o[k] = n
    BY <1>13, <1>14 DEF CLINames
<1>16. o \in Seq(SectionNames)
    BY <1>6, <1>12 DEF CLINames
<1>17. QED BY <1>1, <1>3, <1>6, <1>7, <1>8, <1>9, <1>10, <1>11, <1>13, <1>15, <1>16

\* The names of S, each once, those of sections that only the program writes last.
EachOnce(names, S) ==
    /\ names \in Seq(SectionNames)
    /\ \A i \in 1..Len(names) : names[i] \in S
    /\ \A n \in S : \E i \in 1..Len(names) : names[i] = n
    /\ \A i, j \in 1..Len(names) : names[i] = names[j] => i = j
    /\ \A i, j \in 1..Len(names) : i < j /\ names[i] \in CLINames => names[j] \in CLINames

(* The renderer goes through every section that is there, once. *)
LEMMA SectionsOnce ==
    ASSUME NEW seeds, DOMAIN seeds \subseteq SectionNames
    PROVE  EachOnce(collectSeedYAML(seeds), DOMAIN seeds)
<1>1. PICK D : D = DOMAIN seeds
    OBVIOUS
<1>2. PICK ka : ka = {i \in DOMAIN Customizer : Customizer[i] \in D}
    OBVIOUS
<1>3. PICK kb : kb = {i \in DOMAIN CLIOnly : CLIOnly[i] \in D}
    OBVIOUS
<1>4. PICK a : a = Kept(Customizer, ka)
    OBVIOUS
<1>5. PICK b : b = Kept(CLIOnly, kb)
    OBVIOUS
<1>6. PICK names : names = a \o b
    OBVIOUS
<1>7. collectSeedYAML(seeds) = names
    BY <1>1, <1>2, <1>3, <1>4, <1>5, <1>6
    DEF collectSeedYAML, appendCustomizerSeeds, appendCLISeeds, appendIfPresent
<1>8. Keeps(a, Customizer, ka, SectionNames) /\ Keeps(b, CLIOnly, kb, SectionNames)
    BY <1>4, <1>5, ListsAre, KeptElements
<1>9. \A i, j \in 1..Len(a) : a[i] = a[j] => i = j
  <2>1. Customizer \in Seq(SectionNames)
        /\ \A k, l \in 1..Len(Customizer) : Customizer[k] = Customizer[l] => k = l
      BY ListsAre
  <2>2. QED BY <1>4, <2>1, KeptOnce
<1>10. \A i, j \in 1..Len(b) : b[i] = b[j] => i = j
  <2>1. CLIOnly \in Seq(SectionNames)
        /\ \A k, l \in 1..Len(CLIOnly) : CLIOnly[k] = CLIOnly[l] => k = l
      BY ListsAre
  <2>2. QED BY <1>5, <2>1, KeptOnce
<1>11. DOMAIN Customizer = 1..Len(Customizer) /\ DOMAIN CLIOnly = 1..Len(CLIOnly)
    BY ListsAre, LenProperties
<1>12. /\ a \in Seq(SectionNames)
       /\ \A i \in 1..Len(a) : a[i] \in D \ CLINames
       /\ \A s \in D \ CLINames : \E i \in 1..Len(a) : a[i] = s
  <2>1. /\ \A i \in 1..Len(a) : \E k \in 1..Len(Customizer) : k \in ka /\ a[i] = Customizer[k]
        /\ \A k \in 1..Len(Customizer) :
              k \in ka => \E i \in 1..Len(a) : a[i] = Customizer[k]
        /\ a \in Seq(SectionNames)
      BY <1>8 DEF Keeps
  <2>2. \A k \in 1..Len(Customizer) : /\ k \in ka <=> Customizer[k] \in D
                                      /\ Customizer[k] \notin CLINames
      BY <1>2, <1>11, ListsAre
  <2>3. \A s \in D \ CLINames : \E k \in 1..Len(Customizer) : Customizer[k] = s
      BY <1>1, ListsAre
  <2>4. \A i \in 1..Len(a) : a[i] \in D \ CLINames
      BY <2>1, <2>2
  <2>5. \A s \in D \ CLINames : \E i \in 1..Len(a) : a[i] = s
      BY <2>1, <2>2, <2>3
  <2>6. QED BY <2>1, <2>4, <2>5
<1>13. /\ b \in Seq(SectionNames)
       /\ \A i \in 1..Len(b) : b[i] \in D \cap CLINames
       /\ \A s \in D \cap CLINames : \E i \in 1..Len(b) : b[i] = s
  <2>1. /\ \A i \in 1..Len(b) : \E k \in 1..Len(CLIOnly) : k \in kb /\ b[i] = CLIOnly[k]
        /\ \A k \in 1..Len(CLIOnly) : k \in kb => \E i \in 1..Len(b) : b[i] = CLIOnly[k]
        /\ b \in Seq(SectionNames)
      BY <1>8 DEF Keeps
  <2>2. \A k \in 1..Len(CLIOnly) : /\ k \in kb <=> CLIOnly[k] \in D
                                   /\ CLIOnly[k] \in CLINames
      BY <1>3, <1>11, ListsAre
  <2>3. \A s \in CLINames : \E k \in 1..Len(CLIOnly) : CLIOnly[k] = s
      BY ListsAre
  <2>4. \A i \in 1..Len(b) : b[i] \in D \cap CLINames
      BY <2>1, <2>2
  <2>5. \A s \in D \cap CLINames : \E i \in 1..Len(b) : b[i] = s
      BY <2>1, <2>2, <2>3
  <2>6. QED BY <2>1, <2>4, <2>5
<1>14. PICK m \in Nat : m = Len(a)
    BY <1>12, LenProperties
<1>15. PICK n \in Nat : n = Len(b)
    BY <1>13, LenProperties
<1>16. /\ names \in Seq(SectionNames) /\ Len(names) = m + n
       /\ \A i \in 1..m + n : names[i] = IF i <= m THEN a[i] ELSE b[i - m]
    BY <1>6, <1>12, <1>13, <1>14, <1>15, ConcatProperties
<1>17. ASSUME NEW i \in 1..m + n
       PROVE  \/ i \in 1..m /\ names[i] = a[i]
              \/ i - m \in 1..n /\ names[i] = b[i - m] /\ i > m
    BY <1>16
<1>18. \A i \in 1..m + n : names[i] \in D
    BY <1>12, <1>13, <1>14, <1>15, <1>17
<1>19. ASSUME NEW s \in D PROVE \E i \in 1..m + n : names[i] = s
  <2>1. CASE s \notin CLINames
    <3>1. PICK i \in 1..m : a[i] = s
        BY <1>12, <1>14, <1>19, <2>1
    <3>2. i \in 1..m + n /\ names[i] = s
        BY <1>16, <3>1
    <3>3. QED BY <3>2
  <2>2. CASE s \in CLINames
    <3>1. PICK i \in 1..n : b[i] = s
        BY <1>13, <1>15, <1>19, <2>2
    <3>2. PICK j : j = i + m
        OBVIOUS
    <3>3. j \in 1..m + n /\ j - m = i /\ ~(j <= m)
        BY <3>2
    <3>4. names[j] = s
        BY <1>16, <3>1, <3>3
    <3>5. QED BY <3>3, <3>4
  <2>3. QED BY <2>1, <2>2
<1>20. ASSUME NEW i \in 1..m + n, NEW j \in 1..m + n, names[i] = names[j] PROVE i = j
  <2>1. CASE i \in 1..m /\ j \in 1..m
      BY <1>9, <1>14, <1>16, <1>20, <2>1
  <2>2. CASE i - m \in 1..n /\ j - m \in 1..n
    <3>1. names[i] = b[i - m] /\ names[j] = b[j - m]
        BY <1>16, <2>2
    <3>2. i - m = j - m
        BY <1>10, <1>15, <1>20, <2>2, <3>1
    <3>3. QED BY <3>2
  <2>3. ASSUME NEW k \in 1..m + n, NEW l \in 1..m + n, k \in 1..m, l - m \in 1..n
        PROVE  names[k] # names[l]
    <3>1. names[k] = a[k] /\ names[l] = b[l - m]
        BY <1>16, <2>3
    <3>2. QED BY <1>12, <1>13, <1>14, <1>15, <2>3, <3>1
  <2>4. QED BY <1>17, <1>20, <2>1, <2>2, <2>3
<1>21. ASSUME NEW i \in 1..m + n, NEW j \in 1..m + n, i < j, names[i] \in CLINames
       PROVE  names[j] \in CLINames
  <2>1. i > m
      BY <1>12, <1>14, <1>17, <1>21
  <2>2. j - m \in 1..n /\ names[j] = b[j - m]
      BY <1>16, <1>21, <2>1
  <2>3. QED BY <1>13, <1>15, <2>2
<1>22. EachOnce(names, D)
    BY <1>16, <1>18, <1>19, <1>20, <1>21 DEF EachOnce
<1>23. QED BY <1>1, <1>7, <1>22

\* The archive a that is made of the document r: what ArchiveIsTheFile says and what
\* OfflineImageIsSelfContained asks of the update seed.
Named(a, n) == {i \in DOMAIN a : a[i].name = n}

ArchiveHolds(r, a) ==
    /\ {a[i].name : i \in DOMAIN a} = DOMAIN r.seeds \cup (IF r.offline THEN {"update"} ELSE {})
    /\ \A n \in DOMAIN r.seeds : \E i \in DOMAIN a :
          /\ Named(a, n) = {i}
          /\ a[i].content.version = SeedVersion(r.seeds[n])
          /\ (n = "update" /\ r.offline) \/ a[i].content.body = r.seeds[n].body
    /\ \A i, j \in DOMAIN a : a[i].name \in CLINames /\ i < j => a[j].name \in CLINames
    /\ r.offline => \E i \in Named(a, "update") :
                       a[i].content.body = "never" /\ a[i].content.version # ""

\* What writeSeedTar gives.
Tar(a, names, s) ==
    a = [i \in DOMAIN names |-> [name |-> names[i], content |-> s[names[i]]]]

(* The archive of a document holds what the document says. *)
LEMMA ArchiveOfDocument ==
    ASSUME NEW r, IsDocument(r), NEW d, d = WithDefaults(r),
           NEW names, names = collectSeedYAML(d.seeds),
           NEW a, Tar(a, names, d.seeds)
    PROVE  ArchiveHolds(r, a)
<1>1. PICK off \in BOOLEAN : off = r.offline
    BY DEF IsDocument
<1>2. PICK D : D = DOMAIN r.seeds
    OBVIOUS
<1>3. PICK s : s = d.seeds
    OBVIOUS
<1>4. PICK E : E = D \cup (IF off THEN {"update"} ELSE {})
    OBVIOUS
<1>5. /\ DOMAIN s = E
      /\ \A n \in D : /\ s[n].version = SeedVersion(r.seeds[n])
                      /\ (n = "update" /\ off) \/ s[n].body = r.seeds[n].body
      /\ off => s["update"].body = "never" /\ s["update"].version # ""
    BY <1>1, <1>2, <1>3, <1>4, DefaultsAre DEF SeedsDefaulted
<1>6. E \subseteq SectionNames
  <2>1. D \subseteq SectionNames
      BY <1>2 DEF IsDocument
  <2>2. QED BY <1>4, <2>1, UpdateIsSection
<1>7. EachOnce(names, E)
    BY <1>3, <1>5, <1>6, SectionsOnce
<1>8. PICK N : N = Len(names) /\ DOMAIN names = 1..N
    BY <1>7, LenProperties DEF EachOnce
<1>9. /\ \A i \in 1..N : names[i] \in E
      /\ \A n \in E : \E i \in 1..N : names[i] = n
      /\ \A i, j \in 1..N : names[i] = names[j] => i = j
      /\ \A i, j \in 1..N : i < j /\ names[i] \in CLINames => names[j] \in CLINames
    BY <1>7, <1>8 DEF EachOnce
<1>10. /\ DOMAIN a = 1..N
       /\ \A i \in 1..N : a[i].name = names[i] /\ a[i].content = s[names[i]]
    BY <1>3, <1>8 DEF Tar
<1>11. \A n \in E : \E i \in 1..N : Named(a, n) = {i} /\ names[i] = n
    BY <1>9, <1>10 DEF Named
<1>12. {a[i].name : i \in DOMAIN a} = E
    BY <1>9, <1>10
<1>13. ASSUME NEW n \in D
       PROVE  \E i \in DOMAIN a :
                 /\ Named(a, n) = {i}
                 /\ a[i].content.version = SeedVersion(r.seeds[n])
                 /\ (n = "update" /\ off) \/ a[i].content.body = r.seeds[n].body
  <2>1. PICK i \in 1..N : Named(a, n) = {i} /\ names[i] = n
      BY <1>4, <1>11
  <2>2. a[i].content = s[n] /\ i \in DOMAIN a
      BY <1>10, <2>1
  <2>3. /\ s[n].version = SeedVersion(r.seeds[n])
        /\ (n = "update" /\ off) \/ s[n].body = r.seeds[n].body
      BY <1>5
  <2>4. /\ a[i].content.version = SeedVersion(r.seeds[n])
        /\ (n = "update" /\ off) \/ a[i].content.body = r.seeds[n].body
      BY <2>2, <2>3
  <2>5. QED BY <2>1, <2>2, <2>4, Zenon
<1>14. off => \E i \in Named(a, "update") :
                 a[i].content.body = "never" /\ a[i].content.version # ""
  <2>1. SUFFICES ASSUME off
                 PROVE  \E i \in Named(a, "update") :
                           a[i].content.body = "never" /\ a[i].content.version # ""
      OBVIOUS
  <2>2. PICK i \in 1..N : Named(a, "update") = {i} /\ names[i] = "update"
      BY <1>4, <1>11, <2>1
  <2>3. a[i].content = s["update"]
      BY <1>10, <2>2
  <2>4. QED BY <1>5, <2>1, <2>2, <2>3
<1>15. \A i, j \in DOMAIN a : a[i].name \in CLINames /\ i < j => a[j].name \in CLINames
    BY <1>9, <1>10
<1>16. QED BY <1>1, <1>2, <1>4, <1>12, <1>13, <1>14, <1>15 DEF ArchiveHolds

(* It meets the properties, if nothing was wrong with the document. *)
LEMMA ArchiveIsSound ==
    ASSUME DocumentOfFile, pc = "render", Wrong(raw) = {},
           archive' = writeSeedTar(collectSeedYAML(doc.seeds)), raw' = raw
    PROVE  OfflineImageIsSelfContained' /\ ArchiveIsTheFile'
<1>1. IsDocument(raw) /\ doc = WithDefaults(raw)
    BY ConfigAssumption DEF DocumentOfFile
<1>2. ArchiveHolds(raw, archive')
  <2>1. PICK names : names = collectSeedYAML(doc.seeds)
      OBVIOUS
  <2>2. Tar(archive', names, doc.seeds)
      BY <2>1 DEF writeSeedTar, Tar
  <2>3. QED BY <1>1, <2>1, <2>2, ArchiveOfDocument
<1>3. PICK a : a = archive'
    OBVIOUS
<1>4. PICK r : r = raw
    OBVIOUS
<1>5. ArchiveHolds(r, a) /\ raw' = r
    BY <1>2, <1>3, <1>4
<1>6. \A n : Entry(n)' = Named(a, n)
    BY <1>3 DEF Entry, Named
<1>7. ArchiveIsTheFile'
  <2>1. ArchiveHolds(raw', archive') /\ \A n : Entry(n)' = Named(archive', n)
      BY <1>3, <1>5, <1>6
  <2>2. (\A n \in DOMAIN raw.seeds : \E i \in DOMAIN archive :
            /\ Entry(n) = {i}
            /\ archive[i].content.version =
                   IF raw.seeds[n].version = "" THEN "1" ELSE raw.seeds[n].version
            /\ (n = "update" /\ raw.offline) \/ archive[i].content.body = raw.seeds[n].body)'
      BY <2>1, Zenon DEF ArchiveHolds, SeedVersion
  <2>3. (/\ {archive[i].name : i \in DOMAIN archive} =
               DOMAIN raw.seeds \cup (IF raw.offline THEN {"update"} ELSE {})
         /\ \A i, j \in DOMAIN archive :
               archive[i].name \in {"kernel", "security"} /\ i < j
                   => archive[j].name \in {"kernel", "security"})'
      BY <2>1 DEF ArchiveHolds, CLINames
  <2>4. QED BY <2>2, <2>3 DEF ArchiveIsTheFile
<1>8. OfflineImageIsSelfContained'
  <2>1. SUFFICES ASSUME r.offline
                 PROVE  /\ \E i \in Named(a, "update") :
                              a[i].content.body = "never" /\ a[i].content.version # ""
                        /\ \E i \in Named(a, "applications") : a[i].content.body # "no application"
      BY <1>3, <1>5, <1>6 DEF OfflineImageIsSelfContained, checkFrequencyNever
  <2>2. \E i \in Named(a, "update") : a[i].content.body = "never" /\ a[i].content.version # ""
      BY <1>5, <2>1 DEF ArchiveHolds
  <2>3. /\ "applications" \in DOMAIN r.seeds
        /\ SectionIn(r, "applications", STRING \ {"no application"})
      BY <1>4, <2>1 DEF Wrong
  <2>4. r.seeds["applications"].body # "no application"
      BY <2>3 DEF SectionIn
  <2>5. PICK i \in DOMAIN a : /\ Named(a, "applications") = {i}
                              /\ a[i].content.body = r.seeds["applications"].body
    <3>1. "applications" # "update"
        OBVIOUS
    <3>2. QED BY <1>5, <2>3, <3>1 DEF ArchiveHolds
  <2>6. QED BY <2>2, <2>4, <2>5
<1>9. QED BY <1>7, <1>8

-----------------------------------------------------------------------------
(* The steps of reading a file.                                             *)

ReadingSteps == {"read", "sops", "decrypt", "decode", "version", "defaults", "validate", "render"}

(* A step that fails with a message that tells nothing, or names what is wrong. *)
LEMMA FailKeeps ==
    ASSUME ConfigInv, pc \in ReadingSteps,
           NEW class \in {"config", "decrypt", "general"}, NEW says, NEW from,
           class = "decrypt" <=> pc = "decrypt", class = "general" <=> pc = "render",
           \A s \in says : ToldBy(s, from),
           pc \in {"version", "validate"} => Wrong(raw) # {} /\ says \subseteq Wrong(raw),
           FailFrom(class, says, from)
    PROVE  ConfigInv'
<1>1. /\ pc' = "failed" /\ UNCHANGED <<sops, raw, doc, archive>>
      /\ failure' = [class |-> class, at |-> pc, says |-> says, from |-> from]
    BY DEF FailFrom
<1>2. failure'.class = class /\ failure'.at = pc /\ failure'.says = says
      /\ failure'.from = from
    BY <1>1
<1>3. TypeOK /\ DocumentOfFile /\ pc # "done" /\ pc # "none"
    BY DEF ConfigInv, ImageIsAsConfigured, ReadingSteps
<1>4. archive = <<>>
    BY <1>3 DEF DocumentOfFile
<1>5. TypeOK'
    BY <1>1, <1>2, <1>3, <1>4 DEF TypeOK
<1>6. OfflineImageIsSelfContained' /\ ArchiveIsTheFile'
    BY <1>1 DEF OfflineImageIsSelfContained, ArchiveIsTheFile
<1>7. SentinelOfStage' /\ OnlyUnquotedIsTold'
  <2>1. SentinelOfStage'
      BY <1>1, <1>2, <1>3 DEF SentinelOfStage, DocumentOfFile
  <2>2. \A s \in says : HasValue(s) => ~TellsNothing(s)
      BY DEF HasValue, TellsNothing
  <2>3. OnlyUnquotedIsTold'
      BY <1>2, <2>2 DEF OnlyUnquotedIsTold, ToldBy
  <2>4. QED BY <2>1, <2>3
<1>8. RefusalNamesTheFault'
  <2>1. Wrong(raw)' = Wrong(raw')
      BY DEF Wrong, SectionIn
  <2>2. raw' = raw
      BY <1>1
  <2>3. QED BY <1>1, <1>2, <2>1, <2>2 DEF RefusalNamesTheFault
<1>9. DocumentOfFile'
    BY <1>1, <1>2, <1>3, <1>4 DEF DocumentOfFile
<1>10. QED
    BY <1>5, <1>6, <1>7, <1>8, <1>9 DEF ConfigInv, ImageIsAsConfigured, RefusalTellsFieldOnly

(* A step that goes on to the next, up to the renderer. *)
LEMMA GoesOn ==
    ASSUME ConfigInv, pc' \in ReadingSteps, pc \in ReadingSteps,
           sops' \in BOOLEAN, UNCHANGED <<archive, failure>>,
           raw' \in Documents \cup {NoDocument}, DOMAIN doc'.seeds \subseteq SectionNames,
           pc' = "render" => Wrong(raw') = {}, pc' = "decrypt" => sops',
           pc' \in {"version", "defaults", "validate", "render"} => raw' \in Documents,
           pc' \in {"version", "defaults"} => doc' = raw',
           pc' \in {"validate", "render"} => doc' = WithDefaults(raw'),
           pc' \in {"defaults", "validate", "render"} => raw'.version = 1
    PROVE  ConfigInv'
<1>1. /\ TypeOK /\ DocumentOfFile /\ RefusalNamesTheFault
      /\ SentinelOfStage /\ OnlyUnquotedIsTold
      /\ pc' # "done" /\ pc' # "failed" /\ pc # "done" /\ pc # "failed"
    BY DEF ConfigInv, ImageIsAsConfigured, RefusalTellsFieldOnly, ReadingSteps
<1>2. archive = <<>> /\ failure.at = "none"
    BY <1>1 DEF DocumentOfFile
<1>3. TypeOK'
    BY <1>1 DEF TypeOK, ReadingSteps
<1>4. OfflineImageIsSelfContained' /\ ArchiveIsTheFile'
    BY <1>1 DEF OfflineImageIsSelfContained, ArchiveIsTheFile
<1>5. SentinelOfStage' /\ OnlyUnquotedIsTold'
    BY <1>1, <1>2 DEF SentinelOfStage, OnlyUnquotedIsTold, DocumentOfFile, TypeOK
<1>6. RefusalNamesTheFault'
  <2>1. Wrong(raw)' = Wrong(raw')
      BY DEF Wrong, SectionIn
  <2>2. QED BY <1>1, <1>2, <2>1 DEF RefusalNamesTheFault
<1>7. DocumentOfFile'
  <2>1. WithDefaults(raw)' = WithDefaults(raw')
      BY DEF WithDefaults, neverUpdate, defaultSeedVersions, setDefaultVersion
  <2>2. QED BY <1>1, <1>2, <2>1 DEF DocumentOfFile, currentSchemaVersion
<1>8. QED
    BY <1>3, <1>4, <1>5, <1>6, <1>7 DEF ConfigInv, ImageIsAsConfigured, RefusalTellsFieldOnly

(* The one message of a library. *)
LEMMA LibraryTells ==
    ASSUME NEW m \in Messages PROVE \A s \in {sanitizeYAMLMessage(m)} : ToldBy(s, {m})
<1>1. m \in Seq(STRING)
    BY ConfigAssumption
<1>2. QED BY <1>1, DiagnosticTells

(* A word that is no value. *)
LEMMA WordTellsNothing ==
    ASSUME NEW w, w # "value" PROVE TellsNothing(<<w>>)
BY DEF TellsNothing

(* The name of a field is no value. *)
LEMMA WrongTellsNothing ==
    ASSUME NEW d PROVE \A p \in Wrong(d) : TellsNothing(p)
<1>1. TellsNothing(<<"version">>)
    BY WordTellsNothing
<1>2. \A a, b : a # "value" /\ b # "value" => TellsNothing(<<a, b>>)
    BY DEF TellsNothing
<1>3. \A a, b, c : a # "value" /\ b # "value" /\ c # "value" => TellsNothing(<<a, b, c>>)
    BY DEF TellsNothing
<1>4. \A a, b, c, e : a # "value" /\ b # "value" /\ c # "value" /\ e # "value"
                          => TellsNothing(<<a, b, c, e>>)
    BY DEF TellsNothing
<1>5. /\ TellsNothing(<<"image", "type">>) /\ TellsNothing(<<"image", "architecture">>)
      /\ TellsNothing(<<"seeds", "applications">>)
      /\ TellsNothing(<<"seeds", "security", "encryption_recovery_keys">>)
      /\ TellsNothing(<<"seeds", "install", "target", "sort_order">>)
    BY <1>2, <1>3, <1>4
<1>6. \A p \in Wrong(d) :
         p \in {<<"version">>, <<"image", "type">>, <<"image", "architecture">>,
                <<"seeds", "install", "target", "sort_order">>,
                <<"seeds", "security", "encryption_recovery_keys">>,
                <<"seeds", "applications">>}
    BY DEF Wrong
<1>7. QED BY <1>1, <1>5, <1>6

LEMMA readConfigKeeps ==
    ASSUME ConfigInv, readConfig PROVE ConfigInv'
<1>1. pc = "read" /\ TypeOK
    BY DEF readConfig, ConfigInv, ImageIsAsConfigured
<1>2. CASE pc' = "sops" /\ UNCHANGED <<sops, raw, doc, archive, failure>>
    BY <1>1, <1>2, GoesOn DEF TypeOK, ReadingSteps
<1>3. CASE Fail("config", {<<"text">>})
  <2>1. \A m \in {<<"text">>} : ToldBy(m, {})
      BY WordTellsNothing DEF ToldBy
  <2>2. QED BY <1>1, <1>3, <2>1, FailKeeps DEF Fail, ReadingSteps
<1>4. QED BY <1>2, <1>3 DEF readConfig

LEMMA hasTopLevelSOPSKeeps ==
    ASSUME ConfigInv, hasTopLevelSOPS PROVE ConfigInv'
<1>1. pc = "sops" /\ TypeOK
    BY DEF hasTopLevelSOPS, ConfigInv, ImageIsAsConfigured
<1>2. CASE /\ sops' \in BOOLEAN
           /\ pc' = IF sops' THEN "decrypt" ELSE "decode"
           /\ UNCHANGED <<raw, doc, archive, failure>>
    BY <1>1, <1>2, GoesOn DEF TypeOK, ReadingSteps
<1>3. CASE \E m \in Messages : FailWith("config", m)
    BY <1>1, <1>3, FailKeeps, LibraryTells DEF FailWith, ReadingSteps
<1>4. QED BY <1>2, <1>3 DEF hasTopLevelSOPS

LEMMA DecryptKeeps ==
    ASSUME ConfigInv, Decrypt PROVE ConfigInv'
<1>1. pc = "decrypt" /\ TypeOK
    BY DEF Decrypt, ConfigInv, ImageIsAsConfigured
<1>2. CASE pc' = "decode" /\ UNCHANGED <<sops, raw, doc, archive, failure>>
    BY <1>1, <1>2, GoesOn DEF TypeOK, ReadingSteps
<1>3. CASE \E m \in Messages : FailWith("decrypt", m)
    BY <1>1, <1>3, FailKeeps, LibraryTells DEF FailWith, ReadingSteps
<1>4. QED BY <1>2, <1>3 DEF Decrypt

LEMMA DecodeKeeps ==
    ASSUME ConfigInv, Decode PROVE ConfigInv'
<1>1. pc = "decode" /\ TypeOK
    BY DEF Decode, ConfigInv, ImageIsAsConfigured
<1>2. CASE /\ doc' \in Documents /\ raw' = doc' /\ pc' = "version"
           /\ UNCHANGED <<sops, archive, failure>>
  <2>1. DOMAIN doc'.seeds \subseteq SectionNames
      BY <1>2, ConfigAssumption DEF IsDocument
  <2>2. QED BY <1>1, <1>2, <2>1, GoesOn DEF TypeOK, ReadingSteps
<1>3. ASSUME NEW ds \in Diagnostics, NEW from,
             from = {ds[i].message : i \in {j \in DOMAIN ds : ~ds[j].unknown}},
             FailFrom("config", {formatLoadError(ds[i]) : i \in DOMAIN ds}, from)
      PROVE  ConfigInv'
  <2>1. \A i \in DOMAIN ds : ~ds[i].unknown => ds[i].message \in from
      BY <1>3
  <2>2. \A m \in {formatLoadError(ds[i]) : i \in DOMAIN ds} : ToldBy(m, from)
      BY <2>1, ComplaintTells
  <2>3. QED BY <1>1, <1>3, <2>2, FailKeeps DEF ReadingSteps
<1>4. QED BY <1>2, <1>3 DEF Decode

LEMMA checkVersionKeeps ==
    ASSUME ConfigInv, checkVersion PROVE ConfigInv'
<1>1. pc = "version" /\ TypeOK /\ raw \in Documents /\ doc = raw
    BY DEF checkVersion, ConfigInv, ImageIsAsConfigured, DocumentOfFile
<1>2. CASE /\ doc.version = 1
           /\ pc' = "defaults" /\ UNCHANGED <<sops, raw, doc, archive, failure>>
    BY <1>1, <1>2, GoesOn DEF TypeOK, ReadingSteps
<1>3. CASE doc.version # 1 /\ Fail("config", {<<"version">>})
  <2>1. <<"version">> \in Wrong(raw)
      BY <1>1, <1>3 DEF Wrong
  <2>2. \A m \in {<<"version">>} : ToldBy(m, {})
      BY WordTellsNothing DEF ToldBy
  <2>3. QED BY <1>1, <1>3, <2>1, <2>2, FailKeeps DEF Fail, ReadingSteps
<1>4. QED BY <1>2, <1>3 DEF checkVersion, currentSchemaVersion

LEMMA applyDefaultsKeeps ==
    ASSUME ConfigInv, applyDefaults PROVE ConfigInv'
<1>1. /\ pc = "defaults" /\ TypeOK /\ raw \in Documents /\ doc = raw /\ raw.version = 1
      /\ DOMAIN doc.seeds \subseteq SectionNames
    BY DEF applyDefaults, ConfigInv, ImageIsAsConfigured, DocumentOfFile,
           currentSchemaVersion, TypeOK
<1>2. pc' = "validate" /\ doc' = WithDefaults(raw) /\ UNCHANGED <<sops, raw, archive, failure>>
    BY <1>1 DEF applyDefaults
<1>3. DOMAIN doc'.seeds \subseteq SectionNames
  <2>1. IsDocument(raw)
      BY <1>1, ConfigAssumption
  <2>2. DOMAIN doc'.seeds \subseteq DOMAIN raw.seeds \cup {"update"}
      BY <1>2, <2>1, DefaultsAre DEF SeedsDefaulted
  <2>3. QED BY <1>1, <2>2, UpdateIsSection
<1>4. QED BY <1>1, <1>2, <1>3, GoesOn DEF TypeOK, ReadingSteps

LEMMA validateKeeps ==
    ASSUME ConfigInv, validate PROVE ConfigInv'
<1>1. /\ pc = "validate" /\ TypeOK /\ raw \in Documents /\ doc = WithDefaults(raw)
      /\ raw.version = 1
    BY DEF validate, ConfigInv, ImageIsAsConfigured, DocumentOfFile, currentSchemaVersion
<1>2. PICK f : f = Fault(doc)
    OBVIOUS
<1>3. IF f = <<>> THEN Wrong(raw) = {} ELSE f \in Wrong(raw)
    BY <1>1, <1>2, ConfigAssumption, FaultIsWrong
<1>4. CASE f = <<>> /\ pc' = "render" /\ doc' = spec(doc)
           /\ UNCHANGED <<sops, raw, archive, failure>>
  <2>1. doc' = WithDefaults(raw)
      BY <1>1, <1>4, ConfigAssumption, SpecIsAll
  <2>2. DOMAIN doc'.seeds \subseteq SectionNames
      BY <1>1, <2>1 DEF TypeOK
  <2>3. QED BY <1>1, <1>3, <1>4, <2>1, <2>2, GoesOn DEF TypeOK, ReadingSteps
<1>5. CASE f # <<>> /\ Fail("config", {f})
  <2>1. \A m \in {f} : ToldBy(m, {})
      BY <1>3, <1>5, WrongTellsNothing DEF ToldBy
  <2>2. QED BY <1>1, <1>3, <1>5, <2>1, FailKeeps DEF Fail, ReadingSteps
<1>6. QED BY <1>2, <1>4, <1>5 DEF validate

LEMMA RenderKeeps ==
    ASSUME ConfigInv, Render PROVE ConfigInv'
<1>1. /\ pc = "render" /\ TypeOK /\ DocumentOfFile /\ RefusalNamesTheFault
      /\ SentinelOfStage /\ OnlyUnquotedIsTold
      /\ Wrong(raw) = {} /\ failure.at = "none"
    BY DEF Render, ConfigInv, ImageIsAsConfigured, RefusalTellsFieldOnly,
           DocumentOfFile, RefusalNamesTheFault
<1>2. CASE Fail("general", {<<"text">>})
  <2>1. \A m \in {<<"text">>} : ToldBy(m, {})
      BY WordTellsNothing DEF ToldBy
  <2>2. QED BY <1>1, <1>2, <2>1, FailKeeps DEF Fail, ReadingSteps
<1>3. CASE /\ archive' = writeSeedTar(collectSeedYAML(doc.seeds))
           /\ pc' = "done" /\ UNCHANGED <<sops, raw, doc, failure>>
  <2>1. OfflineImageIsSelfContained' /\ ArchiveIsTheFile'
      BY <1>1, <1>3, ArchiveIsSound
  <2>2. TypeOK'
      BY <1>1, <1>3 DEF TypeOK, DocumentOfFile
  <2>3. RefusalNamesTheFault'
    <3>1. Wrong(raw)' = Wrong(raw')
        BY DEF Wrong, SectionIn
    <3>2. QED BY <1>1, <1>3, <3>1 DEF RefusalNamesTheFault
  <2>4. SentinelOfStage' /\ OnlyUnquotedIsTold'
      BY <1>1, <1>3 DEF SentinelOfStage, OnlyUnquotedIsTold
  <2>5. DocumentOfFile'
    <3>1. WithDefaults(raw)' = WithDefaults(raw')
        BY DEF WithDefaults, neverUpdate, defaultSeedVersions, setDefaultVersion
    <3>2. writeSeedTar(collectSeedYAML(doc.seeds))' = archive'
      <4>1. collectSeedYAML(doc.seeds)' = collectSeedYAML(doc'.seeds)
          BY DEF collectSeedYAML, appendCustomizerSeeds, appendCLISeeds, appendIfPresent
      <4>2. doc' = doc
          BY <1>3
      <4>3. collectSeedYAML(doc.seeds)' = collectSeedYAML(doc.seeds)
          BY <4>1, <4>2
      <4>4. QED BY <1>3, <4>2, <4>3 DEF writeSeedTar
    <3>3. QED BY <1>1, <1>3, <3>1, <3>2 DEF DocumentOfFile
  <2>6. QED
      BY <2>1, <2>2, <2>3, <2>4, <2>5 DEF ConfigInv, ImageIsAsConfigured, RefusalTellsFieldOnly
<1>4. QED BY <1>2, <1>3 DEF Render

(* No file has been read, and nobody reads. *)
LEMMA ReadingStarts ==
    ASSUME Init PROVE ConfigInv
<1>1. /\ pc = "read" /\ sops = FALSE /\ raw = NoDocument /\ doc = NoDocument
      /\ archive = <<>>
    BY DEF Init
<1>2. failure.class = "none" /\ failure.at = "none" /\ failure.says = {}
    BY DEF Init
<1>3. DOMAIN doc.seeds = {}
  <2>1. PICK s : s = <<>>
      OBVIOUS
  <2>2. doc.seeds = s
      BY <1>1, <2>1 DEF NoDocument
  <2>3. DOMAIN s = {}
      BY <2>1
  <2>4. QED BY <2>2, <2>3
<1>4. TypeOK
    BY <1>1, <1>2, <1>3 DEF TypeOK
<1>5. OfflineImageIsSelfContained /\ ArchiveIsTheFile
    BY <1>1 DEF OfflineImageIsSelfContained, ArchiveIsTheFile
<1>6. RefusalTellsFieldOnly
    BY <1>1, <1>2 DEF RefusalTellsFieldOnly, RefusalNamesTheFault,
           SentinelOfStage, OnlyUnquotedIsTold
<1>7. DocumentOfFile
    BY <1>1, <1>2 DEF DocumentOfFile
<1>8. QED BY <1>4, <1>5, <1>6, <1>7 DEF ConfigInv, ImageIsAsConfigured

LEMMA ReadingStutters ==
    ASSUME ConfigInv, UNCHANGED vars PROVE ConfigInv'
<1>1. UNCHANGED <<pc, sops, raw, doc, archive, failure>>
    BY DEF vars
<1>2. TypeOK'
    BY <1>1 DEF ConfigInv, ImageIsAsConfigured, TypeOK
<1>3. OfflineImageIsSelfContained'
    BY <1>1 DEF ConfigInv, ImageIsAsConfigured, OfflineImageIsSelfContained, Entry
<1>4. ArchiveIsTheFile'
  <2>1. \A n : Entry(n)' = Entry(n)
      BY <1>1 DEF Entry
  <2>2. ArchiveIsTheFile
      BY DEF ConfigInv, ImageIsAsConfigured
  <2>3. QED BY <1>1, <2>1, <2>2 DEF ArchiveIsTheFile
<1>5. RefusalTellsFieldOnly'
  <2>1. Wrong(raw)' = Wrong(raw')
      BY DEF Wrong, SectionIn
  <2>2. RefusalTellsFieldOnly
      BY DEF ConfigInv
  <2>3. QED
      BY <1>1, <2>1, <2>2 DEF RefusalTellsFieldOnly, RefusalNamesTheFault,
                             SentinelOfStage, OnlyUnquotedIsTold
<1>6. DocumentOfFile'
    BY <1>1 DEF ConfigInv, DocumentOfFile, WithDefaults, neverUpdate, defaultSeedVersions,
                setDefaultVersion, writeSeedTar, collectSeedYAML, appendCustomizerSeeds,
                appendCLISeeds, appendIfPresent
<1>7. QED BY <1>2, <1>3, <1>4, <1>5, <1>6 DEF ConfigInv, ImageIsAsConfigured

Readers == {"version", "defaults", "validate", "render", "done"}

(* Every step of a reader keeps the invariant of reading. *)
LEMMA ParsesKeep ==
    ASSUME ConfigInv, Parses PROVE ConfigInv'
BY readConfigKeeps, hasTopLevelSOPSKeeps, DecryptKeeps, DecodeKeeps, checkVersionKeeps,
   applyDefaultsKeeps, validateKeeps, RenderKeeps DEF Parses

-----------------------------------------------------------------------------
(* What init writes and build reads.                                        *)

\* What a configuration of init is.
WrittenFor(d, a) ==
    /\ d.version = 1 /\ d.channel = a.channel
    /\ d.type = (IF a.type = "1" THEN "iso" ELSE "raw")
    /\ d.arch = (IF a.arch = "1" THEN "x86_64" ELSE "aarch64")
    /\ d.offline = (a.offline = "y")
    /\ DOMAIN d.seeds = IF a.offline = "y" THEN {"applications"} ELSE {}
    /\ a.offline = "y" => d.seeds["applications"].body = a.application

LEMMA WrittenIs == WrittenFor(Written, answers)
<1>1. PICK s : s = P!writeOfflineApplicationSeed(answers)
    OBVIOUS
<1>2. PICK b : b = [version |-> "", body |-> answers.application]
    OBVIOUS
<1>3. b.body = answers.application
    BY <1>2
<1>4. PICK D : D = IF answers.offline = "y" THEN {"applications"} ELSE {}
    OBVIOUS
<1>5. D = {"applications"} \ (IF answers.offline = "y" THEN {} ELSE {"applications"})
    BY <1>4
<1>6. s = [n \in D |-> b]
    BY <1>1, <1>2, <1>5 DEF P!writeOfflineApplicationSeed
<1>7. DOMAIN s = D /\ (answers.offline = "y" => s["applications"] = b)
    BY <1>4, <1>6
<1>8. PICK w : w = Written
    OBVIOUS
<1>9. /\ w.version = 1 /\ w.channel = answers.channel /\ w.seeds = s
      /\ w.type = (IF answers.type = "1" THEN "iso" ELSE "raw")
      /\ w.arch = (IF answers.arch = "1" THEN "x86_64" ELSE "aarch64")
      /\ w.offline = (answers.offline = "y")
    BY <1>1, <1>8 DEF Written, P!renderInitConfig
<1>10. WrittenFor(w, answers)
    BY <1>3, <1>4, <1>7, <1>9 DEF WrittenFor
<1>11. QED BY <1>8, <1>10

(* Nothing is wrong with it. *)
LEMMA WrittenIsRight ==
    ASSUME answers \in P!LegalAnswers, NEW d, d = Written, IsDocument(d)
    PROVE  Wrong(d) = {}
<1>1. WrittenFor(d, answers)
    BY WrittenIs
<1>2. PICK a \in P!LegalAnswers : a = answers
    OBVIOUS
<1>3. WrittenFor(d, a)
    BY <1>1, <1>2
<1>4. d.version = 1 /\ d.type \in {"iso", "raw"} /\ d.arch \in {"x86_64", "aarch64"}
    BY <1>3 DEF WrittenFor
<1>5. SectionIn(d, "install", {"no target", "", "smallest", "Largest"})
      /\ SectionIn(d, "security", STRING \ {"recovery keys"})
  <2>1. "install" \notin DOMAIN d.seeds /\ "security" \notin DOMAIN d.seeds
      BY <1>3 DEF WrittenFor
  <2>2. QED BY <2>1 DEF SectionIn
<1>6. d.offline => /\ "applications" \in DOMAIN d.seeds
                   /\ SectionIn(d, "applications", STRING \ {"no application"})
  <2>1. SUFFICES ASSUME d.offline
                 PROVE  /\ "applications" \in DOMAIN d.seeds
                        /\ SectionIn(d, "applications", STRING \ {"no application"})
      OBVIOUS
  <2>2. a.offline = "y"
      BY <1>3, <2>1 DEF WrittenFor
  <2>3. "applications" \in DOMAIN d.seeds /\ d.seeds["applications"].body = a.application
      BY <1>3, <2>2 DEF WrittenFor
  <2>4. d.seeds["applications"].body \in STRING
      BY <2>3 DEF IsDocument, SeedSections
  <2>5. a.application # "no application"
      BY <1>2 DEF P!LegalAnswers, P!Lines
  <2>6. QED BY <2>3, <2>4, <2>5 DEF SectionIn
<1>7. QED BY <1>4, <1>5, <1>6 DEF Wrong

(* A step of the reader of what init wrote. *)
LEMMA ReadsWhatIsWritten ==
    ASSUME P!PromptInv, ConfigInv, FileIsWritten, author # "hand",
           Parses, FileOfInit, UNCHANGED <<promptVars, author>>
    PROVE  FileIsWritten'
<1>1. /\ ~sops /\ pc # "decrypt"
      /\ pc \in Readers => raw = Written
    BY DEF FileIsWritten, Readers
<1>2. answers \in P!LegalAnswers /\ answers' = answers /\ author' = author
    BY DEF P!PromptInv, P!LinesBecomeAnswers, P!TypeOK, promptVars
<1>3. Written' = Written
    BY <1>2 DEF Written, P!renderInitConfig, P!writeOfflineApplicationSeed
<1>4. /\ ~sops' /\ (pc' = "version" => raw' = Written)
      /\ failure'.at \in {"sops", "decode"} => answers.channel = "wild"
    BY DEF FileOfInit
<1>5. /\ \A c, s, d : FailFrom(c, s, d) => pc' = "failed" /\ failure'.at = pc
      /\ \A c, s : Fail(c, s) => pc' = "failed" /\ failure'.at = pc
      /\ \A c, m : FailWith(c, m) => pc' = "failed" /\ failure'.at = pc
  <2>1. ASSUME NEW c, NEW s, NEW d, FailFrom(c, s, d)
        PROVE  pc' = "failed" /\ failure'.at = pc
    <3>1. PICK f : f = [class |-> c, at |-> pc, says |-> s, from |-> d]
        OBVIOUS
    <3>2. f.at = pc
        BY <3>1
    <3>3. QED BY <2>1, <3>1, <3>2 DEF FailFrom
  <2>2. QED BY <2>1 DEF Fail, FailWith
<1> DEFINE Fails == pc' = "failed" /\ failure'.at = pc
           Goes(p, q) == pc = p /\ pc' = q /\ UNCHANGED raw
<1>6. \/ Fails /\ pc \in {"read", "sops", "decrypt", "decode", "render"}
      \/ Fails /\ pc = "version" /\ doc.version # 1
      \/ Fails /\ pc = "validate" /\ Fault(doc) # <<>>
      \/ Goes("read", "sops") \/ Goes("sops", "decode") \/ Goes("decrypt", "decode")
      \/ pc' = "version"
      \/ Goes("version", "defaults") \/ Goes("defaults", "validate")
      \/ Goes("validate", "render") \/ Goes("render", "done")
  <2>1. CASE readConfig
      BY <1>5, <2>1 DEF readConfig
  <2>2. CASE hasTopLevelSOPS
      BY <1>4, <1>5, <2>2 DEF hasTopLevelSOPS
  <2>3. CASE Decrypt
      BY <1>5, <2>3 DEF Decrypt
  <2>4. CASE Decode
      BY <1>5, <2>4 DEF Decode
  <2>5. CASE checkVersion
      BY <1>5, <2>5 DEF checkVersion, currentSchemaVersion
  <2>6. CASE applyDefaults
      BY <2>6 DEF applyDefaults
  <2>7. CASE validate
      BY <1>5, <2>7 DEF validate
  <2>8. CASE Render
      BY <1>5, <2>8 DEF Render
  <2>9. QED BY <2>1, <2>2, <2>3, <2>4, <2>5, <2>6, <2>7, <2>8 DEF Parses
<1>7. ~(pc = "version" /\ doc.version # 1)
  <2>1. pc = "version" => doc = Written
      BY <1>1 DEF ConfigInv, DocumentOfFile, Readers
  <2>2. QED BY <2>1, WrittenIs DEF WrittenFor
<1>8. ~(pc = "validate" /\ Fault(doc) # <<>>)
  <2>1. SUFFICES ASSUME pc = "validate" PROVE Fault(doc) = <<>>
      OBVIOUS
  <2>2. raw = Written /\ raw \in Documents /\ doc = WithDefaults(raw) /\ raw.version = 1
      BY <1>1, <2>1 DEF ConfigInv, DocumentOfFile, Readers, currentSchemaVersion
  <2>3. IsDocument(raw)
      BY <2>2, ConfigAssumption
  <2>4. Wrong(raw) = {}
      BY <1>2, <2>2, <2>3, WrittenIsRight
  <2>5. QED BY <2>2, <2>3, <2>4, FaultIsWrong
<1>9. pc' # "decrypt" /\ (pc' \in Readers => raw' = Written)
    BY <1>1, <1>4, <1>6 DEF Readers
<1>10. ASSUME pc' = "failed"
       PROVE  \/ failure'.at \in {"read", "render"}
              \/ failure'.at \in {"sops", "decode"} /\ answers.channel = "wild"
  <2>1. failure'.at = pc /\ pc \in {"read", "sops", "decode", "render"}
      BY <1>1, <1>6, <1>7, <1>8, <1>10
  <2>2. QED BY <1>4, <2>1
<1>11. QED BY <1>2, <1>3, <1>4, <1>9, <1>10 DEF FileIsWritten, Readers

(* Whoever writes the file, every step keeps what is behind the properties. *)
LEMMA NextKeeps ==
    ASSUME InitConfigInv, [NextBoth]_allVars
    PROVE  InitConfigInv'
<1>1. P!PromptInv /\ ConfigInv /\ FileIsWritten
    BY DEF InitConfigInv
<1>2. CASE AskSteps
  <2>1. pc = "read" /\ UNCHANGED <<vars, author>>
      BY <1>2 DEF AskSteps, Prompts, promptSend, promptClose, promptLine, promptEnd
  <2>2. pc' = pc /\ sops' = sops /\ author' = author
      BY <2>1 DEF vars
  <2>3. FileIsWritten'
      BY <1>1, <2>1, <2>2 DEF FileIsWritten
  <2>4. QED
      BY <1>1, <1>2, <2>1, <2>3, AskStepsKeep, ReadingStutters DEF InitConfigInv
<1>3. CASE Reads
  <2>1. Parses /\ UNCHANGED <<promptVars, author>>
      BY <1>3 DEF Reads
  <2>2. P!PromptInv' /\ ConfigInv'
      BY <1>1, <2>1, PromptStutters, ParsesKeep
  <2>3. CASE author = "hand"
      BY <2>1, <2>2, <2>3 DEF InitConfigInv, FileIsWritten
  <2>4. CASE author # "hand"
    <3>1. FileOfInit
        BY <1>3, <2>4 DEF Reads
    <3>2. QED BY <1>1, <2>1, <2>2, <2>4, <3>1, ReadsWhatIsWritten DEF InitConfigInv
  <2>5. QED BY <2>3, <2>4
<1>4. CASE UNCHANGED allVars
  <2>1. UNCHANGED <<vars, promptVars, author>>
      BY <1>4 DEF allVars
  <2>2. /\ pc' = pc /\ sops' = sops /\ raw' = raw /\ failure' = failure
        /\ answers' = answers /\ author' = author
      BY <2>1 DEF vars, promptVars
  <2>3. Written' = Written
      BY <2>2 DEF Written, P!renderInitConfig, P!writeOfflineApplicationSeed
  <2>4. FileIsWritten'
      BY <1>1, <2>2, <2>3 DEF FileIsWritten
  <2>5. QED BY <1>1, <2>1, <2>4, PromptStutters, ReadingStutters DEF InitConfigInv
<1>5. QED BY <1>2, <1>3, <1>4 DEF NextBoth, Over

(* What is behind the properties holds, for any documents that the schema allows,
   any diagnostics of the libraries, and lines of any number. *)
THEOREM InitConfigInvariant == SpecBoth => []InitConfigInv
<1>1. InitBoth => InitConfigInv
  <2>1. SUFFICES ASSUME InitBoth PROVE InitConfigInv
      OBVIOUS
  <2>2. Init /\ P!newInitLinePrompt
      BY <2>1 DEF InitBoth
  <2>3. FileIsWritten
      BY <2>2 DEF FileIsWritten, Init
  <2>4. QED BY <2>2, <2>3, PromptStarts, ReadingStarts DEF InitConfigInv
<1>2. InitConfigInv /\ [NextBoth]_allVars => InitConfigInv'
    BY NextKeeps
<1>3. QED BY <1>1, <1>2, PTL DEF SpecBoth

(* What was typed is what is asked for, for any number of lines: the goroutine that
   scans and the one that asks pass on every line once and in order, at any
   interleaving with the signal and the end of the input (scanInitLines, line). *)
THEOREM TypedIsAnswered == SpecBoth => []LinesBecomeAnswers
<1>1. InitConfigInv => LinesBecomeAnswers
    BY DEF InitConfigInv, P!PromptInv, LinesBecomeAnswers
<1>2. QED BY <1>1, InitConfigInvariant, PTL

(* The archive of an image is what its file says, for any file: every section once,
   with its own version and body, and an offline image holds an application and never
   asks for updates (applyDefaults, validateOffline, collectSeedYAML). *)
THEOREM ArchiveIsConfigured == SpecBoth => []ImageIsAsConfigured
<1>1. InitConfigInv => ImageIsAsConfigured
    BY DEF InitConfigInv, ConfigInv
<1>2. QED BY <1>1, InitConfigInvariant, PTL

(* A refusal names a field that is wrong in the file as it was written, whatever is
   accepted had nothing wrong, and the sentinel is that of the stage.  An error holds a
   value of the file only if the library that complained did not quote it, or quoted it
   with a mark that it holds: for diagnostics of any length and with any marks, of
   which nothing is assumed (validate, sanitizeYAMLMessage, formatLoadError, Parse). *)
THEOREM RefusalTellsWhatIsWrong == SpecBoth => []RefusalTellsFieldOnly
<1>1. InitConfigInv => RefusalTellsFieldOnly
    BY DEF InitConfigInv, ConfigInv
<1>2. QED BY <1>1, InitConfigInvariant, PTL

(* What init writes is accepted, and the image is the one that was asked for, however
   many lines it took (renderInitConfig, Parse, Render). *)
THEOREM WrittenIsAccepted == SpecBoth => []InitConfigIsAccepted
<1>1. ASSUME InitConfigInv PROVE InitConfigIsAccepted
  <2>1. P!PromptInv /\ ConfigInv /\ FileIsWritten
      BY <1>1 DEF InitConfigInv
  <2>2. SUFFICES ASSUME author # "hand", answers.channel # "wild", pc = "done"
                 PROVE  /\ doc.type = (IF answers.type = "2" THEN "raw" ELSE "iso")
                        /\ doc.arch = (IF answers.arch = "2" THEN "aarch64" ELSE "x86_64")
                        /\ doc.channel = answers.channel
                        /\ {e.name : e \in {archive[i] : i \in DOMAIN archive}} =
                               IF answers.offline = "y" THEN {"applications", "update"} ELSE {}
                        /\ answers.offline = "y" => \E i \in Entry("applications") :
                               archive[i].content.body = answers.application
      BY <2>1 DEF InitConfigIsAccepted, FileIsWritten
  <2>3. PICK a \in P!LegalAnswers : a = answers
      BY <2>1 DEF P!PromptInv, P!LinesBecomeAnswers, P!TypeOK
  <2>4. PICK r : r = raw
      OBVIOUS
  <2>5. WrittenFor(r, a)
      BY <2>1, <2>2, <2>3, <2>4, WrittenIs DEF FileIsWritten
  <2>6. IsDocument(r) /\ doc = WithDefaults(r) /\ ArchiveIsTheFile
      BY <2>1, <2>2, <2>4, ConfigAssumption
      DEF ConfigInv, DocumentOfFile, ImageIsAsConfigured
  <2>7. ImageDefaulted(r, doc)
      BY <2>6, DefaultsAre
  <2>8. a.type \in {"1", "2"} /\ a.arch \in {"1", "2"} /\ a.offline \in {"y", "n"}
        /\ (a.channel = "stable" \/ a.channel # "")
      BY DEF P!LegalAnswers, P!Lines
  <2>9. /\ doc.type = (IF a.type = "2" THEN "raw" ELSE "iso")
        /\ doc.arch = (IF a.arch = "2" THEN "aarch64" ELSE "x86_64")
        /\ doc.channel = a.channel
      BY <2>5, <2>7, <2>8 DEF ImageDefaulted, WrittenFor
  <2>10. {e.name : e \in {archive[i] : i \in DOMAIN archive}} =
             IF a.offline = "y" THEN {"applications", "update"} ELSE {}
    <3>1. {archive[i].name : i \in DOMAIN archive} =
              DOMAIN r.seeds \cup (IF r.offline THEN {"update"} ELSE {})
        BY <2>2, <2>4, <2>6 DEF ArchiveIsTheFile
    <3>2. {e.name : e \in {archive[i] : i \in DOMAIN archive}} =
              {archive[i].name : i \in DOMAIN archive}
        OBVIOUS
    <3>3. QED BY <2>5, <3>1, <3>2 DEF WrittenFor
  <2>11. a.offline = "y" => \E i \in Entry("applications") :
                               archive[i].content.body = a.application
    <3>1. SUFFICES ASSUME a.offline = "y"
                   PROVE  \E i \in Entry("applications") :
                             archive[i].content.body = a.application
        OBVIOUS
    <3>2. "applications" \in DOMAIN r.seeds /\ r.seeds["applications"].body = a.application
        BY <2>5, <3>1 DEF WrittenFor
    <3>3. "applications" # "update"
        OBVIOUS
    <3>4. PICK i \in DOMAIN archive :
             /\ Entry("applications") = {i}
             /\ archive[i].content.body = r.seeds["applications"].body
        BY <2>2, <2>4, <2>6, <3>2, <3>3 DEF ArchiveIsTheFile
    <3>5. QED BY <3>2, <3>4
  <2>12. QED BY <2>3, <2>9, <2>10, <2>11
<1>2. QED BY <1>1, InitConfigInvariant, PTL
=============================================================================
