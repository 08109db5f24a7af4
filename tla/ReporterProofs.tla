--------------------------- MODULE ReporterProofs ---------------------------
(* Progress is readable whatever is reported, in which order and when.      *)
EXTENDS ReporterProperties, SequenceTheorems, TLAPS

-----------------------------------------------------------------------------
(* Sequences and percentages.                                               *)

(* A sequence of a set is one of a larger set. *)
LEMMA SeqOfSubset ==
    ASSUME NEW S, NEW T, S \subseteq T, NEW s \in Seq(S)
    PROVE  s \in Seq(T)
<1>1. PICK n : n = Len(s) /\ n \in Nat /\ s \in [1..n -> S]
    BY LenProperties
<1>2. s \in [1..n -> T]
    BY <1>1
<1>3. QED BY <1>1, <1>2

(* Nothing comes after a line of no lines. *)
LEMMA NoPairs ==
    ASSUME NEW s, s = <<>>
    PROVE  ~ \E i \in 1..Len(s) - 1 : TRUE
<1>1. Len(s) = 0
    OBVIOUS
<1>2. QED BY <1>1

(* A part of the whole in percent. *)
LEMMA PartOfWhole ==
    ASSUME NEW total \in Nat \ {0}, NEW done \in 0..total
    PROVE  /\ (done * 100) \div total \in 0..100
           /\ done = total => (done * 100) \div total = 100
OBVIOUS

(* A percentage is one, and 100 if the update is complete. *)
LEMMA PartsAreFraction ==
    ASSUME NEW u \in Int \X Int
    PROVE  /\ progressParts(u) \in 0..100
           /\ Complete(u) => progressParts(u) = 100
<1>1. PICK given, total : given = u[1] /\ total = u[2] /\ given \in Int /\ total \in Int
    OBVIOUS
<1>2. PICK done : done = IF given < 0 THEN 0 ELSE IF given > total THEN total ELSE given
    OBVIOUS
<1>3. /\ progressParts(u) = IF total <= 0 THEN 0 ELSE (done * 100) \div total
      /\ Complete(u) <=> total > 0 /\ given >= total
    BY <1>1, <1>2 DEF progressParts, percentScale, Complete
<1>4. CASE total <= 0
    BY <1>1, <1>3, <1>4
<1>5. CASE total > 0
  <2>1. total \in Nat \ {0} /\ done \in 0..total /\ (given >= total => done = total)
      BY <1>1, <1>2, <1>5
  <2>2. /\ (done * 100) \div total \in 0..100
        /\ done = total => (done * 100) \div total = 100
      BY <2>1, PartOfWhole
  <2>3. QED BY <1>1, <1>3, <1>5, <2>1, <2>2
<1>6. QED BY <1>1, <1>4, <1>5

-----------------------------------------------------------------------------
(* What follows from the invariant.                                         *)

(* The numbers of a state are numbers. *)
LEMMA NumbersAre ==
    ASSUME TypeOK
    PROVE  /\ env \in Settings /\ MaxTime[env] \in Nat /\ MaxCalls[env] \in Nat
           /\ now \in Nat /\ now <= MaxTime[env] /\ calls \in Nat /\ calls <= MaxCalls[env]
           /\ last \in Nat /\ last <= now /\ lastPct \in -1..100
           /\ lastLen \in Nat /\ row \in Nat
<1>1. /\ env \in Settings /\ now \in 0..MaxTime[env] /\ calls \in 0..MaxCalls[env]
      /\ last \in 0..now /\ lastPct \in -1..percentScale /\ lastLen \in Nat /\ row \in Nat
    BY DEF TypeOK
<1>2. MaxTime[env] \in Nat /\ MaxCalls[env] \in Nat
    BY <1>1, ReporterAssumption
<1>3. QED BY <1>1, <1>2 DEF percentScale

(* Of two steps in a row between three lines one waits for the interval: a line that
   does not is at 100 % after one that is not. *)
LEMMA ThreeLines ==
    ASSUME ReporterInv
    PROVE  ThreeLinesTakeTime
<1> SUFFICES ASSUME ~color, NEW i \in 1..Len(lines) - 2
             PROVE  lines[i + 2].at - lines[i].at >= Interval
    BY DEF ThreeLinesTakeTime
<1>1. /\ Len(lines) \in Nat /\ DOMAIN lines = 1..Len(lines)
      /\ \A k \in 1..Len(lines) : lines[k] \in [pct : 0..100, at : 0..now]
  <2>1. lines \in Seq([pct : 0..100, at : 0..now])
      BY DEF ReporterInv, TypeOK, percentScale
  <2>2. QED BY <2>1, LenProperties, ElementOfSeq
<1>2. /\ i \in 1..Len(lines) - 1 /\ i + 1 \in 1..Len(lines) - 1
      /\ i \in 1..Len(lines) /\ i + 1 \in 1..Len(lines) /\ i + 2 \in 1..Len(lines)
      /\ (i + 1) + 1 = i + 2
    BY <1>1
<1>3. PICK a, b, c : a = lines[i] /\ b = lines[i + 1] /\ c = lines[i + 2]
    OBVIOUS
<1>4. /\ a.at <= b.at /\ (b.at - a.at >= Interval \/ (b.pct = 100 /\ a.pct # 100))
      /\ b.at <= c.at /\ (c.at - b.at >= Interval \/ (c.pct = 100 /\ b.pct # 100))
    BY <1>2, <1>3 DEF ReporterInv, QuickIsFirstComplete
<1>5. a.at \in Int /\ b.at \in Int /\ c.at \in Int /\ now \in Int
  <2>1. now \in Int
      BY NumbersAre DEF ReporterInv
  <2>2. a \in [pct : 0..100, at : 0..now] /\ b \in [pct : 0..100, at : 0..now]
        /\ c \in [pct : 0..100, at : 0..now]
      BY <1>1, <1>2, <1>3
  <2>3. QED BY <2>1, <2>2
<1>6. c.at - a.at >= Interval
  <2>1. PICK x, y, z : x = a.at /\ y = b.at /\ z = c.at
      OBVIOUS
  <2>2. x \in Int /\ y \in Int /\ z \in Int /\ x <= y /\ y <= z
        /\ (y - x >= Interval \/ z - y >= Interval)
      BY <1>4, <1>5, <2>1
  <2>3. z - x >= Interval
    <3>1. Interval \in Nat
        BY ReporterAssumption
    <3>2. QED BY <2>2, <3>1
  <2>4. QED BY <2>1, <2>3
<1>7. QED BY <1>3, <1>6

(* Lines and bars are for those whose modes allow them. *)
LEMMA ModesFollow ==
    ASSUME ReporterInv
    PROVE  ModesRespected
<1>1. lines # <<>> => resolveProgress(reporterModes(env), env)
    BY DEF ReporterInv, ModesAreKept
<1>2. open \/ step # "" => resolveColor(env)
    BY DEF ReporterInv, ModesAreKept
<1>3. resolveProgress(reporterModes(env), env) =>
          \/ env.progress = "always"
          \/ /\ env.progress = "auto" /\ env.stdoutTTY /\ env.stderrTTY
             /\ ~env.json /\ ~env.toStdout
    BY DEF resolveProgress, reporterModes, parseProgress
<1>4. QED BY <1>1, <1>2, <1>3 DEF ModesRespected, resolveColor, colorAutoEnabled

(* What is promised follows. *)
LEMMA InvariantTells == ReporterInv => ProgressIsReadable
BY ThreeLines, ModesFollow DEF ReporterInv, ProgressIsReadable

-----------------------------------------------------------------------------
(* Each step keeps the invariant.                                           *)

(* A reporter that was made has shown nothing. *)
LEMMA InitHolds ==
    ASSUME Init
    PROVE  ReporterInv
<1>1. /\ env \in Settings /\ color = resolveColor(env)
      /\ progress = resolveProgress(reporterModes(env), env)
    BY DEF Init, New
<1>2. /\ now = 0 /\ calls = 0 /\ last = 0 /\ lastPct = -1 /\ lastLen = 0 /\ row = 0
    BY DEF Init
<1>3. emitted = FALSE /\ open = FALSE
    BY DEF Init
<1>4. step = "" /\ lines = <<>> /\ latest = <<>>
    BY DEF Init
<1>5. color \in BOOLEAN /\ progress \in BOOLEAN
    BY <1>1 DEF resolveColor, resolveProgress
<1>6. TypeOK
  <2>1. MaxCalls[env] \in Nat /\ MaxTime[env] \in Nat
      BY <1>1, ReporterAssumption
  <2>2. lines \in Seq([pct : 0..percentScale, at : 0..now])
      BY <1>4, EmptySeq
  <2>3. now \in 0..MaxTime[env] /\ calls \in 0..MaxCalls[env]
      BY <1>2, <2>1
  <2>4. last \in 0..now /\ lastPct \in -1..percentScale /\ lastLen \in Nat /\ row \in Nat
      BY <1>2 DEF percentScale
  <2>5. emitted \in BOOLEAN /\ open \in BOOLEAN /\ (emitted <=> lastPct >= 0)
    <3>1. ~ (lastPct >= 0)
        BY <1>2
    <3>2. QED BY <1>3, <3>1, Zenon
  <2>6. step \in Names \cup {""} /\ latest \in Updates \cup {<<>>}
      BY <1>4
  <2>7. QED BY <1>1, <1>5, <2>2, <2>3, <2>4, <2>5, <2>6 DEF TypeOK
<1>7. CompletionShown /\ RowIsKnown /\ LastIsRemembered /\ ModesAreKept
    BY <1>1, <1>2, <1>3, <1>4 DEF CompletionShown, RowIsKnown, LastIsRemembered, ModesAreKept
<1>8. QuickIsFirstComplete
    BY <1>4, NoPairs DEF QuickIsFirstComplete
<1>9. QED BY <1>6, <1>7, <1>8 DEF ReporterInv

(* A step or a completion is announced: the reporter forgets the progress of the last. *)
LEMMA AnnounceKeeps ==
    ASSUME ReporterInv, Announce, step' = step \/ (color /\ step' \in Names)
    PROVE  ReporterInv'
<1>1. /\ calls < MaxCalls[env] /\ calls' = calls + 1 /\ lines' = <<>> /\ latest' = <<>>
      /\ env' = env /\ color' = color /\ progress' = progress /\ now' = now
    BY DEF Announce
<1>2. /\ color => /\ open' = FALSE /\ lastLen' = (IF open THEN 0 ELSE lastLen)
                  /\ row' = (IF open /\ lastLen >= row THEN 0 ELSE row)
                  /\ last' = last /\ lastPct' = lastPct /\ emitted' = emitted
      /\ ~color => /\ last' = 0 /\ lastPct' = -1 /\ emitted' = FALSE
                   /\ open' = open /\ lastLen' = lastLen /\ row' = row
    BY DEF Announce, clearProgressLocked, resetProgressLocked, plain
<1>3. TypeOK'
  <2>1. MaxCalls[env] \in Nat /\ MaxTime[env] \in Nat
      BY NumbersAre DEF ReporterInv
  <2>2. /\ calls' \in 0..MaxCalls[env] /\ now' \in 0..MaxTime[env]
        /\ last' \in 0..now' /\ lastPct' \in -1..100 /\ lastLen' \in Nat /\ row' \in Nat
    <3>1. calls + 1 <= MaxCalls[env]
        BY <1>1, NumbersAre DEF ReporterInv
    <3>2. QED BY <1>1, <1>2, <2>1, <3>1, NumbersAre DEF ReporterInv
  <2>3. open' \in BOOLEAN /\ emitted' \in BOOLEAN /\ color' \in BOOLEAN /\ progress' \in BOOLEAN
    <3>1. /\ open \in BOOLEAN /\ emitted \in BOOLEAN
          /\ color \in BOOLEAN /\ progress \in BOOLEAN
        BY DEF ReporterInv, TypeOK
    <3>2. QED BY <1>1, <1>2, <3>1, Zenon
  <2>7. emitted' <=> lastPct' >= 0
    <3>1. CASE color
      <4>1. lastPct' = lastPct /\ emitted' = emitted /\ (emitted <=> lastPct >= 0)
          BY <1>2, <3>1 DEF ReporterInv, TypeOK
      <4>2. QED BY <4>1, Zenon
    <3>2. CASE ~color
      <4>1. lastPct' = -1 /\ ~emitted'
          BY <1>2, <3>2
      <4>2. ~ (lastPct' >= 0)
          BY <4>1
      <4>3. QED BY <4>1, <4>2
    <3>3. QED BY <3>1, <3>2
  <2>4. lines' \in Seq([pct : 0..percentScale, at : 0..now'])
      BY <1>1, EmptySeq
  <2>5. env' \in Settings /\ step' \in Names \cup {""} /\ latest' \in Updates \cup {<<>>}
      BY <1>1 DEF ReporterInv, TypeOK
  <2>6. QED BY <1>1, <2>2, <2>3, <2>4, <2>5, <2>7 DEF TypeOK, percentScale
<1>4. CompletionShown'
    BY <1>1 DEF CompletionShown
<1>5. RowIsKnown'
  <2>1. row \in Nat /\ lastLen \in Nat /\ row = IF open THEN lastLen ELSE 0
      BY DEF ReporterInv, TypeOK, RowIsKnown
  <2>2. QED BY <1>2, <2>1 DEF RowIsKnown
<1>6. ModesAreKept'
  <2>1. color' = resolveColor(env') /\ progress' = resolveProgress(reporterModes(env'), env')
      BY <1>1 DEF ReporterInv, ModesAreKept
  <2>2. open' \/ step' # "" => color'
      BY <1>1, <1>2 DEF ReporterInv, ModesAreKept
  <2>3. QED BY <1>1, <2>1, <2>2 DEF ModesAreKept
<1>7. LastIsRemembered'
    BY <1>1, <1>2 DEF LastIsRemembered
<1>8. QuickIsFirstComplete'
    BY <1>1, NoPairs DEF QuickIsFirstComplete
<1>9. QED BY <1>3, <1>4, <1>5, <1>6, <1>7, <1>8 DEF ReporterInv

(* Time passes. *)
LEMMA TickKeeps ==
    ASSUME ReporterInv, Tick
    PROVE  ReporterInv'
<1>1. /\ now < MaxTime[env] /\ now' = now + 1
      /\ env' = env /\ color' = color /\ progress' = progress /\ calls' = calls
      /\ last' = last /\ lastPct' = lastPct /\ emitted' = emitted /\ step' = step
      /\ open' = open /\ lastLen' = lastLen /\ row' = row /\ lines' = lines /\ latest' = latest
    BY DEF Tick, plain, fancy
<1>2. TypeOK'
  <2>1. now \in Nat /\ MaxTime[env] \in Nat /\ now' \in 0..MaxTime[env]
      BY <1>1, NumbersAre DEF ReporterInv
  <2>2. last' \in 0..now'
      BY <1>1, <2>1, NumbersAre DEF ReporterInv
  <2>3. lines' \in Seq([pct : 0..percentScale, at : 0..now'])
    <3>1. [pct : 0..percentScale, at : 0..now] \subseteq [pct : 0..percentScale, at : 0..now']
        BY <1>1, <2>1
    <3>2. lines \in Seq([pct : 0..percentScale, at : 0..now])
        BY DEF ReporterInv, TypeOK
    <3>3. lines \in Seq([pct : 0..percentScale, at : 0..now'])
        BY <3>1, <3>2, SeqOfSubset
    <3>4. QED BY <1>1, <3>3
  <2>4. QED BY <1>1, <2>1, <2>2, <2>3 DEF ReporterInv, TypeOK
<1>3. (CompletionShown /\ RowIsKnown /\ ModesAreKept /\ LastIsRemembered)'
    BY <1>1 DEF ReporterInv, CompletionShown, RowIsKnown, ModesAreKept, LastIsRemembered
<1>4. QuickIsFirstComplete'
    BY <1>1 DEF ReporterInv, QuickIsFirstComplete
<1>5. QED BY <1>2, <1>3, <1>4 DEF ReporterInv

(* A line is drawn or printed: what holds of the lines with it. *)
LEMMA LineIsAdded ==
    ASSUME NEW S, NEW s \in Seq(S), NEW l \in S, NEW t, t = Append(s, l)
    PROVE  /\ Len(s) \in Nat /\ Len(t) = Len(s) + 1
           /\ t \in Seq(S) /\ t # <<>> /\ t[Len(t)] = l
           /\ \A i \in 1..Len(t) - 1 : t[i] = s[i] /\ i \in 1..Len(s)
<1>1. /\ Len(s) \in Nat /\ Len(t) = Len(s) + 1 /\ t \in Seq(S) /\ t # <<>>
      /\ t[Len(s) + 1] = l /\ \A i \in 1..Len(s) : t[i] = s[i]
    BY AppendProperties, LenProperties
<1>2. QED BY <1>1

(* An update is reported. *)
LEMMA ProgressKeeps ==
    ASSUME ReporterInv, NEW u \in Updates, Progress(u)
    PROVE  ReporterInv'
<1>1. /\ calls < MaxCalls[env] /\ calls' = calls + 1 /\ latest' = u
      /\ env' = env /\ color' = color /\ progress' = progress /\ now' = now /\ step' = step
    BY DEF Progress
<1>2. PICK l : l = Line(u)
    OBVIOUS
<1>3. /\ l \in [pct : 0..100, at : 0..now] /\ l.pct = progressParts(u) /\ l.at = now
      /\ u[2] > 0 /\ u[1] >= u[2] => l.pct = 100
  <2>1. progressParts(u) \in 0..100 /\ (Complete(u) => progressParts(u) = 100)
      BY PartsAreFraction, ReporterAssumption
  <2>2. now \in 0..now
      BY NumbersAre DEF ReporterInv
  <2>3. QED BY <1>2, <2>1, <2>2 DEF Line, Complete
<1>4. lines \in Seq([pct : 0..100, at : 0..now])
    BY DEF ReporterInv, TypeOK, percentScale
<1>5. calls' \in 0..MaxCalls[env] /\ now' \in 0..MaxTime[env] /\ env' \in Settings
      /\ step' \in Names \cup {""} /\ latest' \in Updates \cup {<<>>}
  <2>1. calls' \in 0..MaxCalls[env] /\ now' \in 0..MaxTime[env] /\ env' \in Settings
    <3>1. calls + 1 <= MaxCalls[env]
        BY <1>1, NumbersAre DEF ReporterInv
    <3>2. QED BY <1>1, <3>1, NumbersAre DEF ReporterInv
  <2>2. QED BY <1>1, <2>1 DEF ReporterInv, TypeOK
<1>6. CASE ~progress
  <2>1. /\ last' = last /\ lastPct' = lastPct /\ emitted' = emitted
        /\ open' = open /\ lastLen' = lastLen /\ row' = row /\ lines' = lines
      BY <1>6 DEF Progress, plain
  <2>2. TypeOK'
      BY <1>1, <1>5, <2>1 DEF ReporterInv, TypeOK
  <2>3. (CompletionShown /\ RowIsKnown /\ LastIsRemembered)'
      BY <1>1, <1>6, <2>1 DEF ReporterInv, CompletionShown, RowIsKnown, LastIsRemembered
  <2>4. ModesAreKept'
      BY <1>1, <2>1 DEF ReporterInv, ModesAreKept
  <2>5. QuickIsFirstComplete'
      BY <1>1, <2>1 DEF ReporterInv, QuickIsFirstComplete
  <2>6. QED BY <2>2, <2>3, <2>4, <2>5 DEF ReporterInv
<1>7. CASE progress /\ color
  <2>1. /\ last' = last /\ lastPct' = lastPct /\ emitted' = emitted
        /\ lines' = Append(lines, l)
      BY <1>2, <1>7 DEF Progress, plain
  <2>2. /\ row' = (IF Width[step] >= row \/ lastLen >= row THEN Width[step] ELSE row)
        /\ lastLen' = Width[step] /\ open' = TRUE
      BY <1>7 DEF Progress, redrawLocked
  <2>3. Width[step] \in Nat /\ row \in Nat /\ lastLen \in Nat
    <3>1. step \in Names \cup {""}
        BY DEF ReporterInv, TypeOK
    <3>2. QED BY <3>1, NumbersAre, ReporterAssumption DEF ReporterInv
  <2>4. /\ lines' \in Seq([pct : 0..100, at : 0..now]) /\ lines' # <<>>
        /\ lines'[Len(lines')] = l
      BY <1>3, <1>4, <2>1, LineIsAdded
  <2>5. TypeOK'
    <3>1. lastLen' \in Nat /\ row' \in Nat /\ open' \in BOOLEAN
        BY <2>2, <2>3
    <3>2. lines' \in Seq([pct : 0..percentScale, at : 0..now'])
        BY <1>1, <2>4 DEF percentScale
    <3>3. QED BY <1>1, <1>5, <2>1, <3>1, <3>2 DEF ReporterInv, TypeOK
  <2>6. CompletionShown'
      BY <1>1, <1>3, <2>4 DEF CompletionShown
  <2>7. RowIsKnown'
    <3>1. row = IF open THEN lastLen ELSE 0
        BY DEF ReporterInv, RowIsKnown
    <3>2. Width[step] >= row \/ lastLen >= row
        BY <2>3, <3>1
    <3>3. QED BY <2>2, <3>2 DEF RowIsKnown
  <2>8. ModesAreKept'
      BY <1>1, <1>7 DEF ReporterInv, ModesAreKept
  <2>9. LastIsRemembered' /\ QuickIsFirstComplete'
      BY <1>1, <1>7 DEF LastIsRemembered, QuickIsFirstComplete
  <2>10. QED BY <2>5, <2>6, <2>7, <2>8, <2>9 DEF ReporterInv
<1>8. CASE progress /\ ~color /\ shouldEmitLocked(u)
  <2>1. /\ last' = now /\ lastPct' = l.pct /\ emitted' = TRUE /\ lines' = Append(lines, l)
        /\ open' = open /\ lastLen' = lastLen /\ row' = row
      BY <1>2, <1>3, <1>8 DEF Progress
  <2>2. /\ Len(lines) \in Nat /\ Len(lines') = Len(lines) + 1
        /\ lines' \in Seq([pct : 0..100, at : 0..now]) /\ lines' # <<>>
        /\ lines'[Len(lines')] = l
        /\ \A i \in 1..Len(lines') - 1 : lines'[i] = lines[i] /\ i \in 1..Len(lines)
    <3>1. PICK t : t = lines' /\ t = Append(lines, l)
        BY <2>1
    <3>2. /\ Len(lines) \in Nat /\ Len(t) = Len(lines) + 1
          /\ t \in Seq([pct : 0..100, at : 0..now]) /\ t # <<>> /\ t[Len(t)] = l
          /\ \A i \in 1..Len(t) - 1 : t[i] = lines[i] /\ i \in 1..Len(lines)
        BY <1>3, <1>4, <3>1, LineIsAdded
    <3>3. QED BY <3>1, <3>2
  <2>3. TypeOK'
    <3>1. lines' \in Seq([pct : 0..percentScale, at : 0..now'])
        BY <1>1, <2>2 DEF percentScale
    <3>2. last' \in 0..now' /\ lastPct' \in -1..percentScale /\ lastPct' >= 0
      <4>1. l.pct \in 0..100 /\ now \in Nat
          BY <1>3, NumbersAre DEF ReporterInv
      <4>2. last' = now /\ now' = now /\ lastPct' = l.pct
          BY <1>1, <2>1
      <4>3. QED BY <4>1, <4>2 DEF percentScale
    <3>3. emitted' \in BOOLEAN /\ (emitted' <=> lastPct' >= 0)
        BY <2>1, <3>2, Zenon
    <3>4. QED BY <1>1, <1>5, <2>1, <3>1, <3>2, <3>3 DEF ReporterInv, TypeOK
  <2>4. CompletionShown'
      BY <1>1, <1>3, <2>2 DEF CompletionShown
  <2>5. RowIsKnown' /\ ModesAreKept'
      BY <1>1, <1>8, <2>1 DEF ReporterInv, RowIsKnown, ModesAreKept
  <2>6. LastIsRemembered'
      BY <1>3, <2>1, <2>2 DEF LastIsRemembered
  <2>7. QuickIsFirstComplete'
    <3>1. SUFFICES ASSUME NEW i \in 1..Len(lines') - 1
                   PROVE  /\ lines'[i].at <= lines'[i + 1].at
                          /\ \/ lines'[i + 1].at - lines'[i].at >= Interval
                             \/ lines'[i + 1].pct = 100 /\ lines'[i].pct # 100
        BY DEF QuickIsFirstComplete
    <3>2. lines'[i] = lines[i] /\ i \in 1..Len(lines)
        BY <2>2
    <3>3. CASE i < Len(lines)
      <4>1. i \in 1..Len(lines) - 1 /\ i + 1 \in 1..Len(lines') - 1
          BY <2>2, <3>2, <3>3
      <4>2. lines'[i + 1] = lines[i + 1]
          BY <2>2, <4>1
      <4>3. QED BY <1>8, <3>2, <4>1, <4>2 DEF ReporterInv, QuickIsFirstComplete
    <3>4. CASE i = Len(lines)
      <4>1. i + 1 = Len(lines') /\ lines'[i + 1] = l
          BY <2>2, <3>4
      <4>2. lines # <<>>
          BY <3>2, <3>4
      <4>3. emitted /\ last = lines'[i].at /\ lastPct = lines'[i].pct
          BY <1>8, <3>2, <3>4, <4>2 DEF ReporterInv, LastIsRemembered
      <4>4. \/ Complete(u) /\ lastPct # 100
            \/ now - last >= Interval
          BY <1>8, <4>3 DEF shouldEmitLocked, percentScale
      <4>5. last <= now
          BY NumbersAre DEF ReporterInv
      <4>6. QED BY <1>3, <4>1, <4>3, <4>4, <4>5 DEF Complete
    <3>5. QED BY <2>2, <3>2, <3>3, <3>4
  <2>8. QED BY <2>3, <2>4, <2>5, <2>6, <2>7 DEF ReporterInv
<1>9. CASE progress /\ ~color /\ ~shouldEmitLocked(u)
  <2>1. /\ last' = last /\ lastPct' = lastPct /\ emitted' = emitted /\ lines' = lines
        /\ open' = open /\ lastLen' = lastLen /\ row' = row
      BY <1>9 DEF Progress, plain
  <2>2. TypeOK'
      BY <1>1, <1>5, <2>1 DEF ReporterInv, TypeOK
  <2>3. (RowIsKnown /\ LastIsRemembered /\ ModesAreKept)'
      BY <1>1, <2>1 DEF ReporterInv, RowIsKnown, LastIsRemembered, ModesAreKept
  <2>4. QuickIsFirstComplete'
      BY <1>1, <2>1 DEF ReporterInv, QuickIsFirstComplete
  <2>5. CompletionShown'
    <3>1. emitted /\ (Complete(u) => lastPct = 100)
        BY <1>9 DEF shouldEmitLocked, percentScale
    <3>2. lines # <<>> /\ lastPct = lines[Len(lines)].pct
        BY <1>9, <3>1 DEF ReporterInv, LastIsRemembered
    <3>3. QED BY <1>1, <2>1, <3>1, <3>2 DEF CompletionShown, Complete
  <2>6. QED BY <2>2, <2>3, <2>4, <2>5 DEF ReporterInv
<1>10. QED BY <1>6, <1>7, <1>8, <1>9

-----------------------------------------------------------------------------

(* Every call, and the passing of time. *)
LEMMA NextKeeps ==
    ASSUME ReporterInv, [Next]_vars
    PROVE  ReporterInv'
<1>1. CASE \E n \in Names : Step(n) \/ Done(n)
  <2>1. Announce /\ (step' = step \/ (color /\ step' \in Names))
      BY <1>1 DEF Step, Done
  <2>2. QED BY <2>1, AnnounceKeeps
<1>2. CASE \E u \in Updates : Progress(u)
    BY <1>2, ProgressKeeps
<1>3. CASE Tick
    BY <1>3, TickKeeps
<1>4. CASE UNCHANGED vars
    BY <1>4 DEF vars, plain, fancy, ReporterInv, TypeOK, CompletionShown, RowIsKnown,
                ModesAreKept, LastIsRemembered, QuickIsFirstComplete
<1>5. QED BY <1>1, <1>2, <1>3, <1>4 DEF Next

\* The reporter's memory agrees with the lines it wrote and the row it is on, after every
\* call (plain.go's last, lastPct, emitted; fancy.go's open, lastLen).
THEOREM ReporterInvariant == Spec => []ReporterInv
<1>1. Init => ReporterInv
    BY InitHolds
<1>2. ReporterInv /\ [Next]_vars => ReporterInv'
    BY NextKeeps
<1>3. QED BY <1>1, <1>2, PTL DEF Spec

\* Whatever is reported, in which order and when: a step that is complete ends with
\* 100 %, a log is not flooded, nothing is left of an older line on the terminal's row,
\* and nothing is drawn in a mode nobody asked for (ux.go, plain.go, fancy.go, policy.go).
THEOREM EveryoneCanRead == Spec => []ProgressIsReadable
<1>1. ReporterInv => ProgressIsReadable
    BY InvariantTells
<1>2. QED BY <1>1, ReporterInvariant, PTL
=============================================================================
