------------------------- MODULE ReporterProperties -------------------------
(* What a person, or a log, sees of a build's progress.                     *)
EXTENDS Reporter

TypeOK ==
    /\ env \in Settings
    /\ color \in BOOLEAN /\ progress \in BOOLEAN /\ emitted \in BOOLEAN /\ open \in BOOLEAN
    /\ now \in 0..MaxTime[env] /\ calls \in 0..MaxCalls[env]
    /\ last \in 0..now /\ lastPct \in -1..percentScale
    /\ emitted <=> lastPct >= 0
    /\ step \in Names \cup {""} /\ lastLen \in Nat /\ row \in Nat
    /\ lines \in Seq([pct : 0..percentScale, at : 0..now])
    /\ latest \in Updates \cup {<<>>}

\* With progress on, a step that reports anything shows something, and one whose last
\* report is complete shows 100 % last, at once and however soon after the line before
\* (shouldEmitLocked, Progress of both reporters).
CompletionShown ==
    progress /\ latest # <<>> =>
        /\ lines # <<>>
        /\ latest[2] > 0 /\ latest[1] >= latest[2] => lines[Len(lines)].pct = 100

\* The plain reporter does not flood a log: any three lines in a row of one step span
\* the interval, however often attempts complete and start again (shouldEmitLocked).
ThreeLinesTakeTime ==
    ~color => \A i \in 1..Len(lines) - 2 : lines[i + 2].at - lines[i].at >= Interval

\* The fancy reporter knows what is on its row: nothing is left of an older line when
\* another is written over it or a step is announced (redrawLocked, clearProgressLocked).
RowIsKnown == row = (IF open THEN lastLen ELSE 0)

\* docs/docs/reference/automation.md:210-223.  Progress appears on explicit request, or
\* on two terminals that carry neither an artifact nor a JSON envelope; a styled line
\* or bar is drawn only if color was asked for or may be assumed (parseProgress,
\* reporterModes, resolveColor, New).
ModesRespected ==
    /\ lines # <<>> =>
          \/ env.progress = "always"
          \/ /\ env.progress = "auto" /\ env.stdoutTTY /\ env.stderrTTY
             /\ ~env.json /\ ~env.toStdout
    /\ open \/ step # "" =>
          \/ env.color = "always"
          \/ env.color = "auto" /\ env.stderrTTY /\ ~env.noColor /\ ~env.dumb

\* A completion is shown, a log is not flooded, a terminal's row is not torn, and nothing
\* is drawn where nobody asked for it, whatever is reported and whenever.
ProgressIsReadable ==
    TypeOK /\ CompletionShown /\ ThreeLinesTakeTime /\ RowIsKnown /\ ModesRespected

-----------------------------------------------------------------------------
(* Behind the properties: what every call relies on.                        *)

\* The modes are those of the invocation, and what is off leaves nothing behind.
ModesAreKept ==
    /\ color = resolveColor(env)
    /\ progress = resolveProgress(reporterModes(env), env)
    /\ open \/ step # "" => color
    /\ lines # <<>> => progress

\* The plain reporter remembers the last line of the step.
LastIsRemembered ==
    ~color =>
        /\ emitted <=> lines # <<>>
        /\ emitted => last = lines[Len(lines)].at /\ lastPct = lines[Len(lines)].pct

\* A line that does not wait for the interval is the first at 100 %.
QuickIsFirstComplete ==
    ~color => \A i \in 1..Len(lines) - 1 :
        /\ lines[i].at <= lines[i + 1].at
        /\ \/ lines[i + 1].at - lines[i].at >= Interval
           \/ lines[i + 1].pct = 100 /\ lines[i].pct # 100

ReporterInv ==
    /\ TypeOK /\ CompletionShown /\ RowIsKnown
    /\ ModesAreKept /\ LastIsRemembered /\ QuickIsFirstComplete
=============================================================================
