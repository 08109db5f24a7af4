------------------------------ MODULE Reporter ------------------------------
(***************************************************************************)
(* What a build writes to standard error while it runs: internal/ux        *)
(* (reporter.go, plain.go, fancy.go) and the modes the command line        *)
(* resolves for it (internal/cli/policy.go, build.go).                     *)
(*                                                                         *)
(* Steps, updates and completions come in any order and at any time: the   *)
(* steps of a build and of a download are nested, and an attempt that      *)
(* fails starts again at zero within its step.  Time is counted in ticks.  *)
(***************************************************************************)
EXTENDS Integers, Sequences

CONSTANTS
    Settings,   \* flags and environments of an invocation
    Names,      \* names of steps
    Updates,    \* pairs of done and total
    Width,      \* cells of the progress line of a step, or of no step
    Interval,   \* plainProgressInterval
    MaxCalls,   \* bound: calls of the reporter, for each of Settings
    MaxTime     \* bound: ticks, for each of Settings

ASSUME ReporterAssumption ==
    /\ Updates \subseteq Int \X Int
    /\ Width \in [Names \cup {""} -> Nat]
    /\ Interval \in Nat
    /\ MaxCalls \in [Settings -> Nat] /\ MaxTime \in [Settings -> Nat]

percentScale == 100

VARIABLES
    env,       \* the settings of this invocation
    color,     \* resolveColor: the fancy reporter, else the plain one
    progress,  \* resolveProgress
    now, calls,
    last, lastPct, emitted,     \* plain
    step, open, lastLen,        \* fancy
    row,       \* the terminal: cells in use of the row the cursor is on
    lines,     \* history: progress lines since the last step or completion
    latest     \* history: the last update since then, as <<done, total>>

plain == <<last, lastPct, emitted>>
fancy == <<step, open, lastLen>>
vars == <<env, color, progress, now, calls, plain, fancy, row, lines, latest>>

-----------------------------------------------------------------------------
\* Modes.

\* Mutant: one terminal is enough.
parseEither(e) ==
    IF e.progress # "auto" THEN e.progress
    ELSE IF e.stdoutTTY \/ e.stderrTTY THEN "auto" ELSE "never"

parseProgress(e) ==
    IF e.progress # "auto" THEN e.progress
    ELSE IF e.stdoutTTY /\ e.stderrTTY THEN "auto" ELSE "never"

reporterModes(e) ==
    IF (e.json \/ e.toStdout) /\ parseProgress(e) = "auto" THEN "never" ELSE parseProgress(e)

resolveProgress(mode, e) == mode = "always" \/ (mode = "auto" /\ e.stderrTTY)

colorAutoEnabled(e) == ~e.noColor /\ ~e.dumb /\ e.stderrTTY

resolveColor(e) == e.color = "always" \/ (e.color = "auto" /\ colorAutoEnabled(e))

New(e) ==
    /\ env = e
    /\ color = resolveColor(e)
    /\ progress = resolveProgress(reporterModes(e), e)

Init ==
    /\ \E e \in Settings : New(e)
    /\ now = 0 /\ calls = 0
    /\ last = 0 /\ lastPct = -1 /\ emitted = FALSE
    /\ step = "" /\ open = FALSE /\ lastLen = 0
    /\ row = 0 /\ lines = <<>> /\ latest = <<>>

-----------------------------------------------------------------------------
\* progressParts: the percentage of an update.
progressParts(u) ==
    LET total == u[2]
        done == IF u[1] < 0 THEN 0 ELSE IF u[1] > total THEN total ELSE u[1]
    IN IF total <= 0 THEN 0 ELSE (done * percentScale) \div total

Complete(u) == u[2] > 0 /\ u[1] >= u[2]

\* Mutant: the completion waits for the interval like any other line.
emitInTime(u) ==
    IF ~emitted THEN TRUE
    ELSE progressParts(u) # lastPct /\ now - last >= Interval

\* Mutant: a line for every new percentage.
emitChange(u) == ~emitted \/ progressParts(u) # lastPct

shouldEmitLocked(u) ==
    IF Complete(u) THEN ~emitted \/ lastPct # percentScale
    ELSE IF ~emitted THEN TRUE
    ELSE progressParts(u) # lastPct /\ now - last >= Interval

resetProgressLocked == last' = 0 /\ lastPct' = -1 /\ emitted' = FALSE

\* Mutant: the row is left as it is.
leaveRow == open' = FALSE /\ lastLen' = 0 /\ row' = row

\* Blanks over as many cells as the last line had.
clearProgressLocked ==
    /\ open' = FALSE
    /\ lastLen' = (IF open THEN 0 ELSE lastLen)
    /\ row' = IF open /\ lastLen >= row THEN 0 ELSE row

\* The line, and blanks up to the end of the one before.
redrawLocked(visible) ==
    /\ row' = IF visible >= row \/ lastLen >= row THEN visible ELSE row
    /\ lastLen' = visible
    /\ open' = TRUE

\* A line of its own ends the row, and with it the progress of a step.
Announce ==
    /\ calls < MaxCalls[env] /\ calls' = calls + 1
    /\ IF color
       THEN clearProgressLocked /\ UNCHANGED plain
       ELSE resetProgressLocked /\ UNCHANGED <<open, lastLen, row>>
    /\ lines' = <<>> /\ latest' = <<>>
    /\ UNCHANGED <<env, color, progress, now>>

Step(name) == Announce /\ step' = IF color THEN name ELSE step

Done(name) == Announce /\ UNCHANGED step

Line(u) == [pct |-> progressParts(u), at |-> now]

Progress(u) ==
    /\ calls < MaxCalls[env] /\ calls' = calls + 1
    /\ latest' = u
    /\ IF ~progress THEN UNCHANGED <<plain, open, lastLen, row, lines>>
       ELSE IF color
       THEN /\ redrawLocked(Width[step])
            /\ lines' = Append(lines, Line(u))
            /\ UNCHANGED plain
       ELSE /\ IF shouldEmitLocked(u)
               THEN /\ last' = now /\ lastPct' = progressParts(u) /\ emitted' = TRUE
                    /\ lines' = Append(lines, Line(u))
               ELSE UNCHANGED <<plain, lines>>
            /\ UNCHANGED <<open, lastLen, row>>
    /\ UNCHANGED <<env, color, progress, now, step>>

Tick ==
    /\ now < MaxTime[env] /\ now' = now + 1
    /\ UNCHANGED <<env, color, progress, calls, plain, fancy, row, lines, latest>>

Next ==
    \/ \E n \in Names : Step(n) \/ Done(n)
    \/ \E u \in Updates : Progress(u)
    \/ Tick

Spec == Init /\ [][Next]_vars
=============================================================================
