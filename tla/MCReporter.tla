----------------------------- MODULE MCReporter -----------------------------
(* All settings with few calls, and two settings with many.                 *)
EXTENDS ReporterProperties, TLC

\* The two ways to claim standard output exclude each other (runBuild).
AllSettings ==
    {e \in [color : {"auto", "always", "never"}, progress : {"auto", "always", "never"},
            stdoutTTY : BOOLEAN, stderrTTY : BOOLEAN, noColor : BOOLEAN, dumb : BOOLEAN,
            json : BOOLEAN, toStdout : BOOLEAN] : ~(e.json /\ e.toStdout)}

PlainAndFancy ==
    {e \in AllSettings : e.progress = "always" /\ e.color # "auto" /\ e.stdoutTTY /\ e.stderrTTY
                         /\ ~e.noColor /\ ~e.dumb /\ ~e.json /\ ~e.toStdout}

\* Two steps of different width; totals that are unknown, small, and so large that two
\* updates have the same percentage; more than the total.
TwoNames == {"index", "download"}
Widths == [index |-> 2, download |-> 3] @@ ("" :> 1)
SomeUpdates == {<<0, 0>>, <<1, 2>>, <<2, 2>>, <<3, 2>>, <<1, 1000>>, <<2, 1000>>, <<0, 2>>}

\* Two and a half intervals for both reporters.
Calls == [e \in AllSettings |-> IF e \in PlainAndFancy THEN 5 ELSE 2]
Ticks == [e \in AllSettings |-> IF e \in PlainAndFancy THEN 5 ELSE 1]
=============================================================================
