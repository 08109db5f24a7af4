----------------------------- MODULE AtomicPair -----------------------------
(***************************************************************************)
(* What one replacing (--force) run promises about the image and the       *)
(* resources: the pair of files that a user has, or gets back by renaming  *)
(* .bak files, changes from the previous generation to the new one in a    *)
(* single step.  Nobody ever has half of each.                             *)
(***************************************************************************)
CONSTANTS
    Absent,         \* no file
    Foreign,        \* a file of another program
    NewFile         \* what the run publishes at a name

VARIABLES
    pair,           \* the file that a user has, for each name
    scope,          \* the names the run is about
    status

vars == <<pair, scope, status>>

\* The pair before the run is whatever is there; the scope is never empty.
Init == status = "open" /\ scope # {}

\* The one step that replaces the generation.
Commit ==
    /\ status = "open"
    /\ pair' = [a \in DOMAIN pair |-> IF a \in scope THEN NewFile ELSE pair[a]]
    /\ status' = "committed"
    /\ UNCHANGED scope

\* The run ends with success only when it committed, with failure only when
\* it did not, and can die in either state.
Close ==
    /\ \/ status = "open" /\ status' \in {"failed", "died"}
       \/ status = "committed" /\ status' \in {"published", "died"}
    /\ UNCHANGED <<pair, scope>>

\* Another program takes a name that is free.
Occupy ==
    /\ \E a \in DOMAIN pair :
          pair[a] = Absent /\ pair' = [pair EXCEPT ![a] = Foreign]
    /\ UNCHANGED <<scope, status>>

Next == Commit \/ Close \/ Occupy

Spec == Init /\ [][Next]_vars
=============================================================================
