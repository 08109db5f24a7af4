--------------------------- MODULE WriteOnceName ---------------------------
(***************************************************************************)
(* What no-clobber publication promises about the image name, whatever the *)
(* number of processes that race for it: the name is a write-once register.*)
(* At most one writer puts its artifact there, only while the name is free,*)
(* and each writer's verdict tells the truth about who holds the name.     *)
(***************************************************************************)
CONSTANTS
    Writers,        \* the racing processes
    Free,           \* the name holds nothing that anyone published
    Outside,        \* files that no writer published
    Artifact(_)     \* the artifact of a writer

VARIABLES name, verdict

vars == <<name, verdict>>

Init ==
    /\ name \in Outside \cup {Free}
    /\ verdict = [w \in Writers |-> "pending"]

\* A writer fills the free name.
Put(w) ==
    /\ verdict[w] = "pending"
    /\ name = Free
    /\ name' = Artifact(w)
    /\ UNCHANGED verdict

\* Something else fills the free name.
Occupy ==
    /\ name = Free
    /\ name' \in Outside
    /\ UNCHANGED verdict

\* Success is reported by the writer that holds the name.
Win(w) ==
    /\ verdict[w] = "pending"
    /\ name = Artifact(w)
    /\ verdict' = [verdict EXCEPT ![w] = "won"]
    /\ UNCHANGED name

\* Failure is reported by a writer that does not hold it.
Lose(w) ==
    /\ verdict[w] = "pending"
    /\ name # Artifact(w)
    /\ verdict' = [verdict EXCEPT ![w] = "lost"]
    /\ UNCHANGED name

\* A writer dies without a verdict, before or after it filled the name.
Die(w) ==
    /\ verdict[w] = "pending"
    /\ verdict' = [verdict EXCEPT ![w] = "died"]
    /\ UNCHANGED name

Next ==
    \/ \E w \in Writers : Put(w) \/ Win(w) \/ Lose(w) \/ Die(w)
    \/ Occupy

Spec == Init /\ [][Next]_vars
=============================================================================
