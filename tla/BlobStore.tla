----------------------------- MODULE BlobStore -----------------------------
(***************************************************************************)
(* What the download cache promises its users: a store of verified blobs   *)
(* shared by several holders.  A blob can only be taken while it is there, *)
(* and while somebody holds it its name either still holds exactly those   *)
(* bytes or holds nothing at all.                                          *)
(***************************************************************************)
CONSTANTS Holders, Blobs

VARIABLES
    present,  \* blobs whose verified bytes are at their name
    damaged,  \* blobs whose name holds other bytes
    held      \* held[h]: blobs that h has a handle for

vars == <<present, damaged, held>>

TypeOK ==
    /\ present \subseteq Blobs
    /\ damaged \subseteq Blobs \ present
    /\ held \in [Holders -> SUBSET Blobs]

Init ==
    /\ present \in SUBSET Blobs
    /\ damaged \in SUBSET (Blobs \ present)
    /\ held = [h \in Holders |-> {}]

Hold(h, b) == held' = [held EXCEPT ![h] = @ \cup {b}]

\* Verified bytes arrive at their name, all at once.
Admit(h, b) ==
    /\ present' = present \cup {b}
    /\ damaged' = damaged \ {b}
    /\ Hold(h, b)

\* Bytes that are there and verified are taken as they are.
Reuse(h, b) ==
    /\ b \in present
    /\ Hold(h, b)
    /\ UNCHANGED <<present, damaged>>

Release(h) ==
    /\ held' = [held EXCEPT ![h] = {}]
    /\ UNCHANGED <<present, damaged>>

\* Somebody deletes the file.
Remove(b) ==
    /\ present' = present \ {b}
    /\ damaged' = damaged \ {b}
    /\ UNCHANGED held

\* Only damage that every holder is gone for can put other bytes at a name.
Damage ==
    /\ present' \in SUBSET present
    /\ damaged' \in SUBSET ((present \cup damaged) \ present')
    /\ held' = [h \in Holders |-> {}]

Next ==
    \/ \E h \in Holders :
          Release(h) \/ \E b \in Blobs : Admit(h, b) \/ Reuse(h, b)
    \/ \E b \in Blobs : Remove(b)
    \/ Damage

Spec == Init /\ [][Next]_vars
=============================================================================
