---------------------------- MODULE MCPublisher ----------------------------
(* Small instances of PublisherProperties. *)
EXTENDS PublisherProperties

CONSTANTS s1, s2, s3

RequestOf(force, confirm) ==
    {[offline |-> o, force |-> force, confirm |-> confirm] : o \in BOOLEAN}

NoClobberRequests == RequestOf(FALSE, "nil")
AnyRequests == RequestOf(TRUE, "nil") \cup RequestOf(FALSE, "ask")
                 \cup RequestOf(FALSE, "nil")
ForceOffline == {[offline |-> TRUE, force |-> TRUE, confirm |-> "nil"]}
MixedOnline == {[offline |-> FALSE, force |-> f, confirm |-> "nil"] : f \in BOOLEAN}

\* Bound: when the third process takes part, nothing fails.
QuietForThree == pc[s3] # "idle" => faults = 0 /\ kills = 0 /\ foreigns = 0

OthersEnded ==
    /\ pc[s3] = "idle" /\ \A s \in Sessions \ {s3} : pc[s] \in Terminal
    /\ UNCHANGED vars

RaceNext == (Next /\ QuietForThree') \/ OthersEnded

RaceSpec ==
    /\ Init /\ [][RaceNext]_vars
    /\ \A s \in Sessions : WF_vars(Run(s) /\ ~At(s, "build"))
=============================================================================
