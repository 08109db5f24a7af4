------------------------- MODULE AcquisitionProofs -------------------------
(***************************************************************************)
(* Proofs about Acquisition: type correctness, and the safety of the shared *)
(* cache for any number of processes, assets, attempts, faults, kills,     *)
(* power losses and deleted entries.                                       *)
(***************************************************************************)
EXTENDS AcquisitionProperties, TLAPS

-----------------------------------------------------------------------------
(* Types.                                                                   *)

(* The initial predicate establishes the types. *)
LEMMA InitTypes == Init => TypeOK
<1> SUFFICES ASSUME Init PROVE TypeOK
    OBVIOUS
<1>1. todo \in [Processes -> Seq(Items)] /\ source \in [Processes -> {"https", "local"}]
    BY AcquisitionAssumption DEF Init
<1>2. attempt \in [Processes -> 0..Attempts - 1]
    BY AcquisitionAssumption DEF Init
<1>3. QED
    BY <1>1, <1>2, AcquisitionAssumption
    DEF Init, TypeOK, Steps, Exited, Outcomes, Contents

(* A failing local call keeps the budgets in their bounds. *)
LEMMA FaultTypes ==
    ASSUME TypeOK, Fault \/ UNCHANGED budgets
    PROVE  /\ strays' \in Nat /\ faults' \in 0..MaxFaults /\ kills' \in 0..MaxKills
           /\ losses' \in 0..MaxLosses /\ evictions' \in 0..MaxEvictions
BY AcquisitionAssumption DEF TypeOK, Fault, budgets

(* Moving the program counter keeps its type. *)
LEMMA GoTypes ==
    ASSUME TypeOK, NEW p \in Processes, NEW step \in Steps, Go(p, step)
    PROVE  pc' \in [Processes -> Steps]
BY DEF TypeOK, Go

(* The counters of an attempt that ended. *)
LEMMA SettleTypes ==
    ASSUME TypeOK, NEW p \in Processes, NEW result \in Outcomes, Settle(p, result)
    PROVE  /\ pc' \in [Processes -> Steps]
           /\ attempt' \in [Processes -> 0..Attempts - 1]
           /\ mismatches' \in [Processes -> Nat]
           /\ outcome' \in [Processes -> Outcomes]
<1> DEFINE tries == mismatches[p] + (IF result = "mismatch" THEN 1 ELSE 0)
           again == TryAgain(p, result, tries)
<1>1. mismatches' \in [Processes -> Nat]
    BY DEF Settle, TypeOK
<1>2. outcome' \in [Processes -> Outcomes]
    BY DEF Settle, TypeOK
<1>3. pc' \in [Processes -> Steps]
    BY DEF Settle, TypeOK, Go, Steps, Exited
<1>4. again => attempt[p] + 1 \in 0..Attempts - 1
    BY AcquisitionAssumption DEF TryAgain, TypeOK
<1>5. attempt' \in [Processes -> 0..Attempts - 1]
    BY <1>4 DEF Settle, TypeOK
<1>6. QED BY <1>1, <1>2, <1>3, <1>5

(* The counters of a call that returned its item. *)
LEMMA AcquiredTypes ==
    ASSUME TypeOK, NEW p \in Processes, todo[p] # <<>>, Acquired(p)
    PROVE  /\ pc' \in [Processes -> Steps]
           /\ todo' \in [Processes -> Seq(Items)]
           /\ attempt' \in [Processes -> 0..Attempts - 1]
           /\ mismatches' \in [Processes -> Nat]
           /\ outcome' \in [Processes -> Outcomes]
<1>1. Tail(todo[p]) \in Seq(Items)
    BY DEF TypeOK
<1>2. todo' \in [Processes -> Seq(Items)]
    BY <1>1 DEF Acquired, TypeOK
<1>3. attempt' \in [Processes -> 0..Attempts - 1]
    BY AcquisitionAssumption DEF Acquired, TypeOK
<1>4. QED
    BY <1>2, <1>3 DEF Acquired, TypeOK, Go, Steps, Outcomes

(* Every step of one process keeps the types. *)
LEMMA StepTypes ==
    ASSUME TypeOK, NEW p \in Processes, RequestInProgress(p),
           Start(p) \/ Run(p) \/ Open(p) \/ Cancel(p) \/ Kill(p)
    PROVE  TypeOK'
<1>1. CASE Start(p)
    BY <1>1, FaultTypes, GoTypes
    DEF Start, TypeOK, progress, held, budgets, Steps
<1>2. CASE Request(p)
  <2>1. pc' \in [Processes -> Steps]
    BY <1>2, GoTypes DEF Request, Steps, Exited
  <2>2. QED
    BY <1>2, <2>1, FaultTypes DEF Request, TypeOK, progress, held, budgets
<1>3. CASE StatEntry(p)
  <2>1. pc' \in [Processes -> Steps]
    BY <1>3, GoTypes DEF StatEntry, Steps, Exited
  <2>2. Fault \/ UNCHANGED budgets
    BY <1>3 DEF StatEntry
  <2>3. QED
    BY <1>3, <2>1, <2>2, FaultTypes DEF StatEntry, TypeOK, progress, held
<1>4. CASE HashEntry(p)
  <2>1. Fault \/ UNCHANGED budgets
    BY <1>4 DEF HashEntry
  <2>2. UNCHANGED <<source, cancelled, temp, opened, entry>>
    BY <1>4 DEF HashEntry
  <2>3. CASE Issue(p) /\ Acquired(p)
    <3>1. todo[p] # <<>> /\ Current(p) \in Digests
      BY <1>4 DEF HashEntry, RequestInProgress, At
    <3>2. handles' \in [Processes -> SUBSET Digests]
      BY <2>3, <3>1 DEF Issue, TypeOK
    <3>3. QED
      BY <2>1, <2>2, <2>3, <3>1, <3>2, FaultTypes, AcquiredTypes DEF TypeOK
  <2>4. CASE /\ Go(p, "get") \/ Go(p, "failed")
             /\ UNCHANGED <<todo, progress, handles>>
    <3>1. pc' \in [Processes -> Steps]
      BY <2>4, GoTypes DEF Steps, Exited
    <3>2. QED
      BY <2>1, <2>2, <2>4, <3>1, FaultTypes DEF TypeOK, progress
  <2>5. QED
    BY <1>4, <2>3, <2>4 DEF HashEntry
<1>5. CASE Get(p)
  <2>1. UNCHANGED <<todo, source, cancelled, temp, held, entry, budgets>>
    BY <1>5 DEF Get
  <2>2. CASE Settle(p, "transient") \/ Settle(p, "fatal")
    BY <2>1, <2>2, SettleTypes, FaultTypes DEF TypeOK, Outcomes, held
  <2>3. CASE /\ Go(p, IF Current(p) \in Digests THEN "temp" ELSE "read")
             /\ UNCHANGED progress
    <3>1. pc' \in [Processes -> Steps]
      BY <2>3, GoTypes DEF Steps
    <3>2. QED
      BY <2>1, <2>3, <3>1, FaultTypes DEF TypeOK, held, progress
  <2>4. QED
    BY <1>5, <2>2, <2>3 DEF Get
<1>6. CASE Read(p)
  <2>1. UNCHANGED <<source, cancelled, temp, held, entry, budgets>>
    BY <1>6 DEF Read
  <2>2. CASE Acquired(p)
    <3>1. todo[p] # <<>>
      BY <1>6 DEF Read, RequestInProgress, At
    <3>2. QED
      BY <2>1, <2>2, <3>1, AcquiredTypes, FaultTypes DEF TypeOK, held
  <2>3. CASE \E result \in {"stream", "fatal"} : Settle(p, result) /\ UNCHANGED todo
    BY <2>1, <2>3, SettleTypes, FaultTypes DEF TypeOK, held, Outcomes
  <2>4. QED
    BY <1>6, <2>2, <2>3 DEF Read
<1>7. CASE MakeTemp(p)
  <2>1. UNCHANGED <<todo, source, cancelled, held, entry>>
    BY <1>7 DEF MakeTemp
  <2>2. CASE /\ temp' = [temp EXCEPT ![p] = "cut"]
             /\ Go(p, "copy")
             /\ UNCHANGED <<progress, budgets>>
    <3>1. pc' \in [Processes -> Steps]
      BY <2>2, GoTypes DEF Steps
    <3>2. QED
      BY <2>1, <2>2, <3>1, FaultTypes DEF TypeOK, held, progress, Contents
  <2>3. CASE Fault /\ Settle(p, "fatal") /\ UNCHANGED temp
    BY <2>1, <2>3, SettleTypes, FaultTypes DEF TypeOK, held, Outcomes
  <2>4. QED
    BY <1>7, <2>2, <2>3 DEF MakeTemp
<1>8. CASE Copy(p)
  <2>1. UNCHANGED <<todo, source, cancelled, attempt, mismatches, held, entry>>
    BY <1>8 DEF Copy
  <2>2. Fault \/ UNCHANGED budgets
    BY <1>8 DEF Copy
  <2>3. temp' \in [Processes -> Contents]
    BY <1>8 DEF Copy, TypeOK, Contents
  <2>4. \/ Go(p, "commit") /\ UNCHANGED outcome
        \/ \E result \in Outcomes : Abandon(p, result)
    BY <1>8 DEF Copy, Outcomes
  <2>5. pc' \in [Processes -> Steps]
    BY <2>4, GoTypes DEF Abandon, Steps
  <2>6. outcome' \in [Processes -> Outcomes]
    BY <2>4 DEF Abandon, TypeOK
  <2>7. QED
    BY <2>1, <2>2, <2>3, <2>5, <2>6, FaultTypes DEF TypeOK, held
<1>9. CASE Commit(p)
  <2>1. UNCHANGED <<source, cancelled, opened>>
    BY <1>9 DEF Commit
  <2>2. Fault \/ UNCHANGED budgets
    BY <1>9 DEF Commit
  <2>3. CASE /\ entry' = [entry EXCEPT ![Current(p)] = temp[p]]
             /\ temp' = [temp EXCEPT ![p] = "absent"]
             /\ Issue(p) /\ Acquired(p)
    <3>1. todo[p] # <<>> /\ Current(p) \in Digests
      BY <1>9 DEF Commit, RequestInProgress, At
    <3>2. handles' \in [Processes -> SUBSET Digests]
      BY <2>3, <3>1 DEF Issue, TypeOK
    <3>3. entry' \in [Digests -> Contents] /\ temp' \in [Processes -> Contents]
      BY <2>3 DEF TypeOK, Contents
    <3>4. QED
      BY <2>1, <2>2, <2>3, <3>1, <3>2, <3>3, FaultTypes, AcquiredTypes DEF TypeOK
  <2>4. CASE /\ Abandon(p, "fatal")
             /\ UNCHANGED <<todo, attempt, mismatches, temp, handles, entry>>
    <3>1. pc' \in [Processes -> Steps]
      BY <2>4, GoTypes DEF Abandon, Steps
    <3>2. outcome' \in [Processes -> Outcomes]
      BY <2>4 DEF Abandon, TypeOK, Outcomes
    <3>3. QED
      BY <2>1, <2>2, <2>4, <3>1, <3>2, FaultTypes DEF TypeOK
  <2>5. QED
    BY <1>9, <2>3, <2>4 DEF Commit
<1>10. CASE Discard(p)
  <2>1. UNCHANGED <<todo, source, cancelled, held, entry>>
    BY <1>10 DEF Discard
  <2>2. /\ strays' \in Nat /\ faults' \in 0..MaxFaults /\ kills' \in 0..MaxKills
        /\ losses' \in 0..MaxLosses /\ evictions' \in 0..MaxEvictions
    BY <1>10, FaultTypes, AcquisitionAssumption DEF Discard, RemoveFails, TypeOK
  <2>3. temp' \in [Processes -> Contents]
    BY <1>10 DEF Discard, RemoveFails, TypeOK, Contents
  <2>4. outcome[p] \in Outcomes /\ Settle(p, outcome[p])
    BY <1>10 DEF Discard, TypeOK
  <2>5. QED
    BY <2>1, <2>2, <2>3, <2>4, SettleTypes DEF TypeOK, held
<1>11. CASE Sleep(p)
  <2>1. pc' \in [Processes -> Steps]
    BY <1>11, GoTypes DEF Sleep, Steps, Exited
  <2>2. QED
    BY <1>11, <2>1, FaultTypes DEF Sleep, TypeOK, progress, held
<1>12. CASE Done(p)
  <2>1. pc' \in [Processes -> Steps]
    BY <1>12, GoTypes DEF Done, Steps, Exited
  <2>2. QED
    BY <1>12, <2>1, FaultTypes DEF Done, TypeOK, progress, held
<1>13. CASE Open(p)
  <2>1. UNCHANGED <<todo, source, cancelled, progress, temp, handles, entry>>
    BY <1>13 DEF Open
  <2>2. Fault \/ UNCHANGED budgets
    BY <1>13 DEF Open
  <2>3. pc' \in [Processes -> Steps]
    BY <1>13, GoTypes DEF Open, Steps, Exited, TypeOK
  <2>4. opened' \in [Processes -> SUBSET Contents]
    <3>1. \A d \in handles[p] : entry[d] \in Contents
      BY DEF TypeOK
    <3>2. QED
      BY <1>13, <3>1 DEF Open, TypeOK
  <2>5. QED
    BY <2>1, <2>2, <2>3, <2>4, FaultTypes DEF TypeOK, progress
<1>14. CASE Cancel(p)
    BY <1>14, FaultTypes DEF Cancel, TypeOK, progress, held
<1>15. CASE Kill(p)
  <2>1. pc' \in [Processes -> Steps]
    BY <1>15, GoTypes DEF Kill, Steps, Exited
  <2>2. kills' \in 0..MaxKills
    BY <1>15, AcquisitionAssumption DEF Kill, TypeOK
  <2>3. QED
    BY <1>15, <2>1, <2>2 DEF Kill, TypeOK, progress, held
<1>16. QED
    BY <1>1, <1>2, <1>3, <1>4, <1>5, <1>6, <1>7, <1>8, <1>9, <1>10, <1>11, <1>12,
       <1>13, <1>14, <1>15 DEF Run

(* Power loss and deleted entries keep the types. *)
LEMMA EnvironmentTypes ==
    ASSUME TypeOK, PowerLoss \/ \E d \in Digests : Evict(d)
    PROVE  TypeOK'
<1>1. CASE PowerLoss
  <2>1. pc' \in [Processes -> Steps]
    BY <1>1 DEF PowerLoss, TypeOK, Steps, Exited
  <2>2. losses' \in 0..MaxLosses
    BY <1>1, AcquisitionAssumption DEF PowerLoss, TypeOK
  <2>3. QED
    BY <1>1, <2>1, <2>2 DEF PowerLoss, TypeOK, progress, held
<1>2. CASE \E d \in Digests : Evict(d)
  <2>1. evictions' \in 0..MaxEvictions
    BY <1>2, AcquisitionAssumption DEF Evict, TypeOK
  <2>2. QED
    BY <1>2, <2>1 DEF Evict, TypeOK, progress, held, Contents
<1>3. QED
    BY <1>1, <1>2

-----------------------------------------------------------------------------
(* The invariant of the shared cache.                                       *)

(* What one process knows about itself. *)
Local(p) ==
    VerifiedBeforeCommit(p) /\ RequestInProgress(p) /\ MismatchesCounted(p)

(* The actions of p, without those of the environment. *)
Step(p) == Start(p) \/ Run(p) \/ Open(p) \/ Cancel(p) \/ Kill(p)

(* A step of p changes the state of no other process. *)
LEMMA StepsAreLocal ==
    ASSUME TypeOK, NEW p \in Processes, NEW q \in Processes \ {p}, Step(p)
    PROVE  /\ pc'[q] = pc[q] /\ todo'[q] = todo[q]
           /\ temp'[q] = temp[q] /\ mismatches'[q] = mismatches[q]
           /\ handles'[q] = handles[q] /\ opened'[q] = opened[q]
<1> USE DEF TypeOK
<1>1. CASE Start(p) \/ Request(p) \/ StatEntry(p) \/ Sleep(p) \/ Done(p)
           \/ Cancel(p) \/ Kill(p)
    BY <1>1 DEF Start, Request, StatEntry, Sleep, Done, Cancel, Kill, Go,
                progress, held
<1>2. CASE HashEntry(p)
    BY <1>2 DEF HashEntry, Issue, Acquired, Go, progress
<1>3. CASE Get(p)
    BY <1>3 DEF Get, Settle, Go, progress, held
<1>4. CASE Read(p)
    BY <1>4 DEF Read, Settle, Acquired, Go, held
<1>5. CASE MakeTemp(p)
    BY <1>5 DEF MakeTemp, Settle, Go, progress, held
<1>6. CASE Copy(p)
    BY <1>6 DEF Copy, Abandon, Go, held
<1>7. CASE Commit(p)
    BY <1>7 DEF Commit, Issue, Acquired, Abandon, Go
<1>8. CASE Discard(p)
    BY <1>8 DEF Discard, RemoveFails, Settle, Go, held
<1>9. CASE Open(p)
    BY <1>9 DEF Open, Go, progress
<1>10. QED
    BY <1>1, <1>2, <1>3, <1>4, <1>5, <1>6, <1>7, <1>8, <1>9 DEF Step, Run

(* An attempt that ends is followed by another of the same item, or by none. *)
LEMMA SettleLocal ==
    ASSUME TypeOK, NEW p \in Processes, NEW result \in Outcomes,
           Settle(p, result), UNCHANGED todo, todo[p] # <<>>, mismatches[p] <= 1
    PROVE  Local(p)'
<1>1. pc'[p] \in {"sleep", "failed"}
    BY DEF Settle, Go, TypeOK
<1>2. mismatches'[p] = mismatches[p] + (IF result = "mismatch" THEN 1 ELSE 0)
    BY DEF Settle, TypeOK
<1>3. pc'[p] = "sleep" => mismatches'[p] <= 1
    BY <1>2 DEF Settle, TryAgain, ShouldRetry, Go, TypeOK
<1>4. MismatchesCounted(p)'
    BY <1>1, <1>2, <1>3 DEF MismatchesCounted, TypeOK
<1>5. QED
    BY <1>1, <1>4 DEF Local, VerifiedBeforeCommit, RequestInProgress, At

(* An item that was acquired leaves no attempt behind. *)
LEMMA AcquiredLocal ==
    ASSUME TypeOK, NEW p \in Processes, Acquired(p)
    PROVE  Local(p)'
BY DEF Acquired, Go, TypeOK, Local, VerifiedBeforeCommit, RequestInProgress,
       MismatchesCounted, At

(* Every step of p keeps what p knows about itself. *)
LEMMA StepLocal ==
    ASSUME TypeOK, NEW p \in Processes, Local(p), Step(p)
    PROVE  Local(p)'
<1> USE DEF TypeOK, Local, VerifiedBeforeCommit, RequestInProgress,
            MismatchesCounted, At, Current, Go
<1>1. CASE Start(p) \/ Done(p) \/ Kill(p)
    BY <1>1 DEF Start, Done, Kill, progress, Running
<1>2. CASE Request(p)
    BY <1>2 DEF Request, progress
<1>3. CASE StatEntry(p) \/ Sleep(p)
    BY <1>3 DEF StatEntry, Sleep, progress
<1>4. CASE Cancel(p)
    BY <1>4 DEF Cancel, progress
<1>5. CASE HashEntry(p)
    BY <1>5, AcquiredLocal DEF HashEntry, progress
<1>6. CASE Get(p)
  <2>1. CASE Settle(p, "transient") \/ Settle(p, "fatal")
    BY <1>6, <2>1, SettleLocal DEF Get, Outcomes
  <2>2. CASE /\ Go(p, IF Current(p) \in Digests THEN "temp" ELSE "read")
             /\ UNCHANGED progress
    BY <1>6, <2>2 DEF Get, progress
  <2>3. QED
    BY <1>6, <2>1, <2>2 DEF Get
<1>7. CASE Read(p)
    BY <1>7, AcquiredLocal, SettleLocal DEF Read, Outcomes
<1>8. CASE MakeTemp(p)
  <2>1. CASE Settle(p, "fatal")
    BY <1>8, <2>1, SettleLocal DEF MakeTemp, Outcomes
  <2>2. CASE Go(p, "copy") /\ UNCHANGED progress
    BY <1>8, <2>2 DEF MakeTemp, progress
  <2>3. QED
    BY <1>8, <2>1, <2>2 DEF MakeTemp
<1>9. CASE Copy(p)
    BY <1>9 DEF Copy, Abandon, Admissible
<1>10. CASE Commit(p)
    BY <1>10, AcquiredLocal DEF Commit, Abandon
<1>11. CASE Discard(p)
    BY <1>11, SettleLocal DEF Discard
<1>12. CASE Open(p)
    BY <1>12 DEF Open, progress
<1>13. QED
    BY <1>1, <1>2, <1>3, <1>4, <1>5, <1>6, <1>7, <1>8, <1>9, <1>10, <1>11, <1>12
    DEF Step, Run

(* A step of a process changes a name only by renaming a verified temp to it. *)
LEMMA StepEntry ==
    ASSUME TypeOK, NEW p \in Processes, Local(p), Step(p)
    PROVE  \/ UNCHANGED entry
           \/ /\ At(p, "commit") /\ pc'[p] = "next"
              /\ Current(p) \in Digests
              /\ entry' = [entry EXCEPT ![Current(p)] = "good"]
              /\ handles' = [handles EXCEPT ![p] = @ \cup {Current(p)}]
<1>1. CASE Commit(p)
    BY <1>1 DEF Commit, Local, VerifiedBeforeCommit, RequestInProgress, At, Issue,
                Acquired, Go, TypeOK
<1>2. CASE ~Commit(p)
    BY <1>2 DEF Step, Run, Start, Request, StatEntry, HashEntry, Get, Read,
                MakeTemp, Copy, Discard, Sleep, Done, Open, Cancel, Kill
<1>3. QED
    BY <1>1, <1>2

(* A handle is only issued for an entry that holds the verified bytes now. *)
LEMMA StepHandles ==
    ASSUME TypeOK, NEW p \in Processes, Local(p), Step(p)
    PROVE  \/ UNCHANGED handles
           \/ /\ Current(p) \in Digests
              /\ handles' = [handles EXCEPT ![p] = @ \cup {Current(p)}]
              /\ entry'[Current(p)] = "good"
              /\ Running(p) /\ pc'[p] = "next"
<1>1. CASE Commit(p)
    BY <1>1 DEF Commit, Local, VerifiedBeforeCommit, RequestInProgress, At, Issue,
                Acquired, Go, TypeOK, Running, Exited
<1>2. CASE HashEntry(p)
    BY <1>2 DEF HashEntry, Verified, Local, RequestInProgress, At, Issue, Acquired,
                Go, TypeOK, Running, Exited
<1>3. CASE ~Commit(p) /\ ~HashEntry(p)
    BY <1>3 DEF Step, Run, Start, Request, StatEntry, Get, Read, MakeTemp, Copy,
                Discard, Sleep, Done, Open, Cancel, Kill, held
<1>4. QED
    BY <1>1, <1>2, <1>3

(* Only Start puts a process into the running ones; it has no handles yet. *)
LEMMA StepRunning ==
    ASSUME TypeOK, NEW p \in Processes, Step(p), Running(p)'
    PROVE  Running(p) \/ At(p, "new")
BY DEF Step, Running, Exited, Start, Run, Open, Cancel, Kill, At, Request,
       StatEntry, HashEntry, Get, Read, MakeTemp, Copy, Commit, Discard, Sleep, Done

(* A process that has not started holds nothing and has read nothing. *)
NewHoldsNothing == \A p \in Processes : At(p, "new") => handles[p] = {}

(* The inductive invariant. *)
IndInv == TypeOK /\ CacheInv /\ NewHoldsNothing

LEMMA InitInvariant == Init => IndInv
BY InitTypes
DEF Init, IndInv, CacheInv, NewHoldsNothing, HandlesHold, OnlyVerifiedBytesRead,
    VerifiedBeforeCommit, RequestInProgress, MismatchesCounted, At

(* The handles of every process survive a step of any process. *)
LEMMA StepKeepsHandles ==
    ASSUME IndInv, NEW p \in Processes, Step(p)
    PROVE  HandlesHold' /\ NewHoldsNothing'
<1>1. TypeOK /\ Local(p)
    BY DEF IndInv, CacheInv, Local
<1>2. \A d \in Digests : entry'[d] = entry[d] \/ entry'[d] = "good"
    BY <1>1, StepEntry DEF TypeOK
<1>3. SUFFICES ASSUME NEW q \in Processes
      PROVE  /\ Running(q)' => \A d \in handles'[q] : entry'[d] \in {"good", "absent"}
             /\ pc'[q] = "new" => handles'[q] = {}
    BY DEF HandlesHold, NewHoldsNothing, At
<1>4. CASE q # p
    BY <1>1, <1>2, <1>4, StepsAreLocal
    DEF IndInv, CacheInv, HandlesHold, NewHoldsNothing, Running, At, TypeOK
<1>5. CASE q = p
  <2>1. CASE UNCHANGED handles
    <3>1. pc'[p] # "new"
      BY <1>1 DEF Step, Run, Start, Open, Cancel, Kill, Request, StatEntry, HashEntry,
                  Get, Read, MakeTemp, Copy, Commit, Discard, Sleep, Done, At, Go,
                  Settle, Acquired, Abandon, Running, TypeOK
    <3>2. Running(p)' => \A d \in handles[p] : entry[d] \in {"good", "absent"}
      BY <1>1, StepRunning DEF IndInv, CacheInv, HandlesHold, NewHoldsNothing
    <3>3. QED
      BY <1>1, <1>2, <1>5, <2>1, <3>1, <3>2 DEF TypeOK
  <2>2. CASE /\ Current(p) \in Digests
             /\ handles' = [handles EXCEPT ![p] = @ \cup {Current(p)}]
             /\ entry'[Current(p)] = "good"
             /\ Running(p) /\ pc'[p] = "next"
    BY <1>1, <1>2, <1>5, <2>2 DEF IndInv, CacheInv, HandlesHold, TypeOK
  <2>3. QED
    BY <1>1, <2>1, <2>2, StepHandles
<1>6. QED
    BY <1>4, <1>5

(* What Open finds behind a handle is verified. *)
LEMMA StepKeepsReads ==
    ASSUME IndInv, NEW p \in Processes, Step(p)
    PROVE  OnlyVerifiedBytesRead'
<1>1. TypeOK
    BY DEF IndInv
<1>2. SUFFICES ASSUME NEW q \in Processes
      PROVE  opened'[q] \subseteq {"good"}
    BY DEF OnlyVerifiedBytesRead
<1>3. CASE q # p
    BY <1>1, <1>3, StepsAreLocal DEF IndInv, CacheInv, OnlyVerifiedBytesRead
<1>4. CASE q = p /\ Open(p)
  <2>1. \A d \in handles[p] : entry[d] \in {"good", "absent"}
    BY <1>4 DEF Open, At, Running, Exited, IndInv, CacheInv, HandlesHold
  <2>2. QED
    BY <1>1, <1>4, <2>1 DEF Open, IndInv, CacheInv, OnlyVerifiedBytesRead, TypeOK
<1>5. CASE q = p /\ ~Open(p)
  <2>1. UNCHANGED opened
    BY <1>5 DEF Step, Run, Start, Request, StatEntry, HashEntry, Get, Read, MakeTemp,
                Copy, Commit, Discard, Sleep, Done, Cancel, Kill, held
  <2>2. QED
    BY <2>1 DEF IndInv, CacheInv, OnlyVerifiedBytesRead
<1>6. QED
    BY <1>3, <1>4, <1>5

(* Power loss leaves no process with a handle, and a deleted entry is absent. *)
LEMMA EnvironmentKeeps ==
    ASSUME IndInv, PowerLoss \/ \E d \in Digests : Evict(d)
    PROVE  CacheInv' /\ NewHoldsNothing'
<1> USE DEF IndInv, TypeOK, CacheInv, HandlesHold, OnlyVerifiedBytesRead,
            NewHoldsNothing, VerifiedBeforeCommit, RequestInProgress,
            MismatchesCounted, At, Current, Running, Exited, progress, held
<1>1. CASE PowerLoss
    BY <1>1 DEF PowerLoss
<1>2. CASE \E d \in Digests : Evict(d)
    BY <1>2 DEF Evict
<1>3. QED
    BY <1>1, <1>2

(* Every step keeps the invariant. *)
LEMMA NextInvariant == IndInv /\ [Next]_vars => IndInv'
<1> SUFFICES ASSUME IndInv, [Next]_vars PROVE IndInv'
    OBVIOUS
<1>1. CASE \E p \in Processes : Step(p)
  <2>1. PICK p \in Processes : Step(p)
    BY <1>1
  <2>2. TypeOK /\ \A q \in Processes : Local(q)
    BY DEF IndInv, CacheInv, Local
  <2>3. TypeOK'
    BY <2>1, <2>2, StepTypes DEF Step, Local
  <2>4. ASSUME NEW q \in Processes PROVE Local(q)'
    <3>1. CASE q = p
      BY <2>1, <2>2, <3>1, StepLocal
    <3>2. CASE q # p
      BY <2>1, <2>2, <3>2, StepsAreLocal
      DEF Local, VerifiedBeforeCommit, RequestInProgress, MismatchesCounted, At, Current
    <3>3. QED
      BY <3>1, <3>2
  <2>5. QED
    BY <2>1, <2>3, <2>4, StepKeepsHandles, StepKeepsReads DEF IndInv, CacheInv, Local
<1>2. CASE PowerLoss \/ \E d \in Digests : Evict(d)
    BY <1>2, EnvironmentTypes, EnvironmentKeeps DEF IndInv
<1>3. CASE UNCHANGED vars
    BY <1>3
    DEF IndInv, TypeOK, CacheInv, NewHoldsNothing, HandlesHold, OnlyVerifiedBytesRead,
        VerifiedBeforeCommit, RequestInProgress, MismatchesCounted, At, Current,
        Running, vars, progress, held, budgets
<1>4. QED
    BY <1>1, <1>2, <1>3 DEF Next, Step, Finished

THEOREM Invariant == Spec => []IndInv
<1>1. QED
    BY InitInvariant, NextInvariant, PTL DEF Spec

(* Every variable keeps its type, for any processes, plans and bounds. *)
THEOREM TypeCorrect == Spec => []TypeOK
<1>1. IndInv => TypeOK
    BY DEF IndInv
<1>2. QED
    BY <1>1, Invariant, PTL

(* What handles, readers, requests and counters keep of the cache, together.   *)
THEOREM CacheStaysSound == Spec => []CacheInv
<1>1. IndInv => CacheInv
    BY DEF IndInv
<1>2. QED
    BY <1>1, Invariant, PTL

(* The name behind a handle holds the verified bytes or nothing, however many  *)
(* processes share the cache directory.                                        *)
THEOREM HandlesAreVerified == Spec => []HandlesHold
<1>1. IndInv => HandlesHold
    BY DEF IndInv, CacheInv
<1>2. QED
    BY <1>1, Invariant, PTL

(* A handle is opened by path again and again, and never reads other bytes. *)
THEOREM ReadersSeeVerifiedBytes == Spec => []OnlyVerifiedBytesRead
<1>1. IndInv => OnlyVerifiedBytesRead
    BY DEF IndInv, CacheInv
<1>2. QED
    BY <1>1, Invariant, PTL

(* A request is fetched again after a mismatch at most once. *)
THEOREM OneRedownload == Spec => []AtMostOneRedownload
<1>1. IndInv => AtMostOneRedownload
    BY DEF IndInv, CacheInv, MismatchesCounted, AtMostOneRedownload
<1>2. QED
    BY <1>1, Invariant, PTL

(* A step of a process, and a call that fails in it, leaves the temp where a   *)
(* later step, or nobody after a kill, will find it.                           *)
LEMMA StepTemp ==
    ASSUME TypeOK, NEW p \in Processes, Step(p),
           temp[p] # "absent" => pc[p] \in {"copy", "commit", "discard", "killed"}
    PROVE  temp'[p] # "absent" => pc'[p] \in {"copy", "commit", "discard", "killed"}
<1> USE DEF TypeOK
<1>1. CASE Start(p) \/ Request(p) \/ StatEntry(p) \/ Sleep(p) \/ Done(p)
  <2>1. temp' = temp /\ pc[p] \notin {"copy", "commit", "discard", "killed"}
    BY <1>1 DEF Start, Request, StatEntry, Sleep, Done, At
  <2>2. QED BY <2>1
<1>2. CASE HashEntry(p) \/ Get(p) \/ Read(p) \/ Open(p)
  <2>1. temp' = temp /\ pc[p] \notin {"copy", "commit", "discard", "killed"}
    BY <1>2 DEF HashEntry, Get, Read, Open, At
  <2>2. QED BY <2>1
<1>3. CASE MakeTemp(p)
    BY <1>3 DEF MakeTemp, Settle, Go, At
<1>4. CASE Copy(p)
    BY <1>4 DEF Copy, Abandon, Go
<1>5. CASE Commit(p)
    BY <1>5 DEF Commit, Abandon, Go
<1>6. CASE Discard(p)
    BY <1>6 DEF Discard, RemoveFails, Uncommitted
<1>7. CASE Cancel(p)
    BY <1>7 DEF Cancel
<1>8. CASE Kill(p)
    BY <1>8 DEF Kill, Go
<1>9. QED
    BY <1>1, <1>2, <1>3, <1>4, <1>5, <1>6, <1>7, <1>8 DEF Step, Run

(* A file that is left behind is the trace of a remove that failed. *)
LEMMA StepStrays ==
    ASSUME TypeOK, NEW p \in Processes, Step(p), strays <= faults
    PROVE  strays' <= faults'
<1> USE DEF TypeOK
<1>1. CASE Discard(p)
    BY <1>1 DEF Discard, RemoveFails, budgets
<1>2. CASE ~Discard(p)
  <2>1. Fault \/ UNCHANGED <<strays, faults>>
    BY <1>2 DEF Step, Run, Start, Request, StatEntry, HashEntry, Get, Read, MakeTemp,
                Copy, Commit, Sleep, Done, Open, Cancel, Kill, budgets
  <2>2. QED BY <2>1 DEF Fault
<1>3. QED BY <1>1, <1>2

LEMMA NextLeavesNoTemp ==
    ASSUME TypeOK, NoTempLeftBehind, [Next]_vars PROVE NoTempLeftBehind'
<1>1. ASSUME NEW p \in Processes, Step(p)
      PROVE  NoTempLeftBehind'
  <2>1. ASSUME NEW q \in Processes, temp'[q] # "absent"
        PROVE  pc'[q] \in {"copy", "commit", "discard", "killed"}
    <3>1. temp[q] # "absent" => pc[q] \in {"copy", "commit", "discard", "killed"}
      BY DEF NoTempLeftBehind
    <3>2. CASE q = p
      BY <1>1, <2>1, <3>1, <3>2, StepTemp
    <3>3. CASE q # p
      BY <1>1, <2>1, <3>1, <3>3, StepsAreLocal
    <3>4. QED BY <3>2, <3>3
  <2>2. strays' <= faults'
    BY <1>1, StepStrays DEF NoTempLeftBehind
  <2>3. QED BY <2>1, <2>2 DEF NoTempLeftBehind
<1>2. CASE PowerLoss
    BY <1>2 DEF PowerLoss, NoTempLeftBehind, TypeOK, Running, Exited
<1>3. CASE \E d \in Digests : Evict(d)
    BY <1>3 DEF Evict, NoTempLeftBehind
<1>4. CASE UNCHANGED vars
    BY <1>4 DEF vars, budgets, NoTempLeftBehind
<1>5. QED
    BY <1>1, <1>2, <1>3, <1>4 DEF Next, Step, Finished

(* Whichever calls fail, an attempt removes its temp before the next one makes *)
(* another and before the request ends, if it is not killed and the remove     *)
(* itself does not fail (admit).                                               *)
THEOREM TempsAreRemoved == Spec => []NoTempLeftBehind
<1>1. Init => NoTempLeftBehind
    BY DEF Init, NoTempLeftBehind
<1>2. QED
    BY <1>1, NextLeavesNoTemp, TypeCorrect, PTL DEF Spec

-----------------------------------------------------------------------------
(* What processes may do to the entries, and the refinement.                *)

(* Only power loss and the user damage or delete a verified entry. *)
LEMMA NextKeepsGood ==
    ASSUME IndInv, [Next]_vars, NEW d \in Digests,
           entry[d] = "good", entry'[d] # "good"
    PROVE  losses' # losses \/ evictions' # evictions
<1>1. CASE \E p \in Processes : Step(p)
  <2>1. PICK p \in Processes : Step(p)
    BY <1>1
  <2>2. TypeOK /\ Local(p)
    BY DEF IndInv, CacheInv, Local
  <2>3. QED
    BY <2>1, <2>2, StepEntry DEF TypeOK
<1>2. CASE PowerLoss
    BY <1>2 DEF PowerLoss, IndInv, TypeOK
<1>3. CASE \E e \in Digests : Evict(e)
    BY <1>3 DEF Evict, IndInv, TypeOK
<1>4. CASE UNCHANGED vars
    BY <1>4 DEF vars
<1>5. QED
    BY <1>1, <1>2, <1>3, <1>4 DEF Next, Step, Finished

(* A process never damages or removes a verified entry. *)
THEOREM GoodEntriesAreKept == Spec => GoodEntriesStay
<1>1. IndInv /\ [Next]_vars =>
        [\A d \in Digests :
            entry[d] = "good" /\ entry'[d] # "good"
               => losses' # losses \/ evictions' # evictions]_vars
    BY NextKeepsGood
<1>2. QED
    BY <1>1, Invariant, PTL DEF Spec, GoodEntriesStay

LEMMA InitRefines == Init => Store!Init
BY DEF Init, Store!Init, Present, Damaged, Held, Running

(* A step of a process is a step of the store or a stutter. *)
LEMMA StepRefines ==
    ASSUME IndInv, NEW p \in Processes, Step(p)
    PROVE  [Store!Next]_Store!vars
<1>1. TypeOK /\ Local(p)
    BY DEF IndInv, CacheInv, Local
<1>2. \A q \in Processes \ {p} : Held'[q] = Held[q]
    BY <1>1, StepsAreLocal DEF Held, Running
<1>3. ASSUME /\ Current(p) \in Digests
             /\ handles' = [handles EXCEPT ![p] = @ \cup {Current(p)}]
             /\ Running(p) /\ pc'[p] = "next"
      PROVE  Store!Hold(p, Current(p))
  <2>1. Held'[p] = Held[p] \cup {Current(p)}
    BY <1>1, <1>3 DEF Held, Running, Exited, TypeOK
  <2>2. QED
    BY <1>2, <2>1 DEF Held, Store!Hold
<1>4. CASE /\ At(p, "commit") /\ pc'[p] = "next"
           /\ Current(p) \in Digests
           /\ entry' = [entry EXCEPT ![Current(p)] = "good"]
           /\ handles' = [handles EXCEPT ![p] = @ \cup {Current(p)}]
  <2>1. Present' = Present \cup {Current(p)} /\ Damaged' = Damaged \ {Current(p)}
    BY <1>1, <1>4 DEF Present, Damaged, TypeOK
  <2>2. Running(p)
    BY <1>4 DEF At, Running, Exited
  <2>3. Store!Admit(p, Current(p))
    BY <1>3, <1>4, <2>1, <2>2 DEF Store!Admit
  <2>4. QED
    BY <1>4, <2>3 DEF Store!Next
<1>5. CASE UNCHANGED entry
  <2>1. Present' = Present /\ Damaged' = Damaged
    BY <1>5 DEF Present, Damaged
  <2>2. CASE UNCHANGED handles
    <3>1. Held'[p] = Held[p] \/ Held'[p] = {}
      BY <1>1, <2>2, StepRunning DEF Held, IndInv, NewHoldsNothing
    <3>2. CASE Held'[p] = Held[p]
      <4>1. Held' = Held
        BY <1>2, <3>2 DEF Held
      <4>2. QED
        BY <2>1, <4>1 DEF Store!vars
    <3>3. CASE Held'[p] = {}
      <4>1. Held' = [Held EXCEPT ![p] = {}]
        BY <1>2, <3>3 DEF Held
      <4>2. QED
        BY <2>1, <4>1 DEF Store!Next, Store!Release
    <3>4. QED
      BY <3>1, <3>2, <3>3
  <2>3. CASE /\ Current(p) \in Digests
             /\ handles' = [handles EXCEPT ![p] = @ \cup {Current(p)}]
             /\ entry'[Current(p)] = "good"
             /\ Running(p) /\ pc'[p] = "next"
    <3>1. Current(p) \in Present
      BY <1>5, <2>3 DEF Present
    <3>2. Store!Reuse(p, Current(p))
      BY <1>3, <2>1, <2>3, <3>1 DEF Store!Reuse
    <3>3. QED
      BY <2>3, <3>2 DEF Store!Next
  <2>4. QED
    BY <1>1, <2>2, <2>3, StepHandles
<1>6. QED
    BY <1>1, <1>4, <1>5, StepEntry

(* Power loss is damage, and deleting an entry removes a blob. *)
LEMMA EnvironmentRefines ==
    ASSUME IndInv, PowerLoss \/ \E d \in Digests : Evict(d)
    PROVE  [Store!Next]_Store!vars
<1>1. TypeOK
    BY DEF IndInv
<1>2. CASE PowerLoss
  <2>1. Held' = [p \in Processes |-> {}]
    BY <1>1, <1>2 DEF PowerLoss, Held, Running, Exited, IndInv, NewHoldsNothing, At,
                      held, TypeOK
  <2>2. Present' \in SUBSET Present
    BY <1>2 DEF PowerLoss, Present
  <2>3. Damaged' \in SUBSET ((Present \cup Damaged) \ Present')
    BY <1>1, <1>2 DEF PowerLoss, Present, Damaged, TypeOK, Contents
  <2>4. QED
    BY <2>1, <2>2, <2>3 DEF Store!Next, Store!Damage
<1>3. CASE \E d \in Digests : Evict(d)
  <2>1. PICK d \in Digests : Evict(d)
    BY <1>3
  <2>2. Present' = Present \ {d} /\ Damaged' = Damaged \ {d}
    BY <1>1, <2>1 DEF Evict, Present, Damaged, TypeOK
  <2>3. Held' = Held
    BY <2>1 DEF Evict, Held, Running, held
  <2>4. QED
    BY <2>2, <2>3 DEF Store!Next, Store!Remove
<1>4. QED
    BY <1>2, <1>3

LEMMA NextRefines == IndInv /\ [Next]_vars => [Store!Next]_Store!vars
<1> SUFFICES ASSUME IndInv, [Next]_vars PROVE [Store!Next]_Store!vars
    OBVIOUS
<1>1. CASE UNCHANGED vars
    BY <1>1 DEF vars, Store!vars, Present, Damaged, Held, Running, held
<1>2. CASE Next
    BY <1>1, <1>2, StepRefines, EnvironmentRefines DEF Next, Step, Finished
<1>3. QED
    BY <1>1, <1>2

(* The shared cache directory implements the store of verified blobs. *)
THEOREM CacheRefinesBlobStore == Spec => CacheIsBlobStore
<1>1. QED
    BY InitRefines, NextRefines, Invariant, PTL DEF Spec, Store!Spec, CacheIsBlobStore
=============================================================================
