-------------------------- MODULE PublisherProofs --------------------------
(***************************************************************************)
(* Proofs about Publisher: type correctness, and the safety of publication *)
(* without --force for any number of processes, faults, kills and foreign  *)
(* files.                                                                  *)
(***************************************************************************)
EXTENDS PublisherProperties, FiniteSetTheorems, TLAPS

(* The files that the actions write are files. *)
LEMMA FileFacts ==
    /\ Absent \in File /\ Old \in File /\ Foreign \in File
    /\ \A s \in Sessions : Claim(s) \in File /\ Part(s) \in File /\ New(s) \in File
    /\ \A k \in {"none", "old", "stale"} : Unowned(k) \in File
BY DEF File, FileKinds, Absent, Old, Foreign, Claim, Part, New, Owned, Unowned

(* The initial predicate establishes the types. *)
LEMMA InitTypes == Init => TypeOK
<1> SUFFICES ASSUME Init PROVE TypeOK
    OBVIOUS
<1>1. final \in [Artifacts -> File] /\ bak \in [Artifacts -> File]
  <2>1. \A k \in InitialFinals \cup InitialBaks : Unowned(k) \in File
    BY PublisherAssumption, FileFacts
  <2>2. {Unowned(k) : k \in InitialFinals} \subseteq File
    BY <2>1
  <2>3. {Unowned(k) : k \in InitialBaks} \subseteq File
    BY <2>1
  <2>4. QED BY <2>2, <2>3 DEF Init
<1>2. temp \in [Sessions -> [Artifacts -> File]]
    BY FileFacts DEF Init
<1>3. QED
    BY <1>1, <1>2, PublisherAssumption DEF Init, TypeOK, Steps, Artifacts, Outcomes

(* The variables that tell how a session ends. *)
EndingTypes ==
    /\ cleaned \subseteq Sessions
    /\ outcome \in [Sessions -> Outcomes]
    /\ told \in [Sessions -> SUBSET (Names \X Artifacts)]

(* Moving the program counter keeps the control types. *)
LEMMA GoTypes ==
    ASSUME NEW s \in Sessions, NEW step \in Steps, NEW a \in Artifacts,
           TypeOK, Go(s, step, a)
    PROVE  pc' \in [Sessions -> Steps] /\ art' \in [Sessions -> Artifacts]
BY DEF TypeOK, Go

LEMMA ImageFirstTypes ==
    ASSUME NEW s \in Sessions, NEW step \in Steps, NEW a \in Artifacts,
           TypeOK, ImageFirst(s, step, a)
    PROVE  pc' \in [Sessions -> Steps] /\ art' \in [Sessions -> Artifacts]
<1>1. /\ pc[s] \in Steps /\ "resources" \in Artifacts
      /\ pc \in [Sessions -> Steps] /\ art \in [Sessions -> Artifacts]
  BY DEF TypeOK, Artifacts
<1>2. \/ Go(s, pc[s], "resources")
      \/ Go(s, step, a)
  BY DEF ImageFirst
<1>3. QED BY <1>1, <1>2 DEF Go

LEMMA ResourcesFirstTypes ==
    ASSUME NEW s \in Sessions, NEW step \in Steps, NEW a \in Artifacts,
           TypeOK, ResourcesFirst(s, step, a)
    PROVE  pc' \in [Sessions -> Steps] /\ art' \in [Sessions -> Artifacts]
<1>1. /\ pc[s] \in Steps /\ "image" \in Artifacts
      /\ pc \in [Sessions -> Steps] /\ art \in [Sessions -> Artifacts]
  BY DEF TypeOK, Artifacts
<1>2. \/ Go(s, pc[s], "image")
      \/ Go(s, step, a)
  BY DEF ResourcesFirst
<1>3. QED BY <1>1, <1>2 DEF Go

LEMMA FirstPublishedType ==
    ASSUME NEW s \in Sessions PROVE FirstPublished(s) \in Artifacts
BY DEF FirstPublished, Artifacts

LEMMA FailTypes ==
    ASSUME NEW s \in Sessions, TypeOK, Fail(s) \/ Abort(s)
    PROVE  /\ pc' \in [Sessions -> Steps] /\ art' \in [Sessions -> Artifacts]
           /\ EndingTypes'
<1>1. pc' \in [Sessions -> Steps] /\ art' \in [Sessions -> Artifacts]
  BY GoTypes DEF Fail, Abort, Cleanup, Steps, Artifacts
<1>2. EndingTypes'
  BY DEF TypeOK, Fail, Abort, Cleanup, EndingTypes, Outcomes
<1>3. QED BY <1>1, <1>2

LEMMA EndingKept ==
    ASSUME TypeOK, UNCHANGED ending
    PROVE  EndingTypes'
BY DEF TypeOK, ending, EndingTypes

(* The end of a successful Publish and of a cleanup. *)
LEMMA SucceedTypes ==
    ASSUME NEW s \in Sessions, TypeOK, Succeed(s)
    PROVE  /\ pc' \in [Sessions -> Steps] /\ art' \in [Sessions -> Artifacts]
           /\ EndingTypes'
<1>1. pc' \in [Sessions -> Steps] /\ art' \in [Sessions -> Artifacts]
  BY GoTypes DEF Succeed, DeferredAbort, Cleanup, Steps, Terminal, Artifacts
<1>2. EndingTypes'
  BY DEF TypeOK, Succeed, DeferredAbort, Completed, Cleanup, EndingTypes, Outcomes
<1>3. QED BY <1>1, <1>2

LEMMA ReturnErrorTypes ==
    ASSUME NEW s \in Sessions, NEW left \in SUBSET (Names \X Artifacts), TypeOK,
           ReturnError(s, left)
    PROVE  /\ pc' \in [Sessions -> Steps] /\ art' \in [Sessions -> Artifacts]
           /\ EndingTypes'
<1>1. pc' \in [Sessions -> Steps] /\ art' \in [Sessions -> Artifacts]
  BY GoTypes DEF ReturnError, DeferredAbort, Cleanup, Steps, Terminal, Artifacts
<1>2. CASE UNCHANGED ending
  BY <1>1, <1>2, EndingKept
<1>3. CASE /\ told' = [told EXCEPT ![s] = left]
           /\ outcome' = [outcome EXCEPT ![s] = "failed"]
           /\ DeferredAbort(s, cleaned, "failed")
  <2>1. cleaned' \subseteq Sessions
    BY <1>3 DEF TypeOK, DeferredAbort, Cleanup
  <2>2. told' \in [Sessions -> SUBSET (Names \X Artifacts)]
    BY <1>3 DEF TypeOK
  <2>3. outcome' \in [Sessions -> Outcomes]
    BY <1>3 DEF TypeOK, Outcomes
  <2>4. QED BY <1>1, <2>1, <2>2, <2>3 DEF EndingTypes
<1>4. QED BY <1>1, <1>2, <1>3 DEF ReturnError

LEMMA AfterBakTypes ==
    ASSUME NEW s \in Sessions, TypeOK, AfterBak(s)
    PROVE  pc' \in [Sessions -> Steps] /\ art' \in [Sessions -> Artifacts]
<1>1. CASE Go(s, "bakStat", "resources")
    BY <1>1, GoTypes DEF Steps, Artifacts
<1>2. CASE Go(s, "claim", FirstPublished(s))
    BY <1>2, GoTypes, FirstPublishedType DEF Steps
<1>3. QED BY <1>1, <1>2 DEF AfterBak

(* Flags stay sets of artifacts, and change for one session only. *)
LEMMA FlagTypes ==
    ASSUME NEW flag \in [Sessions -> SUBSET Artifacts],
           NEW s \in Sessions, NEW a \in Artifacts
    PROVE  /\ Mark(flag, s, a) \in [Sessions -> SUBSET Artifacts]
           /\ Unmark(flag, s, a) \in [Sessions -> SUBSET Artifacts]
<1>1. flag[s] \cup {a} \in SUBSET Artifacts /\ flag[s] \ {a} \in SUBSET Artifacts
    OBVIOUS
<1>2. QED BY <1>1 DEF Mark, Unmark

LEMMA FillTempTypes ==
    ASSUME TypeOK, NEW s \in Sessions, NEW a \in Artifacts, NEW file \in File,
           FillTemp(s, a, file)
    PROVE  temp' \in [Sessions -> [Artifacts -> File]]
BY DEF TypeOK, FillTemp

LEMMA ReportTypes ==
    ASSUME TypeOK, NEW s \in Sessions, NEW a \in Artifacts, NEW name \in Names,
           Report(s, name, a)
    PROVE  leftovers' \in [Sessions -> SUBSET (Names \X Artifacts)]
BY DEF TypeOK, Report

LEMMA FaultTypes ==
    ASSUME TypeOK, Fault
    PROVE  faults' \in 0..MaxFaults /\ kills' \in 0..MaxKills
             /\ foreigns' \in 0..MaxForeign
BY PublisherAssumption DEF TypeOK, Fault

(* Every action keeps the types. *)
LEMMA StartTypes == ASSUME NEW s \in Sessions, TypeOK, Start(s) PROVE TypeOK'
<1>1. pc' \in [Sessions -> Steps] /\ art' \in [Sessions -> Artifacts]
    BY GoTypes
       DEF Start, Steps, Terminal, Artifacts
<1>2. faults' \in 0..MaxFaults /\ kills' \in 0..MaxKills /\ foreigns' \in 0..MaxForeign
    BY FaultTypes, PublisherAssumption DEF Start, TypeOK, budgets
<1>3. QED
    BY <1>1, <1>2 DEF TypeOK, Start, decided, flags, ending, names

LEMMA StatFinalTypes == ASSUME NEW s \in Sessions, TypeOK, StatFinal(s) PROVE TypeOK'
<1>1. pc' \in [Sessions -> Steps] /\ art' \in [Sessions -> Artifacts]
    BY GoTypes, ImageFirstTypes
       DEF StatFinal, Steps, Terminal, Artifacts
<1>2. existing' \in [Sessions -> SUBSET Artifacts]
  <2>1. Mark(existing, s, art[s]) \in [Sessions -> SUBSET Artifacts]
    BY FlagTypes DEF TypeOK
  <2>2. QED BY <2>1 DEF TypeOK, StatFinal, decided
<1>3. faults' \in 0..MaxFaults /\ kills' \in 0..MaxKills /\ foreigns' \in 0..MaxForeign
    BY FaultTypes, PublisherAssumption DEF StatFinal, TypeOK, budgets
<1>4. QED
    BY <1>1, <1>2, <1>3 DEF TypeOK, StatFinal, decided, flags, ending, names

LEMMA AuthorizeTypes == ASSUME NEW s \in Sessions, TypeOK, Authorize(s) PROVE TypeOK'
<1>1. pc' \in [Sessions -> Steps] /\ art' \in [Sessions -> Artifacts]
    BY GoTypes
       DEF Authorize, Steps, Terminal, Artifacts
<1>2. replace' \in [Sessions -> BOOLEAN]
    BY DEF TypeOK, Authorize, decided
<1>3. faults' \in 0..MaxFaults /\ kills' \in 0..MaxKills /\ foreigns' \in 0..MaxForeign
    BY FaultTypes, PublisherAssumption DEF Authorize, TypeOK, budgets
<1>4. QED
    BY <1>1, <1>2, <1>3 DEF TypeOK, Authorize, decided, flags, ending, names

LEMMA AnswerTypes == ASSUME NEW s \in Sessions, TypeOK, Answer(s) PROVE TypeOK'
<1>1. pc' \in [Sessions -> Steps] /\ art' \in [Sessions -> Artifacts]
    BY GoTypes
       DEF Answer, Steps, Terminal, Artifacts
<1>2. replace' \in [Sessions -> BOOLEAN]
    BY DEF TypeOK, Answer, decided
<1>3. faults' \in 0..MaxFaults /\ kills' \in 0..MaxKills /\ foreigns' \in 0..MaxForeign
    BY FaultTypes, PublisherAssumption DEF Answer, TypeOK, budgets
<1>4. QED
    BY <1>1, <1>2, <1>3 DEF TypeOK, Answer, decided, flags, ending, names

LEMMA CreateTempTypes == ASSUME NEW s \in Sessions, TypeOK, CreateTemp(s) PROVE TypeOK'
<1>1. pc' \in [Sessions -> Steps] /\ art' \in [Sessions -> Artifacts]
    BY ImageFirstTypes, FailTypes
       DEF CreateTemp, Steps, Terminal, Artifacts
<1>2. temp' \in [Sessions -> [Artifacts -> File]]
    BY FileFacts, FillTempTypes DEF TypeOK, CreateTemp
<1>3. faults' \in 0..MaxFaults /\ kills' \in 0..MaxKills /\ foreigns' \in 0..MaxForeign
    BY FaultTypes, PublisherAssumption DEF CreateTemp, TypeOK, budgets
<1>4. EndingTypes'
    BY FailTypes, EndingKept DEF CreateTemp
<1>5. QED
    BY <1>1, <1>2, <1>3, <1>4 DEF TypeOK, CreateTemp, EndingTypes, decided, flags, names

LEMMA BuildTypes == ASSUME NEW s \in Sessions, TypeOK, Build(s) PROVE TypeOK'
<1>1. pc' \in [Sessions -> Steps] /\ art' \in [Sessions -> Artifacts]
    BY ImageFirstTypes, FailTypes
       DEF Build, Steps, Terminal, Artifacts
<1>2. temp' \in [Sessions -> [Artifacts -> File]]
    BY FileFacts, FillTempTypes DEF TypeOK, Build
<1>3. faults' \in 0..MaxFaults /\ kills' \in 0..MaxKills /\ foreigns' \in 0..MaxForeign
    BY FaultTypes, PublisherAssumption DEF Build, TypeOK, budgets
<1>4. EndingTypes'
    BY FailTypes, EndingKept DEF Build
<1>5. QED
    BY <1>1, <1>2, <1>3, <1>4 DEF TypeOK, Build, EndingTypes, decided, flags, names

LEMMA FinishTypes == ASSUME NEW s \in Sessions, TypeOK, Finish(s) PROVE TypeOK'
<1>1. pc' \in [Sessions -> Steps] /\ art' \in [Sessions -> Artifacts]
    BY ImageFirstTypes, FailTypes, FirstPublishedType
       DEF Finish, Steps, Terminal, Artifacts
<1>2. faults' \in 0..MaxFaults /\ kills' \in 0..MaxKills /\ foreigns' \in 0..MaxForeign
    BY FaultTypes, PublisherAssumption DEF Finish, TypeOK, budgets
<1>3. EndingTypes'
    BY FailTypes, EndingKept DEF Finish
<1>4. QED
    BY <1>1, <1>2, <1>3 DEF TypeOK, Finish, EndingTypes, decided, flags, names

LEMMA BakStatTypes == ASSUME NEW s \in Sessions, TypeOK, BakStat(s) PROVE TypeOK'
<1>1. pc' \in [Sessions -> Steps] /\ art' \in [Sessions -> Artifacts]
  <2>1. CASE Go(s, "bakRename", art[s])
    BY <2>1, GoTypes DEF TypeOK, Steps
  <2>2. CASE AfterBak(s)
    BY <2>2, AfterBakTypes
  <2>3. CASE Fail(s)
    BY <2>3, FailTypes
  <2>4. QED BY <2>1, <2>2, <2>3 DEF BakStat
<1>2. faults' \in 0..MaxFaults /\ kills' \in 0..MaxKills /\ foreigns' \in 0..MaxForeign
    BY FaultTypes, PublisherAssumption DEF BakStat, TypeOK, budgets
<1>3. EndingTypes'
    BY FailTypes, EndingKept DEF BakStat
<1>4. QED
    BY <1>1, <1>2, <1>3 DEF TypeOK, BakStat, EndingTypes, decided, flags, names

LEMMA BakRenameTypes == ASSUME NEW s \in Sessions, TypeOK, BakRename(s) PROVE TypeOK'
<1>1. pc' \in [Sessions -> Steps] /\ art' \in [Sessions -> Artifacts]
    BY AfterBakTypes, FailTypes
       DEF BakRename, Steps, Terminal, Artifacts
<1>2. bak' \in [Artifacts -> File]
    BY FileFacts DEF TypeOK, BakRename, names
<1>3. final' \in [Artifacts -> File]
    BY FileFacts DEF TypeOK, BakRename, names
<1>4. backedUp' \in [Sessions -> SUBSET Artifacts]
  <2>1. Mark(backedUp, s, art[s]) \in [Sessions -> SUBSET Artifacts]
    BY FlagTypes DEF TypeOK
  <2>2. QED BY <2>1 DEF TypeOK, BakRename, flags
<1>5. faults' \in 0..MaxFaults /\ kills' \in 0..MaxKills /\ foreigns' \in 0..MaxForeign
    BY FaultTypes, PublisherAssumption DEF BakRename, TypeOK, budgets
<1>6. EndingTypes'
    BY FailTypes, EndingKept DEF BakRename
<1>7. QED
    BY <1>1, <1>2, <1>3, <1>4, <1>5, <1>6 DEF TypeOK, BakRename, EndingTypes, decided, flags, names

LEMMA ClaimFinalTypes == ASSUME NEW s \in Sessions, TypeOK, ClaimFinal(s) PROVE TypeOK'
<1>1. pc' \in [Sessions -> Steps] /\ art' \in [Sessions -> Artifacts]
  <2>1. CASE Go(s, "rename", art[s])
    BY <2>1, GoTypes DEF TypeOK, Steps
  <2>2. CASE Fail(s)
    BY <2>2, FailTypes
  <2>3. QED BY <2>1, <2>2 DEF ClaimFinal
<1>2. final' \in [Artifacts -> File]
    BY FileFacts DEF TypeOK, ClaimFinal, names
<1>3. claimed' \in [Sessions -> SUBSET Artifacts]
  <2>1. Mark(claimed, s, art[s]) \in [Sessions -> SUBSET Artifacts]
    BY FlagTypes DEF TypeOK
  <2>2. QED BY <2>1 DEF TypeOK, ClaimFinal, flags
<1>4. faults' \in 0..MaxFaults /\ kills' \in 0..MaxKills /\ foreigns' \in 0..MaxForeign
    BY FaultTypes, PublisherAssumption DEF ClaimFinal, TypeOK, budgets
<1>5. EndingTypes'
    BY FailTypes, EndingKept DEF ClaimFinal
<1>6. QED
    BY <1>1, <1>2, <1>3, <1>4, <1>5 DEF TypeOK, ClaimFinal, EndingTypes, decided, flags, names

LEMMA RenameTempTypes == ASSUME NEW s \in Sessions, TypeOK, RenameTemp(s) PROVE TypeOK'
<1>1. pc' \in [Sessions -> Steps] /\ art' \in [Sessions -> Artifacts]
    BY GoTypes, FailTypes
       DEF RenameTemp, Steps, Terminal, Artifacts
<1>2. final' \in [Artifacts -> File]
  <2>1. temp[s][art[s]] \in File
    BY DEF TypeOK
  <2>2. QED BY <2>1 DEF TypeOK, RenameTemp, names
<1>3. temp' \in [Sessions -> [Artifacts -> File]]
    BY FileFacts, FillTempTypes DEF TypeOK, RenameTemp
<1>4. claimed' \in [Sessions -> SUBSET Artifacts]
  <2>1. Unmark(claimed, s, art[s]) \in [Sessions -> SUBSET Artifacts]
    BY FlagTypes DEF TypeOK
  <2>2. QED BY <2>1 DEF TypeOK, RenameTemp, flags
<1>5. published' \in [Sessions -> SUBSET Artifacts]
  <2>1. Mark(published, s, art[s]) \in [Sessions -> SUBSET Artifacts]
    BY FlagTypes DEF TypeOK
  <2>2. QED BY <2>1 DEF TypeOK, RenameTemp, flags
<1>6. faults' \in 0..MaxFaults /\ kills' \in 0..MaxKills /\ foreigns' \in 0..MaxForeign
    BY FaultTypes, PublisherAssumption DEF RenameTemp, TypeOK, budgets
<1>7. EndingTypes'
    BY FailTypes, EndingKept DEF RenameTemp
<1>8. QED
    BY <1>1, <1>2, <1>3, <1>4, <1>5, <1>6, <1>7 DEF TypeOK, RenameTemp, EndingTypes, decided, flags, names

LEMMA DropBakTypes == ASSUME NEW s \in Sessions, TypeOK, DropBak(s) PROVE TypeOK'
<1>1. bak' \in [Artifacts -> File]
    BY FileFacts DEF TypeOK, DropBak, names
<1>2. backedUp' \in [Sessions -> SUBSET Artifacts]
  <2>1. Unmark(backedUp, s, art[s]) \in [Sessions -> SUBSET Artifacts]
    BY FlagTypes DEF TypeOK
  <2>2. QED BY <2>1 DEF TypeOK, DropBak, flags
<1>3. leftovers' \in [Sessions -> SUBSET (Names \X Artifacts)]
    BY ReportTypes DEF TypeOK, DropBak, Names
<1>4. faults' \in 0..MaxFaults /\ kills' \in 0..MaxKills /\ foreigns' \in 0..MaxForeign
    BY FaultTypes, PublisherAssumption DEF DropBak, TypeOK, budgets
<1>5. /\ pc' \in [Sessions -> Steps] /\ art' \in [Sessions -> Artifacts]
      /\ EndingTypes'
  <2>1. CASE Go(s, pc[s], "resources") /\ UNCHANGED ending
    BY <2>1, GoTypes, EndingKept DEF TypeOK, Artifacts
  <2>2. CASE Succeed(s)
    BY <2>2, SucceedTypes
  <2>3. QED BY <2>1, <2>2 DEF DropBak
<1>6. QED
    BY <1>1, <1>2, <1>3, <1>4, <1>5 DEF TypeOK, DropBak, EndingTypes, decided, flags, names

LEMMA UnpublishTypes == ASSUME NEW s \in Sessions, TypeOK, Unpublish(s) PROVE TypeOK'
<1>1. pc' \in [Sessions -> Steps] /\ art' \in [Sessions -> Artifacts]
    BY ImageFirstTypes, FirstPublishedType
       DEF Unpublish, Steps, Terminal, Artifacts
<1>2. final' \in [Artifacts -> File]
    BY FileFacts DEF TypeOK, Unpublish, names
<1>3. claimed' \in [Sessions -> SUBSET Artifacts]
  <2>1. Unmark(claimed, s, art[s]) \in [Sessions -> SUBSET Artifacts]
    BY FlagTypes DEF TypeOK
  <2>2. QED BY <2>1 DEF TypeOK, Unpublish, flags
<1>4. published' \in [Sessions -> SUBSET Artifacts]
  <2>1. Unmark(published, s, art[s]) \in [Sessions -> SUBSET Artifacts]
    BY FlagTypes DEF TypeOK
  <2>2. QED BY <2>1 DEF TypeOK, Unpublish, flags
<1>5. leftovers' \in [Sessions -> SUBSET (Names \X Artifacts)]
    BY ReportTypes DEF TypeOK, Unpublish, Names
<1>6. faults' \in 0..MaxFaults /\ kills' \in 0..MaxKills /\ foreigns' \in 0..MaxForeign
    BY FaultTypes, PublisherAssumption DEF Unpublish, TypeOK, budgets
<1>7. QED
    BY <1>1, <1>2, <1>3, <1>4, <1>5, <1>6 DEF TypeOK, Unpublish, decided, flags, ending, names

LEMMA RestoreTypes == ASSUME NEW s \in Sessions, TypeOK, Restore(s) PROVE TypeOK'
<1>1. pc' \in [Sessions -> Steps] /\ art' \in [Sessions -> Artifacts]
    BY ResourcesFirstTypes
       DEF Restore, Steps, Terminal, Artifacts
<1>2. final' \in [Artifacts -> File]
    BY FileFacts DEF TypeOK, Restore, names
<1>3. bak' \in [Artifacts -> File]
    BY FileFacts DEF TypeOK, Restore, names
<1>4. backedUp' \in [Sessions -> SUBSET Artifacts]
  <2>1. Unmark(backedUp, s, art[s]) \in [Sessions -> SUBSET Artifacts]
    BY FlagTypes DEF TypeOK
  <2>2. QED BY <2>1 DEF TypeOK, Restore, flags
<1>5. leftovers' \in [Sessions -> SUBSET (Names \X Artifacts)]
    BY ReportTypes DEF TypeOK, Restore, Names
<1>6. faults' \in 0..MaxFaults /\ kills' \in 0..MaxKills /\ foreigns' \in 0..MaxForeign
    BY FaultTypes, PublisherAssumption DEF Restore, TypeOK, budgets
<1>7. QED
    BY <1>1, <1>2, <1>3, <1>4, <1>5, <1>6 DEF TypeOK, Restore, decided, flags, ending, names

LEMMA DropTempTypes == ASSUME NEW s \in Sessions, TypeOK, DropTemp(s) PROVE TypeOK'
<1>1. temp' \in [Sessions -> [Artifacts -> File]]
    BY FileFacts, FillTempTypes DEF TypeOK, DropTemp
<1>2. leftovers' \in [Sessions -> SUBSET (Names \X Artifacts)]
    BY ReportTypes DEF TypeOK, DropTemp, Names
<1>3. faults' \in 0..MaxFaults /\ kills' \in 0..MaxKills /\ foreigns' \in 0..MaxForeign
    BY FaultTypes, PublisherAssumption DEF DropTemp, TypeOK, budgets
<1>4. /\ pc' \in [Sessions -> Steps] /\ art' \in [Sessions -> Artifacts]
      /\ EndingTypes'
  <2>1. leftovers'[s] \in SUBSET (Names \X Artifacts)
    BY <1>2
  <2>2. CASE Go(s, pc[s], "resources") /\ UNCHANGED ending
    BY <2>2, GoTypes, EndingKept DEF TypeOK, Artifacts
  <2>3. CASE ReturnError(s, leftovers'[s])
    BY <2>1, <2>3, ReturnErrorTypes
  <2>4. QED BY <2>2, <2>3 DEF DropTemp
<1>5. QED
    BY <1>1, <1>2, <1>3, <1>4 DEF TypeOK, DropTemp, EndingTypes, decided, flags, names

LEMMA KillTypes == ASSUME NEW s \in Sessions, TypeOK, Kill(s) PROVE TypeOK'
<1>1. pc' \in [Sessions -> Steps] /\ art' \in [Sessions -> Artifacts]
    BY GoTypes
       DEF Kill, Steps, Terminal, Artifacts
<1>2. faults' \in 0..MaxFaults /\ kills' \in 0..MaxKills /\ foreigns' \in 0..MaxForeign
    BY FaultTypes, PublisherAssumption DEF Kill, TypeOK, budgets
<1>3. QED
    BY <1>1, <1>2 DEF TypeOK, Kill, decided, flags, ending, names

LEMMA ForeignCreateTypes ==
    ASSUME NEW a \in Artifacts, TypeOK, ForeignCreate(a) PROVE TypeOK'
BY FileFacts, PublisherAssumption
   DEF TypeOK, ForeignCreate, control, decided, flags, ending

(* Publisher is type correct. *)
THEOREM TypeCorrect == Spec => []TypeOK
<1>1. Init => TypeOK
    BY InitTypes
<1>2. TypeOK /\ [Next]_vars => TypeOK'
  <2> SUFFICES ASSUME TypeOK, [Next]_vars PROVE TypeOK'
      OBVIOUS
  <2>1. ASSUME NEW s \in Sessions, Start(s) \/ Answer(s) \/ Run(s) \/ Kill(s)
        PROVE  TypeOK'
    BY <2>1, StartTypes, AnswerTypes, KillTypes, StatFinalTypes, AuthorizeTypes,
       CreateTempTypes, BuildTypes, FinishTypes, BakStatTypes, BakRenameTypes,
       ClaimFinalTypes, RenameTempTypes, DropBakTypes, UnpublishTypes,
       RestoreTypes, DropTempTypes DEF Run
  <2>2. ASSUME NEW a \in Artifacts, ForeignCreate(a) PROVE TypeOK'
    BY <2>2, ForeignCreateTypes
  <2>3. CASE UNCHANGED vars
    BY <2>3 DEF TypeOK, vars, control, decided, flags, ending, names, budgets
  <2>4. QED BY <2>1, <2>2, <2>3 DEF Next, Finished
<1>3. QED BY <1>1, <1>2, PTL DEF Spec

-----------------------------------------------------------------------------
(* Cleanup runs once, and Abort after Publish does nothing.                 *)

(* What the control helpers do to the session that moves. *)
LEMMA GoEffect ==
    ASSUME TypeOK, NEW s \in Sessions, NEW step, NEW a, Go(s, step, a)
    PROVE  pc'[s] = step /\ art'[s] = a
BY DEF TypeOK, Go

LEMMA FailEffect ==
    ASSUME TypeOK, NEW s \in Sessions, Fail(s) \/ Abort(s)
    PROVE  pc'[s] = "unpublish" /\ art'[s] = "image"
BY GoEffect DEF Fail, Abort, Cleanup

LEMMA ImageFirstEffect ==
    ASSUME TypeOK, NEW s \in Sessions, NEW step, NEW a, ImageFirst(s, step, a)
    PROVE  \/ art[s] = "image" /\ Offline(s) /\ pc'[s] = pc[s] /\ art'[s] = "resources"
           \/ ~(art[s] = "image" /\ Offline(s)) /\ pc'[s] = step /\ art'[s] = a
BY GoEffect DEF ImageFirst, More

LEMMA ResourcesFirstEffect ==
    ASSUME TypeOK, NEW s \in Sessions, NEW step, NEW a, ResourcesFirst(s, step, a)
    PROVE  \/ art[s] = "resources" /\ pc'[s] = pc[s] /\ art'[s] = "image"
           \/ art[s] # "resources" /\ pc'[s] = step /\ art'[s] = a
BY GoEffect DEF ResourcesFirst

LEMMA FlagEffect ==
    ASSUME NEW flag \in [Sessions -> SUBSET Artifacts],
           NEW s \in Sessions, NEW a \in Artifacts
    PROVE  /\ Mark(flag, s, a)[s] = flag[s] \cup {a}
           /\ Unmark(flag, s, a)[s] = flag[s] \ {a}
           /\ \A t \in Sessions : t # s => /\ Mark(flag, s, a)[t] = flag[t]
                                           /\ Unmark(flag, s, a)[t] = flag[t]
BY DEF Mark, Unmark

LEMMA FillTempEffect ==
    ASSUME TypeOK, NEW s \in Sessions, NEW a \in Artifacts, NEW file,
           FillTemp(s, a, file)
    PROVE  /\ temp'[s][a] = file
           /\ \A b \in Artifacts : b # a => temp'[s][b] = temp[s][b]
BY DEF TypeOK, FillTemp

LEMMA ReportEffect ==
    ASSUME TypeOK, NEW s \in Sessions, NEW name, NEW a, Report(s, name, a)
    PROVE  leftovers'[s] = leftovers[s] \cup {<<name, a>>}
BY DEF TypeOK, Report

(* What a session sees of its own state, and that a step of another session  *)
(* leaves it alone.                                                         *)
LocalState(s) == <<request[s], pc[s], art[s], replace[s], temp[s], claimed[s],
                   published[s], backedUp[s], leftovers[s], outcome[s], told[s],
                   cleaned \cap {s}>>

EndingState(s) == <<outcome[s], told[s], cleaned \cap {s}>>

LEMMA GoLocal ==
    ASSUME TypeOK, NEW s \in Sessions, NEW t \in Sessions, t # s, NEW step, NEW a,
           Go(s, step, a)
    PROVE  pc'[t] = pc[t] /\ art'[t] = art[t]
BY DEF TypeOK, Go

LEMMA FillTempLocal ==
    ASSUME TypeOK, NEW s \in Sessions, NEW t \in Sessions, t # s, NEW a, NEW file,
           FillTemp(s, a, file)
    PROVE  temp'[t] = temp[t]
BY DEF TypeOK, FillTemp

LEMMA ReportLocal ==
    ASSUME TypeOK, NEW s \in Sessions, NEW t \in Sessions, t # s, NEW a, NEW name,
           Report(s, name, a)
    PROVE  leftovers'[t] = leftovers[t]
BY DEF TypeOK, Report

LEMMA FailLocal ==
    ASSUME TypeOK, NEW s \in Sessions, NEW t \in Sessions, t # s, Fail(s) \/ Abort(s)
    PROVE  /\ pc'[t] = pc[t] /\ art'[t] = art[t]
           /\ EndingState(t)' = EndingState(t)
<1>1. pc'[t] = pc[t] /\ art'[t] = art[t]
  BY GoLocal DEF Fail, Abort, Cleanup
<1>2. EndingState(t)' = EndingState(t)
  BY DEF TypeOK, Fail, Abort, Cleanup, EndingState
<1>3. QED BY <1>1, <1>2

LEMMA SucceedLocal ==
    ASSUME TypeOK, NEW s \in Sessions, NEW t \in Sessions, t # s, Succeed(s)
    PROVE  /\ pc'[t] = pc[t] /\ art'[t] = art[t]
           /\ EndingState(t)' = EndingState(t)
<1>1. pc'[t] = pc[t] /\ art'[t] = art[t]
  BY GoLocal DEF Succeed, DeferredAbort, Cleanup
<1>2. EndingState(t)' = EndingState(t)
  BY DEF TypeOK, Succeed, DeferredAbort, Completed, Cleanup, EndingState
<1>3. QED BY <1>1, <1>2

LEMMA ReturnErrorLocal ==
    ASSUME TypeOK, NEW s \in Sessions, NEW t \in Sessions, t # s, NEW left,
           ReturnError(s, left)
    PROVE  /\ pc'[t] = pc[t] /\ art'[t] = art[t]
           /\ EndingState(t)' = EndingState(t)
<1>1. pc'[t] = pc[t] /\ art'[t] = art[t]
  BY GoLocal DEF ReturnError, DeferredAbort, Cleanup
<1>2. EndingState(t)' = EndingState(t)
  <2>1. CASE UNCHANGED ending
    BY <2>1 DEF ending, EndingState
  <2>2. CASE /\ told' = [told EXCEPT ![s] = left]
             /\ outcome' = [outcome EXCEPT ![s] = "failed"]
             /\ DeferredAbort(s, cleaned, "failed")
    BY <2>2 DEF TypeOK, DeferredAbort, Cleanup, EndingState
  <2>3. QED BY <2>1, <2>2 DEF ReturnError
<1>3. QED BY <1>1, <1>2

LEMMA StepsAreLocal ==
    ASSUME TypeOK, NEW s \in Sessions, NEW t \in Sessions, t # s,
           Start(s) \/ Answer(s) \/ Run(s) \/ Kill(s)
    PROVE  LocalState(t)' = LocalState(t)
<1>1. CASE Start(s)
    BY <1>1, GoLocal, FailLocal, FillTempLocal, ReportLocal
       DEF Start, LocalState, TypeOK, decided, flags, ending, names
<1>2. CASE StatFinal(s)
    BY <1>2, GoLocal, FailLocal, FillTempLocal, ReportLocal
       DEF StatFinal, LocalState, TypeOK, decided, flags, ending, names, ImageFirst
<1>3. CASE Authorize(s)
    BY <1>3, GoLocal, FailLocal, FillTempLocal, ReportLocal
       DEF Authorize, LocalState, TypeOK, decided, flags, ending, names
<1>4. CASE Answer(s)
    BY <1>4, GoLocal, FailLocal, FillTempLocal, ReportLocal
       DEF Answer, LocalState, TypeOK, decided, flags, ending, names
<1>5. CASE CreateTemp(s)
    BY <1>5, GoLocal, FailLocal, FillTempLocal, ReportLocal
       DEF CreateTemp, LocalState, TypeOK, decided, flags, names, ImageFirst, EndingState, ending
<1>6. CASE Build(s)
    BY <1>6, GoLocal, FailLocal, FillTempLocal, ReportLocal
       DEF Build, LocalState, TypeOK, decided, flags, names, ImageFirst, EndingState, ending
<1>7. CASE Finish(s)
    BY <1>7, GoLocal, FailLocal, FillTempLocal, ReportLocal
       DEF Finish, LocalState, TypeOK, decided, flags, names, ImageFirst, EndingState, ending
<1>8. CASE BakStat(s)
    BY <1>8, GoLocal, FailLocal, FillTempLocal, ReportLocal
       DEF BakStat, LocalState, TypeOK, decided, flags, names, AfterBak, EndingState, ending
<1>9. CASE BakRename(s)
    BY <1>9, GoLocal, FailLocal, FillTempLocal, ReportLocal
       DEF BakRename, LocalState, TypeOK, decided, flags, names, AfterBak, EndingState, ending, Mark
<1>10. CASE ClaimFinal(s)
    BY <1>10, GoLocal, FailLocal, FillTempLocal, ReportLocal
       DEF ClaimFinal, LocalState, TypeOK, decided, flags, names, EndingState, ending, Mark
<1>11. CASE RenameTemp(s)
    BY <1>11, GoLocal, FailLocal, FillTempLocal, ReportLocal
       DEF RenameTemp, LocalState, TypeOK, decided, flags, names, EndingState, ending, Mark, Unmark
<1>12. CASE DropBak(s)
    BY <1>12, GoLocal, SucceedLocal, FillTempLocal, ReportLocal
       DEF DropBak, LocalState, TypeOK, decided, flags, ending, EndingState, names, ImageFirst, Unmark
<1>13. CASE Unpublish(s)
    BY <1>13, GoLocal, FailLocal, FillTempLocal, ReportLocal
       DEF Unpublish, LocalState, TypeOK, decided, flags, ending, names, ImageFirst, Unmark
<1>14. CASE Restore(s)
    BY <1>14, GoLocal, FailLocal, FillTempLocal, ReportLocal
       DEF Restore, LocalState, TypeOK, decided, flags, ending, names, ResourcesFirst, Unmark
<1>15. CASE DropTemp(s)
    BY <1>15, GoLocal, ReturnErrorLocal, FillTempLocal, ReportLocal
       DEF DropTemp, LocalState, TypeOK, decided, flags, ending, EndingState, names, ImageFirst
<1>16. CASE Kill(s)
    BY <1>16, GoLocal, FailLocal, FillTempLocal, ReportLocal
       DEF Kill, LocalState, TypeOK, decided, flags, ending, names
<1>17. QED
    BY <1>1, <1>2, <1>3, <1>4, <1>5, <1>6, <1>7, <1>8, <1>9, <1>10, <1>11, <1>12, <1>13, <1>14, <1>15, <1>16 DEF Run

(* removeBaks ends in success, and a cleanup in the return of an error: Abort *)
(* finds nothing to do after either.                                        *)
LEMMA DropBakControl ==
    ASSUME TypeOK, NEW s \in Sessions, DropBak(s)
    PROVE  /\ ImageFirst(s, "published", "image")
           /\ \/ More(s) /\ UNCHANGED ending
              \/ ~More(s) /\ outcome'[s] = "published" /\ told' = told
<1>1. CASE More(s) /\ Go(s, pc[s], "resources") /\ UNCHANGED ending
  BY <1>1 DEF ImageFirst
<1>2. CASE ~More(s) /\ Succeed(s)
  <2>1. Go(s, "published", "image")
    BY <1>2 DEF Succeed, DeferredAbort, Completed
  <2>2. outcome'[s] = "published" /\ told' = told
    BY <1>2 DEF Succeed, TypeOK
  <2>3. QED BY <1>2, <2>1, <2>2 DEF ImageFirst
<1>3. QED BY <1>1, <1>2 DEF DropBak

LEMMA DropTempControl ==
    ASSUME TypeOK, NEW s \in Sessions, EndingOf(s), DropTemp(s)
    PROVE  /\ ImageFirst(s, "failed", "image")
           /\ \/ More(s) /\ UNCHANGED ending
              \/ /\ ~More(s) /\ outcome[s] = "open" /\ outcome'[s] = "failed"
                 /\ told'[s] = leftovers'[s]
              \/ ~More(s) /\ outcome[s] = "aborted" /\ UNCHANGED ending
<1>1. s \in cleaned /\ outcome[s] \in {"open", "aborted"}
  BY DEF DropTemp, At, EndingOf
<1>2. CASE More(s) /\ Go(s, pc[s], "resources") /\ UNCHANGED ending
  BY <1>2 DEF ImageFirst
<1>3. CASE ~More(s) /\ ReturnError(s, leftovers'[s])
  <2>1. Go(s, "failed", "image")
    BY <1>1, <1>3 DEF ReturnError, DeferredAbort
  <2>2. \/ /\ outcome[s] = "open" /\ outcome'[s] = "failed"
           /\ told'[s] = leftovers'[s]
        \/ outcome[s] = "aborted" /\ UNCHANGED ending
    BY <1>1, <1>3 DEF ReturnError, TypeOK
  <2>3. QED BY <1>3, <2>1, <2>2 DEF ImageFirst
<1>4. QED BY <1>2, <1>3 DEF DropTemp

(* What a step leaves of the end of its session. *)
LEMMA EndingFrame ==
    ASSUME UNCHANGED ending, NEW s \in Sessions
    PROVE  /\ outcome'[s] = outcome[s] /\ told'[s] = told[s]
           /\ s \in cleaned' <=> s \in cleaned
BY DEF ending

LEMMA FailEnding ==
    ASSUME TypeOK, NEW s \in Sessions
    PROVE  /\ Fail(s) => /\ s \in cleaned' /\ outcome'[s] = outcome[s]
                         /\ told'[s] = told[s]
           /\ Abort(s) => /\ s \in cleaned' /\ outcome'[s] = "aborted"
                          /\ told'[s] = told[s]
BY DEF TypeOK, Fail, Abort, Cleanup

(* Every action keeps the invariant of its session. *)
LEMMA BeginEnds ==
    ASSUME TypeOK, NEW s \in Sessions, EndingOf(s),
           Start(s) \/ StatFinal(s) \/ Authorize(s) \/ Answer(s)
    PROVE  EndingOf(s)'
<1>1. /\ outcome'[s] = outcome[s] /\ told'[s] = told[s]
      /\ claimed' = claimed /\ published' = published /\ backedUp' = backedUp
      /\ leftovers' = leftovers /\ temp' = temp
  BY DEF Start, StatFinal, Authorize, Answer, flags, ending
<1>2. /\ pc[s] \in {"idle", "stat", "authorize", "confirm"}
      /\ pc'[s] \in {"stat", "authorize", "confirm", "temp", "refused", "failed"}
  BY GoEffect, ImageFirstEffect DEF Start, StatFinal, Authorize, Answer, At
<1>3. QED BY <1>1, <1>2 DEF EndingOf

LEMMA PrepareEnds ==
    ASSUME TypeOK, NEW s \in Sessions, EndingOf(s), CreateTemp(s) \/ Build(s)
    PROVE  EndingOf(s)'
<1>1. /\ claimed' = claimed /\ published' = published /\ backedUp' = backedUp
      /\ leftovers' = leftovers /\ pc[s] \in {"temp", "build"}
  BY DEF CreateTemp, Build, flags, At
<1>2. CASE UNCHANGED ending /\ pc'[s] \in {"temp", "build", "finish"}
  BY <1>1, <1>2, EndingFrame DEF EndingOf
<1>3. CASE Abort(s)
  BY <1>1, <1>3, FailEffect, FailEnding DEF EndingOf
<1>4. QED BY <1>2, <1>3, ImageFirstEffect DEF CreateTemp, Build, At

LEMMA PublishEnds ==
    ASSUME TypeOK, NEW s \in Sessions, EndingOf(s),
           \/ Finish(s) \/ BakStat(s) \/ BakRename(s) \/ ClaimFinal(s) \/ RenameTemp(s)
    PROVE  EndingOf(s)'
<1>1. /\ leftovers' = leftovers
      /\ pc[s] \in {"finish", "bakStat", "bakRename", "claim", "rename"}
  BY DEF Finish, BakStat, BakRename, ClaimFinal, RenameTemp, At
<1>2. outcome[s] = "open" /\ told[s] = {}
  BY <1>1 DEF EndingOf, TypeOK, Outcomes
<1>3. CASE Fail(s)
  BY <1>1, <1>2, <1>3, FailEffect, FailEnding DEF EndingOf
<1>4. CASE /\ UNCHANGED ending
           /\ pc'[s] \in {"finish", "bakStat", "bakRename", "claim", "rename", "dropBak"}
           /\ pc'[s] = "finish" => pc[s] = "finish" /\ UNCHANGED flags
  BY <1>1, <1>2, <1>4, EndingFrame DEF EndingOf, flags
<1>5. CASE Finish(s)
  BY <1>3, <1>4, <1>5, ImageFirstEffect DEF Finish, At
<1>6. CASE BakStat(s) \/ BakRename(s)
  BY <1>3, <1>4, <1>6, GoEffect DEF BakStat, BakRename, AfterBak
<1>7. CASE ClaimFinal(s) \/ RenameTemp(s)
  BY <1>3, <1>4, <1>7, GoEffect DEF ClaimFinal, RenameTemp
<1>8. QED BY <1>5, <1>6, <1>7

LEMMA DropBakEnds ==
    ASSUME TypeOK, NEW s \in Sessions, EndingOf(s), DropBak(s)
    PROVE  EndingOf(s)'
<1>1. pc[s] = "dropBak" /\ outcome[s] = "open" /\ told[s] = {}
  BY DEF DropBak, At, EndingOf, TypeOK, Outcomes
<1>2. CASE pc'[s] = "dropBak" /\ UNCHANGED ending
  BY <1>1, <1>2, EndingFrame DEF EndingOf
<1>3. CASE pc'[s] = "published" /\ outcome'[s] = "published" /\ told' = told
  BY <1>1, <1>3 DEF EndingOf
<1>4. QED BY <1>1, <1>2, <1>3, DropBakControl, ImageFirstEffect DEF More

LEMMA RollbackEnds ==
    ASSUME TypeOK, NEW s \in Sessions, EndingOf(s), Unpublish(s) \/ Restore(s)
    PROVE  EndingOf(s)'
<1>1. /\ UNCHANGED ending /\ pc[s] \in {"unpublish", "restore"}
      /\ pc'[s] \in {"unpublish", "restore", "dropTemp"}
  BY ImageFirstEffect, ResourcesFirstEffect DEF Unpublish, Restore, At
<1>2. \/ outcome[s] = "open"
      \/ claimed[s] = {} /\ published[s] = {} /\ backedUp[s] = {}
  BY <1>1 DEF EndingOf
<1>3. \/ outcome[s] = "open"
      \/ claimed'[s] = {} /\ published'[s] = {} /\ backedUp'[s] = {}
  <2>1. /\ claimed' = claimed \/ claimed' = Unmark(claimed, s, art[s])
        /\ published' = published \/ published' = Unmark(published, s, art[s])
        /\ backedUp' = backedUp \/ backedUp' = Unmark(backedUp, s, art[s])
    BY DEF Unpublish, Restore
  <2>2. /\ claimed'[s] \subseteq claimed[s] /\ published'[s] \subseteq published[s]
        /\ backedUp'[s] \subseteq backedUp[s]
    <3>1. claimed'[s] \subseteq claimed[s]
      BY <2>1 DEF TypeOK, Unmark
    <3>2. published'[s] \subseteq published[s]
      BY <2>1 DEF TypeOK, Unmark
    <3>3. backedUp'[s] \subseteq backedUp[s]
      BY <2>1 DEF TypeOK, Unmark
    <3>4. QED BY <3>1, <3>2, <3>3
  <2>3. QED BY <1>2, <2>2
<1>4. QED BY <1>1, <1>3, EndingFrame DEF EndingOf

LEMMA DropTempEnds ==
    ASSUME TypeOK, NEW s \in Sessions, EndingOf(s), DropTemp(s)
    PROVE  EndingOf(s)'
<1>1. pc[s] = "dropTemp" /\ UNCHANGED flags /\ told[s] = {}
  BY DEF DropTemp, At, EndingOf
<1>2. CASE pc'[s] = "dropTemp" /\ UNCHANGED ending
  BY <1>1, <1>2, EndingFrame DEF EndingOf, flags
<1>3. CASE /\ outcome'[s] = "failed" /\ pc'[s] = "failed"
           /\ told'[s] = leftovers'[s]
  BY <1>1, <1>3 DEF EndingOf
<1>4. CASE outcome[s] = "aborted" /\ pc'[s] = "failed" /\ UNCHANGED ending
  BY <1>1, <1>4, EndingFrame DEF EndingOf, flags
<1>5. QED BY <1>1, <1>2, <1>3, <1>4, DropTempControl, ImageFirstEffect DEF More

LEMMA KillEnds ==
    ASSUME TypeOK, NEW s \in Sessions, EndingOf(s), Kill(s)
    PROVE  EndingOf(s)'
<1>1. /\ UNCHANGED ending /\ UNCHANGED flags
      /\ pc[s] \notin Terminal /\ pc'[s] = "killed"
  BY GoEffect DEF Kill
<1>2. outcome[s] \in {"open", "aborted"}
  BY <1>1 DEF EndingOf, Terminal, TypeOK, Outcomes
<1>3. QED BY <1>1, <1>2, EndingFrame DEF EndingOf, flags, Terminal

LEMMA EndingStep ==
    ASSUME TypeOK, EndingInv, [Next]_vars
    PROVE  EndingInv'
<1>1. ASSUME NEW s \in Sessions, Start(s) \/ Answer(s) \/ Run(s) \/ Kill(s)
      PROVE  EndingInv'
  <2>1. EndingOf(s)'
    BY <1>1, BeginEnds, PrepareEnds, PublishEnds, DropBakEnds, RollbackEnds,
       DropTempEnds, KillEnds DEF EndingInv, Run
  <2>2. ASSUME NEW t \in Sessions, t # s PROVE EndingOf(t)'
    BY <1>1, <2>2, StepsAreLocal DEF EndingInv, EndingOf, LocalState
  <2>3. QED BY <2>1, <2>2 DEF EndingInv
<1>2. ASSUME NEW a \in Artifacts, ForeignCreate(a) PROVE EndingInv'
  BY <1>2 DEF ForeignCreate, EndingInv, EndingOf, control, flags, ending
<1>3. CASE UNCHANGED vars
  BY <1>3 DEF vars, EndingInv, EndingOf, control, flags, ending
<1>4. QED BY <1>1, <1>2, <1>3 DEF Next, Finished

(* Cleanup of a session runs at most once and never after a success; an error *)
(* of Publish carries all that its cleanup left, and one before Publish       *)
(* nothing at all (fail, Abort, publishBuild).                                *)
THEOREM CleanupRunsOnce == Spec => [](TypeOK /\ EndingInv)
<1>1. Init => TypeOK /\ EndingInv
  BY InitTypes DEF Init, EndingInv, EndingOf
<1>2. TypeOK /\ EndingInv /\ [Next]_vars => EndingInv'
  BY EndingStep
<1>3. QED BY <1>1, <1>2, TypeCorrect, PTL DEF Spec

-----------------------------------------------------------------------------
(* Publication without --force.                                             *)

(* No session asks to replace anything: no --force, and the overwrite prompt *)
(* is never shown.                                                          *)
NoReplaceRequested == \A r \in Requests : ~r.force /\ r.confirm = "nil"

(* Files of different kinds or sessions are different. *)
LEMMA FilesDiffer ==
    /\ \A s, t \in Sessions : /\ Claim(s) = Claim(t) => s = t
                              /\ New(s) = New(t) => s = t
                              /\ Claim(s) # New(t)
    /\ \A s \in Sessions : /\ Claim(s) \notin {Absent, Old, Foreign, Unowned("stale")}
                           /\ New(s) \notin {Absent, Old, Foreign, Unowned("stale")}
                           /\ Part(s) # Absent
    /\ Absent # Old /\ Absent # Foreign /\ Old # Foreign
    /\ Unowned("stale") \notin {Absent, Old, Foreign}
BY DEF Claim, New, Part, Absent, Old, Foreign, Owned, Unowned

LEMMA OwnerStep ==
    ASSUME TypeOK, FlagsTellOwner, NEW s \in Sessions, NEW a \in Artifacts,
           final[a] \in {Absent, Claim(s), New(s)},
           NEW file \in {Absent, Claim(s), New(s)},
           final' = [final EXCEPT ![a] = file],
           \A t \in Sessions : t # s => /\ claimed'[t] = claimed[t]
                                       /\ published'[t] = published[t],
           claimed'[s] = IF file = Claim(s) THEN claimed[s] \cup {a}
                         ELSE claimed[s] \ {a},
           published'[s] = IF file = New(s) THEN published[s] \cup {a}
                           ELSE published[s] \ {a}
    PROVE  FlagsTellOwner'
<1> SUFFICES ASSUME NEW t \in Sessions, NEW b \in Artifacts
             PROVE  /\ b \in claimed'[t] <=> final'[b] = Claim(t)
                    /\ b \in published'[t] <=> final'[b] = New(t)
    BY DEF FlagsTellOwner
<1>1. CASE b # a
    BY <1>1 DEF FlagsTellOwner, TypeOK
<1>2. CASE b = a /\ t = s
    BY <1>2, FilesDiffer DEF FlagsTellOwner, TypeOK
<1>3. CASE b = a /\ t # s
    BY <1>3, FilesDiffer DEF FlagsTellOwner, TypeOK
<1>4. QED BY <1>1, <1>2, <1>3

LEMMA LocalInvariant ==
    ASSUME NEW t \in Sessions, LocalState(t)' = LocalState(t),
           NothingReplaced(t), PublicationOrder(t), RolledBack(t)
    PROVE  NothingReplaced(t)' /\ PublicationOrder(t)' /\ RolledBack(t)'
BY DEF LocalState, NothingReplaced, PublicationOrder, RolledBack, PublishedBefore, ArtifactsOf,
       Offline, At, Committed

(* Every action of a session keeps its part of the invariant.               *)

LEMMA StartSafe ==
    ASSUME NoReplaceRequested, TypeOK, NoClobberInv, NEW s \in Sessions, Start(s)
    PROVE  /\ FlagsTellOwner' /\ StaleBaks'
           /\ NothingReplaced(s)' /\ PublicationOrder(s)' /\ RolledBack(s)'
<1>1. FlagsTellOwner'
    BY DEF Start, NoClobberInv, FlagsTellOwner, flags, names
<1>2. StaleBaks'
    BY DEF Start, NoClobberInv, NothingReplaced, StaleBaks, names
<1>3. NothingReplaced(s)'
    BY GoEffect
       DEF Start, NoClobberInv, NothingReplaced, TypeOK, NoReplaceRequested, At, decided, flags
<1>4. PublicationOrder(s)'
    BY GoEffect
       DEF Start, NoClobberInv, PublicationOrder, PublishedBefore, TypeOK, ArtifactsOf,
           Offline, At, Committed, decided, flags, Artifacts
<1>5. RolledBack(s)'
  <2>1. claimed[s] = {} /\ published[s] = {}
    BY DEF Start, At, NoClobberInv, PublicationOrder
  <2>2. QED BY <2>1 DEF Start, RolledBack, flags
<1>6. QED BY <1>1, <1>2, <1>3, <1>4, <1>5

LEMMA StatFinalSafe ==
    ASSUME NoReplaceRequested, TypeOK, NoClobberInv, NEW s \in Sessions, StatFinal(s)
    PROVE  /\ FlagsTellOwner' /\ StaleBaks'
           /\ NothingReplaced(s)' /\ PublicationOrder(s)' /\ RolledBack(s)'
<1>1. FlagsTellOwner'
    BY DEF StatFinal, NoClobberInv, FlagsTellOwner, flags, names
<1>2. StaleBaks'
    BY DEF StatFinal, NoClobberInv, NothingReplaced, StaleBaks, names
<1>3. NothingReplaced(s)'
    BY ImageFirstEffect, GoEffect
       DEF StatFinal, NoClobberInv, NothingReplaced, TypeOK, NoReplaceRequested, At, decided, flags
<1>4. PublicationOrder(s)'
    BY ImageFirstEffect, GoEffect
       DEF StatFinal, NoClobberInv, PublicationOrder, PublishedBefore, TypeOK, ArtifactsOf,
           Offline, At, Committed, decided, flags, Artifacts
<1>5. RolledBack(s)'
  <2>1. claimed[s] = {} /\ published[s] = {}
    BY DEF StatFinal, At, NoClobberInv, PublicationOrder
  <2>2. QED BY <2>1 DEF StatFinal, RolledBack, flags
<1>6. QED BY <1>1, <1>2, <1>3, <1>4, <1>5

LEMMA AuthorizeSafe ==
    ASSUME NoReplaceRequested, TypeOK, NoClobberInv, NEW s \in Sessions, Authorize(s)
    PROVE  /\ FlagsTellOwner' /\ StaleBaks'
           /\ NothingReplaced(s)' /\ PublicationOrder(s)' /\ RolledBack(s)'
<1>1. FlagsTellOwner'
    BY DEF Authorize, NoClobberInv, FlagsTellOwner, flags, names
<1>2. StaleBaks'
    BY DEF Authorize, NoClobberInv, NothingReplaced, StaleBaks, names
<1>3. NothingReplaced(s)'
    BY GoEffect
       DEF Authorize, NoClobberInv, NothingReplaced, TypeOK, NoReplaceRequested, At, decided, flags
<1>4. PublicationOrder(s)'
    BY GoEffect
       DEF Authorize, NoClobberInv, PublicationOrder, PublishedBefore, TypeOK, ArtifactsOf,
           Offline, At, Committed, decided, flags, Artifacts
<1>5. RolledBack(s)'
  <2>1. claimed[s] = {} /\ published[s] = {}
    BY DEF Authorize, At, NoClobberInv, PublicationOrder
  <2>2. QED BY <2>1 DEF Authorize, RolledBack, flags
<1>6. QED BY <1>1, <1>2, <1>3, <1>4, <1>5

(* The overwrite prompt is not reached. *)
LEMMA AnswerSafe ==
    ASSUME NoClobberInv, NEW s \in Sessions, Answer(s)
    PROVE  FALSE
BY DEF NoClobberInv, NothingReplaced, Answer, At

LEMMA CreateTempSafe ==
    ASSUME NoReplaceRequested, TypeOK, NoClobberInv, NEW s \in Sessions, CreateTemp(s)
    PROVE  /\ FlagsTellOwner' /\ StaleBaks'
           /\ NothingReplaced(s)' /\ PublicationOrder(s)' /\ RolledBack(s)'
<1>1. FlagsTellOwner'
    BY DEF CreateTemp, NoClobberInv, FlagsTellOwner, flags, names
<1>2. StaleBaks'
    BY DEF CreateTemp, NoClobberInv, NothingReplaced, StaleBaks, names
<1>3. NothingReplaced(s)'
    BY ImageFirstEffect, FailEffect, FillTempEffect
       DEF CreateTemp, NoClobberInv, NothingReplaced, TypeOK, NoReplaceRequested, At, decided, flags
<1>4. PublicationOrder(s)'
    BY ImageFirstEffect, FailEffect, FillTempEffect
       DEF CreateTemp, NoClobberInv, PublicationOrder, PublishedBefore, TypeOK, ArtifactsOf,
           Offline, At, Committed, decided, flags, Artifacts
<1>5. RolledBack(s)'
  <2>1. claimed[s] = {} /\ published[s] = {}
    BY DEF CreateTemp, At, NoClobberInv, PublicationOrder
  <2>2. QED BY <2>1 DEF CreateTemp, RolledBack, flags
<1>6. QED BY <1>1, <1>2, <1>3, <1>4, <1>5

LEMMA BuildSafe ==
    ASSUME NoReplaceRequested, TypeOK, NoClobberInv, NEW s \in Sessions, Build(s)
    PROVE  /\ FlagsTellOwner' /\ StaleBaks'
           /\ NothingReplaced(s)' /\ PublicationOrder(s)' /\ RolledBack(s)'
<1>1. FlagsTellOwner'
    BY DEF Build, NoClobberInv, FlagsTellOwner, flags, names
<1>2. StaleBaks'
    BY DEF Build, NoClobberInv, NothingReplaced, StaleBaks, names
<1>3. NothingReplaced(s)'
    BY ImageFirstEffect, FailEffect, FillTempEffect
       DEF Build, NoClobberInv, NothingReplaced, TypeOK, NoReplaceRequested, At, decided, flags
<1>4. PublicationOrder(s)'
    BY ImageFirstEffect, FailEffect, FillTempEffect
       DEF Build, NoClobberInv, PublicationOrder, PublishedBefore, TypeOK, ArtifactsOf,
           Offline, At, Committed, decided, flags, Artifacts
<1>5. RolledBack(s)'
  <2>1. claimed[s] = {} /\ published[s] = {}
    BY DEF Build, At, NoClobberInv, PublicationOrder
  <2>2. QED BY <2>1 DEF Build, RolledBack, flags
<1>6. QED BY <1>1, <1>2, <1>3, <1>4, <1>5

LEMMA FinishSafe ==
    ASSUME NoReplaceRequested, TypeOK, NoClobberInv, NEW s \in Sessions, Finish(s)
    PROVE  /\ FlagsTellOwner' /\ StaleBaks'
           /\ NothingReplaced(s)' /\ PublicationOrder(s)' /\ RolledBack(s)'
<1>1. FlagsTellOwner'
    BY DEF Finish, NoClobberInv, FlagsTellOwner, flags, names
<1>2. StaleBaks'
    BY DEF Finish, NoClobberInv, NothingReplaced, StaleBaks, names
<1>3. NothingReplaced(s)'
    BY ImageFirstEffect, FailEffect
       DEF Finish, NoClobberInv, NothingReplaced, TypeOK, NoReplaceRequested, At, decided, flags
<1>4. PublicationOrder(s)'
  <2>1. /\ At(s, "finish") /\ ~replace[s] /\ claimed[s] = {} /\ published[s] = {}
        /\ \A a \in ArtifactsOf(s) : temp[s][a] = New(s)
        /\ art[s] = "resources" => Offline(s)
    BY DEF Finish, At, NoClobberInv, NothingReplaced, PublicationOrder
  <2>2. CASE Fail(s)
    BY <2>1, <2>2, FailEffect
       DEF Finish, PublicationOrder, ArtifactsOf, Offline, At, Committed, decided, flags
  <2>3. CASE ImageFirst(s, "claim", FirstPublished(s))
    <3>1. \/ Offline(s) /\ pc'[s] = "finish"
          \/ pc'[s] = "claim" /\ art'[s] = FirstPublished(s)
      BY <2>1, <2>3, ImageFirstEffect DEF At
    <3>2. QED
      BY <2>1, <3>1
         DEF Finish, PublicationOrder, PublishedBefore, ArtifactsOf, Offline, At,
             Committed, FirstPublished, decided, flags
  <2>4. QED BY <2>1, <2>2, <2>3 DEF Finish
<1>5. RolledBack(s)'
  <2>1. claimed[s] = {} /\ published[s] = {}
    BY DEF Finish, At, NoClobberInv, PublicationOrder
  <2>2. QED BY <2>1 DEF Finish, RolledBack, flags
<1>6. QED BY <1>1, <1>2, <1>3, <1>4, <1>5

LEMMA ClaimFinalSafe ==
    ASSUME NoReplaceRequested, TypeOK, NoClobberInv, NEW s \in Sessions, ClaimFinal(s)
    PROVE  /\ FlagsTellOwner' /\ StaleBaks'
           /\ NothingReplaced(s)' /\ PublicationOrder(s)' /\ RolledBack(s)'
<1>1. FlagsTellOwner'
  <2> DEFINE a == art[s]
  <2>1. a \in Artifacts
    BY DEF TypeOK
  <2>2. At(s, "claim") /\ claimed[s] = {}
    BY DEF ClaimFinal, At, NoClobberInv, PublicationOrder
  <2>3. CASE /\ NameFree(a)
             /\ final' = [final EXCEPT ![a] = Claim(s)]
             /\ claimed' = Mark(claimed, s, a)
    <3>1. final[a] = Absent /\ a \notin published[s]
      BY <2>1, <2>3, FilesDiffer DEF NameFree, NoClobberInv, FlagsTellOwner
    <3>2. published' = published
      BY DEF ClaimFinal
    <3>3. /\ claimed'[s] = claimed[s] \cup {a}
          /\ \A t \in Sessions : t # s => claimed'[t] = claimed[t]
      BY <2>1, <2>3 DEF TypeOK, Mark, Unmark
    <3>4. published'[s] = published[s] \ {a}
      BY <3>1, <3>2
    <3>5. QED
      BY <2>1, <2>3, <3>1, <3>2, <3>3, <3>4, OwnerStep, FilesDiffer DEF NoClobberInv
  <2>4. CASE UNCHANGED <<final, claimed>>
    BY <2>4 DEF ClaimFinal, NoClobberInv, FlagsTellOwner
  <2>5. QED BY <2>3, <2>4 DEF ClaimFinal
<1>2. StaleBaks'
    BY DEF ClaimFinal, NoClobberInv, NothingReplaced, StaleBaks, names
<1>3. NothingReplaced(s)'
    BY GoEffect, FailEffect, FlagEffect
       DEF ClaimFinal, NoClobberInv, NothingReplaced, TypeOK, NoReplaceRequested, At, decided, flags
<1>4. PublicationOrder(s)'
  <2>1. /\ At(s, "claim") /\ claimed[s] = {} /\ published[s] = PublishedBefore(s)
        /\ \A a \in ArtifactsOf(s) \ published[s] : temp[s][a] = New(s)
        /\ art[s] = "resources" => Offline(s)
        /\ art[s] \in ArtifactsOf(s)
    BY DEF ClaimFinal, At, NoClobberInv, PublicationOrder, ArtifactsOf, Artifacts, TypeOK
  <2>2. published[s] \subseteq {"resources"} \cap ArtifactsOf(s)
    BY <2>1 DEF PublishedBefore, ArtifactsOf, Artifacts
  <2>3. claimed'[s] \subseteq {art[s]}
    BY <2>1 DEF ClaimFinal, TypeOK, Mark, Unmark
  <2>4. CASE Fail(s)
    BY <2>1, <2>2, <2>3, <2>4, FailEffect
       DEF ClaimFinal, PublicationOrder, ArtifactsOf, Offline, At, Committed, decided
  <2>5. CASE Go(s, "rename", art[s]) /\ claimed' = Mark(claimed, s, art[s])
    <3>1. claimed'[s] = {art[s]}
      BY <2>1, <2>5 DEF TypeOK, Mark, Unmark
    <3>2. pc'[s] = "rename" /\ art'[s] = art[s]
      BY <2>5, GoEffect
    <3>3. QED
      BY <2>1, <2>2, <3>1, <3>2
         DEF ClaimFinal, PublicationOrder, PublishedBefore, ArtifactsOf, Offline, At,
             Committed, decided
  <2>6. QED BY <2>4, <2>5 DEF ClaimFinal
<1>5. RolledBack(s)'
    BY GoEffect, FailEffect, FlagEffect
       DEF ClaimFinal, NoClobberInv, RolledBack, TypeOK, At, flags, Artifacts
<1>6. QED BY <1>1, <1>2, <1>3, <1>4, <1>5

LEMMA RenameTempSafe ==
    ASSUME NoReplaceRequested, TypeOK, NoClobberInv, NEW s \in Sessions, RenameTemp(s)
    PROVE  /\ FlagsTellOwner' /\ StaleBaks'
           /\ NothingReplaced(s)' /\ PublicationOrder(s)' /\ RolledBack(s)'
<1>1. FlagsTellOwner'
  <2> DEFINE a == art[s]
  <2>1. a \in Artifacts
    BY DEF TypeOK
  <2>2. /\ claimed[s] = {a} /\ a \notin published[s]
        /\ temp[s][a] = New(s) /\ final[a] = Claim(s)
    <3>1. claimed[s] = {a} /\ published[s] = PublishedBefore(s)
      BY DEF RenameTemp, At, NoClobberInv, PublicationOrder
    <3>2. final[a] = Claim(s)
      BY <2>1, <3>1 DEF NoClobberInv, FlagsTellOwner
    <3>3. a \notin published[s]
      BY <2>1, <3>2, FilesDiffer DEF NoClobberInv, FlagsTellOwner
    <3>4. a \in ArtifactsOf(s)
      BY <2>1 DEF NoClobberInv, PublicationOrder, ArtifactsOf, Artifacts
    <3>5. QED
      BY <3>1, <3>2, <3>3, <3>4 DEF RenameTemp, At, NoClobberInv, PublicationOrder
  <2>3. CASE /\ final' = [final EXCEPT ![a] = temp[s][a]]
             /\ claimed' = Unmark(claimed, s, a)
             /\ published' = Mark(published, s, a)
    <3>1. /\ claimed'[s] = claimed[s] \ {a}
          /\ \A t \in Sessions : t # s => claimed'[t] = claimed[t]
      BY <2>1, <2>3 DEF TypeOK, Mark, Unmark
    <3>2. /\ published'[s] = published[s] \cup {a}
          /\ \A t \in Sessions : t # s => published'[t] = published[t]
      BY <2>1, <2>3 DEF TypeOK, Mark, Unmark
    <3>3. QED
      BY <2>1, <2>2, <2>3, <3>1, <3>2, OwnerStep, FilesDiffer DEF NoClobberInv
  <2>4. CASE UNCHANGED <<final, claimed, published>>
    BY <2>4 DEF NoClobberInv, FlagsTellOwner
  <2>5. QED BY <2>3, <2>4 DEF RenameTemp
<1>2. StaleBaks'
    BY DEF RenameTemp, NoClobberInv, NothingReplaced, StaleBaks, names
<1>3. NothingReplaced(s)'
    BY GoEffect, FailEffect, FlagEffect, FillTempEffect
       DEF RenameTemp, NoClobberInv, NothingReplaced, TypeOK, NoReplaceRequested, At, decided, flags
<1>4. PublicationOrder(s)'
  <2>1. /\ At(s, "rename") /\ claimed[s] = {art[s]} /\ published[s] = PublishedBefore(s)
        /\ \A a \in ArtifactsOf(s) \ published[s] : temp[s][a] = New(s)
        /\ art[s] = "resources" => Offline(s)
        /\ art[s] \in ArtifactsOf(s)
    BY DEF RenameTemp, At, NoClobberInv, PublicationOrder, ArtifactsOf, Artifacts, TypeOK
  <2>2. published[s] \subseteq {"resources"} \cap ArtifactsOf(s)
    BY <2>1 DEF PublishedBefore, ArtifactsOf, Artifacts
  <2>3. CASE Fail(s) /\ UNCHANGED <<claimed, published>>
    BY <2>1, <2>2, <2>3, FailEffect
       DEF RenameTemp, PublicationOrder, ArtifactsOf, Offline, At, Committed, decided
  <2>4. CASE /\ FillTemp(s, art[s], Absent)
             /\ claimed' = Unmark(claimed, s, art[s])
             /\ published' = Mark(published, s, art[s])
             /\ IF art[s] = "resources" THEN Go(s, "claim", "image")
                ELSE Go(s, "dropBak", "image")
    <3>1. claimed'[s] = {}
      BY <2>1, <2>4 DEF TypeOK, Mark, Unmark
    <3>2. published'[s] = published[s] \cup {art[s]}
      BY <2>1, <2>4 DEF TypeOK, Mark, Unmark
    <3>3. CASE art[s] = "resources"
      <4>1. pc'[s] = "claim" /\ art'[s] = "image" /\ published'[s] = {"resources"}
        BY <2>1, <2>4, <3>2, <3>3, GoEffect DEF PublishedBefore
      <4>2. temp'[s]["image"] = New(s)
        BY <2>1, <2>2, <2>4, <3>3, FillTempEffect DEF ArtifactsOf, Artifacts
      <4>3. QED
        BY <2>1, <3>1, <3>3, <4>1, <4>2
           DEF RenameTemp, PublicationOrder, PublishedBefore, ArtifactsOf, Artifacts,
               Offline, At, Committed, decided
    <3>4. CASE art[s] # "resources"
      <4>1. art[s] = "image"
        BY <3>4 DEF TypeOK, Artifacts
      <4>2. pc'[s] = "dropBak" /\ art'[s] = "image"
        BY <2>4, <3>4, GoEffect
      <4>3. published'[s] = ArtifactsOf(s)
        BY <2>1, <3>2, <4>1 DEF PublishedBefore, ArtifactsOf, Artifacts
      <4>4. QED
        BY <3>1, <4>1, <4>2, <4>3
           DEF RenameTemp, PublicationOrder, ArtifactsOf, Artifacts, Offline, At,
               Committed, decided
    <3>5. QED BY <3>3, <3>4
  <2>5. QED BY <2>3, <2>4 DEF RenameTemp
<1>5. RolledBack(s)'
    BY GoEffect, FailEffect, FlagEffect, FillTempEffect
       DEF RenameTemp, NoClobberInv, RolledBack, TypeOK, At, flags, Artifacts
<1>6. QED BY <1>1, <1>2, <1>3, <1>4, <1>5

LEMMA DropBakSafe ==
    ASSUME NoReplaceRequested, TypeOK, NoClobberInv, NEW s \in Sessions, DropBak(s)
    PROVE  /\ FlagsTellOwner' /\ StaleBaks'
           /\ NothingReplaced(s)' /\ PublicationOrder(s)' /\ RolledBack(s)'
<1>1. FlagsTellOwner'
    BY DEF DropBak, NoClobberInv, FlagsTellOwner, flags, names, NothingReplaced
<1>2. StaleBaks'
    BY DEF DropBak, NoClobberInv, NothingReplaced, StaleBaks, names
<1>3. NothingReplaced(s)'
    BY DropBakControl, ImageFirstEffect
       DEF DropBak, NoClobberInv, NothingReplaced, TypeOK, NoReplaceRequested, At, decided, flags
<1>4. PublicationOrder(s)'
    BY DropBakControl, ImageFirstEffect
       DEF DropBak, NoClobberInv, PublicationOrder, PublishedBefore, TypeOK, ArtifactsOf,
           Offline, At, Committed, decided, flags, Artifacts
<1>5. RolledBack(s)'
    BY DropBakControl, ImageFirstEffect
       DEF DropBak, NoClobberInv, RolledBack, TypeOK, At, flags, Artifacts
<1>6. QED BY <1>1, <1>2, <1>3, <1>4, <1>5

LEMMA UnpublishSafe ==
    ASSUME NoReplaceRequested, TypeOK, NoClobberInv, NEW s \in Sessions, Unpublish(s)
    PROVE  /\ FlagsTellOwner' /\ StaleBaks'
           /\ NothingReplaced(s)' /\ PublicationOrder(s)' /\ RolledBack(s)'
<1>1. FlagsTellOwner'
  <2> DEFINE a == art[s]
  <2>1. a \in Artifacts
    BY DEF TypeOK
  <2>2. CASE /\ Owns(s, a)
             /\ final' = [final EXCEPT ![a] = Absent]
             /\ claimed' = Unmark(claimed, s, a)
             /\ published' = Unmark(published, s, a)
    <3>1. final[a] \in {Claim(s), New(s)}
      BY <2>1, <2>2 DEF Owns, NoClobberInv, FlagsTellOwner
    <3>2. /\ claimed'[s] = claimed[s] \ {a}
          /\ \A t \in Sessions : t # s => claimed'[t] = claimed[t]
      BY <2>1, <2>2 DEF TypeOK, Mark, Unmark
    <3>3. /\ published'[s] = published[s] \ {a}
          /\ \A t \in Sessions : t # s => published'[t] = published[t]
      BY <2>1, <2>2 DEF TypeOK, Mark, Unmark
    <3>4. QED
      BY <2>1, <2>2, <3>1, <3>2, <3>3, OwnerStep, FilesDiffer DEF NoClobberInv
  <2>3. CASE UNCHANGED <<final, claimed, published>>
    BY <2>3 DEF NoClobberInv, FlagsTellOwner
  <2>4. QED BY <2>2, <2>3 DEF Unpublish
<1>2. StaleBaks'
    BY DEF Unpublish, NoClobberInv, NothingReplaced, StaleBaks, names
<1>3. NothingReplaced(s)'
    BY ImageFirstEffect, FlagEffect
       DEF Unpublish, NoClobberInv, NothingReplaced, TypeOK, NoReplaceRequested, At, decided, flags
<1>4. PublicationOrder(s)'
  <2>1. /\ ~Committed(s) /\ claimed[s] \cup published[s] \subseteq ArtifactsOf(s)
        /\ At(s, "unpublish")
    BY DEF Unpublish, At, NoClobberInv, PublicationOrder
  <2>2. claimed'[s] \subseteq claimed[s]
    BY DEF Unpublish, TypeOK, Unmark
  <2>3. published'[s] \subseteq published[s]
    BY DEF Unpublish, TypeOK, Unmark
  <2>4. /\ pc'[s] \in {"unpublish", "restore"}
        /\ art'[s] = "resources" => Offline(s)
    BY <2>1, ImageFirstEffect DEF Unpublish, At, FirstPublished
  <2>5. QED
    BY <2>1, <2>2, <2>3, <2>4
       DEF Unpublish, PublicationOrder, ArtifactsOf, Offline, At, Committed, decided
<1>5. RolledBack(s)'
  <2> DEFINE a == art[s]
  <2>1. /\ At(s, "unpublish") /\ a \in Artifacts
        /\ claimed[s] \cup published[s] \subseteq ArtifactsOf(s)
        /\ a = "resources" => Offline(s)
    BY DEF Unpublish, At, NoClobberInv, PublicationOrder, TypeOK
  <2>2. claimed'[s] \subseteq claimed[s]
    BY DEF Unpublish, TypeOK, Unmark
  <2>3. published'[s] \subseteq published[s]
    BY DEF Unpublish, TypeOK, Unmark
  <2>4. leftovers[s] \subseteq leftovers'[s]
    BY ReportEffect DEF Unpublish
  <2>5. a \in claimed'[s] \cup published'[s] => <<"final", a>> \in leftovers'[s]
    <3>1. CASE claimed' = Unmark(claimed, s, a) /\ published' = Unmark(published, s, a)
      <4>1. a \notin claimed'[s]
        BY <2>1, <3>1 DEF TypeOK, Mark, Unmark
      <4>2. a \notin published'[s]
        BY <2>1, <3>1 DEF TypeOK, Mark, Unmark
      <4>3. QED BY <4>1, <4>2
    <3>2. CASE Report(s, "final", a)
      BY <3>2, ReportEffect
    <3>3. CASE ~Owns(s, a) /\ UNCHANGED <<claimed, published>>
      BY <3>3 DEF Owns
    <3>4. QED BY <3>1, <3>2, <3>3 DEF Unpublish
  <2>6. CASE a = "image" /\ Offline(s)
    <3>1. pc'[s] = "unpublish"
      BY <2>1, <2>6, ImageFirstEffect DEF Unpublish, At
    <3>2. QED BY <2>5, <2>6, <3>1 DEF RolledBack, At
  <2>7. CASE ~(a = "image" /\ Offline(s))
    <3>1. ASSUME NEW b \in claimed[s] \cup published[s], b # a
          PROVE  <<"final", b>> \in leftovers[s]
      BY <2>1, <2>7, <3>1
         DEF NoClobberInv, RolledBack, ArtifactsOf, Artifacts, At
    <3>2. QED BY <2>2, <2>3, <2>4, <2>5, <3>1 DEF RolledBack
  <2>8. QED BY <2>6, <2>7
<1>6. QED BY <1>1, <1>2, <1>3, <1>4, <1>5

LEMMA RestoreSafe ==
    ASSUME NoReplaceRequested, TypeOK, NoClobberInv, NEW s \in Sessions, Restore(s)
    PROVE  /\ FlagsTellOwner' /\ StaleBaks'
           /\ NothingReplaced(s)' /\ PublicationOrder(s)' /\ RolledBack(s)'
<1>1. FlagsTellOwner'
    BY DEF Restore, NoClobberInv, FlagsTellOwner, flags, names, NothingReplaced
<1>2. StaleBaks'
    BY DEF Restore, NoClobberInv, NothingReplaced, StaleBaks, names
<1>3. NothingReplaced(s)'
    BY ResourcesFirstEffect
       DEF Restore, NoClobberInv, NothingReplaced, TypeOK, NoReplaceRequested, At, decided, flags
<1>4. PublicationOrder(s)'
  <2>1. /\ ~Committed(s) /\ claimed[s] \cup published[s] \subseteq ArtifactsOf(s)
        /\ At(s, "restore")
    BY DEF Restore, At, NoClobberInv, PublicationOrder
  <2>2. pc'[s] \in {"restore", "dropTemp"} /\ art'[s] = "image"
    BY <2>1, ResourcesFirstEffect DEF Restore, At
  <2>3. QED
    BY <2>1, <2>2 DEF Restore, PublicationOrder, ArtifactsOf, Offline, At, Committed, decided
<1>5. RolledBack(s)'
  <2>1. \A a \in claimed[s] \cup published[s] : <<"final", a>> \in leftovers[s]
    <3>1. pc[s] = "restore"
      BY DEF Restore, At
    <3>2. QED BY <3>1 DEF NoClobberInv, RolledBack, At
  <2>2. leftovers[s] \subseteq leftovers'[s]
    BY ReportEffect DEF Restore
  <2>3. QED BY <2>1, <2>2 DEF Restore, RolledBack, flags
<1>6. QED BY <1>1, <1>2, <1>3, <1>4, <1>5

LEMMA DropTempSafe ==
    ASSUME NoReplaceRequested, TypeOK, EndingInv, NoClobberInv, NEW s \in Sessions, DropTemp(s)
    PROVE  /\ FlagsTellOwner' /\ StaleBaks'
           /\ NothingReplaced(s)' /\ PublicationOrder(s)' /\ RolledBack(s)'
<1>0. ImageFirst(s, "failed", "image")
    BY DropTempControl DEF EndingInv
<1>1. FlagsTellOwner'
    BY DEF DropTemp, NoClobberInv, FlagsTellOwner, flags, names
<1>2. StaleBaks'
    BY DEF DropTemp, NoClobberInv, NothingReplaced, StaleBaks, names
<1>3. NothingReplaced(s)'
    BY <1>0, ImageFirstEffect
       DEF DropTemp, NoClobberInv, NothingReplaced, TypeOK, NoReplaceRequested, At, decided, flags
<1>4. PublicationOrder(s)'
    BY <1>0, ImageFirstEffect
       DEF DropTemp, NoClobberInv, PublicationOrder, PublishedBefore, TypeOK, ArtifactsOf,
           Offline, At, Committed, decided, flags, Artifacts
<1>5. RolledBack(s)'
  <2>1. \A a \in claimed[s] \cup published[s] : <<"final", a>> \in leftovers[s]
    <3>1. pc[s] = "dropTemp"
      BY DEF DropTemp, At
    <3>2. QED BY <3>1 DEF NoClobberInv, RolledBack, At
  <2>2. leftovers[s] \subseteq leftovers'[s]
    BY ReportEffect DEF DropTemp
  <2>3. QED BY <2>1, <2>2 DEF DropTemp, RolledBack, flags
<1>6. QED BY <1>1, <1>2, <1>3, <1>4, <1>5

LEMMA KillSafe ==
    ASSUME NoReplaceRequested, TypeOK, NoClobberInv, NEW s \in Sessions, Kill(s)
    PROVE  /\ FlagsTellOwner' /\ StaleBaks'
           /\ NothingReplaced(s)' /\ PublicationOrder(s)' /\ RolledBack(s)'
<1>1. FlagsTellOwner'
    BY DEF Kill, NoClobberInv, FlagsTellOwner, flags, names
<1>2. StaleBaks'
    BY DEF Kill, NoClobberInv, NothingReplaced, StaleBaks, names
<1>3. NothingReplaced(s)'
    BY GoEffect
       DEF Kill, NoClobberInv, NothingReplaced, TypeOK, NoReplaceRequested, At, decided, flags
<1>4. PublicationOrder(s)'
    BY GoEffect
       DEF Kill, NoClobberInv, PublicationOrder, PublishedBefore, TypeOK, ArtifactsOf,
           Offline, At, Committed, decided, flags, Artifacts
<1>5. RolledBack(s)'
    BY GoEffect
       DEF Kill, NoClobberInv, RolledBack, TypeOK, At, flags, Artifacts
<1>6. QED BY <1>1, <1>2, <1>3, <1>4, <1>5

LEMMA ForeignCreateSafe ==
    ASSUME TypeOK, NoClobberInv, NEW a \in Artifacts, ForeignCreate(a)
    PROVE  NoClobberInv'
<1>1. FlagsTellOwner'
  <2> SUFFICES ASSUME NEW t \in Sessions, NEW b \in Artifacts
               PROVE  /\ b \in claimed'[t] <=> final'[b] = Claim(t)
                      /\ b \in published'[t] <=> final'[b] = New(t)
      BY DEF FlagsTellOwner
  <2>1. claimed' = claimed /\ published' = published
      BY DEF ForeignCreate, flags
  <2>2. CASE b = a
      BY <2>1, <2>2, FilesDiffer DEF ForeignCreate, NoClobberInv, FlagsTellOwner, TypeOK
  <2>3. CASE b # a
      BY <2>1, <2>3 DEF ForeignCreate, NoClobberInv, FlagsTellOwner, TypeOK
  <2>4. QED BY <2>2, <2>3
<1>2. StaleBaks'
    BY DEF ForeignCreate, NoClobberInv, StaleBaks
<1>3. ASSUME NEW t \in Sessions
      PROVE  NothingReplaced(t)' /\ PublicationOrder(t)' /\ RolledBack(t)'
  <2>1. LocalState(t)' = LocalState(t)
      BY DEF ForeignCreate, LocalState, control, decided, flags, ending
  <2>2. QED BY <2>1, LocalInvariant DEF NoClobberInv
<1>4. QED BY <1>1, <1>2, <1>3 DEF NoClobberInv

LEMMA InitSafe == Init => NoClobberInv
<1> SUFFICES ASSUME Init PROVE NoClobberInv
    OBVIOUS
<1>1. FlagsTellOwner
  <2>1. \A a \in Artifacts : final[a] \in {Absent, Old}
    BY PublisherAssumption DEF Init, Absent, Old
  <2>2. QED BY <2>1, FilesDiffer DEF Init, FlagsTellOwner
<1>2. StaleBaks
    BY PublisherAssumption DEF Init, StaleBaks, Absent
<1>3. ASSUME NEW s \in Sessions
      PROVE  NothingReplaced(s) /\ PublicationOrder(s) /\ RolledBack(s)
    BY DEF Init, NothingReplaced, PublicationOrder, RolledBack, ArtifactsOf, At, Committed
<1>4. QED BY <1>1, <1>2, <1>3 DEF NoClobberInv

LEMMA NextSafe ==
    ASSUME NoReplaceRequested, TypeOK, EndingInv, NoClobberInv, [Next]_vars
    PROVE  NoClobberInv'
<1>1. ASSUME NEW s \in Sessions, Start(s) \/ Answer(s) \/ Run(s) \/ Kill(s)
      PROVE  NoClobberInv'
  <2>1. ~At(s, "bakStat") /\ ~At(s, "bakRename")
    BY DEF NoClobberInv, NothingReplaced, At
  <2>2. /\ FlagsTellOwner' /\ StaleBaks'
        /\ NothingReplaced(s)' /\ PublicationOrder(s)' /\ RolledBack(s)'
    <3>1. CASE Start(s) \/ Answer(s) \/ Kill(s)
      BY <3>1, StartSafe, AnswerSafe, KillSafe
    <3>2. CASE StatFinal(s) \/ Authorize(s) \/ CreateTemp(s) \/ Build(s) \/ Finish(s)
      BY <3>2, StatFinalSafe, AuthorizeSafe, CreateTempSafe, BuildSafe, FinishSafe
    <3>3. CASE ClaimFinal(s) \/ RenameTemp(s) \/ DropBak(s)
      BY <3>3, ClaimFinalSafe, RenameTempSafe, DropBakSafe
    <3>4. CASE Unpublish(s) \/ Restore(s) \/ DropTemp(s)
      BY <3>4, UnpublishSafe, RestoreSafe, DropTempSafe
    <3>5. QED
      BY <1>1, <2>1, <3>1, <3>2, <3>3, <3>4 DEF Run, BakStat, BakRename
  <2>3. ASSUME NEW t \in Sessions, t # s
        PROVE  NothingReplaced(t)' /\ PublicationOrder(t)' /\ RolledBack(t)'
    BY <1>1, <2>3, StepsAreLocal, LocalInvariant DEF NoClobberInv
  <2>4. QED BY <2>2, <2>3 DEF NoClobberInv
<1>2. ASSUME NEW a \in Artifacts, ForeignCreate(a) PROVE NoClobberInv'
    BY <1>2, ForeignCreateSafe
<1>3. CASE UNCHANGED vars
  <2>1. ASSUME NEW t \in Sessions
        PROVE  NothingReplaced(t)' /\ PublicationOrder(t)' /\ RolledBack(t)'
    <3>1. LocalState(t)' = LocalState(t)
      BY <1>3 DEF vars, control, decided, flags, ending, LocalState
    <3>2. QED BY <3>1, LocalInvariant DEF NoClobberInv
  <2>2. FlagsTellOwner' /\ StaleBaks'
    BY <1>3 DEF vars, flags, names, NoClobberInv, FlagsTellOwner, StaleBaks
  <2>3. QED BY <2>1, <2>2 DEF NoClobberInv
<1>4. QED BY <1>1, <1>2, <1>3 DEF Next, Finished

(* Without --force, the flags of every session tell exactly which finals are *)
(* its own, at any interleaving of any number of processes.                 *)
THEOREM NoClobberInvariant ==
    ASSUME NoReplaceRequested PROVE Spec => []NoClobberInv
<1>1. Init => NoClobberInv
    BY InitSafe
<1>2. TypeOK /\ EndingInv /\ NoClobberInv /\ [Next]_vars => NoClobberInv'
    BY NextSafe
<1>3. QED BY <1>1, <1>2, CleanupRunsOnce, PTL DEF Spec

(* A process that reported success keeps its complete bytes at its finals.  *)
THEOREM WinnersKeepTheirFiles ==
    ASSUME NoReplaceRequested PROVE Spec => []PublishedPairIntact
<1>1. TypeOK /\ EndingInv /\ NoClobberInv => PublishedPairIntact
  <2> SUFFICES ASSUME TypeOK, EndingInv, NoClobberInv, NEW s \in Sessions,
                      outcome[s] = "published", NEW a \in ArtifactsOf(s)
               PROVE  final[a] = New(s)
      BY DEF PublishedPairIntact
  <2>1. pc[s] = "published"
    BY DEF EndingInv, EndingOf
  <2>2. published[s] = ArtifactsOf(s)
    BY <2>1 DEF NoClobberInv, PublicationOrder
  <2>3. QED
    BY <2>2 DEF NoClobberInv, FlagsTellOwner, ArtifactsOf, Artifacts
<1>2. QED BY <1>1, NoClobberInvariant, CleanupRunsOnce, PTL

(* An offline image is never at its final name without its rescue media.    *)
THEOREM ImageNeverAlone ==
    ASSUME NoReplaceRequested PROVE Spec => []ImageLast
<1>1. NoClobberInv => ImageLast
    BY DEF NoClobberInv, FlagsTellOwner, PublicationOrder, ImageLast, ArtifactsOf,
       Artifacts, Committed
<1>2. QED BY <1>1, NoClobberInvariant, PTL

(* A handled failure without leftovers leaves nothing at a final or .bak    *)
(* name.                                                                    *)
THEOREM FailuresLeaveNothing ==
    ASSUME NoReplaceRequested PROVE Spec => []FailureLeavesNothing
<1>1. TypeOK /\ EndingInv /\ NoClobberInv => FailureLeavesNothing
  <2> SUFFICES ASSUME TypeOK, EndingInv, NoClobberInv, NEW s \in Sessions, At(s, "failed"),
                      told[s] = {}, NEW a \in Artifacts
               PROVE  /\ final[a] \notin {Claim(s), New(s)}
                      /\ bak[a] \notin {Claim(s), New(s)}
      BY DEF FailureLeavesNothing
  <2>1. a \notin claimed[s] \cup published[s]
    <3>1. \/ leftovers[s] = {}
          \/ claimed[s] = {} /\ published[s] = {}
      BY DEF EndingInv, EndingOf, At, TypeOK, Outcomes
    <3>2. QED BY <3>1 DEF NoClobberInv, RolledBack, At
  <2>2. final[a] \notin {Claim(s), New(s)}
      BY <2>1 DEF NoClobberInv, FlagsTellOwner
  <2>3. bak[a] \notin {Claim(s), New(s)}
      BY FilesDiffer DEF NoClobberInv, StaleBaks
  <2>4. QED BY <2>2, <2>3
<1>2. QED BY <1>1, NoClobberInvariant, CleanupRunsOnce, PTL

(* The finals a step of s may change in this state are free or its own.     *)
LEMMA OnlyOwnFinals ==
    ASSUME TypeOK, NoClobberInv, NEW s \in Sessions, NEW a \in Artifacts,
           Start(s) \/ Answer(s) \/ Run(s) \/ Kill(s), final'[a] # final[a]
    PROVE  final[a] \in {Absent, Claim(s), New(s)}
<1>1. ~At(s, "bakRename") /\ backedUp[s] = {}
    BY DEF NoClobberInv, NothingReplaced, At
<1>2. CASE ClaimFinal(s)
    BY <1>2 DEF ClaimFinal, NameFree, TypeOK
<1>3. CASE RenameTemp(s)
  <2>1. art[s] \in claimed[s]
    BY <1>3 DEF RenameTemp, At, NoClobberInv, PublicationOrder
  <2>2. QED BY <1>3, <2>1 DEF RenameTemp, NoClobberInv, FlagsTellOwner, TypeOK
<1>4. CASE Unpublish(s)
    BY <1>4 DEF Unpublish, Owns, NoClobberInv, FlagsTellOwner, TypeOK
<1>5. CASE Restore(s)
    BY <1>1, <1>5 DEF Restore, names
<1>6. QED
    BY <1>1, <1>2, <1>3, <1>4, <1>5
       DEF Run, Start, Answer, Kill, StatFinal, Authorize, CreateTemp, Build, Finish,
           BakStat, BakRename, DropBak, DropTemp, names

(* Without --force no process ever changes a file that is not its own.      *)
THEOREM NoClobberTouchesOnlyOwnFiles ==
    ASSUME NoReplaceRequested PROVE Spec => NoClobberKeepsOthers
<1> DEFINE Keeps == \A s \in Sessions, a \in Artifacts :
                       Moves(s) /\ ~replace[s] /\ final'[a] # final[a]
                          => final[a] \in {Absent, Claim(s), New(s)}
<1>1. TypeOK /\ NoClobberInv /\ [Next]_vars => [Keeps]_vars
  <2> SUFFICES ASSUME TypeOK, NoClobberInv, Next, NEW s \in Sessions,
                      NEW a \in Artifacts, Moves(s), final'[a] # final[a]
               PROVE  final[a] \in {Absent, Claim(s), New(s)}
      OBVIOUS
  <2>1. ASSUME NEW t \in Sessions, Start(t) \/ Answer(t) \/ Run(t) \/ Kill(t)
        PROVE  t = s
    BY <2>1, StepsAreLocal DEF LocalState, Moves
  <2>2. ASSUME NEW b \in Artifacts, ForeignCreate(b) PROVE FALSE
    BY <2>2 DEF ForeignCreate, control, Moves
  <2>3. ~UNCHANGED vars
    BY DEF vars, names
  <2>4. Start(s) \/ Answer(s) \/ Run(s) \/ Kill(s)
    BY <2>1, <2>2, <2>3 DEF Next, Finished
  <2>5. QED BY <2>4, OnlyOwnFinals
<1>2. QED
    BY <1>1, NoClobberInvariant, TypeCorrect, PTL DEF Spec, NoClobberKeepsOthers


-----------------------------------------------------------------------------
(* The image name is a write-once register.                                 *)

(* What a name holds for the racing sessions. *)
LEMMA ImageNameOf ==
    ASSUME TypeOK, NEW s \in Sessions
    PROVE  /\ final["image"] \in {Absent, Claim(s)} => ImageName = Absent
           /\ final["image"] = New(s) <=> ImageName = New(s)
           /\ ImageName # Absent => final["image"] = ImageName
BY DEF ImageName, Absent, Claim, New, Owned, Unowned

(* Only the rename that publishes the image changes what the name holds.    *)
LEMMA ImageNameStep ==
    ASSUME TypeOK, NoClobberInv, NEW s \in Sessions,
           Start(s) \/ Answer(s) \/ Run(s) \/ Kill(s)
    PROVE  \/ ImageName' = ImageName
           \/ /\ ImageName = Absent /\ ImageName' = New(s)
              /\ pc[s] = "rename" /\ pc'[s] = "dropBak"
<1>1. ~At(s, "bakRename") /\ backedUp[s] = {}
    BY DEF NoClobberInv, NothingReplaced, At
<1>2. CASE ClaimFinal(s)
  <2>1. CASE final' = final
    BY <2>1 DEF ImageName
  <2>2. CASE /\ final[art[s]] = Absent
             /\ final' = [final EXCEPT ![art[s]] = Claim(s)]
    BY <2>2 DEF TypeOK, Artifacts, ImageName, Absent, Claim, Owned, Unowned
  <2>3. QED BY <1>2, <2>1, <2>2 DEF ClaimFinal, NameFree
<1>3. CASE RenameTemp(s)
  <2>1. claimed[s] = {art[s]} /\ art[s] \in ArtifactsOf(s) \ published[s]
    <3>1. claimed[s] = {art[s]} /\ art[s] \in ArtifactsOf(s)
      BY <1>3 DEF RenameTemp, At, NoClobberInv, PublicationOrder
    <3>2. final[art[s]] = Claim(s)
      BY <3>1 DEF TypeOK, NoClobberInv, FlagsTellOwner
    <3>3. QED BY <3>1, <3>2, FilesDiffer DEF TypeOK, NoClobberInv, FlagsTellOwner
  <2>2. temp[s][art[s]] = New(s) /\ final[art[s]] = Claim(s)
    BY <1>3, <2>1 DEF RenameTemp, At, TypeOK, NoClobberInv, PublicationOrder, FlagsTellOwner
  <2>3. CASE final'["image"] = final["image"]
    BY <2>3 DEF ImageName
  <2>4. CASE final'["image"] # final["image"]
    <3>1. art[s] = "image" /\ final'["image"] = New(s) /\ Go(s, "dropBak", "image")
      BY <1>3, <2>2, <2>4 DEF RenameTemp, TypeOK, Artifacts
    <3>2. ImageName = Absent /\ ImageName' = New(s)
      BY <2>2, <3>1 DEF ImageName, Claim, New, Owned
    <3>3. QED BY <1>3, <3>1, <3>2, GoEffect DEF RenameTemp, At
  <2>5. QED BY <2>3, <2>4
<1>4. CASE Unpublish(s)
  <2>1. "image" \notin published[s]
    BY <1>4 DEF Unpublish, At, NoClobberInv, PublicationOrder, Committed
  <2>2. \/ final'["image"] = final["image"]
        \/ final["image"] = Claim(s) /\ final'["image"] = Absent
    <3>1. CASE final' = final
      BY <3>1
    <3>2. CASE Owns(s, art[s]) /\ final' = [final EXCEPT ![art[s]] = Absent]
      BY <2>1, <3>2 DEF Owns, TypeOK, Artifacts, NoClobberInv, FlagsTellOwner
    <3>3. QED BY <1>4, <3>1, <3>2 DEF Unpublish
  <2>3. QED BY <2>2 DEF ImageName, Absent, Claim, Owned, Unowned
<1>5. CASE Restore(s)
    BY <1>1, <1>5 DEF Restore, names, ImageName
<1>6. QED
    BY <1>1, <1>2, <1>3, <1>4, <1>5
       DEF Run, Start, Answer, Kill, StatFinal, Authorize, CreateTemp, Build, Finish,
           BakStat, BakRename, DropBak, DropTemp, names, ImageName

(* A session gives its verdict once, and it gives a true one.               *)
LEMMA VerdictStep ==
    ASSUME TypeOK, EndingInv, NoClobberInv, NEW s \in Sessions,
           Start(s) \/ Answer(s) \/ Run(s) \/ Kill(s)
    PROVE  \/ Verdict(s)' = Verdict(s)
           \/ /\ Verdict(s) = "pending"
              /\ \/ Verdict(s)' = "won" /\ Committed(s) /\ final' = final
                 \/ Verdict(s)' = "lost" /\ ~Committed(s) /\ final' = final
                 \/ Verdict(s)' = "died" /\ final' = final
<1>1. pc[s] \notin Terminal
    BY DEF Start, Answer, Run, Kill, StatFinal, Authorize, CreateTemp, Build, Finish,
           BakStat, BakRename, ClaimFinal, RenameTemp, DropBak, Unpublish, Restore,
           DropTemp, At, Terminal
<1>2. Verdict(s) = "pending"
    BY <1>1 DEF Verdict, At, Terminal
<1>3. ~Committed(s) \/ At(s, "dropBak")
    BY <1>1 DEF NoClobberInv, PublicationOrder, Terminal, At
<1>4. CASE StatFinal(s) \/ Authorize(s) \/ Answer(s)
  <2>1. ~Committed(s) /\ final' = final
    BY <1>3, <1>4 DEF StatFinal, Authorize, Answer, At, names
  <2>2. pc'[s] \in {"stat", "authorize", "confirm", "temp", "failed", "refused"}
    BY <1>4, GoEffect, ImageFirstEffect DEF StatFinal, Authorize, Answer, At
  <2>3. QED BY <1>2, <2>1, <2>2 DEF Verdict, At
<1>5. CASE DropBak(s)
  <2>1. Committed(s) /\ final' = final
    BY <1>5 DEF DropBak, At, NoClobberInv, PublicationOrder
  <2>2. pc'[s] \in {"dropBak", "published"}
    BY <1>5, DropBakControl, ImageFirstEffect DEF DropBak, At
  <2>3. QED BY <1>2, <2>1, <2>2 DEF Verdict, At
<1>6. CASE DropTemp(s)
  <2>1. ~Committed(s) /\ final' = final
    BY <1>3, <1>6 DEF DropTemp, At, names
  <2>2. pc'[s] \in {"dropTemp", "failed"}
    BY <1>6, DropTempControl, ImageFirstEffect DEF EndingInv, DropTemp, At
  <2>3. QED BY <1>2, <2>1, <2>2 DEF Verdict, At
<1>7. CASE Kill(s)
    BY <1>2, <1>7, GoEffect DEF Kill, Verdict, At, names
<1>8. CASE Start(s) \/ CreateTemp(s) \/ Build(s) \/ Finish(s)
  <2>1. pc'[s] \in {"stat", "temp", "build", "finish", "claim", "bakStat", "unpublish"}
    BY <1>8, GoEffect, ImageFirstEffect, FailEffect
       DEF Start, CreateTemp, Build, Finish, At
  <2>2. QED BY <1>2, <2>1 DEF Verdict, At
<1>9. CASE ClaimFinal(s) \/ RenameTemp(s) \/ Unpublish(s) \/ Restore(s)
  <2>1. pc'[s] \in {"claim", "rename", "dropBak", "unpublish", "restore", "dropTemp"}
    BY <1>9, GoEffect, ImageFirstEffect, ResourcesFirstEffect, FailEffect
       DEF ClaimFinal, RenameTemp, Unpublish, Restore, At
  <2>2. QED BY <1>2, <2>1 DEF Verdict, At
<1>10. ~At(s, "bakStat") /\ ~At(s, "bakRename")
    BY DEF NoClobberInv, NothingReplaced, At
<1>11. QED
    BY <1>4, <1>5, <1>6, <1>7, <1>8, <1>9, <1>10 DEF Run, BakStat, BakRename

(* A step of a session is a step of the register or a stutter. *)
LEMMA SessionWritesOnce ==
    ASSUME TypeOK, EndingInv, NoClobberInv, NEW s \in Sessions,
           Start(s) \/ Answer(s) \/ Run(s) \/ Kill(s)
    PROVE  [WriteOnce!Next]_WriteOnce!vars
<1> DEFINE verdicts == [t \in Sessions |-> Verdict(t)]
<1>1. \A t \in Sessions : t # s => Verdict(t)' = Verdict(t)
    BY StepsAreLocal DEF LocalState, Verdict, At
<1>2. Verdict(s)' = Verdict(s) => verdicts' = verdicts
    BY <1>1
<1>3. verdicts' = [verdicts EXCEPT ![s] = Verdict(s)']
    BY <1>1
<1>4. Committed(s) <=> ImageName = New(s)
    BY ImageNameOf DEF Committed, NoClobberInv, FlagsTellOwner, Artifacts
<1>5. CASE ImageName' # ImageName
  <2>1. /\ ImageName = Absent /\ ImageName' = New(s)
        /\ Verdict(s) = "pending" /\ Verdict(s)' = "pending"
    BY <1>5, ImageNameStep DEF Verdict, At
  <2>2. WriteOnce!Put(s)
    BY <1>2, <2>1 DEF WriteOnce!Put
  <2>3. QED BY <2>2 DEF WriteOnce!Next
<1>6. CASE ImageName' = ImageName /\ Verdict(s)' # Verdict(s)
  <2>1. Verdict(s) = "pending"
    BY <1>6, VerdictStep
  <2>2. CASE Verdict(s)' = "won" /\ Committed(s)
    <3>1. WriteOnce!Win(s)
      BY <1>3, <1>4, <1>6, <2>1, <2>2 DEF WriteOnce!Win
    <3>2. QED BY <3>1 DEF WriteOnce!Next
  <2>3. CASE Verdict(s)' = "lost" /\ ~Committed(s)
    <3>1. WriteOnce!Lose(s)
      BY <1>3, <1>4, <1>6, <2>1, <2>3 DEF WriteOnce!Lose
    <3>2. QED BY <3>1 DEF WriteOnce!Next
  <2>4. CASE Verdict(s)' = "died"
    <3>1. WriteOnce!Die(s)
      BY <1>3, <1>6, <2>1, <2>4 DEF WriteOnce!Die
    <3>2. QED BY <3>1 DEF WriteOnce!Next
  <2>5. QED BY <1>6, <2>2, <2>3, <2>4, VerdictStep
<1>7. CASE ImageName' = ImageName /\ Verdict(s)' = Verdict(s)
    BY <1>2, <1>7 DEF WriteOnce!vars
<1>8. QED BY <1>5, <1>6, <1>7

(* A file of another program fills the free name or changes nothing. *)
LEMMA ForeignWritesOnce ==
    ASSUME TypeOK, NEW a \in Artifacts, ForeignCreate(a)
    PROVE  [WriteOnce!Next]_WriteOnce!vars
<1>1. [t \in Sessions |-> Verdict(t)]' = [t \in Sessions |-> Verdict(t)]
    BY DEF ForeignCreate, control, Verdict, At
<1>2. CASE a = "image"
  <2>1. ImageName = Absent /\ ImageName' = Foreign
    BY <1>2 DEF ForeignCreate, ImageName, TypeOK, Artifacts, Foreign, Absent, Unowned
  <2>2. WriteOnce!Occupy
    BY <1>1, <2>1 DEF WriteOnce!Occupy
  <2>3. QED BY <2>2 DEF WriteOnce!Next
<1>3. CASE a # "image"
  <2>1. ImageName' = ImageName
    BY <1>3 DEF ForeignCreate, ImageName, TypeOK, Artifacts
  <2>2. QED BY <1>1, <2>1 DEF WriteOnce!vars
<1>4. QED BY <1>2, <1>3

LEMMA InitWritesOnce == Init => WriteOnce!Init
<1> SUFFICES ASSUME Init PROVE WriteOnce!Init
    OBVIOUS
<1>1. final["image"] \in {Absent, Old}
    BY PublisherAssumption DEF Init, Artifacts, Absent, Old
<1>2. ImageName \in {Absent, Old}
    BY <1>1 DEF ImageName
<1>3. [t \in Sessions |-> Verdict(t)] = [t \in Sessions |-> "pending"]
    BY DEF Init, Verdict, At
<1>4. QED BY <1>2, <1>3 DEF WriteOnce!Init

(* Without --force, any number of racing processes implement a write-once   *)
(* register: one artifact is ever published at the image name, and every    *)
(* process that returns tells the truth about whether it is its own.        *)
THEOREM RaceRefinesWriteOnce ==
    ASSUME NoReplaceRequested PROVE Spec => ImageIsWriteOnce
<1>1. TypeOK /\ EndingInv /\ NoClobberInv /\ [Next]_vars => [WriteOnce!Next]_WriteOnce!vars
  <2> SUFFICES ASSUME TypeOK, EndingInv, NoClobberInv, [Next]_vars
               PROVE  [WriteOnce!Next]_WriteOnce!vars
      OBVIOUS
  <2>1. CASE UNCHANGED vars
    BY <2>1 DEF vars, control, names, WriteOnce!vars, Verdict, At, ImageName
  <2>2. QED
    BY <2>1, SessionWritesOnce, ForeignWritesOnce DEF Next, Finished
<1>2. QED
    BY <1>1, InitWritesOnce, NoClobberInvariant, CleanupRunsOnce, PTL
       DEF Spec, WriteOnce!Spec, ImageIsWriteOnce


-----------------------------------------------------------------------------
(* A race in which nothing goes wrong has exactly one winner.               *)

(* A step after which everything was quiet is a step without a fault, a     *)
(* kill or a foreign file, from a state in which everything was quiet.      *)
LEMMA QuietStep ==
    ASSUME TypeOK, Quiet', NEW s \in Sessions,
           Start(s) \/ Answer(s) \/ Run(s) \/ Kill(s)
    PROVE  Quiet /\ ~Fault /\ ~Kill(s) /\ UNCHANGED <<prior, budgets>>
<1>1. ~Fault
    BY DEF Quiet, Fault, TypeOK
<1>2. ~Kill(s)
    BY DEF Quiet, Kill, TypeOK
<1>3. UNCHANGED <<prior, budgets>>
    BY <1>1, <1>2 DEF Run, Start, Answer, StatFinal, Authorize, CreateTemp, Build, Finish,
           BakStat, BakRename, ClaimFinal, RenameTemp, DropBak, Unpublish, Restore,
           DropTemp
<1>4. QED BY <1>1, <1>2, <1>3 DEF Quiet, budgets

(* Whoever holds a final leads, unless somebody gave way before.            *)
LEMMA HolderLeads ==
    ASSUME TypeOK, NoClobberInv, QuietRace, NEW t \in Sessions,
           claimed[t] \cup published[t] # {}
    PROVE  \E u \in Sessions : Leads(u)
<1>1. CASE Leads(t)
    BY <1>1
<1>2. CASE GaveWay(t)
    BY <1>2 DEF QuietRace
<1>3. CASE At(t, "claim")
  <2>1. claimed[t] = {}
    BY <1>3 DEF QuietRace, At
  <2>2. QED BY <1>3, <2>1 DEF Leads
<1>4. pc[t] \in {"claim", "rename", "dropBak", "published", "unpublish", "restore",
                 "dropTemp", "failed"}
  <2>1. pc[t] \notin {"idle", "stat", "authorize", "temp", "build", "finish", "refused"}
    BY DEF NoClobberInv, PublicationOrder
  <2>2. pc[t] \notin {"confirm", "bakStat", "bakRename", "killed"}
    BY DEF NoClobberInv, NothingReplaced, QuietRace
  <2>3. QED BY <2>1, <2>2 DEF TypeOK, Steps, Terminal
<1>5. QED BY <1>1, <1>2, <1>3, <1>4 DEF Leads, GaveWay, At

(* A name that is not free is held by somebody. *)
LEMMA TakenNameHasHolder ==
    ASSUME TypeOK, NoClobberInv, QuietRace, NEW a \in Artifacts, final[a] # Absent
    PROVE  \E t \in Sessions : a \in claimed[t] \cup published[t]
BY DEF QuietRace, NoClobberInv, FlagsTellOwner

(* The others keep leading while s moves. *)
LEMMA OthersKeepLeading ==
    ASSUME TypeOK, NEW s \in Sessions, NEW t \in Sessions, t # s, Leads(t),
           Start(s) \/ Answer(s) \/ Run(s) \/ Kill(s)
    PROVE  Leads(t)'
BY StepsAreLocal DEF LocalState, Leads, At

(* What a quiet step writes at the final names. *)
LEMMA QuietFinals ==
    ASSUME TypeOK, NoClobberInv, QuietRace, NEW s \in Sessions,
           Start(s) \/ Answer(s) \/ Run(s)
    PROVE  \A a \in Artifacts : final'[a] \in {final[a], Absent, Claim(s), New(s)}
<1>1. ~At(s, "bakRename") /\ backedUp[s] = {}
    BY DEF NoClobberInv, NothingReplaced, At
<1>2. CASE ClaimFinal(s)
    BY <1>2 DEF ClaimFinal, TypeOK
<1>3. CASE RenameTemp(s)
  <2>1. temp[s][art[s]] = New(s)
    <3>1. claimed[s] = {art[s]} /\ art[s] \in ArtifactsOf(s)
      BY <1>3 DEF RenameTemp, At, NoClobberInv, PublicationOrder
    <3>2. art[s] \notin published[s]
      BY <3>1, FilesDiffer DEF TypeOK, NoClobberInv, FlagsTellOwner
    <3>3. QED BY <1>3, <3>1, <3>2 DEF RenameTemp, At, NoClobberInv, PublicationOrder
  <2>2. QED BY <1>3, <2>1 DEF RenameTemp, TypeOK
<1>4. CASE Unpublish(s)
    BY <1>4 DEF Unpublish, TypeOK
<1>5. CASE Restore(s)
    BY <1>1, <1>5 DEF Restore, names
<1>6. QED
    BY <1>1, <1>2, <1>3, <1>4, <1>5
       DEF Run, Start, Answer, StatFinal, Authorize, CreateTemp, Build, Finish,
           BakStat, BakRename, DropBak, DropTemp, names

(* A session claims only to rename, and is not killed. *)
LEMMA QuietClaims ==
    ASSUME TypeOK, EndingInv, NoClobberInv, QuietRace, NEW s \in Sessions, ~Fault,
           Start(s) \/ Answer(s) \/ Run(s)
    PROVE  pc'[s] # "killed" /\ (claimed'[s] # {} => pc'[s] = "rename")
<1>1. ~At(s, "bakStat") /\ ~At(s, "bakRename") /\ ~At(s, "confirm")
    BY DEF NoClobberInv, NothingReplaced, At
<1>2. CASE ClaimFinal(s)
  <2>1. claimed[s] = {}
    BY <1>2 DEF ClaimFinal, QuietRace, At
  <2>2. QED BY <1>2, <2>1, GoEffect, FailEffect DEF ClaimFinal
<1>3. CASE RenameTemp(s)
  <2>1. claimed[s] = {art[s]}
    BY <1>3 DEF RenameTemp, At, NoClobberInv, PublicationOrder
  <2>2. claimed'[s] = {}
    BY <1>3, <2>1 DEF RenameTemp, TypeOK, Unmark
  <2>3. QED BY <1>3, <2>2, GoEffect DEF RenameTemp
<1>4. CASE DropBak(s) \/ Unpublish(s) \/ Restore(s) \/ DropTemp(s)
  <2>1. claimed[s] = {}
    BY <1>4 DEF DropBak, Unpublish, Restore, DropTemp, QuietRace, At
  <2>2. claimed'[s] = {}
    BY <1>4, <2>1 DEF DropBak, Unpublish, Restore, DropTemp, TypeOK, Unmark, flags
  <2>3. QED
    BY <1>4, <2>2, DropBakControl, DropTempControl, ImageFirstEffect,
       ResourcesFirstEffect
       DEF EndingInv, DropBak, Unpublish, Restore, DropTemp, At
<1>5. CASE Start(s) \/ StatFinal(s) \/ Authorize(s) \/ CreateTemp(s) \/ Build(s) \/ Finish(s)
  <2>1. claimed[s] = {}
    BY <1>5 DEF Start, StatFinal, Authorize, CreateTemp, Build, Finish, QuietRace, At
  <2>2. claimed'[s] = {}
    BY <1>5, <2>1 DEF Start, StatFinal, Authorize, CreateTemp, Build, Finish, flags
  <2>3. pc'[s] # "killed"
    BY <1>5, GoEffect, ImageFirstEffect
       DEF Start, StatFinal, Authorize, CreateTemp, Build, Finish, At
  <2>4. QED BY <2>2, <2>3
<1>6. QED
    BY <1>1, <1>2, <1>3, <1>4, <1>5 DEF Run, Answer, BakStat, BakRename

(* A session that leads stops leading only when the image is claimed. *)
LEMMA LeaderStep ==
    ASSUME TypeOK, NoClobberInv, QuietRace, NEW s \in Sessions, ~Fault,
           Start(s) \/ Answer(s) \/ Run(s), Leads(s), ~Leads(s)'
    PROVE  At(s, "claim") /\ final[art[s]] # Absent /\ published[s] = {"resources"}
<1>1. CASE ClaimFinal(s)
  <2>1. At(s, "claim") /\ published[s] = PublishedBefore(s) /\ published[s] # {}
    BY <1>1 DEF ClaimFinal, Leads, At, NoClobberInv, PublicationOrder
  <2>2. pc'[s] # "rename"
    BY DEF Leads
  <2>3. QED
    BY <1>1, <2>1, <2>2, GoEffect DEF ClaimFinal, NameFree, PublishedBefore
<1>2. CASE RenameTemp(s)
  <2>1. CASE art[s] = "resources"
    <3>1. pc'[s] = "claim" /\ "resources" \in published'[s]
      BY <1>2, <2>1, GoEffect DEF RenameTemp, TypeOK, Mark
    <3>2. QED BY <3>1 DEF Leads, At
  <2>2. CASE art[s] # "resources"
    BY <1>2, <2>2, GoEffect DEF RenameTemp, Leads
  <2>3. QED BY <2>1, <2>2
<1>3. CASE DropBak(s)
    BY <1>3, DropBakControl, ImageFirstEffect DEF DropBak, Leads, At
<1>4. QED
    BY <1>1, <1>2, <1>3
       DEF Run, Start, Answer, StatFinal, Authorize, CreateTemp, Build, Finish,
           BakStat, BakRename, Unpublish, Restore, DropTemp, Leads, At

(* A session gives way only to a file that is already there. *)
LEMMA GivesWayStep ==
    ASSUME TypeOK, NoClobberInv, NEW s \in Sessions, ~Fault,
           Start(s) \/ Answer(s) \/ Run(s), ~GaveWay(s), GaveWay(s)'
    PROVE  pc[s] \in {"stat", "claim"} /\ final[art[s]] # Absent
<1>1. existing[s] = {} /\ pc[s] \notin {"refused", "unpublish", "restore", "dropTemp", "failed"}
    BY DEF GaveWay
<1>2. ~At(s, "bakStat") /\ ~At(s, "bakRename") /\ ~At(s, "confirm")
    BY DEF NoClobberInv, NothingReplaced, At
<1>3. CASE StatFinal(s)
  <2>1. pc'[s] \in {"stat", "authorize"}
    BY <1>3, ImageFirstEffect DEF StatFinal, At
  <2>2. existing'[s] # {}
    BY <2>1 DEF GaveWay
  <2>3. QED BY <1>1, <1>3, <2>2 DEF StatFinal, At
<1>4. CASE Authorize(s)
  <2>1. pc'[s] = "temp" /\ existing' = existing
    BY <1>1, <1>4, GoEffect DEF Authorize
  <2>2. QED BY <1>1, <2>1 DEF GaveWay
<1>5. CASE ClaimFinal(s)
  <2>1. pc'[s] = "rename" \/ final[art[s]] # Absent
    BY <1>5, GoEffect DEF ClaimFinal, NameFree
  <2>2. existing' = existing
    BY <1>5 DEF ClaimFinal, decided
  <2>3. QED BY <1>1, <1>5, <2>1, <2>2 DEF ClaimFinal, GaveWay, At
<1>6. CASE Start(s) \/ CreateTemp(s) \/ Build(s) \/ Finish(s) \/ RenameTemp(s) \/ DropBak(s)
  <2>1. existing' = existing
    BY <1>6 DEF Start, CreateTemp, Build, Finish, RenameTemp, DropBak, decided
  <2>2. pc'[s] \in {"stat", "temp", "build", "finish", "claim", "bakStat", "dropBak",
                    "published"}
    BY <1>6, GoEffect, DropBakControl, ImageFirstEffect
       DEF Start, CreateTemp, Build, Finish, RenameTemp, DropBak, At
  <2>3. QED BY <1>1, <2>1, <2>2 DEF GaveWay
<1>7. QED
    BY <1>1, <1>2, <1>3, <1>4, <1>5, <1>6
       DEF Run, Answer, BakStat, BakRename, Unpublish, Restore, DropTemp, At

(* A quiet step of a session keeps a leader if anybody gave way. *)
LEMMA SessionKeepsRace ==
    ASSUME TypeOK, EndingInv, NoClobberInv, RaceInv, NEW s \in Sessions,
           Start(s) \/ Answer(s) \/ Run(s) \/ Kill(s)
    PROVE  RaceInv'
<1> SUFFICES ASSUME Quiet' PROVE QuietRace'
    BY DEF RaceInv
<1>1. QuietRace /\ ~Fault /\ (Start(s) \/ Answer(s) \/ Run(s))
    BY QuietStep DEF RaceInv
<1>2. \A t \in Sessions : t # s => LocalState(t)' = LocalState(t) /\ existing'[t] = existing[t]
  <2>1. \A t \in Sessions : t # s => existing'[t] = existing[t]
    BY DEF Run, Start, Answer, Kill, StatFinal, Authorize, CreateTemp, Build, Finish,
           BakStat, BakRename, ClaimFinal, RenameTemp, DropBak, Unpublish, Restore,
           DropTemp, decided, Mark, TypeOK
  <2>2. QED BY <2>1, StepsAreLocal
<1>3. ASSUME NEW a \in Artifacts
      PROVE  final'[a] = Absent \/ \E t \in Sessions : final'[a] \in {Claim(t), New(t)}
  <2>1. final'[a] \in {final[a], Absent, Claim(s), New(s)}
    BY <1>1, QuietFinals
  <2>2. QED BY <1>1, <2>1 DEF QuietRace
<1>4. ASSUME NEW t \in Sessions
      PROVE  pc'[t] # "killed" /\ (claimed'[t] # {} => pc'[t] = "rename")
  <2>1. CASE t = s
    BY <1>1, <2>1, QuietClaims
  <2>2. CASE t # s
    BY <1>1, <1>2, <2>2 DEF QuietRace, LocalState, At
  <2>3. QED BY <2>1, <2>2
<1>5. ASSUME NEW t \in Sessions, GaveWay(t)' PROVE \E u \in Sessions : Leads(u)'
  <2>1. \E u \in Sessions : Leads(u)
    <3>1. CASE GaveWay(t)
      BY <1>1, <3>1 DEF QuietRace
    <3>2. CASE ~GaveWay(t)
      <4>1. t = s
        BY <1>2, <1>5, <3>2 DEF GaveWay, LocalState
      <4>2. art[s] \in Artifacts /\ final[art[s]] # Absent
        BY <1>1, <1>5, <3>2, <4>1, GivesWayStep DEF TypeOK
      <4>3. QED BY <1>1, <4>2, TakenNameHasHolder, HolderLeads
    <3>3. QED BY <3>1, <3>2
  <2>2. PICK u \in Sessions : Leads(u)
    BY <2>1
  <2>3. CASE u # s
    BY <2>2, <2>3, OthersKeepLeading
  <2>4. CASE u = s /\ ~Leads(s)'
    <3>1. At(s, "claim") /\ final[art[s]] # Absent /\ published[s] = {"resources"}
      BY <1>1, <2>2, <2>4, LeaderStep
    <3>2. art[s] = "image" /\ claimed[s] = {}
      BY <3>1 DEF At, NoClobberInv, PublicationOrder, PublishedBefore
    <3>3. PICK v \in Sessions : "image" \in claimed[v] \cup published[v]
      BY <1>1, <3>1, <3>2, TakenNameHasHolder DEF Artifacts
    <3>4. v # s
      BY <3>1, <3>2, <3>3
    <3>5. Leads(v)
      <4>1. CASE "image" \in claimed[v]
        BY <1>1, <4>1 DEF QuietRace, Leads, At
      <4>2. CASE "image" \in published[v]
        BY <1>1, <4>2 DEF NoClobberInv, PublicationOrder, Committed, QuietRace, Leads
      <4>3. QED BY <3>3, <4>1, <4>2
    <3>6. QED BY <3>4, <3>5, OthersKeepLeading
  <2>5. QED BY <2>2, <2>3, <2>4
<1>6. QED BY <1>3, <1>4, <1>5 DEF QuietRace, At

LEMMA NextKeepsRace ==
    ASSUME TypeOK, EndingInv, NoClobberInv, RaceInv, [Next]_vars
    PROVE  RaceInv'
<1>1. ASSUME NEW a \in Artifacts, ForeignCreate(a) PROVE RaceInv'
    BY <1>1 DEF ForeignCreate, RaceInv, Quiet, TypeOK
<1>2. CASE UNCHANGED vars
    BY <1>2 DEF vars, control, decided, flags, names, budgets, RaceInv, Quiet, QuietRace,
                GaveWay, Leads, At
<1>3. QED BY <1>1, <1>2, SessionKeepsRace DEF Next, Finished

LEMMA InitRace == Init => RaceInv
<1> SUFFICES ASSUME Init, Quiet PROVE QuietRace
    BY DEF RaceInv
<1>1. \A a \in Artifacts : final[a] = Absent
    BY DEF Init, Quiet
<1>2. QED BY <1>1 DEF Init, QuietRace, GaveWay, Leads, At

(* However many processes race for free names, when nothing else goes wrong *)
(* exactly one of them publishes: they never all undo each other.           *)
THEOREM RaceHasOneWinner ==
    ASSUME NoReplaceRequested, Sessions # {} PROVE Spec => []ExactlyOneWins
<1>1. TypeOK /\ NoClobberInv /\ RaceInv => ExactlyOneWins
  <2> SUFFICES ASSUME TypeOK, NoClobberInv, RaceInv, Quiet,
                      \A s \in Sessions : pc[s] \in Terminal
               PROVE  Cardinality({s \in Sessions : At(s, "published")}) = 1
      BY DEF ExactlyOneWins, Quiet
  <2>1. \E t \in Sessions : At(t, "published")
    <3>1. PICK s \in Sessions : TRUE
      OBVIOUS
    <3>2. pc[s] # "killed"
      BY DEF RaceInv, QuietRace
    <3>3. CASE ~At(s, "published")
      <4>1. GaveWay(s)
        BY <3>2, <3>3 DEF Terminal, At, GaveWay
      <4>2. PICK t \in Sessions : Leads(t)
        BY <4>1 DEF RaceInv, QuietRace
      <4>3. QED BY <4>2 DEF Leads, Terminal, At
    <3>4. QED BY <3>3
  <2>2. PICK t \in Sessions : At(t, "published")
    BY <2>1
  <2>3. ASSUME NEW u \in Sessions, At(u, "published") PROVE u = t
    <3>1. Committed(u) /\ Committed(t)
      BY <2>2, <2>3 DEF NoClobberInv, PublicationOrder, At
    <3>2. New(u) = New(t)
      BY <3>1 DEF NoClobberInv, FlagsTellOwner, Committed, Artifacts
    <3>3. QED BY <3>2, FilesDiffer
  <2>4. {s \in Sessions : At(s, "published")} = {t}
    BY <2>2, <2>3
  <2>5. QED BY <2>4, FS_Singleton
<1>2. QED
    BY <1>1, InitRace, NextKeepsRace, NoClobberInvariant, CleanupRunsOnce, PTL DEF Spec

-----------------------------------------------------------------------------
(* A run that has the destination to itself: the prior pair.                 *)

LEMMA AfterBakEffect ==
    ASSUME TypeOK, NEW s \in Sessions, AfterBak(s)
    PROVE  \/ /\ art[s] = "image" /\ Offline(s)
              /\ pc'[s] = "bakStat" /\ art'[s] = "resources"
           \/ /\ ~(art[s] = "image" /\ Offline(s))
              /\ pc'[s] = "claim" /\ art'[s] = FirstPublished(s)
BY GoEffect DEF AfterBak

(* Where the prior files are depends on the names and the flags only. *)
LEMMA PriorFrame ==
    ASSUME NEW s \in Sessions, PriorKept(s), prior' = prior, final' = final, bak' = bak,
           backedUp' = backedUp, published' = published, request' = request,
           foreigns' = foreigns
    PROVE  PriorKept(s)'
BY DEF PriorKept, Committed, ArtifactsOf, Offline

(* Turning to the cleanup before the commit. *)
LEMMA FailKeeps ==
    ASSUME TypeOK, NEW s \in Sessions, RunInv(s), Fail(s),
           pc[s] \in {"finish", "bakStat", "bakRename", "claim", "rename"},
           UNCHANGED <<decided, temp, flags, leftovers, names, prior, foreigns>>
    PROVE  RunInv(s)'
<1>1. pc'[s] = "unpublish" /\ art'[s] = "image" /\ ~Committed(s)
    BY FailEffect DEF RunInv, StageOf
<1>2. StageOf(s)' /\ TempsOf(s)'
    BY <1>1 DEF RunInv, StageOf, TempsOf, ArtifactsOf, Offline, At, Committed, decided, flags
<1>3. RolledBack(s)' /\ ToldOf(s)'
    BY <1>1 DEF RunInv, RolledBack, ToldOf, BakTried, At, flags
<1>4. FlagsOf(s)'
    BY <1>1 DEF RunInv, FlagsOf, flags, names
<1>5. PriorKept(s)'
    BY PriorFrame DEF RunInv, decided, flags, names
<1>6. QED BY <1>2, <1>3, <1>4, <1>5 DEF RunInv

LEMMA StartKeeps ==
    ASSUME TypeOK, NEW s \in Sessions, RunInv(s), Start(s) PROVE RunInv(s)'
<1>1. StageOf(s)'
    BY GoEffect, FilesDiffer
       DEF Start, RunInv, StageOf, TempsOf, ToldOf, BakTried, FlagsOf, RolledBack,
           PublishedBefore,
           TypeOK, ArtifactsOf, Offline, At, Committed, Artifacts, Terminal, decided,
           flags, names
<1>2. TempsOf(s)'
    BY GoEffect, FilesDiffer
       DEF Start, RunInv, StageOf, TempsOf, ToldOf, BakTried, FlagsOf, RolledBack,
           PublishedBefore,
           TypeOK, ArtifactsOf, Offline, At, Committed, Artifacts, Terminal, decided,
           flags, names
<1>3. RolledBack(s)'
    BY GoEffect, FilesDiffer
       DEF Start, RunInv, StageOf, TempsOf, ToldOf, BakTried, FlagsOf, RolledBack,
           PublishedBefore,
           TypeOK, ArtifactsOf, Offline, At, Committed, Artifacts, Terminal, decided,
           flags, names
<1>4. ToldOf(s)'
    BY GoEffect, FilesDiffer
       DEF Start, RunInv, StageOf, TempsOf, ToldOf, BakTried, FlagsOf, RolledBack,
           PublishedBefore,
           TypeOK, ArtifactsOf, Offline, At, Committed, Artifacts, Terminal, decided,
           flags, names
<1>5. FlagsOf(s)'
    BY GoEffect, FilesDiffer
       DEF Start, RunInv, StageOf, TempsOf, ToldOf, BakTried, FlagsOf, RolledBack,
           PublishedBefore,
           TypeOK, ArtifactsOf, Offline, At, Committed, Artifacts, Terminal, decided,
           flags, names
<1>6. PriorKept(s)'
    BY PriorFrame DEF Start, RunInv, decided, flags, names, budgets, Fault
<1>7. QED BY <1>1, <1>2, <1>3, <1>4, <1>5, <1>6 DEF RunInv

LEMMA StatFinalKeeps ==
    ASSUME TypeOK, NEW s \in Sessions, RunInv(s), StatFinal(s) PROVE RunInv(s)'
<1>1. StageOf(s)'
    BY ImageFirstEffect, GoEffect, FilesDiffer
       DEF StatFinal, RunInv, StageOf, TempsOf, ToldOf, BakTried, FlagsOf, RolledBack,
           PublishedBefore,
           TypeOK, ArtifactsOf, Offline, At, Committed, Artifacts, Terminal, decided,
           flags, names
<1>2. TempsOf(s)'
    BY ImageFirstEffect, GoEffect, FilesDiffer
       DEF StatFinal, RunInv, StageOf, TempsOf, ToldOf, BakTried, FlagsOf, RolledBack,
           PublishedBefore,
           TypeOK, ArtifactsOf, Offline, At, Committed, Artifacts, Terminal, decided,
           flags, names
<1>3. RolledBack(s)'
    BY ImageFirstEffect, GoEffect, FilesDiffer
       DEF StatFinal, RunInv, StageOf, TempsOf, ToldOf, BakTried, FlagsOf, RolledBack,
           PublishedBefore,
           TypeOK, ArtifactsOf, Offline, At, Committed, Artifacts, Terminal, decided,
           flags, names
<1>4. ToldOf(s)'
    BY ImageFirstEffect, GoEffect, FilesDiffer
       DEF StatFinal, RunInv, StageOf, TempsOf, ToldOf, BakTried, FlagsOf, RolledBack,
           PublishedBefore,
           TypeOK, ArtifactsOf, Offline, At, Committed, Artifacts, Terminal, decided,
           flags, names
<1>5. FlagsOf(s)'
    BY ImageFirstEffect, GoEffect, FilesDiffer
       DEF StatFinal, RunInv, StageOf, TempsOf, ToldOf, BakTried, FlagsOf, RolledBack,
           PublishedBefore,
           TypeOK, ArtifactsOf, Offline, At, Committed, Artifacts, Terminal, decided,
           flags, names
<1>6. PriorKept(s)'
    BY PriorFrame DEF StatFinal, RunInv, decided, flags, names, budgets, Fault
<1>7. QED BY <1>1, <1>2, <1>3, <1>4, <1>5, <1>6 DEF RunInv

LEMMA AuthorizeKeeps ==
    ASSUME TypeOK, NEW s \in Sessions, RunInv(s), Authorize(s) PROVE RunInv(s)'
<1>1. StageOf(s)'
    BY GoEffect, FilesDiffer
       DEF Authorize, RunInv, StageOf, TempsOf, ToldOf, BakTried, FlagsOf, RolledBack,
           PublishedBefore,
           TypeOK, ArtifactsOf, Offline, At, Committed, Artifacts, Terminal, decided,
           flags, names
<1>2. TempsOf(s)'
    BY GoEffect, FilesDiffer
       DEF Authorize, RunInv, StageOf, TempsOf, ToldOf, BakTried, FlagsOf, RolledBack,
           PublishedBefore,
           TypeOK, ArtifactsOf, Offline, At, Committed, Artifacts, Terminal, decided,
           flags, names
<1>3. RolledBack(s)'
    BY GoEffect, FilesDiffer
       DEF Authorize, RunInv, StageOf, TempsOf, ToldOf, BakTried, FlagsOf, RolledBack,
           PublishedBefore,
           TypeOK, ArtifactsOf, Offline, At, Committed, Artifacts, Terminal, decided,
           flags, names
<1>4. ToldOf(s)'
    BY GoEffect, FilesDiffer
       DEF Authorize, RunInv, StageOf, TempsOf, ToldOf, BakTried, FlagsOf, RolledBack,
           PublishedBefore,
           TypeOK, ArtifactsOf, Offline, At, Committed, Artifacts, Terminal, decided,
           flags, names
<1>5. FlagsOf(s)'
    BY GoEffect, FilesDiffer
       DEF Authorize, RunInv, StageOf, TempsOf, ToldOf, BakTried, FlagsOf, RolledBack,
           PublishedBefore,
           TypeOK, ArtifactsOf, Offline, At, Committed, Artifacts, Terminal, decided,
           flags, names
<1>6. PriorKept(s)'
    BY PriorFrame DEF Authorize, RunInv, decided, flags, names, budgets, Fault
<1>7. QED BY <1>1, <1>2, <1>3, <1>4, <1>5, <1>6 DEF RunInv

LEMMA AnswerKeeps ==
    ASSUME TypeOK, NEW s \in Sessions, RunInv(s), Answer(s) PROVE RunInv(s)'
<1>1. StageOf(s)'
    BY GoEffect, FilesDiffer
       DEF Answer, RunInv, StageOf, TempsOf, ToldOf, BakTried, FlagsOf, RolledBack,
           PublishedBefore,
           TypeOK, ArtifactsOf, Offline, At, Committed, Artifacts, Terminal, decided,
           flags, names
<1>2. TempsOf(s)'
    BY GoEffect, FilesDiffer
       DEF Answer, RunInv, StageOf, TempsOf, ToldOf, BakTried, FlagsOf, RolledBack,
           PublishedBefore,
           TypeOK, ArtifactsOf, Offline, At, Committed, Artifacts, Terminal, decided,
           flags, names
<1>3. RolledBack(s)'
    BY GoEffect, FilesDiffer
       DEF Answer, RunInv, StageOf, TempsOf, ToldOf, BakTried, FlagsOf, RolledBack,
           PublishedBefore,
           TypeOK, ArtifactsOf, Offline, At, Committed, Artifacts, Terminal, decided,
           flags, names
<1>4. ToldOf(s)'
    BY GoEffect, FilesDiffer
       DEF Answer, RunInv, StageOf, TempsOf, ToldOf, BakTried, FlagsOf, RolledBack,
           PublishedBefore,
           TypeOK, ArtifactsOf, Offline, At, Committed, Artifacts, Terminal, decided,
           flags, names
<1>5. FlagsOf(s)'
    BY GoEffect, FilesDiffer
       DEF Answer, RunInv, StageOf, TempsOf, ToldOf, BakTried, FlagsOf, RolledBack,
           PublishedBefore,
           TypeOK, ArtifactsOf, Offline, At, Committed, Artifacts, Terminal, decided,
           flags, names
<1>6. PriorKept(s)'
    BY PriorFrame DEF Answer, RunInv, decided, flags, names, budgets, Fault
<1>7. QED BY <1>1, <1>2, <1>3, <1>4, <1>5, <1>6 DEF RunInv

LEMMA CreateTempKeeps ==
    ASSUME TypeOK, NEW s \in Sessions, RunInv(s), CreateTemp(s) PROVE RunInv(s)'
<1>1. StageOf(s)'
    BY ImageFirstEffect, FailEffect, FillTempEffect, FilesDiffer
       DEF CreateTemp, RunInv, StageOf, TempsOf, ToldOf, BakTried, FlagsOf, RolledBack,
           PublishedBefore,
           TypeOK, ArtifactsOf, Offline, At, Committed, Artifacts, Terminal, decided,
           flags, names
<1>2. TempsOf(s)'
    BY ImageFirstEffect, FailEffect, FillTempEffect, FilesDiffer
       DEF CreateTemp, RunInv, StageOf, TempsOf, ToldOf, BakTried, FlagsOf, RolledBack,
           PublishedBefore,
           TypeOK, ArtifactsOf, Offline, At, Committed, Artifacts, Terminal, decided,
           flags, names
<1>3. RolledBack(s)'
    BY ImageFirstEffect, FailEffect, FillTempEffect, FilesDiffer
       DEF CreateTemp, RunInv, StageOf, TempsOf, ToldOf, BakTried, FlagsOf, RolledBack,
           PublishedBefore,
           TypeOK, ArtifactsOf, Offline, At, Committed, Artifacts, Terminal, decided,
           flags, names
<1>4. ToldOf(s)'
    BY ImageFirstEffect, FailEffect, FillTempEffect, FilesDiffer
       DEF CreateTemp, RunInv, StageOf, TempsOf, ToldOf, BakTried, FlagsOf, RolledBack,
           PublishedBefore,
           TypeOK, ArtifactsOf, Offline, At, Committed, Artifacts, Terminal, decided,
           flags, names
<1>5. FlagsOf(s)'
    BY ImageFirstEffect, FailEffect, FillTempEffect, FilesDiffer
       DEF CreateTemp, RunInv, StageOf, TempsOf, ToldOf, BakTried, FlagsOf, RolledBack,
           PublishedBefore,
           TypeOK, ArtifactsOf, Offline, At, Committed, Artifacts, Terminal, decided,
           flags, names
<1>6. PriorKept(s)'
    BY PriorFrame DEF CreateTemp, RunInv, decided, flags, names, budgets, Fault
<1>7. QED BY <1>1, <1>2, <1>3, <1>4, <1>5, <1>6 DEF RunInv

LEMMA BuildKeeps ==
    ASSUME TypeOK, NEW s \in Sessions, RunInv(s), Build(s) PROVE RunInv(s)'
<1>1. StageOf(s)'
    BY ImageFirstEffect, FailEffect, FillTempEffect, FilesDiffer
       DEF Build, RunInv, StageOf, TempsOf, ToldOf, BakTried, FlagsOf, RolledBack,
           PublishedBefore,
           TypeOK, ArtifactsOf, Offline, At, Committed, Artifacts, Terminal, decided,
           flags, names
<1>2. TempsOf(s)'
    BY ImageFirstEffect, FailEffect, FillTempEffect, FilesDiffer
       DEF Build, RunInv, StageOf, TempsOf, ToldOf, BakTried, FlagsOf, RolledBack,
           PublishedBefore,
           TypeOK, ArtifactsOf, Offline, At, Committed, Artifacts, Terminal, decided,
           flags, names
<1>3. RolledBack(s)'
    BY ImageFirstEffect, FailEffect, FillTempEffect, FilesDiffer
       DEF Build, RunInv, StageOf, TempsOf, ToldOf, BakTried, FlagsOf, RolledBack,
           PublishedBefore,
           TypeOK, ArtifactsOf, Offline, At, Committed, Artifacts, Terminal, decided,
           flags, names
<1>4. ToldOf(s)'
    BY ImageFirstEffect, FailEffect, FillTempEffect, FilesDiffer
       DEF Build, RunInv, StageOf, TempsOf, ToldOf, BakTried, FlagsOf, RolledBack,
           PublishedBefore,
           TypeOK, ArtifactsOf, Offline, At, Committed, Artifacts, Terminal, decided,
           flags, names
<1>5. FlagsOf(s)'
    BY ImageFirstEffect, FailEffect, FillTempEffect, FilesDiffer
       DEF Build, RunInv, StageOf, TempsOf, ToldOf, BakTried, FlagsOf, RolledBack,
           PublishedBefore,
           TypeOK, ArtifactsOf, Offline, At, Committed, Artifacts, Terminal, decided,
           flags, names
<1>6. PriorKept(s)'
    BY PriorFrame DEF Build, RunInv, decided, flags, names, budgets, Fault
<1>7. QED BY <1>1, <1>2, <1>3, <1>4, <1>5, <1>6 DEF RunInv

LEMMA FinishKeeps ==
    ASSUME TypeOK, NEW s \in Sessions, RunInv(s), Finish(s) PROVE RunInv(s)'
<1>1. StageOf(s)'
    BY ImageFirstEffect, FailEffect, FilesDiffer
       DEF Finish, RunInv, StageOf, TempsOf, ToldOf, BakTried, FlagsOf, RolledBack,
           PublishedBefore,
           TypeOK, ArtifactsOf, Offline, At, Committed, Artifacts, Terminal, decided,
           flags, names, FirstPublished
<1>2. TempsOf(s)'
    BY ImageFirstEffect, FailEffect, FilesDiffer
       DEF Finish, RunInv, StageOf, TempsOf, ToldOf, BakTried, FlagsOf, RolledBack,
           PublishedBefore,
           TypeOK, ArtifactsOf, Offline, At, Committed, Artifacts, Terminal, decided,
           flags, names, FirstPublished
<1>3. RolledBack(s)'
    BY ImageFirstEffect, FailEffect, FilesDiffer
       DEF Finish, RunInv, StageOf, TempsOf, ToldOf, BakTried, FlagsOf, RolledBack,
           PublishedBefore,
           TypeOK, ArtifactsOf, Offline, At, Committed, Artifacts, Terminal, decided,
           flags, names, FirstPublished
<1>4. ToldOf(s)'
    BY ImageFirstEffect, FailEffect, FilesDiffer
       DEF Finish, RunInv, StageOf, TempsOf, ToldOf, BakTried, FlagsOf, RolledBack,
           PublishedBefore,
           TypeOK, ArtifactsOf, Offline, At, Committed, Artifacts, Terminal, decided,
           flags, names, FirstPublished
<1>5. FlagsOf(s)'
    BY ImageFirstEffect, FailEffect, FilesDiffer
       DEF Finish, RunInv, StageOf, TempsOf, ToldOf, BakTried, FlagsOf, RolledBack,
           PublishedBefore,
           TypeOK, ArtifactsOf, Offline, At, Committed, Artifacts, Terminal, decided,
           flags, names, FirstPublished
<1>6. PriorKept(s)'
    BY PriorFrame DEF Finish, RunInv, decided, flags, names, budgets, Fault
<1>7. QED BY <1>1, <1>2, <1>3, <1>4, <1>5, <1>6 DEF RunInv

LEMMA BakStatKeeps ==
    ASSUME TypeOK, NEW s \in Sessions, RunInv(s), BakStat(s) PROVE RunInv(s)'
<1>1. StageOf(s)'
    BY GoEffect, AfterBakEffect, FailEffect, FilesDiffer
       DEF BakStat, RunInv, StageOf, TempsOf, ToldOf, BakTried, FlagsOf, RolledBack,
           PublishedBefore,
           TypeOK, ArtifactsOf, Offline, At, Committed, Artifacts, Terminal, decided,
           flags, names, FirstPublished
<1>2. TempsOf(s)'
    BY GoEffect, AfterBakEffect, FailEffect, FilesDiffer
       DEF BakStat, RunInv, StageOf, TempsOf, ToldOf, BakTried, FlagsOf, RolledBack,
           PublishedBefore,
           TypeOK, ArtifactsOf, Offline, At, Committed, Artifacts, Terminal, decided,
           flags, names, FirstPublished
<1>3. RolledBack(s)'
    BY GoEffect, AfterBakEffect, FailEffect, FilesDiffer
       DEF BakStat, RunInv, StageOf, TempsOf, ToldOf, BakTried, FlagsOf, RolledBack,
           PublishedBefore,
           TypeOK, ArtifactsOf, Offline, At, Committed, Artifacts, Terminal, decided,
           flags, names, FirstPublished
<1>4. ToldOf(s)'
    BY GoEffect, AfterBakEffect, FailEffect, FilesDiffer
       DEF BakStat, RunInv, StageOf, TempsOf, ToldOf, BakTried, FlagsOf, RolledBack,
           PublishedBefore,
           TypeOK, ArtifactsOf, Offline, At, Committed, Artifacts, Terminal, decided,
           flags, names, FirstPublished
<1>5. FlagsOf(s)'
    BY GoEffect, AfterBakEffect, FailEffect, FilesDiffer
       DEF BakStat, RunInv, StageOf, TempsOf, ToldOf, BakTried, FlagsOf, RolledBack,
           PublishedBefore,
           TypeOK, ArtifactsOf, Offline, At, Committed, Artifacts, Terminal, decided,
           flags, names, FirstPublished
<1>6. PriorKept(s)'
    BY PriorFrame DEF BakStat, RunInv, decided, flags, names, budgets, Fault
<1>7. QED BY <1>1, <1>2, <1>3, <1>4, <1>5, <1>6 DEF RunInv

LEMMA BakRenameKeeps ==
    ASSUME TypeOK, NEW s \in Sessions, RunInv(s), BakRename(s) PROVE RunInv(s)'
<1> DEFINE a == art[s]
<1>1. CASE Fail(s) /\ UNCHANGED <<names, backedUp>>
    BY <1>1, FailKeeps DEF BakRename, At, Fault, budgets, flags
<1>2. CASE /\ final[a] # Absent
           /\ bak' = [bak EXCEPT ![a] = final[a]]
           /\ final' = [final EXCEPT ![a] = Absent]
           /\ backedUp' = Mark(backedUp, s, a)
           /\ AfterBak(s)
           /\ UNCHANGED budgets
  <2>1. /\ At(s, "bakRename") /\ a \in Artifacts
        /\ UNCHANGED <<decided, temp, claimed, published, leftovers, prior, foreigns>>
        /\ backedUp'[s] = backedUp[s] \cup {a}
    BY <1>2 DEF BakRename, TypeOK, Mark, budgets
  <2>2. /\ bak'[a] = final[a] /\ final'[a] = Absent
        /\ \A b \in Artifacts \ {a} : bak'[b] = bak[b] /\ final'[b] = final[b]
    BY <1>2, <2>1 DEF TypeOK
  <2>3. /\ claimed[s] = {} /\ published[s] = {} /\ leftovers[s] = {} /\ a \notin backedUp[s]
        /\ a = "resources" => Offline(s)
        /\ a = "image" => backedUp[s] = {}
        /\ ~Committed(s)
    BY <2>1 DEF RunInv, StageOf, ToldOf, At, Committed
  <2>4. \/ a = "image" /\ Offline(s) /\ pc'[s] = "bakStat" /\ art'[s] = "resources"
        \/ ~(a = "image" /\ Offline(s)) /\ pc'[s] = "claim" /\ art'[s] = FirstPublished(s)
    BY <1>2, AfterBakEffect
  <2>5. final[a] \in {Old, Foreign}
    BY <1>2, <2>1, <2>3 DEF RunInv, FlagsOf
  <2>6. StageOf(s)'
    BY <2>1, <2>3, <2>4
       DEF RunInv, StageOf, PublishedBefore, FirstPublished, ArtifactsOf, Artifacts, Offline,
           At, Committed, decided
  <2>7. TempsOf(s)'
    BY <2>1, <2>3, <2>4 DEF RunInv, TempsOf, ArtifactsOf, Offline, At, decided
  <2>8. RolledBack(s)' /\ ToldOf(s)'
    BY <2>1, <2>3, <2>4 DEF RunInv, RolledBack, ToldOf, BakTried, At
  <2>9. FlagsOf(s)'
    BY <2>1, <2>2, <2>3, <2>4, <2>5, FilesDiffer DEF RunInv, FlagsOf
  <2>10. PriorKept(s)'
    BY <2>1, <2>2, <2>3, <2>5, FilesDiffer DEF RunInv, PriorKept, Committed
  <2>11. QED BY <2>6, <2>7, <2>8, <2>9, <2>10 DEF RunInv
<1>3. QED
    BY <1>1, <1>2 DEF BakRename

LEMMA ClaimFinalKeeps ==
    ASSUME TypeOK, NEW s \in Sessions, RunInv(s), ClaimFinal(s) PROVE RunInv(s)'
<1> DEFINE a == art[s]
<1>1. CASE Fail(s) /\ UNCHANGED <<final, claimed>>
    BY <1>1, FailKeeps DEF ClaimFinal, At, Fault, budgets, flags, names
<1>2. CASE /\ NameFree(a)
           /\ final' = [final EXCEPT ![a] = Claim(s)]
           /\ claimed' = Mark(claimed, s, a)
           /\ Go(s, "rename", a) \/ Fail(s)
  <2>1. /\ At(s, "claim") /\ a \in Artifacts /\ final[a] = Absent
        /\ UNCHANGED <<decided, temp, published, backedUp, leftovers, bak, prior, foreigns>>
        /\ claimed'[s] = claimed[s] \cup {a}
        /\ final'[a] = Claim(s)
        /\ \A b \in Artifacts \ {a} : final'[b] = final[b]
    BY <1>2 DEF ClaimFinal, NameFree, TypeOK, Mark, budgets, Fault
  <2>2. /\ claimed[s] = {} /\ leftovers[s] = {} /\ a \notin published[s]
        /\ a \in ArtifactsOf(s) /\ published[s] = PublishedBefore(s)
        /\ a = "resources" => Offline(s)
        /\ ~Committed(s)
    BY <2>1 DEF RunInv, StageOf, ToldOf, At, Committed, PublishedBefore, ArtifactsOf, Artifacts
  <2>3. \/ pc'[s] = "rename" /\ art'[s] = a
        \/ pc'[s] = "unpublish" /\ art'[s] = "image"
    BY <1>2, GoEffect, FailEffect
  <2>4. StageOf(s)'
    BY <2>1, <2>2, <2>3
       DEF RunInv, StageOf, PublishedBefore, ArtifactsOf, Offline, At, Committed, decided
  <2>5. TempsOf(s)'
    BY <2>1, <2>2, <2>3 DEF RunInv, TempsOf, ArtifactsOf, Offline, At, decided
  <2>6. RolledBack(s)' /\ ToldOf(s)'
    BY <2>1, <2>2, <2>3 DEF RunInv, RolledBack, ToldOf, BakTried, At
  <2>7. FlagsOf(s)'
    BY <2>1, <2>2, <2>3, FilesDiffer DEF RunInv, FlagsOf, At
  <2>8. PriorKept(s)'
    BY <2>1, <2>2, FilesDiffer DEF RunInv, PriorKept, Committed, FlagsOf
  <2>9. QED BY <2>4, <2>5, <2>6, <2>7, <2>8 DEF RunInv
<1>3. QED
    BY <1>1, <1>2 DEF ClaimFinal

LEMMA RenameTempKeeps ==
    ASSUME TypeOK, NEW s \in Sessions, RunInv(s), RenameTemp(s) PROVE RunInv(s)'
<1> DEFINE a == art[s]
<1>1. CASE Fail(s) /\ UNCHANGED <<final, temp, claimed, published>> /\ foreigns' = foreigns
    BY <1>1, FailKeeps DEF RenameTemp, At, flags, names
<1>2. CASE /\ final' = [final EXCEPT ![a] = temp[s][a]]
           /\ FillTemp(s, a, Absent)
           /\ claimed' = Unmark(claimed, s, a)
           /\ published' = Mark(published, s, a)
           /\ IF a = "resources" THEN Go(s, "claim", "image") ELSE Go(s, "dropBak", "image")
           /\ UNCHANGED budgets
  <2>1. /\ At(s, "rename") /\ a \in Artifacts
        /\ UNCHANGED <<decided, backedUp, leftovers, bak, prior, foreigns>>
        /\ claimed'[s] = claimed[s] \ {a} /\ published'[s] = published[s] \cup {a}
        /\ temp'[s][a] = Absent
        /\ \A b \in Artifacts \ {a} : final'[b] = final[b] /\ temp'[s][b] = temp[s][b]
    BY <1>2, FillTempEffect DEF RenameTemp, TypeOK, Mark, Unmark, budgets
  <2>2. /\ claimed[s] = {a} /\ leftovers[s] = {} /\ published[s] = PublishedBefore(s)
        /\ a = "resources" => Offline(s)
        /\ a \in ArtifactsOf(s) /\ a \notin published[s]
        /\ ~Committed(s)
    BY <2>1 DEF RunInv, StageOf, ToldOf, At, Committed, PublishedBefore, ArtifactsOf, Artifacts
  <2>3. temp[s][a] = New(s) /\ final[a] = Claim(s)
    BY <2>1, <2>2 DEF RunInv, TempsOf, FlagsOf, At
  <2>4. final'[a] = New(s)
    BY <1>2, <2>1, <2>3 DEF TypeOK
  <2>5. claimed'[s] = {}
    BY <2>1, <2>2
  <2>6. \/ /\ a = "resources" /\ pc'[s] = "claim" /\ art'[s] = "image"
           /\ published'[s] = {"resources"}
        \/ /\ a = "image" /\ pc'[s] = "dropBak" /\ art'[s] = "image"
           /\ published'[s] = ArtifactsOf(s)
    BY <1>2, <2>1, <2>2, GoEffect DEF PublishedBefore, ArtifactsOf, Artifacts
  <2>7. StageOf(s)'
    BY <2>1, <2>2, <2>5, <2>6
       DEF RunInv, StageOf, PublishedBefore, ArtifactsOf, Artifacts, Offline, At, Committed,
           decided
  <2>8. TempsOf(s)'
    BY <2>1, <2>2, <2>6
       DEF RunInv, TempsOf, ArtifactsOf, Artifacts, Offline, At, decided
  <2>9. RolledBack(s)' /\ ToldOf(s)'
    BY <2>1, <2>2, <2>6 DEF RunInv, RolledBack, ToldOf, BakTried, At
  <2>10. FlagsOf(s)'
    BY <2>1, <2>2, <2>4, <2>5, <2>6, FilesDiffer DEF RunInv, FlagsOf, At
  <2>11. PriorKept(s)'
    <3>1. \A b \in ArtifactsOf(s) : Committed(s)' => final'[b] = New(s)
      <4>1. Committed(s)' => a = "image"
        BY <2>6 DEF Committed
      <4>2. \A b \in ArtifactsOf(s) \ {a} : b \in published[s] \/ a # "image"
        BY <2>2 DEF PublishedBefore, ArtifactsOf, Artifacts
      <4>3. \A b \in published[s] : final[b] = New(s)
        BY <2>1 DEF RunInv, FlagsOf, At, TypeOK
      <4>4. QED BY <2>1, <2>4, <4>1, <4>2, <4>3 DEF ArtifactsOf, Artifacts
    <3>2. QED
      BY <2>1, <2>2, <2>3, <2>4, <3>1, FilesDiffer
         DEF RunInv, PriorKept, Committed, ArtifactsOf, Offline, decided
  <2>12. QED BY <2>7, <2>8, <2>9, <2>10, <2>11 DEF RunInv
<1>3. QED
    BY <1>1, <1>2 DEF RenameTemp, Fault

LEMMA DropBakKeeps ==
    ASSUME TypeOK, NEW s \in Sessions, RunInv(s), DropBak(s) PROVE RunInv(s)'
<1> DEFINE a == art[s]
<1>1. /\ At(s, "dropBak") /\ a \in Artifacts /\ foreigns' = foreigns
      /\ UNCHANGED <<decided, temp, claimed, published, final, prior>>
      /\ \A b \in Artifacts \ {a} : bak'[b] = bak[b] /\ (b \in backedUp'[s] <=> b \in backedUp[s])
    BY DEF DropBak, TypeOK, Unmark, budgets, Fault
<1>11. \A b \in Artifacts, name \in Names :
          <<name, b>> # <<"bak", a>> =>
              (<<name, b>> \in leftovers'[s] <=> <<name, b>> \in leftovers[s])
    BY ReportEffect DEF DropBak
<1>2. \/ /\ bak'[a] \in {Absent, Unowned("stale")} /\ a \notin backedUp'[s]
         /\ leftovers' = leftovers
      \/ bak'[a] = bak[a] /\ a \in backedUp[s] \cap backedUp'[s] /\ <<"bak", a>> \in leftovers'[s]
  <2>1. CASE bak' = [bak EXCEPT ![a] = Absent] /\ backedUp' = Unmark(backedUp, s, a)
    BY <1>1, <2>1, FilesDiffer DEF DropBak, TypeOK, Unmark
  <2>2. CASE a \in backedUp[s] /\ Report(s, "bak", a) /\ UNCHANGED <<bak, backedUp>>
    BY <2>2, ReportEffect
  <2>3. CASE a \notin backedUp[s] /\ UNCHANGED <<bak, backedUp, leftovers>>
    BY <1>1, <2>3 DEF RunInv, FlagsOf
  <2>4. QED BY <2>1, <2>2, <2>3 DEF DropBak
<1>3. \/ a = "image" /\ Offline(s) /\ pc'[s] = "dropBak" /\ art'[s] = "resources"
      \/ ~(a = "image" /\ Offline(s)) /\ pc'[s] = "published" /\ art'[s] = "image"
    BY <1>1, DropBakControl, ImageFirstEffect DEF DropBak, At
<1>4. /\ Committed(s) /\ published[s] = ArtifactsOf(s) /\ claimed[s] = {}
      /\ a = "resources" => Offline(s)
      /\ backedUp[s] \subseteq ArtifactsOf(s) /\ backedUp'[s] \subseteq backedUp[s]
      /\ backedUp'[s] \subseteq Artifacts
    BY <1>1, <1>2 DEF RunInv, StageOf, At, DropBak, TypeOK, Unmark
<1>5. StageOf(s)'
    BY <1>1, <1>3, <1>4 DEF RunInv, StageOf, ArtifactsOf, Offline, At, Committed, decided
<1>6. TempsOf(s)' /\ RolledBack(s)'
    BY <1>1, <1>3, <1>4 DEF RunInv, TempsOf, RolledBack, ArtifactsOf, Offline, At, decided
<1>7. ToldOf(s)'
  <2>1. a \notin backedUp'[s] => <<"bak", a>> \notin leftovers[s]
    <3>1. <<"bak", a>> \notin leftovers[s]
      BY <1>1, <1>4 DEF RunInv, ToldOf, BakTried, At, ArtifactsOf
    <3>2. QED BY <3>1
  <2>2. QED
    BY <1>1, <1>11, <1>2, <1>3, <1>4, <2>1
       DEF Names, RunInv, ToldOf, BakTried, TempsOf, ArtifactsOf, Artifacts, Offline, At
<1>8. FlagsOf(s)'
    BY <1>1, <1>2, <1>3, FilesDiffer DEF RunInv, FlagsOf, At
<1>9. PriorKept(s)'
    BY <1>1, <1>2, <1>4, FilesDiffer DEF RunInv, PriorKept, Committed, ArtifactsOf, Offline, decided
<1>10. QED BY <1>5, <1>6, <1>7, <1>8, <1>9 DEF RunInv

LEMMA UnpublishKeeps ==
    ASSUME TypeOK, NEW s \in Sessions, RunInv(s), Unpublish(s) PROVE RunInv(s)'
<1> DEFINE a == art[s]
<1>1. /\ At(s, "unpublish") /\ a \in Artifacts /\ foreigns' = foreigns
      /\ UNCHANGED <<decided, temp, backedUp, bak, prior>>
      /\ \A b \in Artifacts \ {a} : /\ final'[b] = final[b]
                                    /\ b \in claimed'[s] <=> b \in claimed[s]
                                    /\ b \in published'[s] <=> b \in published[s]
      /\ claimed'[s] \subseteq claimed[s] /\ published'[s] \subseteq published[s]
      /\ leftovers[s] \subseteq leftovers'[s]
      /\ \A b \in Artifacts, name \in {"bak", "temp"} :
            <<name, b>> \in leftovers'[s] <=> <<name, b>> \in leftovers[s]
    BY ReportEffect DEF Unpublish, TypeOK, Unmark, budgets, Fault
<1>2. \/ final'[a] = Absent /\ Owns(s, a) /\ a \notin claimed'[s] \cup published'[s]
      \/ /\ final'[a] = final[a]
         /\ a \in claimed'[s] <=> a \in claimed[s]
         /\ a \in published'[s] <=> a \in published[s]
         /\ a \in claimed'[s] \cup published'[s] => <<"final", a>> \in leftovers'[s]
  <2>1. CASE /\ Owns(s, a) /\ final' = [final EXCEPT ![a] = Absent]
             /\ claimed' = Unmark(claimed, s, a) /\ published' = Unmark(published, s, a)
    <3>1. claimed'[s] = claimed[s] \ {a}
      BY <2>1 DEF TypeOK, Unmark
    <3>2. published'[s] = published[s] \ {a}
      BY <2>1 DEF TypeOK, Unmark
    <3>3. QED BY <1>1, <2>1, <3>1, <3>2 DEF TypeOK
  <2>2. CASE Report(s, "final", a) /\ UNCHANGED <<final, claimed, published>>
    BY <2>2, ReportEffect
  <2>3. CASE ~Owns(s, a) /\ UNCHANGED <<final, claimed, published>>
    BY <2>3 DEF Owns
  <2>4. QED BY <2>1, <2>2, <2>3 DEF Unpublish
<1>3. \/ a = "image" /\ Offline(s) /\ pc'[s] = "unpublish" /\ art'[s] = "resources"
      \/ /\ ~(a = "image" /\ Offline(s))
         /\ pc'[s] = "restore" /\ art'[s] = FirstPublished(s)
    BY <1>1, ImageFirstEffect DEF Unpublish, At
<1>4. /\ ~Committed(s) /\ ~Committed(s)'
      /\ a = "resources" => Offline(s)
      /\ claimed[s] \cup published[s] \subseteq ArtifactsOf(s)
    BY <1>1 DEF RunInv, StageOf, At, Committed
<1>5. StageOf(s)'
    BY <1>1, <1>3, <1>4
       DEF RunInv, StageOf, FirstPublished, ArtifactsOf, Offline, At, Committed, decided
<1>6. TempsOf(s)'
    BY <1>1, <1>3 DEF RunInv, TempsOf, ArtifactsOf, Offline, At, decided
<1>7. RolledBack(s)'
    BY <1>1, <1>2, <1>3, <1>4
       DEF RunInv, RolledBack, FirstPublished, ArtifactsOf, Artifacts, Offline, At
<1>8. ToldOf(s)'
  <2>1. CASE pc'[s] = "unpublish"
    BY <1>1, <2>1 DEF RunInv, ToldOf, BakTried, At
  <2>2. CASE pc'[s] = "restore"
    <3>1. art'[s] = "image" => "resources" \notin backedUp[s]
      BY <1>3, <2>2 DEF RunInv, StageOf, ArtifactsOf, Artifacts, FirstPublished
    <3>2. QED BY <1>1, <2>2, <3>1 DEF RunInv, ToldOf, BakTried, At
  <2>3. QED BY <1>3, <2>1, <2>2
<1>9. FlagsOf(s)'
    BY <1>1, <1>2, <1>3, FilesDiffer DEF RunInv, FlagsOf, At
<1>10. PriorKept(s)'
  <2>1. final'[a] = final[a] \/ (final'[a] = Absent /\ final[a] \in {Claim(s), New(s)})
    BY <1>1, <1>2 DEF Owns, RunInv, FlagsOf, At
  <2>2. QED
    BY <1>1, <1>4, <2>1, FilesDiffer
       DEF RunInv, PriorKept, ArtifactsOf, Offline, decided
<1>11. QED BY <1>5, <1>6, <1>7, <1>8, <1>9, <1>10 DEF RunInv

LEMMA RestoreKeeps ==
    ASSUME TypeOK, NEW s \in Sessions, RunInv(s), Restore(s) PROVE RunInv(s)'
<1> DEFINE a == art[s]
<1>1. /\ At(s, "restore") /\ a \in Artifacts /\ foreigns' = foreigns
      /\ UNCHANGED <<decided, temp, claimed, published, prior>>
      /\ \A b \in Artifacts \ {a} : /\ final'[b] = final[b] /\ bak'[b] = bak[b]
                                    /\ b \in backedUp'[s] <=> b \in backedUp[s]
      /\ backedUp'[s] \subseteq backedUp[s]
      /\ leftovers[s] \subseteq leftovers'[s]
      /\ \A b \in Artifacts, name \in {"bak", "temp"} :
            <<name, b>> # <<"bak", a>> =>
                (<<name, b>> \in leftovers'[s] <=> <<name, b>> \in leftovers[s])
    BY ReportEffect DEF Restore, TypeOK, Unmark, names, budgets, Fault
<1>2. \/ /\ a \in backedUp[s] /\ final'[a] = bak[a] /\ bak'[a] = Absent
         /\ a \notin backedUp'[s] /\ leftovers' = leftovers
      \/ /\ final'[a] = final[a] /\ bak'[a] = bak[a]
         /\ a \in backedUp'[s] <=> a \in backedUp[s]
         /\ a \in backedUp[s] <=> <<"bak", a>> \in leftovers'[s]
  <2>1. CASE /\ a \in backedUp[s] /\ final' = [final EXCEPT ![a] = bak[a]]
             /\ bak' = [bak EXCEPT ![a] = Absent] /\ backedUp' = Unmark(backedUp, s, a)
             /\ UNCHANGED leftovers
    BY <1>1, <2>1 DEF TypeOK, Unmark
  <2>2. CASE a \in backedUp[s] /\ Report(s, "bak", a) /\ UNCHANGED <<names, backedUp>>
    BY <2>2, ReportEffect DEF names
  <2>3. CASE a \notin backedUp[s] /\ UNCHANGED <<names, backedUp, leftovers>>
    BY <1>1, <2>3 DEF RunInv, ToldOf, BakTried, At, names
  <2>4. QED BY <2>1, <2>2, <2>3 DEF Restore
<1>3. \/ a = "resources" /\ pc'[s] = "restore" /\ art'[s] = "image"
      \/ a = "image" /\ pc'[s] = "dropTemp" /\ art'[s] = "image"
    BY <1>1, ResourcesFirstEffect DEF Restore, At, Artifacts
<1>4. ~Committed(s) /\ ~Committed(s)' /\ backedUp'[s] \subseteq ArtifactsOf(s)
    BY <1>1 DEF RunInv, StageOf, At, Committed
<1>5. StageOf(s)'
    BY <1>1, <1>3, <1>4 DEF RunInv, StageOf, ArtifactsOf, Offline, At, Committed, decided
<1>6. TempsOf(s)'
    BY <1>1, <1>3 DEF RunInv, TempsOf, ArtifactsOf, Offline, At, decided
<1>7. RolledBack(s)'
    BY <1>1, <1>3 DEF RunInv, RolledBack, At
<1>8. ToldOf(s)'
  <2>1. <<"bak", a>> \in leftovers'[s] <=> a \in backedUp'[s]
    <3>1. CASE a \in backedUp[s] /\ a \notin backedUp'[s] /\ leftovers' = leftovers
      <4>1. <<"bak", a>> \notin leftovers[s]
        BY <1>1, <3>1 DEF RunInv, ToldOf, BakTried, At, TypeOK
      <4>2. QED BY <3>1, <4>1
    <3>2. CASE /\ a \in backedUp'[s] <=> a \in backedUp[s]
               /\ a \in backedUp[s] <=> <<"bak", a>> \in leftovers'[s]
      BY <3>2
    <3>3. QED BY <1>2, <3>1, <3>2
  <2>2. QED
    BY <1>1, <1>3, <1>4, <2>1 DEF RunInv, ToldOf, BakTried, At, ArtifactsOf, Artifacts
<1>9. FlagsOf(s)'
    BY <1>1, <1>2, <1>3, FilesDiffer DEF RunInv, FlagsOf, At
<1>10. PriorKept(s)'
    BY <1>1, <1>2, <1>4, FilesDiffer DEF RunInv, PriorKept, FlagsOf, ArtifactsOf, Offline, decided
<1>11. QED BY <1>5, <1>6, <1>7, <1>8, <1>9, <1>10 DEF RunInv

LEMMA DropTempKeeps ==
    ASSUME TypeOK, NEW s \in Sessions, EndingOf(s), RunInv(s), DropTemp(s) PROVE RunInv(s)'
<1> DEFINE a == art[s]
<1>1. /\ At(s, "dropTemp") /\ a \in Artifacts
      /\ UNCHANGED <<decided, flags, names, prior, foreigns>>
      /\ \A b \in Artifacts \ {a} : temp'[s][b] = temp[s][b]
    BY FillTempEffect DEF DropTemp, TypeOK, budgets, Fault
<1>2. \/ temp'[s][a] = Absent /\ leftovers' = leftovers
      \/ temp' = temp /\ leftovers'[s] = leftovers[s] \cup {<<"temp", a>>}
    BY <1>1, FillTempEffect, ReportEffect DEF DropTemp
<1>3. \/ a = "image" /\ Offline(s) /\ pc'[s] = "dropTemp" /\ art'[s] = "resources"
      \/ ~(a = "image" /\ Offline(s)) /\ pc'[s] = "failed" /\ art'[s] = "image"
    BY <1>1, DropTempControl, ImageFirstEffect DEF DropTemp, At
<1>4. StageOf(s)'
    BY <1>1, <1>3 DEF RunInv, StageOf, ArtifactsOf, Offline, At, Committed, decided, flags
<1>5. TempsOf(s)'
    BY <1>1, <1>2, <1>3 DEF RunInv, TempsOf, ArtifactsOf, Offline, At, TypeOK, decided, flags
<1>6. RolledBack(s)'
    BY <1>1, <1>2, <1>3 DEF RunInv, RolledBack, At, flags
<1>7. ToldOf(s)'
    BY <1>1, <1>2, <1>3
       DEF RunInv, ToldOf, BakTried, TempsOf, ArtifactsOf, Artifacts, Offline, At, flags
<1>8. FlagsOf(s)'
    BY <1>1, <1>3 DEF RunInv, FlagsOf, At, flags, names
<1>9. PriorKept(s)'
    BY <1>1, PriorFrame DEF RunInv, decided, flags, names
<1>10. QED BY <1>4, <1>5, <1>6, <1>7, <1>8, <1>9 DEF RunInv

LEMMA KillKeeps ==
    ASSUME TypeOK, NEW s \in Sessions, RunInv(s), Kill(s) PROVE RunInv(s)'
<1>1. StageOf(s)'
    BY GoEffect, FilesDiffer
       DEF Kill, RunInv, StageOf, TempsOf, ToldOf, BakTried, FlagsOf, RolledBack,
           PublishedBefore,
           TypeOK, ArtifactsOf, Offline, At, Committed, Artifacts, Terminal, decided,
           flags, names
<1>2. TempsOf(s)'
    BY GoEffect, FilesDiffer
       DEF Kill, RunInv, StageOf, TempsOf, ToldOf, BakTried, FlagsOf, RolledBack,
           PublishedBefore,
           TypeOK, ArtifactsOf, Offline, At, Committed, Artifacts, Terminal, decided,
           flags, names
<1>3. RolledBack(s)'
    BY GoEffect, FilesDiffer
       DEF Kill, RunInv, StageOf, TempsOf, ToldOf, BakTried, FlagsOf, RolledBack,
           PublishedBefore,
           TypeOK, ArtifactsOf, Offline, At, Committed, Artifacts, Terminal, decided,
           flags, names
<1>4. ToldOf(s)'
    BY GoEffect, FilesDiffer
       DEF Kill, RunInv, StageOf, TempsOf, ToldOf, BakTried, FlagsOf, RolledBack,
           PublishedBefore,
           TypeOK, ArtifactsOf, Offline, At, Committed, Artifacts, Terminal, decided,
           flags, names
<1>5. FlagsOf(s)'
    BY GoEffect, FilesDiffer
       DEF Kill, RunInv, StageOf, TempsOf, ToldOf, BakTried, FlagsOf, RolledBack,
           PublishedBefore,
           TypeOK, ArtifactsOf, Offline, At, Committed, Artifacts, Terminal, decided,
           flags, names
<1>6. PriorKept(s)'
    BY PriorFrame DEF Kill, RunInv, decided, flags, names, budgets, Fault
<1>7. QED BY <1>1, <1>2, <1>3, <1>4, <1>5, <1>6 DEF RunInv

LEMMA ForeignCreateKeeps ==
    ASSUME TypeOK, NEW s \in Sessions, RunInv(s), NEW a \in Artifacts, ForeignCreate(a)
    PROVE  RunInv(s)'
<1>1. /\ final[a] = Absent /\ final'[a] = Foreign /\ foreigns' # 0
      /\ \A b \in Artifacts \ {a} : final'[b] = final[b]
      /\ UNCHANGED <<control, decided, temp, flags, leftovers, bak, prior>>
    BY DEF ForeignCreate, TypeOK
<1>2. StageOf(s)' /\ TempsOf(s)'
    BY <1>1 DEF RunInv, StageOf, TempsOf, PublishedBefore, ArtifactsOf, Offline, At,
                Committed, control, decided, flags
<1>3. RolledBack(s)' /\ ToldOf(s)'
    BY <1>1 DEF RunInv, RolledBack, ToldOf, BakTried, At, control, flags
<1>4. FlagsOf(s)'
    BY <1>1, FilesDiffer DEF RunInv, FlagsOf, control, flags
<1>5. PriorKept(s)'
    BY <1>1, FilesDiffer
       DEF RunInv, PriorKept, Committed, ArtifactsOf, Offline, decided, flags
<1>6. QED BY <1>2, <1>3, <1>4, <1>5 DEF RunInv

LEMMA InitRun == ASSUME NEW s \in Sessions, Init PROVE RunInv(s)
<1>1. \A a \in Artifacts : /\ final[a] \in {Absent, Old} /\ prior[a] = final[a]
                           /\ bak[a] \in {Absent, Unowned("stale")}
    BY PublisherAssumption DEF Init, Absent, Old
<1>2. /\ pc[s] = "idle" /\ art[s] = "image" /\ claimed[s] = {} /\ published[s] = {}
      /\ backedUp[s] = {} /\ leftovers[s] = {}
      /\ \A a \in Artifacts : temp[s][a] = Absent
    BY DEF Init
<1>3. StageOf(s) /\ TempsOf(s) /\ RolledBack(s) /\ ToldOf(s)
    BY <1>2 DEF StageOf, TempsOf, RolledBack, ToldOf, BakTried, ArtifactsOf, At, Committed
<1>4. FlagsOf(s)
    BY <1>1, <1>2, FilesDiffer DEF FlagsOf
<1>5. PriorKept(s)
    BY <1>1, <1>2, FilesDiffer DEF PriorKept, Committed
<1>6. QED BY <1>3, <1>4, <1>5 DEF RunInv

(* The only process is the run. *)
OneRun == Sessions = {Sole}

LEMMA SoleSteps ==
    ASSUME OneRun, Next
    PROVE  \/ Start(Sole) \/ Answer(Sole) \/ Run(Sole) \/ Kill(Sole)
           \/ \E a \in Artifacts : ForeignCreate(a)
           \/ UNCHANGED vars
BY DEF OneRun, Next, Finished

LEMMA NextKeepsRun ==
    ASSUME OneRun, TypeOK, EndingInv, RunInv(Sole), [Next]_vars
    PROVE  RunInv(Sole)'
<1>1. Sole \in Sessions
    BY DEF OneRun
<1>2. CASE Start(Sole) \/ Answer(Sole) \/ Kill(Sole)
    BY <1>1, <1>2, StartKeeps, AnswerKeeps, KillKeeps
<1>3. CASE Run(Sole)
  <2>1. CASE \/ StatFinal(Sole) \/ Authorize(Sole) \/ CreateTemp(Sole) \/ Build(Sole)
             \/ Finish(Sole) \/ BakStat(Sole) \/ BakRename(Sole)
    BY <1>1, <2>1, StatFinalKeeps, AuthorizeKeeps, CreateTempKeeps, BuildKeeps, FinishKeeps,
       BakStatKeeps, BakRenameKeeps
  <2>2. CASE \/ ClaimFinal(Sole) \/ RenameTemp(Sole) \/ DropBak(Sole) \/ Unpublish(Sole)
             \/ Restore(Sole) \/ DropTemp(Sole)
    BY <1>1, <2>2, ClaimFinalKeeps, RenameTempKeeps, DropBakKeeps, UnpublishKeeps,
       RestoreKeeps, DropTempKeeps DEF EndingInv
  <2>3. QED BY <1>3, <2>1, <2>2 DEF Run
<1>4. CASE \E a \in Artifacts : ForeignCreate(a)
    BY <1>1, <1>4, ForeignCreateKeeps
<1>5. CASE UNCHANGED vars
    BY <1>5 DEF vars, control, decided, flags, names, budgets, RunInv, StageOf, TempsOf,
                RolledBack, ToldOf, BakTried, FlagsOf, PriorKept, PublishedBefore,
                ArtifactsOf, Offline, At, Committed
<1>6. QED BY <1>2, <1>3, <1>4, <1>5, SoleSteps

(* What a single run has done so far is what its stage, its flags and its   *)
(* leftovers say, and every prior file is at its name or is the backup.     *)
THEOREM OneRunInvariant ==
    ASSUME OneRun PROVE Spec => []RunInv(Sole)
<1>1. Init => RunInv(Sole)
    BY InitRun DEF OneRun
<1>2. TypeOK /\ EndingInv /\ RunInv(Sole) /\ [Next]_vars => RunInv(Sole)'
    BY NextKeepsRun
<1>3. QED BY <1>1, <1>2, CleanupRunsOnce, PTL DEF Spec

(* The previous generation survives a single run, whether it replaces it,   *)
(* fails, is rolled back or is killed between two calls.                    *)
THEOREM OldSurvives ==
    ASSUME OneRun PROVE Spec => []OldNeverLost
<1>1. TypeOK /\ RunInv(Sole) => OldNeverLost
  <2> SUFFICES ASSUME TypeOK, RunInv(Sole), NEW a \in Artifacts, prior[a] = Old
               PROVE  /\ ~Committed(Sole) => Old \in {final[a], bak[a]}
                      /\ At(Sole, "killed") /\ foreigns = 0 =>
                           \/ Recovered(a) = Old
                           \/ /\ Recovered(a) = New(Sole)
                              /\ Committed(Sole) \/ bak[a] = Old
    BY DEF OldNeverLost, OldAtHand, RecoveryScriptSafe, OneRun
  <2>1. CASE Committed(Sole) /\ a \in ArtifactsOf(Sole)
    BY <2>1 DEF RunInv, PriorKept, Recovered, New, Owned, Absent, Unowned
  <2>2. CASE (~Committed(Sole) \/ a \notin ArtifactsOf(Sole)) /\ a \in backedUp[Sole]
    <3>1. bak[a] = Old
      BY <2>2, FilesDiffer DEF RunInv, PriorKept
    <3>2. final[a] \in {Absent, Old, Foreign, Claim(Sole), New(Sole)}
      BY DEF RunInv, FlagsOf
    <3>3. foreigns = 0 => final[a] # Foreign
      BY DEF RunInv, PriorKept
    <3>4. backedUp[Sole] \subseteq ArtifactsOf(Sole)
      BY DEF RunInv, StageOf
    <3>5. QED
      BY <2>2, <3>1, <3>2, <3>3, <3>4, FilesDiffer
         DEF Recovered, Absent, Claim, Owned, Unowned
  <2>3. CASE (~Committed(Sole) \/ a \notin ArtifactsOf(Sole)) /\ a \notin backedUp[Sole]
    <3>1. final[a] = Old
      BY <2>3, FilesDiffer DEF RunInv, PriorKept
    <3>2. QED BY <3>1 DEF Recovered, Old, Absent, Unowned
  <2>4. QED BY <2>1, <2>2, <2>3
<1>2. QED BY <1>1, OneRunInvariant, TypeCorrect, PTL

(* What a single publication leaves behind is what its result says, but for  *)
(* the temps of an aborted session; and a failure that says nothing, or an   *)
(* abort, has put the files back.                                           *)
THEOREM PublicationTellsWhatIsLeft ==
    ASSUME OneRun PROVE Spec => []CleanupIsTold
<1>1. TypeOK /\ EndingInv /\ RunInv(Sole) => CleanupIsTold
  <2> SUFFICES ASSUME TypeOK, EndingOf(Sole), RunInv(Sole) PROVE CleanupIsTold
    BY DEF EndingInv, OneRun
  <2>1. /\ claimed[Sole] \subseteq Artifacts /\ published[Sole] \subseteq Artifacts
        /\ backedUp[Sole] \subseteq Artifacts /\ outcome[Sole] \in Outcomes
    BY DEF OneRun, TypeOK
  <2>2. At(Sole, "failed") =>
          \/ told[Sole] = leftovers[Sole]
          \/ /\ told[Sole] = {} /\ claimed[Sole] = {} /\ published[Sole] = {}
             /\ backedUp[Sole] = {}
    BY <2>1 DEF EndingOf, At, Outcomes
  <2>3. FailureRestoresPrior
    <3> SUFFICES ASSUME At(Sole, "failed"), told[Sole] = {}, foreigns = 0
                 PROVE  final = prior /\ \A a \in Artifacts : bak[a] # Old
      BY DEF FailureRestoresPrior, OneRun
    <3>1. claimed[Sole] = {} /\ published[Sole] = {} /\ backedUp[Sole] = {}
      <4> SUFFICES ASSUME leftovers[Sole] = {}
                   PROVE  claimed[Sole] = {} /\ published[Sole] = {} /\ backedUp[Sole] = {}
        BY <2>2
      <4>1. claimed[Sole] = {} /\ published[Sole] = {}
        BY DEF RunInv, RolledBack, At
      <4>2. backedUp[Sole] = {}
        BY <2>1 DEF RunInv, ToldOf, BakTried, At
      <4>3. QED BY <4>1, <4>2
    <3>2. \A a \in Artifacts : final[a] = prior[a]
      BY <3>1 DEF RunInv, FlagsOf, PriorKept, Committed
    <3>3. \A a \in Artifacts : bak[a] # Old
      BY <3>1 DEF RunInv, FlagsOf
    <3>4. QED BY <3>2, <3>3 DEF TypeOK
  <2>4. BackupsReported
    <3> SUFFICES ASSUME Returned(Sole), NEW a \in Artifacts
                 PROVE  bak[a] \in {Old, Foreign} <=> <<"bak", a>> \in Returns(Sole)
      BY DEF BackupsReported, OneRun
    <3>1. a \in backedUp[Sole] <=> bak[a] \in {Old, Foreign}
      BY DEF RunInv, FlagsOf
    <3>2. CASE At(Sole, "refused")
      <4>1. a \notin backedUp[Sole] /\ Returns(Sole) = {}
        BY <3>2 DEF EndingOf, At, Returns
      <4>2. QED BY <3>1, <4>1
    <3>3. CASE At(Sole, "published")
      <4>1. Returns(Sole) = leftovers[Sole]
        BY <3>3 DEF EndingOf, At, Returns
      <4>2. QED BY <3>1, <3>3, <4>1 DEF RunInv, ToldOf, BakTried, At
    <3>4. CASE At(Sole, "failed")
      <4>1. Returns(Sole) = told[Sole]
        BY <3>4 DEF EndingOf, At, Returns
      <4>2. <<"bak", a>> \in leftovers[Sole] <=> a \in backedUp[Sole]
        BY <3>4 DEF RunInv, ToldOf, BakTried, At
      <4>3. QED BY <2>2, <3>1, <3>4, <4>1, <4>2
    <3>5. QED BY <3>2, <3>3, <3>4 DEF Returned, At
  <2>5. TempsGone
    <3> SUFFICES ASSUME Returned(Sole), NEW a \in Artifacts, temp[Sole][a] # Absent,
                        outcome[Sole] # "aborted"
                 PROVE  <<"temp", a>> \in told[Sole]
      BY DEF TempsGone, OneRun
    <3>1. pc[Sole] \notin {"refused", "published"}
      BY DEF RunInv, StageOf, TempsOf, ToldOf, At, EndingOf, ArtifactsOf
    <3>2. At(Sole, "failed")
      BY <3>1 DEF Returned, At
    <3>3. <<"temp", a>> \in leftovers[Sole]
      BY <3>2 DEF RunInv, ToldOf, At
    <3>4. outcome[Sole] = "failed"
      <4>1. outcome[Sole] # "open"
        BY <3>2 DEF EndingOf, At
      <4>2. QED BY <2>1, <3>2, <4>1 DEF EndingOf, Outcomes, At
    <3>5. QED BY <3>3, <3>4 DEF EndingOf
  <2>6. QED BY <2>3, <2>4, <2>5 DEF CleanupIsTold
<1>2. QED BY <1>1, OneRunInvariant, CleanupRunsOnce, PTL

-----------------------------------------------------------------------------
(* A single run swaps the pair of files in one step.                        *)

(* A step that leaves the names and the flags alone changes nothing that a  *)
(* user has.                                                                *)
LEMMA HeldFrame ==
    ASSUME NEW s \in Sessions, NEW a \in Artifacts, final' = final, bak' = bak,
           backedUp' = backedUp, published' = published
    PROVE  Held(s, a)' = Held(s, a)
BY DEF Held, Committed

(* Moving a file aside, claiming a name, taking a claim back, renaming a    *)
(* backup back and deleting the backups change nothing that a user has.     *)
LEMMA BakRenameHeld ==
    ASSUME TypeOK, NEW s \in Sessions, RunInv(s), BakRename(s), NEW b \in Artifacts
    PROVE  Held(s, b)' = Held(s, b)
<1> DEFINE a == art[s]
<1>1. CASE UNCHANGED <<names, backedUp>>
    BY <1>1, HeldFrame DEF BakRename, names
<1>2. CASE /\ bak' = [bak EXCEPT ![a] = final[a]]
           /\ final' = [final EXCEPT ![a] = Absent]
           /\ backedUp' = Mark(backedUp, s, a)
  <2>1. /\ a \in Artifacts /\ a \notin backedUp[s] /\ published'[s] = published[s]
        /\ published[s] = {} /\ claimed[s] = {}
        /\ backedUp'[s] = backedUp[s] \cup {a}
    BY <1>2 DEF BakRename, TypeOK, Mark, RunInv, StageOf, At
  <2>2. ~Committed(s) /\ ~Committed(s)'
    BY <2>1 DEF Committed
  <2>3. CASE b = a
    <3>1. final[a] \notin {Claim(s), New(s)}
      BY <2>1 DEF RunInv, FlagsOf
    <3>2. Held(s, b) = final[a] /\ Held(s, b)' = final[a]
      BY <1>2, <2>1, <2>2, <2>3, <3>1 DEF Held, TypeOK
    <3>3. QED BY <3>2
  <2>4. CASE b # a
    BY <1>2, <2>1, <2>2, <2>4 DEF Held, TypeOK
  <2>5. QED BY <2>3, <2>4
<1>3. QED BY <1>1, <1>2 DEF BakRename

LEMMA ClaimFinalHeld ==
    ASSUME TypeOK, NEW s \in Sessions, RunInv(s), ClaimFinal(s), NEW b \in Artifacts
    PROVE  Held(s, b)' = Held(s, b)
<1> DEFINE a == art[s]
<1>1. CASE UNCHANGED <<final, claimed>>
    BY <1>1, HeldFrame DEF ClaimFinal
<1>2. CASE final[a] = Absent /\ final' = [final EXCEPT ![a] = Claim(s)]
  <2>1. /\ a \in Artifacts /\ bak' = bak /\ backedUp' = backedUp
        /\ published' = published
    BY DEF ClaimFinal, TypeOK
  <2>2. ~Committed(s) /\ ~Committed(s)'
    BY <2>1 DEF ClaimFinal, RunInv, StageOf, At, Committed
  <2>3. QED BY <1>2, <2>1, <2>2, FilesDiffer DEF Held, TypeOK
<1>3. QED BY <1>1, <1>2 DEF ClaimFinal, NameFree

LEMMA DropBakHeld ==
    ASSUME TypeOK, NEW s \in Sessions, RunInv(s), DropBak(s), NEW b \in Artifacts
    PROVE  Held(s, b)' = Held(s, b)
BY DEF DropBak, RunInv, StageOf, At, Held, Committed

LEMMA UnpublishHeld ==
    ASSUME TypeOK, NEW s \in Sessions, RunInv(s), Unpublish(s), NEW b \in Artifacts
    PROVE  Held(s, b)' = Held(s, b)
<1> DEFINE a == art[s]
<1>1. ~Committed(s) /\ ~Committed(s)' /\ a \in Artifacts /\ bak' = bak /\ backedUp' = backedUp
    BY DEF Unpublish, RunInv, StageOf, At, Committed, TypeOK, Unmark
<1>2. \/ final' = final
      \/ final[a] \in {Claim(s), New(s)} /\ final' = [final EXCEPT ![a] = Absent]
    BY <1>1 DEF Unpublish, Owns, RunInv, FlagsOf, At
<1>3. QED BY <1>1, <1>2, FilesDiffer DEF Held, TypeOK

LEMMA RestoreHeld ==
    ASSUME TypeOK, NEW s \in Sessions, RunInv(s), Restore(s), NEW b \in Artifacts
    PROVE  Held(s, b)' = Held(s, b)
<1> DEFINE a == art[s]
<1>1. ~Committed(s) /\ ~Committed(s)' /\ a \in Artifacts /\ published' = published
    BY DEF Restore, RunInv, StageOf, At, Committed, TypeOK
<1>2. CASE UNCHANGED <<names, backedUp>>
    BY <1>1, <1>2, HeldFrame DEF names
<1>3. CASE /\ a \in backedUp[s] /\ final' = [final EXCEPT ![a] = bak[a]]
           /\ bak' = [bak EXCEPT ![a] = Absent] /\ backedUp' = Unmark(backedUp, s, a)
  <2>1. backedUp'[s] = backedUp[s] \ {a}
    BY <1>3 DEF TypeOK, Unmark
  <2>2. bak[a] \in {Old, Foreign}
    BY <1>1, <1>3 DEF RunInv, FlagsOf
  <2>3. CASE b = a
    <3>1. Held(s, b) = bak[a]
      BY <1>1, <1>3, <2>3 DEF Held
    <3>2. final'[a] = bak[a]
      BY <1>1, <1>3 DEF TypeOK
    <3>3. Held(s, b)' = bak[a]
      BY <1>1, <2>1, <2>2, <2>3, <3>2, FilesDiffer DEF Held
    <3>4. QED BY <3>1, <3>3
  <2>4. CASE b # a
    BY <1>1, <1>3, <2>1, <2>4 DEF Held, TypeOK
  <2>5. QED BY <2>3, <2>4
<1>4. QED BY <1>2, <1>3 DEF Restore

(* The rename that publishes the image replaces the pair, and no other does. *)
LEMMA RenameTempHeld ==
    ASSUME TypeOK, NEW s \in Sessions, RunInv(s), RunInv(s)', RenameTemp(s)
    PROVE  \/ /\ ~Committed(s)' /\ \A b \in Artifacts : Held(s, b)' = Held(s, b)
           \/ /\ Committed(s)' /\ pc'[s] = "dropBak"
              /\ \A b \in Artifacts :
                    Held(s, b)' = IF b \in ArtifactsOf(s) THEN New(s) ELSE Held(s, b)
<1> DEFINE a == art[s]
<1>1. /\ At(s, "rename") /\ ~Committed(s) /\ a \in Artifacts
      /\ bak' = bak /\ backedUp' = backedUp /\ request' = request
    BY DEF RenameTemp, RunInv, StageOf, At, Committed, TypeOK, decided
<1>2. CASE UNCHANGED <<final, temp, claimed, published>>
    BY <1>1, <1>2, HeldFrame DEF Committed
<1>3. CASE /\ final' = [final EXCEPT ![a] = temp[s][a]]
           /\ published' = Mark(published, s, a)
           /\ IF a = "resources" THEN Go(s, "claim", "image") ELSE Go(s, "dropBak", "image")
  <2>1. /\ published[s] = PublishedBefore(s) /\ claimed[s] = {a}
        /\ a \in ArtifactsOf(s)
    BY <1>1 DEF RunInv, StageOf, At
  <2>2. temp[s][a] = New(s) /\ final[a] = Claim(s)
    BY <1>1, <2>1 DEF RunInv, TempsOf, FlagsOf, At, PublishedBefore
  <2>3. published'[s] = published[s] \cup {a}
    BY <1>1, <1>3 DEF TypeOK, Mark
  <2>4. CASE a = "resources"
    <3>1. ~Committed(s)'
      BY <1>1, <2>3, <2>4 DEF Committed
    <3>2. ASSUME NEW b \in Artifacts PROVE Held(s, b)' = Held(s, b)
      BY <1>1, <1>3, <2>2, <3>1, FilesDiffer DEF Held, TypeOK
    <3>3. QED BY <3>1, <3>2
  <2>5. CASE a # "resources"
    <3>1. pc'[s] = "dropBak" /\ Committed(s)'
      BY <1>1, <1>3, <2>3, <2>5, GoEffect DEF Committed, Artifacts
    <3>2. ASSUME NEW b \in Artifacts
          PROVE  Held(s, b)' = IF b \in ArtifactsOf(s) THEN New(s) ELSE Held(s, b)
      <4>1. Held(s, b)' = final'[b]
        BY <3>1 DEF Held
      <4>2. CASE b \in ArtifactsOf(s)
        <5>1. b \in ArtifactsOf(s)'
          BY <1>1, <4>2 DEF ArtifactsOf, Offline
        <5>2. final'[b] = New(s)
          BY <3>1, <5>1 DEF RunInv, PriorKept
        <5>3. QED BY <4>1, <4>2, <5>2
      <4>3. CASE b \notin ArtifactsOf(s)
        <5>1. b \notin backedUp[s] /\ b \notin claimed[s] /\ b \notin published[s]
          BY <4>3 DEF RunInv, StageOf
        <5>2. final[b] \notin {Claim(s), New(s)}
          BY <5>1 DEF RunInv, FlagsOf
        <5>3. Held(s, b) = final[b]
          BY <1>1, <5>1, <5>2 DEF Held
        <5>4. final'[b] = final[b]
          BY <1>3, <2>1, <4>3 DEF TypeOK
        <5>5. QED BY <4>1, <4>3, <5>3, <5>4
      <4>4. QED BY <4>2, <4>3
    <3>3. QED BY <3>1, <3>2
  <2>6. QED BY <2>4, <2>5
<1>4. QED BY <1>2, <1>3 DEF RenameTemp

(* What the status of the run becomes. *)
LEMMA StatusOfStage ==
    ASSUME TypeOK, NEW s \in Sessions, RunInv(s)
    PROVE  /\ RunStatus(s) = "open" <=>
                pc[s] \notin {"refused", "failed", "killed", "dropBak", "published"}
           /\ RunStatus(s) = "committed" <=> At(s, "dropBak")
           /\ RunStatus(s) = "published" <=> At(s, "published")
           /\ RunStatus(s) = "failed" <=> pc[s] \in {"refused", "failed"}
           /\ RunStatus(s) = "died" <=> At(s, "killed")
BY DEF RunStatus, RunInv, StageOf, At

(* A step of the run is a step of the pair or changes nothing.              *)
LEMMA RunIsAtomic ==
    ASSUME OneRun, TypeOK, TypeOK', EndingInv, RunInv(Sole), RunInv(Sole)',
           Start(Sole) \/ Answer(Sole) \/ Run(Sole) \/ Kill(Sole)
    PROVE  [Pair!Next]_Pair!vars
<1> DEFINE s == Sole
           pair == [a \in Artifacts |-> Held(s, a)]
<1>1. s \in Sessions /\ DOMAIN pair = Artifacts
    BY DEF OneRun
<1>2. request' = request
    BY DEF Start, Answer, Kill, Run, StatFinal, Authorize, CreateTemp, Build, Finish,
           BakStat, BakRename, ClaimFinal, RenameTemp, DropBak, Unpublish, Restore,
           DropTemp, decided
<1>3. ArtifactsOf(s)' = ArtifactsOf(s)
    BY <1>2 DEF ArtifactsOf, Offline
<1>4. CASE RenameTemp(s) /\ Committed(s)'
  <2>1. RunStatus(s) = "open"
    BY <1>1, <1>4, StatusOfStage DEF RenameTemp, At
  <2>2. RunStatus(s)' = "committed"
    BY <1>1, <1>4, RenameTempHeld DEF RunStatus, At
  <2>3. \A b \in Artifacts :
            Held(s, b)' = IF b \in ArtifactsOf(s) THEN New(s) ELSE Held(s, b)
    BY <1>1, <1>4, RenameTempHeld
  <2>4. pair' = [a \in DOMAIN pair |-> IF a \in ArtifactsOf(s) THEN New(s) ELSE pair[a]]
    BY <2>3
  <2>5. Pair!Commit
    BY <1>3, <2>1, <2>2, <2>4 DEF Pair!Commit
  <2>6. QED BY <2>5 DEF Pair!Next
<1>5. CASE ~(RenameTemp(s) /\ Committed(s)')
  <2>1. \A b \in Artifacts : Held(s, b)' = Held(s, b)
    <3>1. CASE \/ Start(s) \/ Answer(s) \/ Kill(s) \/ StatFinal(s) \/ Authorize(s)
               \/ CreateTemp(s) \/ Build(s) \/ Finish(s) \/ BakStat(s) \/ DropTemp(s)
      <4>1. UNCHANGED <<final, bak, backedUp, published>>
        BY <3>1 DEF Start, Answer, Kill, StatFinal, Authorize, CreateTemp, Build, Finish,
                    BakStat, DropTemp, names, flags
      <4>2. QED BY <1>1, <4>1, HeldFrame
    <3>2. CASE RenameTemp(s)
      BY <1>1, <1>5, <3>2, RenameTempHeld
    <3>3. CASE BakRename(s) \/ ClaimFinal(s) \/ DropBak(s) \/ Unpublish(s) \/ Restore(s)
      BY <1>1, <3>3, BakRenameHeld, ClaimFinalHeld, DropBakHeld, UnpublishHeld, RestoreHeld
    <3>4. QED BY <3>1, <3>2, <3>3 DEF Run
  <2>2. pair' = pair
    BY <2>1
  <2>3. \/ RunStatus(s)' = RunStatus(s)
        \/ RunStatus(s) = "open" /\ RunStatus(s)' \in {"failed", "died"}
        \/ RunStatus(s) = "committed" /\ RunStatus(s)' \in {"published", "died"}
    <3>1. pc[s] \notin Terminal
      BY DEF Start, Answer, Run, Kill, StatFinal, Authorize, CreateTemp, Build, Finish,
             BakStat, BakRename, ClaimFinal, RenameTemp, DropBak, Unpublish, Restore,
             DropTemp, At, Terminal
    <3>2. \/ RunStatus(s) = "open" /\ ~Committed(s)
          \/ RunStatus(s) = "committed" /\ Committed(s) /\ At(s, "dropBak")
      BY <1>1, <3>1, StatusOfStage DEF Terminal, At, RunInv, StageOf
    <3>3. CASE DropBak(s)
      <4>1. pc'[s] \in {"dropBak", "published"} /\ published' = published
        BY <1>1, <3>3, DropBakControl, ImageFirstEffect DEF DropBak, At
      <4>2. RunStatus(s) = "committed"
        BY <1>1, <3>3, StatusOfStage DEF DropBak
      <4>3. Committed(s)'
        BY <3>3, <4>1 DEF DropBak, RunInv, StageOf, At, Committed
      <4>4. QED BY <4>1, <4>2, <4>3 DEF RunStatus, At
    <3>4. CASE Kill(s)
      <4>1. pc'[s] = "killed"
        BY <1>1, <3>4, GoEffect DEF Kill
      <4>2. QED BY <3>2, <4>1 DEF RunStatus, At
    <3>5. CASE ~DropBak(s) /\ ~Kill(s)
      <4>1. ~At(s, "dropBak") /\ RunStatus(s) = "open"
        BY <3>2, <3>5 DEF Start, Answer, Run, StatFinal, Authorize, CreateTemp, Build,
               Finish, BakStat, BakRename, ClaimFinal, RenameTemp, Unpublish, Restore,
               DropTemp, At
      <4>2. ~Committed(s)'
        <5>1. CASE RenameTemp(s)
          BY <1>5, <5>1
        <5>2. CASE ~RenameTemp(s)
          <6>1. ~Committed(s)
            BY <3>2, <4>1
          <6>2. published'[s] \subseteq published[s]
            BY <1>1, <3>5, <5>2
               DEF Start, Answer, Run, StatFinal, Authorize, CreateTemp, Build,
                   Finish, BakStat, BakRename, ClaimFinal, Unpublish, Restore,
                   DropTemp, flags, Unmark, TypeOK
          <6>3. QED BY <6>1, <6>2 DEF Committed
        <5>3. QED BY <5>1, <5>2
      <4>3. pc'[s] # "killed"
        BY <1>1, <3>5, <4>1, GoEffect, ImageFirstEffect, ResourcesFirstEffect, FailEffect,
           AfterBakEffect, DropTempControl
           DEF EndingInv, Start, Answer, Run, StatFinal, Authorize, CreateTemp, Build, Finish,
               BakStat, BakRename, ClaimFinal, RenameTemp, Unpublish, Restore,
               DropTemp, At
      <4>4. ~At(s, "published")'
        BY <4>2 DEF RunInv, StageOf, At
      <4>5. QED BY <4>1, <4>2, <4>3, <4>4 DEF RunStatus, At
    <3>6. QED BY <3>3, <3>4, <3>5
  <2>4. QED
    BY <1>3, <2>2, <2>3 DEF Pair!Close, Pair!Next, Pair!vars
<1>6. QED BY <1>4, <1>5

(* A file of another program takes a free name or is not what a user has.   *)
LEMMA ForeignIsAtomic ==
    ASSUME OneRun, TypeOK, RunInv(Sole), NEW a \in Artifacts, ForeignCreate(a)
    PROVE  [Pair!Next]_Pair!vars
<1> DEFINE s == Sole
           pair == [b \in Artifacts |-> Held(s, b)]
<1>1. /\ final[a] = Absent /\ final'[a] = Foreign
      /\ \A b \in Artifacts \ {a} : final'[b] = final[b]
      /\ UNCHANGED <<control, decided, flags, bak>>
    BY DEF ForeignCreate, TypeOK
<1>2. ArtifactsOf(s)' = ArtifactsOf(s) /\ (Committed(s)' <=> Committed(s))
    BY <1>1 DEF ArtifactsOf, Offline, Committed, decided, flags
<1>3. RunStatus(s)' = RunStatus(s)
    BY <1>1, <1>2 DEF RunStatus, At, control
<1>4. \A b \in Artifacts \ {a} : Held(s, b)' = Held(s, b)
    BY <1>1, <1>2 DEF Held, flags
<1>5. CASE ~Committed(s) /\ a \in backedUp[s]
  <2>1. Held(s, a)' = Held(s, a)
    BY <1>1, <1>2, <1>5 DEF Held, flags
  <2>2. pair' = pair
    BY <1>4, <2>1
  <2>3. QED BY <1>2, <1>3, <2>2 DEF Pair!vars
<1>6. CASE Committed(s) \/ a \notin backedUp[s]
  <2>1. Held(s, a) = Absent /\ Held(s, a)' = Foreign
    BY <1>1, <1>2, <1>6, FilesDiffer DEF Held, flags, OneRun
  <2>2. pair[a] = Absent /\ pair' = [pair EXCEPT ![a] = Foreign] /\ a \in DOMAIN pair
    BY <1>4, <2>1
  <2>3. Pair!Occupy
    BY <1>2, <1>3, <2>2 DEF Pair!Occupy
  <2>4. QED BY <2>3 DEF Pair!Next
<1>7. QED BY <1>5, <1>6

(* A single replacing run, at any fault, kill and foreign file, changes the *)
(* pair of files that a user has in one step, the rename of the image.      *)
THEOREM RunRefinesAtomicPair ==
    ASSUME OneRun PROVE Spec => ReplaceIsAtomic
<1>1. Init => Pair!Init
  <2> SUFFICES ASSUME Init PROVE Pair!Init
    OBVIOUS
  <2>1. RunStatus(Sole) = "open"
    BY DEF OneRun, Init, RunStatus, At, Committed
  <2>2. ArtifactsOf(Sole) # {}
    BY DEF ArtifactsOf, Artifacts
  <2>3. QED BY <2>1, <2>2 DEF Pair!Init
<1>2. /\ TypeOK /\ TypeOK' /\ EndingInv /\ RunInv(Sole) /\ RunInv(Sole)' /\ [Next]_vars
      => [Pair!Next]_Pair!vars
  <2> SUFFICES ASSUME TypeOK, TypeOK', EndingInv, RunInv(Sole), RunInv(Sole)',
                      [Next]_vars
               PROVE  [Pair!Next]_Pair!vars
    OBVIOUS
  <2>1. CASE UNCHANGED vars
    BY <2>1 DEF vars, control, decided, flags, names, Pair!vars, Held, RunStatus,
                Committed, ArtifactsOf, Offline, At
  <2>2. QED BY <2>1, SoleSteps, RunIsAtomic, ForeignIsAtomic
<1>3. QED
    BY <1>1, <1>2, OneRunInvariant, CleanupRunsOnce, PTL DEF Spec, Pair!Spec, ReplaceIsAtomic
=============================================================================
