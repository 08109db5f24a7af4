---------------------------- MODULE OfflineMedia ----------------------------
(***************************************************************************)
(* The second half of an offline build: the applications and documents of  *)
(* Release go to the writer of rescue media, RescueTree.  The writer is    *)
(* also started alone, with input that no build gives it.                  *)
(***************************************************************************)
EXTENDS ReleaseProperties

CONSTANTS Inputs, Buffer, Sizes, FatSlack, FatFloor, FatDivisor, Margin, IsoSlack, IsoBlock

VARIABLES mediaPc, typ, input, files, temp, layout, dirs, written, cur, opens, held,
          ctxDone, result   \* of the writer

VARIABLES
    caller,   \* of the writer: "nobody" yet, "build", or "alone"
    order     \* history: names, architecture and signed files of the build

R == INSTANCE RescueTreeProperties WITH pc <- mediaPc

ASSUME OfflineMediaAssumption == R!RescueAssumption

writer == <<mediaPc, typ, input, files, temp, layout, dirs, written, cur, opens, held,
            ctxDone, result>>
allVars == <<vars, writer, caller, order>>

NoOrder == [names |-> <<>>, arch |-> "", signed |-> {}]

\* What a component that does not run is given.
AnyCase == CHOOSE c \in Cases : TRUE
AnyInput == CHOOSE in \in Inputs : TRUE

InitBoth ==
    /\ caller \in {"nobody", "alone"} /\ order = NoOrder
    /\ \/ caller = "nobody" /\ input = AnyInput /\ typ = "raw"
       \/ caller = "alone" /\ case = AnyCase
    /\ Init /\ R!Init

\* Mutant: the directories of a file name are dropped.
rescueBaseName(file) == <<"update", file.base>>

rescueRelPath(file) == <<"update">> \o Append(file.dir, file.base)

RescueAsset(file) == [rel |-> rescueRelPath(file), size |-> file.size, handle |-> TRUE]

RescueInput == [sjson |-> 1, assets |-> [k \in DOMAIN plan.apps |-> RescueAsset(plan.apps[k])]]

\* The call of WriteRescue; what Release has decided is not looked at again.
CallWriter ==
    /\ caller = "nobody" /\ pc = "done" /\ Spec0.offline
    /\ caller' = "build"
    /\ input' = RescueInput /\ typ' = Spec0.type
    /\ order' = [names |-> Spec0.apps, arch |-> Spec0.arch,
                 signed |-> UNION {d.files : d \in got.sjson}]
    /\ pc' = "index" /\ case' = AnyCase /\ plan' = NoPlan /\ todo' = <<>> /\ asked' = {}
    /\ got' = [json |-> {}, sjson |-> {}]
    /\ UNCHANGED <<mediaPc, files, temp, layout, dirs, written, cur, opens, held,
                   ctxDone, result>>

Selecting == caller = "nobody" /\ Next /\ UNCHANGED <<writer, caller, order>>

Writing == caller # "nobody" /\ R!Next /\ UNCHANGED <<vars, caller, order>>

NextBoth == Selecting \/ CallWriter \/ Writing

SpecBoth == InitBoth /\ [][NextBoth]_allVars

-----------------------------------------------------------------------------
(* The writer, see RescueTreeProperties.                                    *)

\* The media is whole, or its failure costs nothing (WriteRescue).
MediaIsSound == R!MediaIsSound

\* Content fits into the sizes computed for it (rawSizesFor, isoBackingSize).
RoomForContent == R!RoomForContent

-----------------------------------------------------------------------------
(* What the two promise together.                                           *)

\* Media of a build that is reported written holds each application of the
\* configuration, whole and under the name that the signed document on the media has
\* for it, and no other application (matchApplications, rescueRelPath, prepareTree).
MediaHoldsApplications ==
    caller = "build" /\ result = "ok" =>
        LET named == {files[i].rel[Len(files[i].rel)] : i \in 3..Len(files)} IN
        /\ named = {order.names[k] : k \in DOMAIN order.names}
        /\ \A i \in 3..Len(files) :
              /\ \E f \in order.signed : files[i].rel = <<"update">> \o f.name
              /\ written[i] = files[i].size

\* What the build gave to the writer, and what is on the order.
OrderIsGiven ==
    caller = "build" =>
        /\ order.names \in Seq(STRING) /\ Len(input.assets) = Len(order.names)
        /\ \A k \in 1..Len(input.assets) :
              /\ input.assets[k].rel[Len(input.assets[k].rel)] = order.names[k]
              /\ \E f \in order.signed : input.assets[k].rel = <<"update">> \o f.name

OfflineMediaInv ==
    /\ ReleaseInv /\ R!RescueInv /\ OrderIsGiven
    /\ caller # "build" => order = NoOrder
    /\ caller = "nobody" => mediaPc = "check" /\ files = <<>> /\ result = "none"
=============================================================================
