---------------------------- MODULE RescueTree ----------------------------
(***************************************************************************)
(* The writer of rescue media (internal/media): rescue.go, and the two     *)
(* layouts of iso.go and fat.go.                                           *)
(*                                                                         *)
(*   check, replace, create, filesystem, mkdir*, (open, copy*, close)*,    *)
(*      [ finalize, truncate ]                                             *)
(*                                                                         *)
(* The file at tmpPath is made anew under its name while other programs    *)
(* run, and the file systems are those of a library.  A byte is counted    *)
(* and not valued: a reader that is verified gives the right ones.         *)
(***************************************************************************)
EXTENDS Integers, Sequences, FiniteSets

CONSTANTS
    Inputs,     \* build.RescueInput: [sjson, assets], a number and a sequence
    Idents,     \* segments of names that pass update.ValidateFilename
    Buffer,     \* copyBufSize
    Sizes,      \* the contents, in sectors, for which sizes are computed
    FatSlack, FatFloor, FatDivisor, Margin, IsoSlack, IsoBlock  \* in sectors

\* Segments of paths.  Those of the writer are strings too, and stand here for a prover.
Names == STRING \cup {"update", "update.json", "update.sjson"}

Asset == [rel : Seq(Names), size : Int, handle : BOOLEAN]

Input == [sjson : Nat, assets : Seq(Asset)]

RescueAssumption ==
    /\ \A in \in Inputs : in \in Input
    /\ Buffer \in Nat \ {0} /\ FatDivisor \in Nat \ {0} /\ IsoBlock \in Nat \ {0}
    /\ Sizes \subseteq Nat
    /\ {FatSlack, FatFloor, Margin, IsoSlack} \subseteq Nat

VARIABLES
    pc, typ, input,
    files,      \* the treeFiles: [rel, size, asset]
    temp,       \* what the name tmpPath is: "placeholder", "none", "foreign", "media"
    layout,     \* the sizes that the image was created with, and its content
    dirs,       \* directories of the new file system
    written,    \* written[i]: bytes of files[i] in the new file system, or -1
    cur,        \* the file being staged
    opens,      \* history: how often each asset was opened
    held,       \* what is open: of {"disk", "workspace", "asset", "file"}
    ctxDone, result

image == <<temp, layout>>
tree == <<dirs, written>>
vars == <<pc, typ, input, files, image, tree, cur, opens, held, ctxDone, result>>
given == <<typ, input, ctxDone>>

-----------------------------------------------------------------------------
(* Sizes.                                                                   *)

alignUp(n, block) == ((n + block - 1) \div block) * block

\* Mutant: the tables of the file system are not paid for.
rawSizesTight(content) ==
    LET bytes == content + FatSlack IN
    LET part == IF bytes > FatFloor THEN bytes ELSE FatFloor
    IN [part |-> part, disk |-> part + 2 * Margin]

\* Content and slack or the floor, and 1/FatDivisor more; a margin on both sides.
rawSizesFor(content) ==
    LET bytes == content + FatSlack IN
    LET base == IF bytes > FatFloor THEN bytes ELSE FatFloor IN
    LET part == base + base \div FatDivisor
    IN [part |-> part, disk |-> part + 2 * Margin]

isoBackingSize(content) == alignUp(content + IsoSlack, IsoBlock)

-----------------------------------------------------------------------------
(* What is staged.                                                          *)

Document(name, size) == [rel |-> <<"update", name>>, size |-> size, asset |-> FALSE]

validateRelPath(rel) ==
    /\ Len(rel) > 1 /\ rel[1] = "update"
    /\ \A k \in DOMAIN rel : rel[k] \in Idents

TreeDocuments(in) == <<Document("update.json", 1), Document("update.sjson", in.sjson)>>

Tree(in) ==
    TreeDocuments(in) \o [i \in DOMAIN in.assets |->
        [rel |-> in.assets[i].rel, size |-> in.assets[i].size, asset |-> TRUE]]

\* Mutant: only the two documents are looked at.
DistinctDocuments(f) ==
    \A i \in 3..Len(f) : f[i].rel \notin {f[1].rel, f[2].rel}

Distinct(f) == \A i, j \in DOMAIN f : i # j => f[i].rel # f[j].rel

prepareTree(in) ==
    /\ in.sjson > 0
    /\ \A i \in DOMAIN in.assets :
          validateRelPath(in.assets[i].rel) /\ in.assets[i].handle /\ in.assets[i].size >= 0
    /\ Distinct(Tree(in))

\* The ancestors of a path.
Ancestors(rel) == {SubSeq(rel, 1, k) : k \in 1..Len(rel) - 1}

AllDirs == UNION {Ancestors(files[i].rel) : i \in DOMAIN files}

\* Mutant: directories in any order.
AnyOrder(todo) == todo

\* mkdirParents sorts by depth, because FAT makes one level at a time.
Shallowest(todo) == {d \in todo : \A e \in todo : Len(d) <= Len(e)}

-----------------------------------------------------------------------------
Init ==
    /\ pc = "check" /\ typ \in {"iso", "raw"} /\ input \in Inputs
    /\ files = <<>> /\ temp = "placeholder" /\ layout = {}
    /\ dirs = {} /\ written = <<>> /\ cur = 1 /\ opens = <<>>
    /\ held = {} /\ ctxDone = FALSE /\ result = "none"

\* Every error is an output error (outputf, outputWrap); deferred calls follow.
Fail == pc' = "unwind" /\ result' = "output"

Go(step) == pc' = step /\ UNCHANGED result

\* Mutant: the name is freed before the input is looked at.
checkLate ==
    /\ pc = "check" /\ ~ctxDone
    /\ temp' = "none" /\ UNCHANGED layout
    /\ IF prepareTree(input)
       THEN /\ Go("replace") /\ files' = Tree(input)
            /\ written' = [i \in DOMAIN Tree(input) |-> -1]
            /\ opens' = [i \in DOMAIN Tree(input) |-> 0]
       ELSE Fail /\ UNCHANGED <<files, written, opens>>
    /\ UNCHANGED <<given, dirs, cur, held>>

\* WriteRescue up to prepareTree.
check ==
    /\ pc = "check"
    /\ IF ~ctxDone /\ prepareTree(input)
       THEN /\ Go("replace") /\ files' = Tree(input)
            /\ written' = [i \in DOMAIN Tree(input) |-> -1]
            /\ opens' = [i \in DOMAIN Tree(input) |-> 0]
       ELSE Fail /\ UNCHANGED <<files, written, opens>>
    /\ UNCHANGED <<given, image, dirs, cur, held>>

\* A name that is gone is as good as removed.
replaceFile ==
    /\ pc = "replace"
    /\ \/ Go("create") /\ temp' = "none"
       \/ Fail /\ UNCHANGED temp
    /\ UNCHANGED <<given, files, layout, tree, cur, opens, held>>

\* diskfs.Create makes a file of that name or fails.  The few bytes of the tree
\* stand for any content.
Create ==
    /\ pc = "create"
    /\ \/ /\ temp = "none" /\ temp' = "media"
          /\ \E content \in Sizes :
                layout' = {[content |-> content, raw |-> rawSizesFor(content),
                            iso |-> isoBackingSize(content)]}
          /\ held' = {"disk"} /\ Go("filesystem")
       \/ Fail /\ UNCHANGED <<image, held>>
    /\ UNCHANGED <<given, files, tree, cur, opens>>

\* An ISO is staged in a workspace beside the image.
CreateFilesystem ==
    /\ pc = "filesystem"
    /\ \/ /\ held' = held \cup (IF typ = "iso" THEN {"workspace"} ELSE {})
          /\ Go("mkdir")
       \/ Fail /\ UNCHANGED held
    /\ UNCHANGED <<given, files, image, tree, cur, opens>>

mkdirParents ==
    /\ pc = "mkdir"
    /\ \/ /\ \E d \in Shallowest(AllDirs \ dirs) : dirs' = dirs \cup {d}
          /\ UNCHANGED <<pc, result>>
       \/ AllDirs = dirs /\ Go("file") /\ UNCHANGED dirs
       \/ AllDirs # dirs /\ Fail /\ UNCHANGED dirs
    /\ UNCHANGED <<given, files, image, written, cur, opens, held>>

\* stage: the next file, its asset opened and its file created.
stageFile ==
    /\ pc = "file" /\ cur <= Len(files)
    /\ \/ /\ ~ctxDone /\ files[cur].rel \notin dirs
          /\ opens' = IF files[cur].asset THEN [opens EXCEPT ![cur] = @ + 1] ELSE opens
          /\ written' = [written EXCEPT ![cur] = 0]
          /\ held' = held \cup {"file"} \cup (IF files[cur].asset THEN {"asset"} ELSE {})
          /\ Go("copy")
       \/ /\ ~ctxDone /\ files[cur].asset /\ Fail    \* the file is not created
          /\ opens' = [opens EXCEPT ![cur] = @ + 1]
          /\ UNCHANGED <<written, held>>
       \/ Fail /\ UNCHANGED <<opens, written, held>>
    /\ UNCHANGED <<given, files, image, dirs, cur>>

\* Mutant: the count is not compared with the size.
AnyCount(n) == TRUE

\* writeFile: as many bytes as the size says.
Exact(n) == n = files[cur].size

\* The copied file and its asset are closed, in this order.
Closed == held' = held \ {"file", "asset"}

\* streamCopy, one turn: what is read is written; a reader may give too much, too
\* little or nothing, and its end may come with the last bytes.
streamCopy ==
    LET longest == files[cur].size + 1 - written[cur] IN
    /\ pc = "copy"
    /\ \/ \E n \in 0..Buffer : \* bytes, and no error
             /\ ~ctxDone /\ n <= longest
             /\ written' = [written EXCEPT ![cur] = @ + n]
             /\ UNCHANGED <<pc, result, cur, held>>
       \/ \E n \in 0..Buffer : \* the last bytes and the end
             /\ ~ctxDone /\ n <= longest
             /\ written' = [written EXCEPT ![cur] = @ + n]
             /\ IF Exact(written[cur] + n) THEN Go("file") /\ cur' = cur + 1
                ELSE Fail /\ UNCHANGED cur
             /\ Closed
       \/ \E n \in 0..Buffer : \* a failing read, write or close, and a signal
             /\ n <= longest
             /\ written' = [written EXCEPT ![cur] = @ + n]
             /\ Fail /\ UNCHANGED cur /\ Closed
    /\ UNCHANGED <<given, files, image, dirs, opens>>

\* stage is over: the raw image is complete, the ISO is still to be made.
Staged ==
    /\ pc = "file" /\ cur > Len(files)
    /\ IF typ = "iso" THEN Go("finalize")
       ELSE pc' = "unwind" /\ result' = "ok"
    /\ UNCHANGED <<given, files, image, tree, cur, opens, held>>

\* Mutant: the workspace is closed on success only.
FinalizeLeaks ==
    /\ pc = "finalize"
    /\ \/ held' = {} /\ Go("truncate")
       \/ pc' = "end" /\ result' = "output" /\ UNCHANGED held
    /\ UNCHANGED <<given, files, image, tree, cur, opens>>

\* Finalize, and the closes that follow it.
Finalize ==
    /\ pc = "finalize"
    /\ \/ held' = {} /\ Go("truncate")
       \/ \E closed \in {{}, {"workspace"}} : held' = held \ closed /\ Fail
    /\ UNCHANGED <<given, files, image, tree, cur, opens>>

truncateToPVD ==
    /\ pc = "truncate"
    /\ \/ pc' = "unwind" /\ result' = "ok"
       \/ Fail
    /\ UNCHANGED <<given, files, image, tree, cur, opens, held>>

\* The deferred closes.
Unwind ==
    /\ pc = "unwind" /\ pc' = "end" /\ held' = {}
    /\ UNCHANGED <<given, files, image, tree, cur, opens, result>>

-----------------------------------------------------------------------------
\* Another program takes the name while it is free.
TakeName ==
    /\ temp = "none" /\ temp' = "foreign"
    /\ UNCHANGED <<pc, given, files, layout, tree, cur, opens, held, result>>

Cancel ==
    /\ ~ctxDone /\ ctxDone' = TRUE
    /\ UNCHANGED <<pc, typ, input, files, image, tree, cur, opens, held, result>>

WriteRescue ==
    \/ check \/ replaceFile \/ Create \/ CreateFilesystem \/ mkdirParents
    \/ stageFile \/ streamCopy \/ Staged \/ Finalize \/ truncateToPVD \/ Unwind

Ended == pc = "end" /\ UNCHANGED vars

Next == WriteRescue \/ TakeName \/ Cancel \/ Ended

Spec == Init /\ [][Next]_vars
=============================================================================
