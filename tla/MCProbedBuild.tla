--------------------------- MODULE MCProbedBuild ---------------------------
(* Words of four bits, so that every wrap-around is among the tables.      *)
EXTENDS ProbedBuild

Images == 0..8
Positions == 0..7
Tars == 0..3

SectorSizes == <<1, 2>>

\* A table of up to three entries of up to three bytes always fits a word, as
\* 4096 entries of 32 bits do in the program.
AllHeads ==
    [len : {2, 3, 5, 7}, signed : SUBSET {1, 2}, partLBA : 0..15, nparts : 0..3,
     esize : 0..3]

Seed == <<1>>

\* Every range under the name, with a unit behind its end, and two other entries.
AllEntries ==
    [used : {TRUE}, name : {<<1, 0, 2>>}, first : 0..15, last : 0..15]
    \cup {[used |-> FALSE, name |-> <<1, 0, 0>>, first |-> 0, last |-> 0],
          [used |-> TRUE, name |-> <<1, 2, 0>>, first |-> 1, last |-> 1]}
=============================================================================
