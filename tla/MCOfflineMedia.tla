--------------------------- MODULE MCOfflineMedia --------------------------
(* Two kinds of cases, many updates of the same files and one update of    *)
(* many files; trees of up to two assets, among them those to be refused.  *)
EXTENDS OfflineMedia, Integers

File(t, a, d, b, s, z) ==
    [type |-> t, arch |-> a, dir |-> d, base |-> b, sha |-> s, size |-> z]

Iso == File("image-iso", "x86", <<>>, "img", "d1", 1)
IncusApp == File("application", "x86", <<"x86">>, "incus", "d2", 1)

\* Up to three updates, an empty version and versions that stand twice among them.
Release3 == [version : 0..2, channels : {{"stable"}, {"testing"}, {"stable", "testing"}},
             files : {<<Iso, IncusApp>>}]
Channels == {"", "stable", "testing", "none"}
ManyUpdates ==
    {[type |-> "iso", arch |-> "x86", channel |-> c, release |-> r, offline |-> FALSE,
      apps |-> <<>>] : c \in Channels, r \in 0..3}
    \X UNION {[1..n -> Release3] : n \in 0..3}

\* Three files out of nine: the same name twice, another architecture, other
\* types, and fields that must not pass.
SomeFiles ==
    {Iso, IncusApp,
     File("image-raw", "x86", <<>>, "raw", "d1", 1),
     File("image-iso", "arm", <<"arm">>, "img", "d1", 2),
     File("application", "arm", <<"arm">>, "incus", "d3", 1),
     File("application", "x86", <<"old">>, "incus", "d3", 1),
     File("application", "x86", <<"..">>, "incus", "d2", 1),
     File("application", "x86", <<"x86">>, "ceph", "short", 1),
     File("image-iso", "x86", <<>>, "img", "d1", 0)}
ManyFiles ==
    {[type |-> t, arch |-> a, channel |-> "", release |-> 0, offline |-> o, apps |-> n] :
        t \in Types, a \in {"x86", "arm"}, o \in BOOLEAN,
        n \in {<<>>, <<"incus">>, <<"incus", "incus">>, <<"ceph", "incus">>}}
    \X {<<[version |-> v, channels |-> {"stable"}, files |-> f]>> :
            v \in {1, 3}, f \in [1..3 -> SomeFiles]}

AllCases == ManyUpdates \cup ManyFiles

\* Versions 1 and 2, and lists of the files that are named incus.
Published ==
    [signed : BOOLEAN, decodes : {TRUE}, version : {1, 2},
     files : SUBSET {[name |-> <<"x86", "incus">>, sha |-> "d2"],
                     [name |-> <<"x86", "incus">>, sha |-> "d3"],
                     [name |-> <<"arm", "incus">>, sha |-> "d3"]}]
    \cup {[signed |-> TRUE, decodes |-> FALSE, version |-> 1, files |-> {}]}

A(rel, size, handle) == [rel |-> rel, size |-> size, handle |-> handle]

Trees ==
    [sjson : {1}, assets :
        {<<A(<<"update", "x86", "incus">>, 2, TRUE), A(<<"update", "x86", "ceph">>, 1, TRUE)>>,
         <<A(<<"update", "x86">>, 1, TRUE), A(<<"update", "x86", "incus">>, 0, TRUE)>>,
         <<A(<<"update", "x86", "incus">>, 1, TRUE), A(<<"update", "x86", "incus">>, 1, TRUE)>>,
         <<A(<<"update", "update.json">>, 1, TRUE)>>,
         <<A(<<"update">>, 1, TRUE)>>, <<A(<<"other", "incus">>, 1, TRUE)>>,
         <<A(<<"update", "..", "incus">>, 1, TRUE)>>,
         <<A(<<"update", "incus">>, -1, TRUE)>>, <<A(<<"update", "incus">>, 1, FALSE)>>}]
    \cup [sjson : {0, 2}, assets : {<<>>}]

\* From nothing to eight GiB in sectors, close to the floor and to clusters.
Contents == {0, 1, 7, 8, 521000, 522239, 522240, 522241, 524288, 1000003,
             8388608, 16000000}

\* And what a build may give to the writer.
BuildTrees ==
    [sjson : {1}, assets : UNION {[1..n ->
        {[rel |-> <<"update", d, "incus">>, size |-> 1, handle |-> TRUE] : d \in {"x86", "arm", "old"}}] :
        n \in 0..2}]
AllInputs == Trees \cup BuildTrees
=============================================================================
