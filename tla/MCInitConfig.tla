--------------------------- MODULE MCInitConfig ----------------------------
(* Every subset of five sections, documents with all eleven, and those that *)
(* init writes.                                                             *)
EXTENDS InitConfig

Section(vs, bs) == [version : vs, body : bs]

\* Of the sections that only the renderer looks at, one that is written before the
\* others and one that is written after them.
Bodies ==
    [n \in SectionNames |->
        CASE n = "applications" -> Section({"", "2"}, {"applications", "no application"})
          [] n = "install" -> Section({""}, {"no target", "", "Largest", "median"})
          [] n = "security" -> Section({"2"}, {"certificates", "recovery keys"})
          [] n = "update" -> Section({"", "2"}, {"", "6h", "never"})
          [] OTHER -> Section({"", "1"}, {"any"})]

\* The seeds of S, each with every section n there is, and with none.
Add(S, n) == {[m \in DOMAIN s \cup {n} |-> IF m = n THEN b ELSE s[m]] : s \in S, b \in Bodies[n]}
With(S, n) == S \cup Add(S, n)

NoSeeds == {<<>>}
FewSeeds == With(With(With(With(With(NoSeeds, "applications"), "install"), "update"),
                      "security"), "incus")

Images ==
    [version : {0, 1, 2}, type : {"iso"}, arch : {"x86_64"}, channel : {""},
     offline : {FALSE}, seeds : Add(NoSeeds, "install")]
    \cup [version : {1}, type : {"iso", "raw", "qcow2"}, arch : {"x86_64", "aarch64", "riscv64"},
          channel : {"", "testing"}, offline : BOOLEAN,
          seeds : With(NoSeeds, "applications")]

SomeSections ==
    [version : {1}, type : {"raw"}, arch : {"x86_64"}, channel : {"testing"},
     offline : BOOLEAN, seeds : FewSeeds]

\* All eleven sections, with nothing wrong in them.
Right ==
    [n \in SectionNames |->
        CASE n = "applications" -> "applications" [] n = "install" -> "Largest"
          [] n = "security" -> "certificates" [] n = "update" -> "6h" [] OTHER -> "any"]

AllSections ==
    [version : {1}, type : {"iso"}, arch : {"aarch64"}, channel : {""}, offline : BOOLEAN,
     seeds : {[n \in SectionNames |-> [version |-> v, body |-> Right[n]]] : v \in {"", "2"}}]

Texts == {"2", "y", "wild"}

InitDocuments ==
    {P!renderInitConfig(a) :
        a \in [type : {"1", "2"}, arch : {"1", "2"}, channel : Texts \cup {"stable"},
               offline : {"y", "n"}, application : Texts \cup {"incus"}]}

AllDocuments == Images \cup SomeSections \cup AllSections \cup InitDocuments

\* Quoted literals that hold the other marks, one after the other, and none.
Quoted ==
    {<<"text">>,
     <<"text", "bq", "value", "dq", "value", "bq", "text">>,
     <<"dq", "value", "sq", "bq", "value", "dq", "bq", "value", "bq">>,
     <<"sq", "text", "sq", "dq", "dq">>}

\* What SOPS prints without marks, and what YAML prints between backticks although the
\* value holds one.
Unquoted ==
    {<<"text", "value">>,
     <<"text", "bq", "value", "bq", "value", "bq", "text">>}

AllMessages == Quoted \cup Unquoted

Unknown(t) == [unknown |-> TRUE, type |-> t, field |-> "mystery", message |-> <<>>]
Other(m) == [unknown |-> FALSE, type |-> "", field |-> "", message |-> m]

Complaints ==
    {<<Unknown(t)>> : t \in {"document", "image", "Install", "InstallTarget", "Network"}}
    \cup {<<Other(m)>> : m \in AllMessages}
    \cup {<<Other(m), Unknown("Kernel")>> : m \in AllMessages}
    \cup {<<Other(m), Other(n)>> : m \in Unquoted, n \in Quoted}
=============================================================================
