------------------------ MODULE OfflineMediaProofs ------------------------
(***************************************************************************)
(* Proofs about OfflineMedia: for every index, spec and tree, what an       *)
(* offline build selects, checks and writes onto its rescue media.          *)
(***************************************************************************)
EXTENDS OfflineMedia, LoopProofs, FiniteSetTheorems

-----------------------------------------------------------------------------
(* What Resolve makes of an index.                                          *)

\* The elements of match are those of fs with an architecture and a type.
Matches(match, fs, arch, type) ==
    /\ match \in Seq(AssetFile)
    /\ \A m \in 1..Len(match) : \E k \in 1..Len(fs) :
          match[m] = fs[k] /\ fs[k].arch = arch /\ fs[k].type = type
    /\ \A k \in 1..Len(fs) : fs[k].arch = arch /\ fs[k].type = type =>
          \E m \in 1..Len(match) : match[m] = fs[k]

(* The files that match are those of the index with the architecture and type. *)
LEMMA MatchingFiles ==
    ASSUME NEW fs \in Seq(AssetFile), NEW arch, NEW type
    PROVE  Matches(matchingFiles(fs, arch, type), fs, arch, type)
<1> DEFINE keep == {k \in DOMAIN fs : fs[k].arch = arch /\ fs[k].type = type}
<1>1. matchingFiles(fs, arch, type) = Kept(fs, keep)
    BY DEF matchingFiles
<1>2. \A k \in 1..Len(fs) : k \in keep <=> fs[k].arch = arch /\ fs[k].type = type
    BY LenProperties
<1> HIDE DEF keep
<1>3. Keeps(matchingFiles(fs, arch, type), fs, keep, AssetFile)
    BY <1>1, KeptElements
<1>4. QED BY <1>2, <1>3 DEF Matches, Keeps

Best == [idx : Nat, version : Nat, pinned : BOOLEAN]

\* One turn of the loop of selectUpdate.
ScanTurn(us, channel, pin, b, n) ==
    IF b.pinned \/ ~InChannel(us, n, channel) THEN b
    ELSE IF pin # 0 /\ us[n].version = pin THEN [idx |-> n, version |-> b.version, pinned |-> TRUE]
    ELSE IF us[n].version > b.version
    THEN [idx |-> n, version |-> us[n].version, pinned |-> FALSE]
    ELSE b

(* The loop of selectUpdate runs over the whole index. *)
LEMMA ScanRuns ==
    ASSUME NEW us \in Seq(Update), NEW channel, NEW pin \in Nat
    PROVE  \E best :
              /\ best[0] = [idx |-> 0, version |-> 0, pinned |-> FALSE]
              /\ \A n \in 1..Len(us) :
                    best[n] = ScanTurn(us, channel, pin, best[n - 1], n)
              /\ scan(us, channel, pin) = best[Len(us)].idx
<1>1. PICK N : N = Len(us) /\ N \in Nat /\ \A n \in 1..N : us[n] \in Update
    BY LenProperties
<1> DEFINE none == [idx |-> 0, version |-> 0, pinned |-> FALSE]
           H == [p \in (1..N) \X Best |-> ScanTurn(us, channel, pin, p[2], p[1])]
           Turn(f) == [n \in 0..N |-> IF n = 0 THEN none
                                      ELSE ScanTurn(us, channel, pin, f[n - 1], n)]
           best == CHOOSE f : f = Turn(f)
<1>2. none \in Best
    BY DEF Best
<1>3. ASSUME NEW n \in 1..N, NEW b \in Best
      PROVE  H[<<n, b>>] = ScanTurn(us, channel, pin, b, n) /\ H[<<n, b>>] \in Best
  <2>1. us[n].version \in Nat
      BY <1>1 DEF Update
  <2>2. [idx |-> n, version |-> b.version, pinned |-> TRUE] \in Best
      BY <1>1 DEF Best
  <2>3. [idx |-> n, version |-> us[n].version, pinned |-> FALSE] \in Best
      BY <1>1, <2>1 DEF Best
  <2>4. ScanTurn(us, channel, pin, b, n) \in Best
      BY <2>2, <2>3 DEF ScanTurn
  <2>5. QED BY <2>4
<1> HIDE DEF H, none
<1>4. \E f : f = Turn(f)
  <2>1. IsTurn(H, N, Best)
      BY <1>3 DEF IsTurn
  <2>2. \E f : Computes(f, H, N, Best, none)
      BY <1>1, <1>2, <2>1, LoopIsDefined
  <2>3. PICK f \in [0..N -> Best] :
           f[0] = none /\ \A n \in 1..N : f[n] = H[<<n, f[n - 1]>>]
      BY <2>2 DEF Computes
  <2>4. ASSUME NEW n \in 1..N
        PROVE  f[n] = ScanTurn(us, channel, pin, f[n - 1], n)
    <3>1. n - 1 \in 0..N
        BY <1>1
    <3>2. QED BY <1>3, <2>3, <3>1
  <2>5. \A n \in 0..N : n # 0 => n \in 1..N
      BY <1>1
  <2>6. f = Turn(f)
      BY <2>3, <2>4, <2>5
  <2>7. QED BY <2>6
<1>5. best = Turn(best)
    BY <1>4
<1>6. scan(us, channel, pin) = best[N].idx
    BY <1>1 DEF scan, ScanTurn, none
<1> HIDE DEF best
<1>7. best[0] = none /\ \A n \in 1..N : best[n] = ScanTurn(us, channel, pin, best[n - 1], n)
  <2>1. 0 \in 0..N /\ \A n \in 1..N : n \in 0..N /\ n # 0
      BY <1>1
  <2>2. QED BY <1>5, <2>1
<1>8. QED BY <1>1, <1>6, <1>7 DEF none

\* The updates of a channel that selectUpdate may choose from.
Named(us, channel, pin) ==
    {j \in 1..Len(us) : /\ InChannel(us, j, channel) /\ us[j].version > 0
                        /\ pin # 0 => us[j].version = pin}

(* selectUpdate finds the first of the highest versions of the channel, or of the
   updates with the pinned one. *)
LEMMA SelectIs ==
    ASSUME NEW us \in Seq(Update), NEW channel, NEW pin \in Nat
    PROVE  LET i == selectUpdate(us, channel, pin) IN
           /\ i \in 0..Len(us)
           /\ i = 0 <=> Named(us, channel, pin) = {}
           /\ i # 0 => /\ i \in Named(us, channel, pin)
                       /\ \A j \in Named(us, channel, pin) :
                             \/ us[j].version < us[i].version
                             \/ us[j].version = us[i].version /\ i <= j
<1>1. PICK N : N = Len(us) /\ N \in Nat /\ \A n \in 1..N : us[n] \in Update
    BY LenProperties
<1>2. \A n \in 1..N : us[n].version \in Nat
    BY <1>1 DEF Update
<1>3. PICK best :
         /\ best[0] = [idx |-> 0, version |-> 0, pinned |-> FALSE]
         /\ \A n \in 1..N : best[n] = ScanTurn(us, channel, pin, best[n - 1], n)
         /\ scan(us, channel, pin) = best[N].idx
    BY <1>1, ScanRuns
<1> DEFINE In(j) == InChannel(us, j, channel)
           Pinned(n) ==
              /\ pin # 0 /\ best[n].idx \in 1..n
              /\ In(best[n].idx) /\ us[best[n].idx].version = pin
              /\ \A j \in 1..n : In(j) /\ us[j].version = pin => best[n].idx <= j
           Highest(n) ==
              /\ best[n].version \in Nat
              /\ pin # 0 => \A j \in 1..n : In(j) => us[j].version # pin
              /\ best[n].idx = 0 => best[n].version = 0
              /\ best[n].idx # 0 =>
                    /\ best[n].idx \in 1..n /\ In(best[n].idx)
                    /\ us[best[n].idx].version = best[n].version /\ best[n].version > 0
              /\ \A j \in 1..n : In(j) =>
                    /\ us[j].version <= best[n].version
                    /\ us[j].version = best[n].version => best[n].idx <= j
           Right(n) == IF best[n].pinned THEN Pinned(n) ELSE Highest(n)
           T == {n \in 0..N : Right(n)}
<1>4. 0 \in T
  <2>1. best[0].idx = 0 /\ best[0].version = 0 /\ ~best[0].pinned
      BY <1>3
  <2>2. Highest(0)
      BY <2>1
  <2>3. QED BY <1>1, <2>1, <2>2
<1>5. ASSUME NEW n \in 1..N, n - 1 \in T PROVE n \in T
  <2>1. Right(n - 1) /\ n \in 0..N /\ us[n].version \in Nat
      BY <1>1, <1>2, <1>5
  <2>2. best[n] = ScanTurn(us, channel, pin, best[n - 1], n)
      BY <1>3
  <2>3. \A j \in 1..n : j \in 1..n - 1 \/ j = n
      OBVIOUS
  <2>4. \A j \in 1..n - 1 : j \in 1..n /\ j < n
      OBVIOUS
  <2>5. CASE best[n - 1].pinned
    <3>1. best[n] = best[n - 1]
        BY <2>2, <2>5 DEF ScanTurn
    <3>2. Pinned(n - 1)
        BY <2>1, <2>5
    <3>3. Pinned(n)
        BY <2>3, <2>4, <3>1, <3>2
    <3>4. QED BY <2>1, <2>5, <3>1, <3>3
  <2>6. CASE ~best[n - 1].pinned
    <3>1. Highest(n - 1)
        BY <2>1, <2>6
    <3>2. CASE ~In(n)
      <4>1. best[n] = best[n - 1]
          BY <2>2, <3>2 DEF ScanTurn
      <4>2. Highest(n)
          BY <2>3, <2>4, <3>1, <3>2, <4>1
      <4>3. QED BY <2>1, <2>6, <4>1, <4>2
    <3>3. CASE In(n) /\ pin # 0 /\ us[n].version = pin
      <4>1. best[n].idx = n /\ best[n].pinned
          BY <2>2, <2>6, <3>3 DEF ScanTurn
      <4>2. \A j \in 1..n - 1 : In(j) => us[j].version # pin
          BY <3>1, <3>3
      <4>3. Pinned(n)
          BY <2>3, <3>3, <4>1, <4>2
      <4>4. QED BY <2>1, <4>1, <4>3
    <3>4. CASE In(n) /\ ~(pin # 0 /\ us[n].version = pin) /\ us[n].version > best[n - 1].version
      <4>1. best[n].idx = n /\ best[n].version = us[n].version /\ ~best[n].pinned
          BY <2>2, <2>6, <3>4 DEF ScanTurn
      <4>2. \A j \in 1..n - 1 : In(j) => us[j].version < us[n].version
        <5>1. ASSUME NEW j \in 1..n - 1, In(j) PROVE us[j].version < us[n].version
          <6>1. us[j].version \in Nat /\ best[n - 1].version \in Nat
              BY <1>1, <1>2, <3>1
          <6>2. us[j].version <= best[n - 1].version
              BY <3>1, <5>1
          <6>3. QED BY <2>1, <3>4, <6>1, <6>2
        <5>2. QED BY <5>1
      <4>3. us[n].version > 0
          BY <2>1, <3>1, <3>4
      <4>4. pin # 0 => \A j \in 1..n : In(j) => us[j].version # pin
          BY <2>3, <3>1, <3>4
      <4>5. \A j \in 1..n : In(j) =>
                    /\ us[j].version <= us[n].version
                    /\ us[j].version = us[n].version => n <= j
        <5>1. ASSUME NEW j \in 1..n, In(j), j # n
              PROVE  us[j].version <= us[n].version /\ us[j].version # us[n].version
          <6>1. j \in 1..n - 1 /\ us[j].version \in Nat
              BY <1>1, <1>2, <5>1
          <6>2. us[j].version < us[n].version
              BY <4>2, <5>1, <6>1
          <6>3. QED BY <2>1, <6>1, <6>2
        <5>2. QED BY <2>1, <5>1
      <4>6. Highest(n)
          BY <2>1, <3>4, <4>1, <4>3, <4>4, <4>5
      <4>7. QED BY <2>1, <4>1, <4>6
    <3>5. CASE In(n) /\ ~(pin # 0 /\ us[n].version = pin) /\ ~(us[n].version > best[n - 1].version)
      <4>1. best[n] = best[n - 1]
          BY <2>2, <2>6, <3>5 DEF ScanTurn
      <4>2. us[n].version <= best[n].version
          BY <2>1, <3>1, <3>5, <4>1
      <4>3. best[n].idx <= n
          BY <3>1, <4>1
      <4>4. Highest(n)
          BY <2>3, <2>4, <3>1, <3>5, <4>1, <4>2, <4>3
      <4>5. QED BY <2>1, <2>6, <4>1, <4>4
    <3>6. QED BY <3>2, <3>3, <3>4, <3>5
  <2>7. QED BY <2>5, <2>6
<1> HIDE DEF T
<1>6. N \in T
  <2>1. \A n \in 1..N : n - 1 \in T => n \in T
      BY <1>5
  <2>2. \A n \in 0..N : n \in T
      BY <1>1, <1>4, <2>1, LoopInduction
  <2>3. QED BY <1>1, <2>2
<1> DEFINE s == best[N].idx
           i == selectUpdate(us, channel, pin)
           named == Named(us, channel, pin)
<1>7. s = scan(us, channel, pin) /\ i = IF s # 0 /\ pin # 0 /\ us[s].version # pin THEN 0 ELSE s
    BY <1>3 DEF selectUpdate
<1>8. \A j : j \in named <=> /\ j \in 1..N /\ In(j) /\ us[j].version > 0
                             /\ pin # 0 => us[j].version = pin
    BY <1>1 DEF Named
<1> HIDE DEF i, named
<1>9. CASE best[N].pinned
  <2>1. Pinned(N)
      BY <1>6, <1>9 DEF T
  <2>2. i = s /\ s \in 1..N /\ us[s].version = pin /\ pin # 0
      BY <1>1, <1>7, <2>1
  <2>3. s \in named
      BY <1>8, <2>1, <2>2
  <2>4. \A j \in named : us[j].version = pin /\ s <= j
      BY <1>8, <2>1, <2>2
  <2>5. i \in 0..Len(us) /\ i # 0
      BY <1>1, <2>2
  <2>6. QED BY <2>2, <2>3, <2>4, <2>5 DEF i, named
<1>10. CASE ~best[N].pinned
  <2>1. Highest(N)
      BY <1>6, <1>10 DEF T
  <2>2. CASE pin # 0
    <3>1. i = 0
        BY <1>7, <2>1, <2>2
    <3>2. named = {}
        BY <1>8, <2>1, <2>2
    <3>3. QED BY <1>1, <3>1, <3>2 DEF i, named
  <2>3. CASE pin = 0 /\ s = 0
    <3>1. i = 0
        BY <1>7, <2>3
    <3>2. named = {}
      <4>1. ASSUME NEW j \in named PROVE FALSE
        <5>1. j \in 1..N /\ In(j) /\ us[j].version > 0
            BY <1>8
        <5>2. us[j].version <= 0
            BY <2>1, <2>3, <5>1
        <5>3. QED BY <1>2, <5>1, <5>2
      <4>2. QED BY <4>1
    <3>3. QED BY <1>1, <3>1, <3>2 DEF i, named
  <2>4. CASE pin = 0 /\ s # 0
    <3>1. i = s /\ s \in 1..N /\ In(s) /\ us[s].version = best[N].version /\ us[s].version > 0
        BY <1>7, <2>1, <2>4
    <3>2. i \in named
        BY <1>8, <2>4, <3>1
    <3>3. ASSUME NEW j \in named
          PROVE  us[j].version < us[i].version \/ (us[j].version = us[i].version /\ i <= j)
      <4>1. j \in 1..N /\ In(j)
          BY <1>8
      <4>2. us[j].version <= us[i].version /\ (us[j].version = us[i].version => i <= j)
          BY <2>1, <3>1, <4>1
      <4>3. us[j].version \in Nat /\ us[i].version \in Nat
          BY <1>2, <3>1, <4>1
      <4>4. QED BY <4>2, <4>3
    <3>4. i \in 0..Len(us) /\ i # 0
        BY <1>1, <3>1
    <3>5. QED BY <3>2, <3>3, <3>4 DEF i, named
  <2>5. QED BY <2>2, <2>3, <2>4
<1>11. QED BY <1>9, <1>10

\* p is a plan of a release in us for spec.
PlanIs(p, spec, us) ==
    /\ p.idx \in 1..Len(us)
    /\ p.idx = selectUpdate(us, ChannelOf(spec.channel), spec.release)
    /\ p.image \in Seq(AssetFile) /\ Len(p.image) = 1
    /\ \E k \in 1..Len(us[p.idx].files) :
          /\ us[p.idx].files[k].arch = spec.arch
          /\ us[p.idx].files[k].type = TypeOf[spec.type]
    /\ p.apps \in Seq(AssetFile)
    /\ Len(p.apps) = IF spec.offline THEN Len(spec.apps) ELSE 0
    /\ \A k \in 1..Len(p.apps) :
          /\ p.apps[k].base = spec.apps[k]
          /\ p.apps[k].arch = spec.arch /\ p.apps[k].type = "application"
          /\ \E n \in 1..Len(us[p.idx].files) : us[p.idx].files[n] = p.apps[k]

(* A plan is one of the release that was selected: its one image, and for an
   offline build an application for each name. *)
LEMMA ResolveIs ==
    ASSUME NEW spec \in BuildSpec, NEW us \in Seq(Update), NEW p,
           p = Resolve(spec, us), p # NoPlan
    PROVE  PlanIs(p, spec, us)
<1> DEFINE i == selectUpdate(us, ChannelOf(spec.channel), spec.release)
           fs == us[i].files
           images == matchingFiles(fs, spec.arch, TypeOf[spec.type])
           apps == matchingFiles(fs, spec.arch, "application")
<1>1. i # 0 /\ i \in 1..Len(us)
  <2>1. i # 0
      BY DEF Resolve
  <2>2. spec.release \in Nat
      BY DEF BuildSpec
  <2>3. i \in 0..Len(us)
      BY <2>2, SelectIs
  <2>4. QED BY <2>1, <2>3
<1>2. fs \in Seq(AssetFile)
  <2>1. us[i] \in Update
      BY <1>1, ElementOfSeq
  <2>2. QED BY <2>1 DEF Update
<1>3. /\ p.idx = i /\ p.image = images /\ Unique(images)
      /\ p.apps = IF spec.offline THEN matchApplications(spec, fs) ELSE <<>>
      /\ spec.offline => AllCarried(spec, fs)
    BY <1>1 DEF Resolve
<1>4. images \in Seq(AssetFile) /\ Len(images) = 1
  <2>1. Matches(images, fs, spec.arch, TypeOf[spec.type])
      BY <1>2, MatchingFiles
  <2>2. QED BY <1>3, <2>1 DEF Unique, Matches
<1>5. \E k \in 1..Len(fs) : fs[k].arch = spec.arch /\ fs[k].type = TypeOf[spec.type]
  <2>1. 1 \in 1..Len(images)
      BY <1>4
  <2>2. Matches(images, fs, spec.arch, TypeOf[spec.type])
      BY <1>2, MatchingFiles
  <2>3. QED BY <2>1, <2>2 DEF Matches
<1>6. CASE ~spec.offline
  <2>1. us[p.idx].files = fs /\ p.idx = i /\ p.image = images /\ p.apps = <<>>
      BY <1>3, <1>6
  <2>2. p.apps \in Seq(AssetFile) /\ Len(p.apps) = 0
      BY <2>1
  <2> HIDE DEF fs, i, images
  <2>3. QED BY <1>1, <1>4, <1>5, <1>6, <2>1, <2>2 DEF PlanIs, i
<1>7. CASE spec.offline
  <2>1. spec.apps \in Seq(STRING)
      BY DEF BuildSpec
  <2>apps. Matches(apps, fs, spec.arch, "application")
      BY <1>2, MatchingFiles
  <2>2. apps \in Seq(AssetFile)
      BY <2>apps DEF Matches
  <2>3. ASSUME NEW k \in 1..Len(spec.apps)
        PROVE  \E m \in 1..Len(apps) :
                  findAppFile(apps, spec.apps[k]) = apps[m] /\ apps[m].base = spec.apps[k]
    <3> DEFINE carriers == Carriers(apps, spec.apps[k])
    <3>1. carriers # {}
        BY <1>3, <1>7, <2>1, LenProperties DEF AllCarried
    <3>2. carriers \subseteq 1..Len(apps)
        BY <2>2, LenProperties DEF Carriers
    <3>3. carriers \subseteq Nat
        BY <3>2
    <3>4. Least(carriers) \in carriers
        BY <3>1, <3>3, LeastIsLeast
    <3>5. QED BY <3>2, <3>4 DEF findAppFile, Carriers
  <2>4. p.apps = [k \in 1..Len(spec.apps) |-> findAppFile(apps, spec.apps[k])]
      BY <1>3, <1>7, <2>1, LenProperties DEF matchApplications
  <2>5. \A k \in 1..Len(spec.apps) : findAppFile(apps, spec.apps[k]) \in AssetFile
      BY <2>2, <2>3, ElementOfSeq
  <2>6. p.apps \in Seq(AssetFile) /\ Len(p.apps) = Len(spec.apps)
    <3>1. Len(spec.apps) \in Nat
        BY <2>1
    <3>2. QED BY <2>4, <2>5, <3>1
  <2>7. ASSUME NEW k \in 1..Len(spec.apps)
        PROVE  /\ p.apps[k].base = spec.apps[k]
               /\ p.apps[k].arch = spec.arch /\ p.apps[k].type = "application"
               /\ \E n \in 1..Len(fs) : fs[n] = p.apps[k]
    <3>1. PICK m \in 1..Len(apps) : p.apps[k] = apps[m] /\ apps[m].base = spec.apps[k]
        BY <2>3, <2>4
    <3>2. \A j \in 1..Len(apps) : \E n \in 1..Len(fs) :
             apps[j] = fs[n] /\ fs[n].arch = spec.arch /\ fs[n].type = "application"
        BY <2>apps DEF Matches
    <3>3. PICK n \in 1..Len(fs) :
             apps[m] = fs[n] /\ fs[n].arch = spec.arch /\ fs[n].type = "application"
        BY <3>1, <3>2
    <3>4. QED BY <3>1, <3>3
  <2>8. us[p.idx].files = fs /\ p.idx = i /\ p.image = images
      BY <1>3
  <2>9. Len(p.apps) = IF spec.offline THEN Len(spec.apps) ELSE 0
      BY <1>7, <2>6
  <2> HIDE DEF fs, i, images
  <2>10. QED BY <1>1, <1>4, <1>5, <2>6, <2>7, <2>8, <2>9 DEF PlanIs, i
<1>8. QED BY <1>6, <1>7

\* A row for an image of an update in the channel.
IsRow(row, us, channel, arch) ==
    \E i \in 1..Len(us) : \E p \in matchingImages(us[i].files, arch) :
        InChannel(us, i, channel) /\ row = <<us[i].version, p[1], p[2]>>

(* Versions lists an update of the channel with each of its images. *)
LEMMA RowsAre ==
    ASSUME NEW us \in Seq(Update), NEW channel, NEW arch, NEW row
    PROVE  row \in tableRows(filterVersions(us, channel, arch)) <=> IsRow(row, us, channel, arch)
<1>1. PICK N : N = Len(us) /\ N \in Nat /\ DOMAIN us = 1..N
    BY LenProperties
<1> DEFINE places == [i \in 1..N |-> i]
           keep == {i \in 1..N : Listed(us, i, channel, arch)}
           listed == Kept(places, keep)
           Images(n) == matchingImages(us[listed[n]].files, arch)
           entries == filterVersions(us, channel, arch)
<1>2. places \in Seq(1..N) /\ Len(places) = N
    BY <1>1
<1>3. /\ listed \in Seq(1..N)
      /\ \A m \in 1..Len(listed) : listed[m] \in 1..N /\ Listed(us, listed[m], channel, arch)
      /\ \A i \in 1..N : Listed(us, i, channel, arch) => \E m \in 1..Len(listed) : listed[m] = i
  <2>1. \A k \in 1..N : places[k] = k
      OBVIOUS
  <2>keep. \A k \in 1..N : k \in keep <=> Listed(us, k, channel, arch)
      OBVIOUS
  <2> HIDE DEF places, keep
  <2>2. Keeps(listed, places, keep, 1..N)
      BY <1>2, KeptElements
  <2>3. /\ listed \in Seq(1..N)
        /\ \A m \in 1..Len(listed) : \E k \in 1..N : k \in keep /\ listed[m] = k
        /\ \A k \in 1..N : k \in keep => \E m \in 1..Len(listed) : listed[m] = k
      BY <1>2, <2>1, <2>2 DEF Keeps
  <2>4. QED BY <2>3, <2>keep
<1>4. entries = [n \in 1..Len(listed) |->
                   [idx |-> listed[n], version |-> us[listed[n]].version,
                    images |-> Images(n), archs |-> uniqueArchitectures(Images(n))]]
  <2>1. DOMAIN listed = 1..Len(listed)
      BY <1>3, LenProperties
  <2>2. QED BY <1>1, <2>1 DEF filterVersions
<1> HIDE DEF listed, entries
<1>5. /\ DOMAIN entries = 1..Len(listed)
      /\ \A n \in 1..Len(listed) : /\ entries[n].version = us[listed[n]].version
                                   /\ entries[n].images = Images(n)
    BY <1>4
<1>6. row \in tableRows(entries) <=>
        \E n \in 1..Len(listed) : \E p \in Images(n) :
           row = <<us[listed[n]].version, p[1], p[2]>>
  <2>1. row \in tableRows(entries) <=>
          \E n \in DOMAIN entries : \E p \in entries[n].images :
             row = <<entries[n].version, p[1], p[2]>>
      BY DEF tableRows
  <2>2. QED BY <1>5, <2>1
<1>7. ASSUME NEW n \in 1..Len(listed), NEW p \in Images(n),
             row = <<us[listed[n]].version, p[1], p[2]>>
      PROVE  \E i \in 1..N : \E q \in matchingImages(us[i].files, arch) :
                InChannel(us, i, channel) /\ row = <<us[i].version, q[1], q[2]>>
  <2>1. listed[n] \in 1..N /\ InChannel(us, listed[n], channel)
      BY <1>3 DEF Listed
  <2>2. QED BY <1>7, <2>1
<1>8. ASSUME NEW i \in 1..N, NEW p \in matchingImages(us[i].files, arch),
             InChannel(us, i, channel), row = <<us[i].version, p[1], p[2]>>
      PROVE  \E n \in 1..Len(listed) : \E q \in Images(n) :
                row = <<us[listed[n]].version, q[1], q[2]>>
  <2>1. Listed(us, i, channel, arch)
      BY <1>8 DEF Listed
  <2>2. PICK n \in 1..Len(listed) : listed[n] = i
      BY <1>3, <2>1
  <2>3. QED BY <1>8, <2>2
<1>9. QED BY <1>1, <1>6, <1>7, <1>8 DEF entries, IsRow

(* An image is listed under its architecture and its type. *)
LEMMA ImageIsListed ==
    ASSUME NEW fs \in Seq(AssetFile), NEW want, NEW pair,
           pair = <<pair[1], pair[2]>>, pair[2] \in Types
    PROVE  pair \in matchingImages(fs, want) <=>
              /\ want = "" \/ pair[1] = want
              /\ \E k \in 1..Len(fs) : fs[k].arch = pair[1] /\ fs[k].type = TypeOf[pair[2]]
<1> DEFINE all == {<<fs[k].arch, t>> : k \in DOMAIN fs, t \in Types}
<1>1. DOMAIN fs = 1..Len(fs)
    BY LenProperties
<1>2. pair \in all <=> \E k \in 1..Len(fs) : fs[k].arch = pair[1]
    BY <1>1
<1> HIDE DEF all
<1>3. matchingImages(fs, want) =
        {p \in all : /\ want = "" \/ p[1] = want
                     /\ \E k \in 1..Len(fs) : fs[k].arch = p[1] /\ fs[k].type = TypeOf[p[2]]}
    BY <1>1 DEF matchingImages, all
<1>4. QED BY <1>2, <1>3

(* What is listed is a pair of an architecture and a type, of a file. *)
LEMMA ImagesArePairs ==
    ASSUME NEW fs \in Seq(AssetFile), NEW want
    PROVE  \A pair \in matchingImages(fs, want) :
              /\ pair[2] \in Types /\ pair = <<pair[1], pair[2]>>
              /\ \E k \in 1..Len(fs) : fs[k].arch = pair[1] /\ fs[k].type = TypeOf[pair[2]]
<1> DEFINE all == {<<fs[k].arch, t>> : k \in DOMAIN fs, t \in Types}
<1>1. DOMAIN fs = 1..Len(fs)
    BY LenProperties
<1> HIDE DEF all
<1>2. matchingImages(fs, want) =
        {p \in all : /\ want = "" \/ p[1] = want
                     /\ \E k \in 1..Len(fs) : fs[k].arch = p[1] /\ fs[k].type = TypeOf[p[2]]}
    BY <1>1 DEF matchingImages, all
<1> TAKE pair \in matchingImages(fs, want)
<1>3. /\ pair \in all
      /\ \E k \in 1..Len(fs) : fs[k].arch = pair[1] /\ fs[k].type = TypeOf[pair[2]]
    BY <1>2
<1>4. pair \in {<<fs[k].arch, t>> : k \in DOMAIN fs, t \in Types}
    BY <1>3 DEF all
<1>5. PICK k \in DOMAIN fs, t \in Types : pair = <<fs[k].arch, t>>
    BY <1>4
<1>6. pair[2] \in Types /\ pair = <<pair[1], pair[2]>>
    BY <1>5
<1>7. QED BY <1>3, <1>6

-----------------------------------------------------------------------------
(* What the commands promise about an index.                                *)

(* A case is a spec and an index. *)
LEMMA CaseIsCase ==
    ASSUME case \in Cases
    PROVE  Spec0 \in BuildSpec /\ Updates \in Seq(Update)
BY ReleaseAssumption DEF Spec0, Updates

LEMMA SelectsHighestHolds ==
    ASSUME case \in Cases
    PROVE  SelectsHighest
<1> DEFINE channel == ChannelOf(Spec0.channel)
           i == selectUpdate(Updates, channel, Spec0.release)
           named == {j \in Candidates : Updates[j].version > 0}
<1>1. Updates \in Seq(Update) /\ Spec0.release \in Nat
    BY CaseIsCase DEF BuildSpec
<1>2. DOMAIN Updates = 1..Len(Updates)
    BY <1>1, LenProperties
<1>3. \A j : j \in named <=> j \in Named(Updates, channel, Spec0.release)
    BY <1>2 DEF Named, Candidates, InChannel
<1>4. named = Named(Updates, channel, Spec0.release)
    BY <1>3
<1> HIDE DEF i, named, channel
<1>5. /\ i = 0 <=> named = {}
      /\ i # 0 => /\ i \in named
                  /\ \A j \in named : \/ Updates[j].version < Updates[i].version
                                      \/ Updates[j].version = Updates[i].version /\ i <= j
    BY <1>1, <1>4, SelectIs DEF i
<1>6. QED BY <1>5 DEF SelectsHighest, i, named, channel

LEMMA SelectedIsListedHolds ==
    ASSUME case \in Cases, plan = NoPlan \/ plan = Resolve(Spec0, Updates)
    PROVE  SelectedIsListed
<1>1. SUFFICES ASSUME plan.idx # 0
               PROVE  <<Version, Spec0.arch, Spec0.type>>
                         \in tableRows(filterVersions(Updates, ChannelOf(Spec0.channel), Spec0.arch))
    BY DEF SelectedIsListed
<1>2. plan # NoPlan /\ plan = Resolve(Spec0, Updates)
    BY <1>1 DEF NoPlan
<1>3. Spec0 \in BuildSpec /\ Updates \in Seq(Update)
    BY CaseIsCase
<1>4. PICK channel : channel = ChannelOf(Spec0.channel)
    OBVIOUS
<1>5. PlanIs(plan, Spec0, Updates)
    BY <1>2, <1>3, ResolveIs
<1>6. PICK i : i = plan.idx /\ i \in 1..Len(Updates)
    BY <1>5 DEF PlanIs
<1>7. PICK fs : fs = Updates[i].files
    OBVIOUS
<1>8. /\ i = selectUpdate(Updates, channel, Spec0.release)
      /\ \E k \in 1..Len(fs) : fs[k].arch = Spec0.arch /\ fs[k].type = TypeOf[Spec0.type]
    BY <1>4, <1>5, <1>6, <1>7 DEF PlanIs
<1>9. InChannel(Updates, i, channel)
  <2>1. Spec0.release \in Nat /\ i # 0
      BY <1>1, <1>3, <1>6 DEF BuildSpec
  <2>2. i \in Named(Updates, channel, Spec0.release)
      BY <1>3, <1>8, <2>1, SelectIs
  <2>3. QED BY <2>2 DEF Named
<1>10. fs \in Seq(AssetFile) /\ Spec0.type \in Types
  <2>1. Updates[i] \in Update
      BY <1>3, <1>6, ElementOfSeq
  <2>2. QED BY <1>3, <1>7, <2>1 DEF Update, BuildSpec
<1>11. PICK p : p = <<Spec0.arch, Spec0.type>>
    OBVIOUS
<1>12. Version = Updates[i].version
    BY <1>6 DEF Version
<1>13. p \in matchingImages(Updates[i].files, Spec0.arch)
  <2>1. p[1] = Spec0.arch /\ p[2] = Spec0.type /\ p = <<p[1], p[2]>>
      BY <1>11
  <2>2. p[2] \in Types /\ \E k \in 1..Len(fs) : fs[k].arch = p[1] /\ fs[k].type = TypeOf[p[2]]
      BY <1>8, <1>10, <2>1
  <2>3. p \in matchingImages(fs, Spec0.arch)
      BY <1>10, <2>1, <2>2, ImageIsListed
  <2>4. QED BY <1>7, <2>3
<1>14. PICK row : row = <<Updates[i].version, p[1], p[2]>>
    OBVIOUS
<1>15. row \in tableRows(filterVersions(Updates, channel, Spec0.arch))
    BY <1>3, <1>6, <1>9, <1>13, <1>14, RowsAre DEF IsRow
<1>16. row = <<Version, Spec0.arch, Spec0.type>>
    BY <1>11, <1>12, <1>14
<1>17. QED BY <1>4, <1>15, <1>16

(* So many numbers are finitely many. *)
LEMMA PlacesAreFinite ==
    ASSUME NEW n \in Nat
    PROVE  IsFiniteSet(1..n) /\ Cardinality(1..n) = n
<1>1. 1 \in Int /\ n \in Int
    OBVIOUS
<1>2. IsFiniteSet(1..n) /\ Cardinality(1..n) = IF 1 > n THEN 0 ELSE n - 1 + 1
    BY <1>1, FS_Interval
<1>3. QED BY <1>2

(* The one place of a sequence that has a place and not two. *)
LEMMA OnePlace ==
    ASSUME NEW n \in Nat, 1..n # {}, ~ (n > 1)
    PROVE  n = 1
OBVIOUS

(* A set with two elements has more than one. *)
LEMMA TwoElements ==
    ASSUME NEW T, IsFiniteSet(T), NEW a \in T, NEW b \in T, a # b
    PROVE  Cardinality(T) > 1
<1>1. IsFiniteSet({a}) /\ Cardinality({a}) = 1
    BY FS_Singleton
<1>2. Cardinality({a} \cup {b}) = 2
  <2>1. Cardinality({a} \cup {b}) = IF b \in {a} THEN Cardinality({a}) ELSE Cardinality({a}) + 1
      BY <1>1, FS_AddElement
  <2>2. QED BY <1>1, <2>1
<1>3. {a} \cup {b} \in SUBSET T
    OBVIOUS
<1>4. Cardinality({a} \cup {b}) <= Cardinality(T) /\ Cardinality(T) \in Nat
    BY <1>3, FS_Subset, FS_CardinalityType
<1>5. QED BY <1>2, <1>4

(* A release is built when its version is pinned, its version is there once in the
   channel and it has one image of the architecture and type. *)
LEMMA PinnedIsBuilt ==
    ASSUME NEW us \in Seq(Update), NEW i \in 1..Len(us), NEW pin, ~ pin.offline,
           InChannel(us, i, ChannelOf(pin.channel)), us[i].version = pin.release, pin.release # 0,
           \A j \in 1..Len(us) :
              InChannel(us, j, ChannelOf(pin.channel)) /\ us[j].version = pin.release => j = i,
           Len(matchingFiles(us[i].files, pin.arch, TypeOf[pin.type])) = 1
    PROVE  Resolve(pin, us).idx = i
<1>0. PICK channel, v : channel = ChannelOf(pin.channel) /\ v = pin.release
    OBVIOUS
<1>1. us[i] \in Update /\ v \in Nat
  <2>1. us[i] \in Update
      BY ElementOfSeq
  <2>2. QED BY <1>0, <2>1 DEF Update
<1>2. PICK named : named = Named(us, channel, v)
    OBVIOUS
<1>3. i \in named
    BY <1>0, <1>1, <1>2 DEF Named
<1>4. \A j \in named : j = i
    BY <1>0, <1>1, <1>2 DEF Named
<1>5. PICK s : s = selectUpdate(us, channel, v)
    OBVIOUS
<1>6. (s = 0 <=> named = {}) /\ (s # 0 => s \in named)
    BY <1>1, <1>2, <1>5, SelectIs
<1>7. s = i
    BY <1>3, <1>4, <1>6
<1>8. selectUpdate(us, ChannelOf(pin.channel), pin.release) = i /\ i # 0
    BY <1>0, <1>5, <1>7
<1>9. Unique(matchingFiles(us[i].files, pin.arch, TypeOf[pin.type]))
    BY DEF Unique
<1>10. Resolve(pin, us) =
         [idx |-> i, image |-> matchingFiles(us[i].files, pin.arch, TypeOf[pin.type]),
          apps |-> <<>>]
    BY <1>8, <1>9 DEF Resolve
<1>11. QED BY <1>10

LEMMA ListedCanBeBuiltHolds ==
    ASSUME case \in Cases
    PROVE  ListedCanBeBuilt
<1>1. Updates \in Seq(Update)
    BY CaseIsCase
<1>2. PICK us : us = Updates /\ us \in Seq(Update)
    BY <1>1
<1>3. DOMAIN us = 1..Len(us) /\ Len(us) \in Nat
    BY <1>2, LenProperties
<1>4. PICK channel : channel = ChannelOf(Spec0.channel)
    OBVIOUS
<1> DEFINE Same(v) == {j \in DOMAIN Updates : channel \in Updates[j].channels
                                               /\ Updates[j].version = v}
           Pin(row) == [type |-> row[3], arch |-> row[2], channel |-> Spec0.channel,
                        release |-> row[1], offline |-> FALSE, apps |-> Spec0.apps]
           Files(j, row) == matchingFiles(Updates[j].files, row[2], TypeOf[row[3]])
<1>5. \A v, j : j \in Same(v) <=> j \in 1..Len(us) /\ InChannel(us, j, channel)
                                                  /\ us[j].version = v
    BY <1>2, <1>3 DEF InChannel
<1>6. \A row : /\ Pin(row).channel = Spec0.channel /\ Pin(row).release = row[1]
               /\ Pin(row).arch = row[2] /\ Pin(row).type = row[3] /\ ~ Pin(row).offline
    OBVIOUS
<1>7. \A j, row : Files(j, row) = matchingFiles(us[j].files, row[2], TypeOf[row[3]])
    BY <1>2
<1> HIDE DEF Same, Pin, Files
<1>8. ASSUME NEW row \in tableRows(filterVersions(us, channel, "")),
             ~ (Cardinality(Same(row[1])) > 1), row[1] # 0,
             \A j \in Same(row[1]) : ~ (Len(Files(j, row)) > 1)
      PROVE  Resolve(Pin(row), us).idx \in Same(row[1])
  <2>1. PICK i \in 1..Len(us) : \E p \in matchingImages(us[i].files, "") :
           InChannel(us, i, channel) /\ row = <<us[i].version, p[1], p[2]>>
    <3>1. IsRow(row, us, channel, "")
        BY <1>2, <1>8, RowsAre
    <3>2. QED BY <3>1 DEF IsRow
  <2>2. PICK fs : fs = us[i].files
      OBVIOUS
  <2>3. PICK p \in matchingImages(fs, "") :
           InChannel(us, i, channel) /\ row = <<us[i].version, p[1], p[2]>>
      BY <2>1, <2>2
  <2>4. fs \in Seq(AssetFile) /\ us[i].version \in Nat
    <3>1. us[i] \in Update
        BY <1>2, <2>1, ElementOfSeq
    <3>2. QED BY <2>2, <3>1 DEF Update
  <2>5. p[2] \in Types /\ p = <<p[1], p[2]>>
      BY <2>3, <2>4, ImagesArePairs
  <2>6. row[1] = us[i].version /\ row[2] = p[1] /\ row[3] = p[2]
      BY <2>3
  <2>7. PICK same : same = Same(row[1])
      OBVIOUS
  <2>8. i \in same
      BY <1>5, <2>3, <2>6, <2>7
  <2>9. \A j \in same : j = i
    <3>1. IsFiniteSet(1..Len(us))
        BY <1>3, PlacesAreFinite
    <3>2. same \in SUBSET (1..Len(us))
        BY <1>5, <2>7
    <3>3. IsFiniteSet(same)
        BY <3>1, <3>2, FS_Subset
    <3>4. QED BY <1>8, <2>7, <2>8, <3>3, TwoElements
  <2>10. PICK images : images = Files(i, row)
      OBVIOUS
  <2>11. Matches(images, fs, row[2], TypeOf[row[3]])
    <3>1. images = matchingFiles(fs, row[2], TypeOf[row[3]])
        BY <1>7, <2>2, <2>10
    <3>2. QED BY <2>4, <3>1, MatchingFiles
  <2>12. Len(images) = 1
    <3>2. \E k \in 1..Len(fs) : fs[k].arch = p[1] /\ fs[k].type = TypeOf[p[2]]
        BY <2>4, <2>3, ImagesArePairs
    <3>3. PICK n : n = Len(images)
        OBVIOUS
    <3>4. n \in Nat
        BY <2>11, <3>3, LenProperties DEF Matches
    <3>5. 1..n # {}
        BY <2>6, <2>11, <3>2, <3>3 DEF Matches
    <3>6. ~ (n > 1)
        BY <1>8, <2>7, <2>8, <2>10, <3>3
    <3>7. n = 1
        BY <3>4, <3>5, <3>6, OnePlace
    <3>8. QED BY <3>3, <3>7
  <2>13. PICK pin : pin = Pin(row)
      OBVIOUS
  <2>14. /\ channel = ChannelOf(pin.channel) /\ row[1] = pin.release /\ ~ pin.offline
         /\ images = matchingFiles(us[i].files, pin.arch, TypeOf[pin.type])
      BY <1>4, <1>6, <1>7, <2>10, <2>13
  <2>15. \A j \in 1..Len(us) : InChannel(us, j, channel) /\ us[j].version = row[1] => j = i
      BY <1>5, <2>7, <2>9
  <2>16. Resolve(pin, us).idx = i
    <3>1. us[i].version = row[1] /\ row[1] # 0 /\ InChannel(us, i, channel)
        BY <1>8, <2>3, <2>6
    <3>2. \A j \in 1..Len(us) :
             InChannel(us, j, ChannelOf(pin.channel)) /\ us[j].version = pin.release => j = i
        BY <2>14, <2>15
    <3>3. Len(matchingFiles(us[i].files, pin.arch, TypeOf[pin.type])) = 1
        BY <2>12, <2>14
    <3>4. InChannel(us, i, ChannelOf(pin.channel)) /\ us[i].version = pin.release
          /\ pin.release # 0 /\ ~ pin.offline
        BY <2>14, <3>1
    <3>5. QED BY <1>2, <3>2, <3>3, <3>4, PinnedIsBuilt
  <2>17. QED BY <2>7, <2>8, <2>13, <2>16
<1>9. \A row \in tableRows(filterVersions(Updates, channel, "")) :
         \/ Resolve(Pin(row), Updates).idx \in Same(row[1])
         \/ Cardinality(Same(row[1])) > 1
         \/ row[1] = 0
         \/ \E j \in Same(row[1]) : Len(Files(j, row)) > 1
    BY <1>2, <1>8
<1>10. QED BY <1>4, <1>9 DEF ListedCanBeBuilt, Same, Pin, Files

-----------------------------------------------------------------------------
(* What a build selects and requests.                                       *)

(* The plan of a state is one of the index, if there is one. *)
LEMMA PlanOfState ==
    ASSUME ReleaseInv, plan # NoPlan
    PROVE  PlanIs(plan, Spec0, Updates)
BY CaseIsCase, ResolveIs DEF ReleaseInv, TypeOK, PlanIsResolved

(* A plan is within the bounds of the type. *)
LEMMA PlanFits ==
    ASSUME case \in Cases, NEW p, p = NoPlan \/ PlanIs(p, Spec0, Updates)
    PROVE  /\ p.idx \in 0..Len(Updates) /\ Len(p.image) <= 1
           /\ p.apps \in Seq(AssetFile) /\ Len(p.apps) <= Len(Spec0.apps)
<1>1. Len(Updates) \in Nat /\ Len(Spec0.apps) \in Nat
  <2>1. Updates \in Seq(Update) /\ Spec0.apps \in Seq(STRING)
      BY CaseIsCase DEF BuildSpec
  <2>2. QED BY <2>1
<1>2. CASE p = NoPlan
    BY <1>1, <1>2 DEF NoPlan
<1>3. CASE PlanIs(p, Spec0, Updates)
  <2>1. p.idx \in 1..Len(Updates) /\ Len(p.image) = 1 /\ p.apps \in Seq(AssetFile)
        /\ Len(p.apps) = IF Spec0.offline THEN Len(Spec0.apps) ELSE 0
      BY <1>3 DEF PlanIs
  <2>2. QED BY <1>1, <2>1
<1>4. QED BY <1>2, <1>3

LEMMA ReleaseStarts ==
    ASSUME Init
    PROVE  ReleaseInv
<1>1. pc = "index" /\ case \in Cases /\ plan = NoPlan /\ todo = <<>> /\ asked = {}
      /\ got = [json |-> {}, sjson |-> {}]
    BY DEF Init
<1>2. Len(todo) <= Len(plan.apps)
    BY <1>1 DEF NoPlan
<1>3. TypeOK
    BY <1>1, <1>2, PlanFits DEF TypeOK
<1>4. PlanIsResolved
    BY <1>1 DEF PlanIsResolved, Acquired
<1>5. DocumentsAreThere
    BY <1>1 DEF DocumentsAreThere, Acquired
<1>6. OnlyLegalNames
    BY <1>1 DEF OnlyLegalNames
<1>7. QED BY <1>3, <1>4, <1>5, <1>6 DEF ReleaseInv

LEMMA FailKeeps ==
    ASSUME ReleaseInv, Fail, UNCHANGED case
    PROVE  ReleaseInv'
<1>1. pc' = "failed" /\ UNCHANGED <<case, plan, todo, asked, got>>
    BY DEF Fail
<1>2. TypeOK'
    BY <1>1 DEF ReleaseInv, TypeOK, Updates, Spec0
<1>3. PlanIsResolved'
    BY <1>1 DEF ReleaseInv, PlanIsResolved, Updates, Spec0, Acquired
<1>4. DocumentsAreThere'
    BY <1>1 DEF ReleaseInv, DocumentsAreThere, Acquired
<1>5. OnlyLegalNames'
    BY <1>1 DEF ReleaseInv, OnlyLegalNames
<1>6. QED BY <1>2, <1>3, <1>4, <1>5 DEF ReleaseInv

LEMMA ResolveReleaseKeeps ==
    ASSUME ReleaseInv, ResolveRelease
    PROVE  ReleaseInv'
<1>1. CASE Fail
    BY <1>1, FailKeeps DEF ResolveRelease
<1>2. CASE ~ Fail
  <2>1. /\ plan' = Resolve(Spec0, Updates) /\ plan' # NoPlan /\ todo' = plan'.apps
        /\ pc' = "image" /\ UNCHANGED <<asked, got, case>>
      BY <1>2 DEF ResolveRelease
  <2>2. case \in Cases /\ case' = case /\ Spec0' = Spec0 /\ Updates' = Updates
      BY <2>1 DEF ReleaseInv, TypeOK, Spec0, Updates
  <2>3. PlanIs(plan', Spec0, Updates)
      BY <2>1, <2>2, CaseIsCase, ResolveIs
  <2>4. /\ plan'.idx \in 0..Len(Updates) /\ Len(plan'.image) <= 1
        /\ plan'.apps \in Seq(AssetFile) /\ Len(plan'.apps) <= Len(Spec0.apps)
      BY <2>2, <2>3, PlanFits
  <2>5. Len(todo') <= Len(plan'.apps)
    <3>1. Len(plan'.apps) \in Nat
        BY <2>4
    <3>2. QED BY <2>1, <3>1
  <2>6. TypeOK'
      BY <2>1, <2>2, <2>4, <2>5 DEF ReleaseInv, TypeOK
  <2>7. PlanIsResolved'
      BY <2>1, <2>2, <2>4 DEF PlanIsResolved, Acquired
  <2>8. DocumentsAreThere'
      BY <2>1 DEF ReleaseInv, DocumentsAreThere, Acquired
  <2>9. OnlyLegalNames'
      BY <2>1 DEF ReleaseInv, OnlyLegalNames
  <2>10. QED BY <2>6, <2>7, <2>8, <2>9 DEF ReleaseInv
<1>3. QED BY <1>1, <1>2

(* The name of an asset that is asked for has been looked at. *)
LEMMA AcquireAsksLegally ==
    ASSUME OnlyLegalNames, NEW file, NEW next, Acquire(file, next)
    PROVE  OnlyLegalNames'
<1> DEFINE name == Append(file.dir, file.base)
<1>1. asked' = asked \cup {<<Version, name>>}
    BY DEF Acquire
<1>2. Version \in Legal /\ \A k \in DOMAIN name : name[k] \in Idents
    BY DEF Acquire, validateAsset, ValidateVersion, ValidateFilename, validIdent
<1> HIDE DEF name
<1>3. ASSUME NEW a \in asked'
      PROVE  /\ a[1] \in Legal
             /\ \A k \in DOMAIN a[2] : a[2][k] \in Idents \cup {"update.json", "update.sjson"}
  <2>1. CASE a \in asked
      BY <2>1 DEF OnlyLegalNames
  <2>2. CASE a = <<Version, name>>
      BY <1>2, <2>2
  <2>3. QED BY <1>1, <1>3, <2>1, <2>2
<1>4. QED BY <1>3 DEF OnlyLegalNames

LEMMA AcquireImageKeeps ==
    ASSUME ReleaseInv, AcquireImage
    PROVE  ReleaseInv'
<1>1. CASE Fail
    BY <1>1, FailKeeps DEF AcquireImage
<1>2. CASE ~ Fail
  <2>1. /\ pc = "image" /\ pc' = IF Spec0.offline THEN "apps" ELSE "done"
        /\ UNCHANGED <<plan, got, todo, case>>
      BY <1>2 DEF AcquireImage, Acquire
  <2>2. Spec0' = Spec0 /\ Updates' = Updates
      BY <2>1 DEF Spec0, Updates
  <2>3. TypeOK'
      BY <2>1, <2>2 DEF ReleaseInv, TypeOK
  <2>4. ~ Acquired' /\ plan # NoPlan /\ (pc' = "apps" => Spec0.offline) /\ pc' \in {"apps", "done"}
      BY <2>1, <2>2 DEF ReleaseInv, PlanIsResolved, Acquired
  <2>5. PlanIsResolved'
      BY <2>1, <2>2, <2>4 DEF ReleaseInv, PlanIsResolved
  <2>6. DocumentsAreThere'
      BY <2>1, <2>2, <2>4 DEF ReleaseInv, DocumentsAreThere
  <2>7. OnlyLegalNames'
      BY <1>2, AcquireAsksLegally DEF AcquireImage, ReleaseInv
  <2>8. QED BY <2>3, <2>5, <2>6, <2>7 DEF ReleaseInv
<1>3. QED BY <1>1, <1>2

LEMMA AcquireAppKeeps ==
    ASSUME ReleaseInv, AcquireApp
    PROVE  ReleaseInv'
<1>1. CASE Fail
    BY <1>1, FailKeeps DEF AcquireApp
<1>2. CASE ~ Fail
  <2>1. /\ pc = "apps" /\ pc' = "apps" /\ todo # <<>> /\ todo' = Tail(todo)
        /\ UNCHANGED <<plan, got, case>>
      BY <1>2 DEF AcquireApp, Acquire
  <2>2. Spec0' = Spec0 /\ Updates' = Updates
      BY <2>1 DEF Spec0, Updates
  <2>3. todo \in Seq(AssetFile) /\ plan.apps \in Seq(AssetFile)
    <3>1. plan # NoPlan
        BY <2>1 DEF ReleaseInv, PlanIsResolved
    <3>2. QED BY <3>1, PlanOfState DEF ReleaseInv, PlanIsResolved, PlanIs
  <2>4. todo' \in Seq(AssetFile) /\ Len(todo') <= Len(todo)
      BY <2>1, <2>3, HeadTailProperties
  <2>5. Len(todo') <= Len(plan.apps)
    <3>1. Len(todo) <= Len(plan.apps)
        BY DEF ReleaseInv, TypeOK
    <3>2. Len(todo) \in Nat /\ Len(todo') \in Nat /\ Len(plan.apps) \in Nat
        BY <2>3, <2>4
    <3>3. QED BY <2>4, <3>1, <3>2
  <2>6. TypeOK'
      BY <2>1, <2>2, <2>5 DEF ReleaseInv, TypeOK
  <2>7. ~ Acquired'
      BY <2>1 DEF Acquired
  <2>8. PlanIsResolved'
      BY <2>1, <2>2, <2>4, <2>7 DEF ReleaseInv, PlanIsResolved
  <2>9. DocumentsAreThere'
      BY <2>1, <2>2, <2>7 DEF ReleaseInv, DocumentsAreThere
  <2>10. OnlyLegalNames'
      BY <1>2, AcquireAsksLegally DEF AcquireApp, ReleaseInv
  <2>11. QED BY <2>6, <2>8, <2>9, <2>10 DEF ReleaseInv
<1>3. QED BY <1>1, <1>2

(* The names of the two documents are fixed, and only the version is looked at. *)
LEMMA DocumentIsAsked ==
    ASSUME OnlyLegalNames, Version \in Legal, NEW doc \in {"update.json", "update.sjson"},
           asked' = asked \cup {<<Version, <<doc>>>>}
    PROVE  OnlyLegalNames'
<1>1. ASSUME NEW a \in asked'
      PROVE  /\ a[1] \in Legal
             /\ \A k \in DOMAIN a[2] : a[2][k] \in Idents \cup {"update.json", "update.sjson"}
  <2>1. CASE a \in asked
      BY <2>1 DEF OnlyLegalNames
  <2>2. CASE a = <<Version, <<doc>>>>
    <3>1. a[1] = Version /\ a[2] = <<doc>>
        BY <2>2
    <3>2. DOMAIN <<doc>> = {1} /\ <<doc>>[1] = doc
        OBVIOUS
    <3>3. QED BY <3>1, <3>2
  <2>3. QED BY <1>1, <2>1, <2>2
<1>2. QED BY <1>1 DEF OnlyLegalNames

LEMMA GetUpdateJSONKeeps ==
    ASSUME ReleaseInv, GetUpdateJSON
    PROVE  ReleaseInv'
<1>1. CASE Fail
    BY <1>1, FailKeeps DEF GetUpdateJSON
<1>2. CASE ~ Fail
  <2>1. /\ pc = "apps" /\ pc' = "sjson" /\ todo = <<>> /\ ValidateVersion(Version)
        /\ \E d \in Documents : got' = [got EXCEPT !.json = {d}]
        /\ asked' = asked \cup {<<Version, <<"update.json">>>>}
        /\ UNCHANGED <<plan, todo, case>>
      BY <1>2 DEF GetUpdateJSON
  <2>2. Spec0' = Spec0 /\ Updates' = Updates /\ Version' = Version
      BY <2>1 DEF Spec0, Updates, Version
  <2>3. got \in [json : SUBSET Documents, sjson : SUBSET Documents]
      BY DEF ReleaseInv, DocumentsAreThere
  <2>4. PICK d \in Documents : got' = [got EXCEPT !.json = {d}]
      BY <2>1
  <2>5. /\ got' \in [json : SUBSET Documents, sjson : SUBSET Documents]
        /\ got'.json = {d} /\ got'.sjson = got.sjson
      BY <2>3, <2>4
  <2>6. TypeOK'
      BY <2>1, <2>2, <2>5 DEF ReleaseInv, TypeOK
  <2>7. PlanIsResolved'
      BY <2>1, <2>2 DEF ReleaseInv, PlanIsResolved
  <2>8. DocumentsAreThere'
      BY <2>1, <2>2, <2>5 DEF DocumentsAreThere, ValidateVersion
  <2>9. OnlyLegalNames'
      BY <2>1, DocumentIsAsked DEF ReleaseInv, ValidateVersion
  <2>10. QED BY <2>6, <2>7, <2>8, <2>9 DEF ReleaseInv
<1>3. QED BY <1>1, <1>2

LEMMA GetUpdateSJSONKeeps ==
    ASSUME ReleaseInv, GetUpdateSJSON
    PROVE  ReleaseInv'
<1>1. CASE Fail
    BY <1>1, FailKeeps DEF GetUpdateSJSON
<1>2. CASE ~ Fail
  <2>1. /\ pc = "sjson" /\ pc' = "bind"
        /\ \E d \in Documents : got' = [got EXCEPT !.sjson = {d}]
        /\ asked' = asked \cup {<<Version, <<"update.sjson">>>>}
        /\ UNCHANGED <<plan, todo, case>>
      BY <1>2 DEF GetUpdateSJSON
  <2>2. Spec0' = Spec0 /\ Updates' = Updates /\ Version' = Version
      BY <2>1 DEF Spec0, Updates, Version
  <2>3. /\ got \in [json : SUBSET Documents, sjson : SUBSET Documents]
        /\ got.json # {} /\ Version \in Legal /\ todo = <<>>
      BY <2>1 DEF ReleaseInv, DocumentsAreThere, PlanIsResolved, Acquired
  <2>4. PICK d \in Documents : got' = [got EXCEPT !.sjson = {d}]
      BY <2>1
  <2>5. /\ got' \in [json : SUBSET Documents, sjson : SUBSET Documents]
        /\ got'.sjson = {d} /\ got'.json = got.json
      BY <2>3, <2>4
  <2>6. TypeOK'
      BY <2>1, <2>2, <2>5 DEF ReleaseInv, TypeOK
  <2>7. PlanIsResolved'
      BY <2>1, <2>2, <2>3 DEF ReleaseInv, PlanIsResolved
  <2>8. DocumentsAreThere'
      BY <2>1, <2>2, <2>3, <2>5 DEF DocumentsAreThere
  <2>9. OnlyLegalNames'
      BY <2>1, <2>3, DocumentIsAsked DEF ReleaseInv
  <2>10. QED BY <2>6, <2>7, <2>8, <2>9 DEF ReleaseInv
<1>3. QED BY <1>1, <1>2

LEMMA LoadKeeps ==
    ASSUME ReleaseInv, loadReleaseMetadata
    PROVE  ReleaseInv'
<1>1. /\ pc = "bind" /\ pc' = "done" /\ UNCHANGED <<plan, todo, asked, got, case>>
      /\ \A d \in got.json : validateUpdateJSON(d)
      /\ \A d \in got.sjson : validateUpdateSJSON(d)
    BY DEF loadReleaseMetadata
<1>2. /\ Acquired /\ todo = <<>> /\ plan # NoPlan /\ Spec0.offline
      /\ got.json # {} /\ got.sjson # {} /\ Version \in Legal
    BY <1>1 DEF ReleaseInv, DocumentsAreThere, PlanIsResolved, Acquired
<1>3. Spec0' = Spec0 /\ Updates' = Updates /\ Version' = Version
    BY <1>1 DEF Spec0, Updates, Version
<1>4. TypeOK'
    BY <1>1, <1>3 DEF ReleaseInv, TypeOK
<1>5. PlanIsResolved'
    BY <1>1, <1>2, <1>3 DEF ReleaseInv, PlanIsResolved
<1>6. (\A d \in got.json : validateUpdateJSON(d))' /\ (\A d \in got.sjson : validateUpdateSJSON(d))'
    BY <1>1, <1>3 DEF validateUpdateJSON, validateUpdateSJSON
<1>7. DocumentsAreThere'
    BY <1>1, <1>2, <1>3, <1>6 DEF ReleaseInv, DocumentsAreThere
<1>8. OnlyLegalNames'
    BY <1>1 DEF ReleaseInv, OnlyLegalNames
<1>9. QED BY <1>4, <1>5, <1>7, <1>8 DEF ReleaseInv

LEMMA ReleaseStutters ==
    ASSUME ReleaseInv, UNCHANGED vars
    PROVE  ReleaseInv'
<1>1. UNCHANGED <<pc, case, plan, todo, asked, got>>
    BY DEF vars
<1>2. Spec0' = Spec0 /\ Updates' = Updates /\ Version' = Version /\ Acquired' = Acquired
    BY <1>1 DEF Spec0, Updates, Version, Acquired
<1>3. TypeOK'
    BY <1>1, <1>2 DEF ReleaseInv, TypeOK
<1>4. PlanIsResolved'
    BY <1>1, <1>2 DEF ReleaseInv, PlanIsResolved
<1>5. DocumentsAreThere'
    BY <1>1, <1>2 DEF ReleaseInv, DocumentsAreThere, validateUpdateJSON, validateUpdateSJSON
<1>6. OnlyLegalNames'
    BY <1>1 DEF ReleaseInv, OnlyLegalNames
<1>7. QED BY <1>3, <1>4, <1>5, <1>6 DEF ReleaseInv

LEMMA ReleaseSteps ==
    ASSUME ReleaseInv, Next
    PROVE  ReleaseInv'
<1>1. CASE ResolveRelease
    BY <1>1, ResolveReleaseKeeps
<1>2. CASE AcquireImage
    BY <1>2, AcquireImageKeeps
<1>3. CASE AcquireApp
    BY <1>3, AcquireAppKeeps
<1>4. CASE GetUpdateJSON
    BY <1>4, GetUpdateJSONKeeps
<1>5. CASE GetUpdateSJSON
    BY <1>5, GetUpdateSJSONKeeps
<1>6. CASE loadReleaseMetadata
    BY <1>6, LoadKeeps
<1>7. CASE Refuse
    BY <1>7, FailKeeps DEF Refuse
<1>8. CASE Ended
    BY <1>8, ReleaseStutters DEF Ended
<1>9. QED BY <1>1, <1>2, <1>3, <1>4, <1>5, <1>6, <1>7, <1>8 DEF Next

(* The writer's build leaves the selection as it was at its beginning. *)
LEMMA CallWriterResets ==
    ASSUME ReleaseInv, CallWriter
    PROVE  ReleaseInv'
<1>1. AnyCase \in Cases
    BY DEF ReleaseInv, TypeOK, AnyCase
<1>2. Init'
    BY <1>1 DEF CallWriter, Init
<1>3. QED BY <1>2, ReleaseStarts, PTL

LEMMA ReleaseInvInitially == InitBoth => ReleaseInv
BY ReleaseStarts DEF InitBoth

LEMMA ReleaseInvIsKept == ReleaseInv /\ [NextBoth]_allVars => ReleaseInv'
<1>1. SUFFICES ASSUME ReleaseInv, [NextBoth]_allVars
               PROVE  ReleaseInv'
    OBVIOUS
<1>2. CASE Selecting
    BY <1>1, <1>2, ReleaseSteps DEF Selecting
<1>3. CASE CallWriter
    BY <1>1, <1>3, CallWriterResets
<1>4. CASE Writing
    BY <1>1, <1>4, ReleaseStutters DEF Writing
<1>5. CASE UNCHANGED allVars
    BY <1>1, <1>5, ReleaseStutters DEF allVars
<1>6. QED BY <1>1, <1>2, <1>3, <1>4, <1>5 DEF NextBoth

LEMMA CommandsAgreeFollows ==
    ASSUME ReleaseInv
    PROVE  CommandsAgree
<1>1. case \in Cases /\ TypeOK /\ (plan = NoPlan \/ plan = Resolve(Spec0, Updates))
    BY DEF ReleaseInv, TypeOK, PlanIsResolved
<1>2. QED BY <1>1, SelectsHighestHolds, SelectedIsListedHolds, ListedCanBeBuiltHolds
          DEF CommandsAgree

LEMMA FilesFollow ==
    ASSUME ReleaseInv
    PROVE  FilesOfOneRelease
<1>1. AppsAsRequested
  <2>1. SUFFICES ASSUME pc = "done", Spec0.offline
                 PROVE  /\ Len(plan.apps) = Len(Spec0.apps) /\ todo = <<>>
                        /\ \A k \in DOMAIN plan.apps :
                              /\ plan.apps[k].base = Spec0.apps[k]
                              /\ plan.apps[k].arch = Spec0.arch
                              /\ plan.apps[k].type = "application"
                              /\ \E n \in DOMAIN Updates[plan.idx].files :
                                    Updates[plan.idx].files[n] = plan.apps[k]
      BY DEF AppsAsRequested
  <2>2. plan # NoPlan /\ todo = <<>> /\ case \in Cases
      BY <2>1 DEF ReleaseInv, PlanIsResolved, Acquired, TypeOK
  <2>3. PICK p, fs : p = plan /\ fs = Updates[plan.idx].files
      OBVIOUS
  <2>4. PlanIs(p, Spec0, Updates)
      BY <2>2, <2>3, PlanOfState
  <2>5. DOMAIN p.apps = 1..Len(p.apps) /\ DOMAIN fs = 1..Len(fs)
    <3>1. Updates[plan.idx] \in Update
        BY <2>2, <2>3, <2>4, CaseIsCase, ElementOfSeq DEF PlanIs
    <3>2. fs \in Seq(AssetFile)
        BY <2>3, <3>1 DEF Update
    <3>3. QED BY <2>4, <3>2, LenProperties DEF PlanIs
  <2>6. Len(p.apps) = Len(Spec0.apps)
      BY <2>1, <2>4 DEF PlanIs
  <2>7. \A k \in 1..Len(p.apps) :
           /\ p.apps[k].base = Spec0.apps[k]
           /\ p.apps[k].arch = Spec0.arch /\ p.apps[k].type = "application"
           /\ \E n \in 1..Len(fs) : fs[n] = p.apps[k]
      BY <2>3, <2>4 DEF PlanIs
  <2>8. QED BY <2>2, <2>3, <2>5, <2>6, <2>7
<1>2. DocumentsBindFiles
  <2>1. SUFFICES ASSUME pc = "done", Spec0.offline
                 PROVE  /\ \E d \in got.json : d.version = Version
                        /\ \E d \in got.sjson :
                              /\ d.signed /\ d.version = Version
                              /\ \A k \in DOMAIN plan.apps : \E f \in d.files :
                                    f.sha = plan.apps[k].sha
                                    /\ f.name = Append(plan.apps[k].dir, plan.apps[k].base)
      BY DEF DocumentsBindFiles
  <2>2. /\ got.json # {} /\ got.sjson # {}
        /\ \A d \in got.json : validateUpdateJSON(d)
        /\ \A d \in got.sjson : validateUpdateSJSON(d)
      BY <2>1 DEF ReleaseInv, DocumentsAreThere, Acquired
  <2>3. \E d \in got.json : d.version = Version
      BY <2>2 DEF validateUpdateJSON
  <2>4. PICK d \in got.sjson : validateUpdateSJSON(d)
      BY <2>2
  <2>5. d.signed /\ d.version = Version /\ bindSelected(d.files, plan.apps)
      BY <2>4 DEF validateUpdateSJSON, signedCleartext
  <2>6. ASSUME NEW k \in DOMAIN plan.apps
        PROVE  \E f \in d.files : /\ f.sha = plan.apps[k].sha
                                  /\ f.name = Append(plan.apps[k].dir, plan.apps[k].base)
    <3> DEFINE f == [name |-> Append(plan.apps[k].dir, plan.apps[k].base),
                     sha |-> plan.apps[k].sha]
    <3>1. f \in d.files
        BY <2>5 DEF bindSelected
    <3>2. f.sha = plan.apps[k].sha /\ f.name = Append(plan.apps[k].dir, plan.apps[k].base)
        OBVIOUS
    <3>3. QED BY <3>1, <3>2
  <2>7. QED BY <2>3, <2>5, <2>6
<1>3. QED BY <1>1, <1>2 DEF ReleaseInv, FilesOfOneRelease

(* The build and the listing of releases, which walk the index by different code, agree
   for every index and every spec: what is built is the highest version of the channel,
   or the pinned one, and is listed; what is listed can be built (Resolve,
   filterVersions). *)
THEOREM BuildAndListingAgree == SpecBoth => []CommandsAgree
<1>1. InitBoth => ReleaseInv
    BY ReleaseInvInitially
<1>2. ReleaseInv /\ [NextBoth]_allVars => ReleaseInv'
    BY ReleaseInvIsKept
<1>3. ReleaseInv => CommandsAgree
    BY CommandsAgreeFollows
<1>4. QED BY <1>1, <1>2, <1>3, PTL DEF SpecBoth

(* However often the server publishes between two requests, an offline build ends with
   the applications it was asked for, of one release, and with a signed document about
   them; no name is asked for that was not looked at (matchApplications,
   loadReleaseMetadata, validateAsset). *)
THEOREM BuildTakesOneRelease == SpecBoth => []FilesOfOneRelease
<1>1. InitBoth => ReleaseInv
    BY ReleaseInvInitially
<1>2. ReleaseInv /\ [NextBoth]_allVars => ReleaseInv'
    BY ReleaseInvIsKept
<1>3. ReleaseInv => FilesOfOneRelease
    BY FilesFollow
<1>4. QED BY <1>1, <1>2, <1>3, PTL DEF SpecBoth

-----------------------------------------------------------------------------
(* The tree that is staged.                                                 *)

TreeFile == [rel : Seq(R!Names), size : Int, asset : BOOLEAN]

\* f is the two documents and then the assets of a.
StagedFiles(f, a, sjson) ==
    /\ f \in Seq(TreeFile) /\ Len(f) = Len(a) + 2 /\ Len(a) \in Nat
    /\ f[1] = R!Document("update.json", 1) /\ f[2] = R!Document("update.sjson", sjson)
    /\ \A k \in 1..Len(a) : f[k + 2].rel = a[k].rel /\ f[k + 2].size = a[k].size

(* Tree is the documents and the assets in their order. *)
LEMMA TreeStages ==
    ASSUME NEW inp \in R!Input
    PROVE  StagedFiles(R!Tree(inp), inp.assets, inp.sjson)
<1>1. PICK a, n : /\ a = inp.assets /\ n = Len(a) /\ n \in Nat /\ DOMAIN a = 1..n
                  /\ \A k \in 1..n : a[k] \in R!Asset
  <2>1. inp.assets \in Seq(R!Asset)
      BY DEF R!Input
  <2>2. QED BY <2>1, LenProperties
<1>2. \A k \in 1..n : a[k].rel \in Seq(R!Names) /\ a[k].size \in Int
    BY <1>1 DEF R!Asset
<1> DEFINE one == R!Document("update.json", 1)
           two == R!Document("update.sjson", inp.sjson)
           docs == <<one, two>>
           tail == [k \in 1..n |-> [rel |-> a[k].rel, size |-> a[k].size, asset |-> TRUE]]
<1>3. one \in TreeFile /\ two \in TreeFile
  <2>1. inp.sjson \in Int
      BY DEF R!Input
  <2>2. {"update", "update.json", "update.sjson"} \subseteq R!Names
      BY DEF R!Names
  <2> HIDE DEF R!Names
  <2>3. <<"update", "update.json">> \in Seq(R!Names) /\ <<"update", "update.sjson">> \in Seq(R!Names)
      BY <2>2
  <2>4. QED BY <2>1, <2>3 DEF R!Document, TreeFile
<1>4. docs \in Seq(TreeFile) /\ Len(docs) = 2 /\ docs[1] = one /\ docs[2] = two
    BY <1>3
<1>5. /\ tail \in Seq(TreeFile) /\ Len(tail) = n
      /\ \A k \in 1..n : tail[k].rel = a[k].rel /\ tail[k].size = a[k].size
  <2>1. \A k \in 1..n : [rel |-> a[k].rel, size |-> a[k].size, asset |-> TRUE] \in TreeFile
      BY <1>2 DEF TreeFile
  <2>2. QED BY <1>1, <2>1
<1>6. R!Tree(inp) = docs \o tail
    BY <1>1 DEF R!Tree, R!TreeDocuments
<1> HIDE DEF docs, tail, one, two
<1>7. PICK f : f = docs \o tail
    OBVIOUS
<1>8. /\ f \in Seq(TreeFile) /\ Len(f) = n + 2
      /\ \A k \in 1..n + 2 : f[k] = IF k <= 2 THEN docs[k] ELSE tail[k - 2]
  <2>1. /\ f \in Seq(TreeFile) /\ Len(f) = Len(docs) + Len(tail)
        /\ \A k \in 1..Len(docs) + Len(tail) :
              f[k] = IF k <= Len(docs) THEN docs[k] ELSE tail[k - Len(docs)]
      BY <1>4, <1>5, <1>7, ConcatProperties
  <2>2. Len(docs) + Len(tail) = n + 2
      BY <1>1, <1>4, <1>5
  <2>3. QED BY <1>4, <2>1, <2>2
<1>9. f[1] = one /\ f[2] = two
    BY <1>1, <1>4, <1>8
<1>10. ASSUME NEW k \in 1..n PROVE f[k + 2].rel = a[k].rel /\ f[k + 2].size = a[k].size
  <2>1. k + 2 \in 1..n + 2 /\ ~ (k + 2 <= 2) /\ (k + 2) - 2 = k
      BY <1>1
  <2>2. f[k + 2] = tail[k]
      BY <1>8, <2>1
  <2>3. QED BY <1>5, <2>2
<1>11. StagedFiles(f, a, inp.sjson)
    BY <1>1, <1>8, <1>9, <1>10 DEF StagedFiles, one, two
<1>12. QED BY <1>1, <1>6, <1>7, <1>11

(* The sizes of a tree that was looked at are sizes, and its names are distinct. *)
LEMMA PreparedTree ==
    ASSUME NEW inp \in R!Input, R!prepareTree(inp), NEW f, f = R!Tree(inp)
    PROVE  /\ f \in Seq(TreeFile) /\ DOMAIN f = 1..Len(f) /\ Len(f) \in Nat
           /\ Len(f) = Len(inp.assets) + 2
           /\ \A i \in 1..Len(f) : f[i].size \in Nat
           /\ \A i, j \in 1..Len(f) : i # j => f[i].rel # f[j].rel
<1>1. PICK a, n : a = inp.assets /\ n = Len(a) /\ n \in Nat /\ DOMAIN a = 1..n
  <2>1. inp.assets \in Seq(R!Asset)
      BY DEF R!Input
  <2>2. QED BY <2>1, LenProperties
<1>2. StagedFiles(f, a, inp.sjson)
    BY <1>1, TreeStages
<1>3. f \in Seq(TreeFile) /\ Len(f) = n + 2 /\ DOMAIN f = 1..Len(f)
    BY <1>1, <1>2, LenProperties DEF StagedFiles
<1>4. f[1].size = 1 /\ f[2].size = inp.sjson /\ inp.sjson \in Nat
    BY <1>2 DEF StagedFiles, R!Document, R!Input
<1>5. \A k \in 1..n : a[k].size >= 0
    BY <1>1 DEF R!prepareTree
<1>6. ASSUME NEW i \in 1..n + 2 PROVE f[i].size \in Nat
  <2>1. CASE i = 1 \/ i = 2
      BY <1>4, <2>1
  <2>2. CASE i # 1 /\ i # 2
    <3>1. i - 2 \in 1..n /\ (i - 2) + 2 = i
        BY <1>1, <2>2
    <3>2. f[i].size = a[i - 2].size
        BY <1>1, <1>2, <3>1 DEF StagedFiles
    <3>3. f[i] \in TreeFile
        BY <1>3, ElementOfSeq
    <3>4. QED BY <1>5, <3>1, <3>2, <3>3 DEF TreeFile
  <2>3. QED BY <2>1, <2>2
<1>7. \A i, j \in 1..n + 2 : i # j => f[i].rel # f[j].rel
    BY <1>3 DEF R!prepareTree, R!Distinct
<1>8. QED BY <1>1, <1>3, <1>6, <1>7

(* The ancestors of an ancestor are ancestors, and shorter. *)
LEMMA AncestorsOfAncestors ==
    ASSUME NEW S, NEW rel \in Seq(S), NEW d \in R!Ancestors(rel), NEW e \in R!Ancestors(d)
    PROVE  e \in R!Ancestors(rel) /\ Len(e) < Len(d) /\ Len(e) \in Nat /\ Len(d) \in Nat
<1>1. PICK n : n = Len(rel) /\ n \in Nat /\ \A i \in 1..n : rel[i] \in S
    BY LenProperties
<1>2. PICK k \in 1..n - 1 : d = SubSeq(rel, 1, k)
    BY <1>1 DEF R!Ancestors
<1>3. d \in Seq(S) /\ Len(d) = k
  <2>1. \A i \in 1..k : rel[i] \in S
      BY <1>1
  <2>2. k \in Int /\ 1 \in Int /\ 1 <= k /\ k - 1 + 1 = k
      BY <1>1
  <2>3. QED BY <1>2, <2>1, <2>2, SubSeqProperties
<1>4. PICK m \in 1..k - 1 : e = SubSeq(d, 1, m)
    BY <1>3 DEF R!Ancestors
<1>5. Len(e) = m
  <2>1. \A i \in 1..m : d[i] \in S
      BY <1>1, <1>3, ElementOfSeq
  <2>2. m \in Int /\ 1 \in Int /\ 1 <= m /\ m - 1 + 1 = m
      BY <1>1
  <2>3. QED BY <1>4, <2>1, <2>2, SubSeqProperties
<1>6. e = SubSeq(rel, 1, m)
  <2>1. /\ 1 \in 1..Len(rel) /\ k \in 1..Len(rel) /\ 1 \in 1..k - 1 + 1 /\ m \in 1..k - 1 + 1
        /\ 1 + 1 - 1 = 1 /\ 1 + m - 1 = m
      BY <1>1
  <2>2. SubSeq(SubSeq(rel, 1, k), 1, m) = SubSeq(rel, 1 + 1 - 1, 1 + m - 1)
      BY <2>1, SubSeqOfSubSeq
  <2>3. QED BY <1>2, <1>4, <2>1, <2>2
<1>7. m \in 1..n - 1 /\ m < k /\ m \in Nat /\ k \in Nat
    BY <1>1
<1>8. QED BY <1>1, <1>3, <1>5, <1>6, <1>7 DEF R!Ancestors

-----------------------------------------------------------------------------
(* The invariant of the writer, step by step.                               *)

Opened == {"disk", "workspace", "asset", "file"}

(* What is staged is a sequence of files with sizes. *)
LEMMA FilesAreStaged ==
    ASSUME R!RescueInv
    PROVE  /\ files \in Seq(TreeFile) /\ DOMAIN files = 1..Len(files) /\ Len(files) \in Nat
           /\ \A i \in 1..Len(files) : files[i].size \in Nat
<1>1. CASE files = <<>>
    BY <1>1
<1>2. CASE files # <<>>
  <2>1. input \in R!Input /\ R!prepareTree(input) /\ files = R!Tree(input)
      BY <1>2 DEF R!RescueInv, R!TypeOK, R!TreeIsPrepared
  <2>2. QED BY <2>1, PreparedTree
<1>3. QED BY <1>1, <1>2

LEMMA WriterStarts ==
    ASSUME R!Init
    PROVE  R!RescueInv
<1>1. /\ mediaPc = "check" /\ typ \in {"iso", "raw"} /\ input \in Inputs
      /\ files = <<>> /\ temp = "placeholder" /\ layout = {} /\ dirs = {} /\ written = <<>>
      /\ cur = 1 /\ opens = <<>> /\ held = {} /\ ctxDone = FALSE /\ result = "none"
    BY DEF R!Init
<1>2. input \in R!Input
    BY <1>1, OfflineMediaAssumption DEF R!RescueAssumption
<1>3. DOMAIN files = {} /\ Len(files) = 0
    BY <1>1
<1>4. R!TypeOK
  <2>1. cur \in 1..Len(files) + 1
      BY <1>1, <1>3
  <2>2. QED BY <1>1, <1>2, <2>1, Zenon DEF R!TypeOK
<1>5. R!TreeIsPrepared
    BY <1>1 DEF R!TreeIsPrepared, R!Building
<1>6. R!OneAtATime
    BY <1>1, <1>3 DEF R!OneAtATime, R!Staging
<1>7. R!DirsBeforeFiles
    BY <1>1, <1>3 DEF R!DirsBeforeFiles, R!Staging
<1>8. R!LayoutIsComputed
    BY <1>1 DEF R!LayoutIsComputed
<1>9. QED BY <1>1, <1>4, <1>5, <1>6, <1>7, <1>8 DEF R!RescueInv

(* A step that fails leaves the image as it is. *)
LEMMA WriterFails ==
    ASSUME R!RescueInv, R!Fail, held' \subseteq Opened,
           UNCHANGED <<typ, input, ctxDone, files, temp, layout, dirs, written, cur, opens>>
    PROVE  R!RescueInv'
<1>1. mediaPc' = "unwind" /\ result' = "output"
    BY DEF R!Fail
<1>2. R!AllDirs' = R!AllDirs
    BY DEF R!AllDirs
<1>3. R!TypeOK'
    BY <1>1, <1>2 DEF R!RescueInv, R!TypeOK, Opened
<1>4. R!TreeIsPrepared'
    BY <1>1 DEF R!RescueInv, R!TreeIsPrepared, R!Building
<1>5. R!OneAtATime'
    BY <1>1 DEF R!RescueInv, R!OneAtATime, R!Staging
<1>6. R!DirsBeforeFiles'
    BY <1>1, <1>2 DEF R!RescueInv, R!DirsBeforeFiles, R!Staging
<1>7. R!LayoutIsComputed'
    BY DEF R!RescueInv, R!LayoutIsComputed
<1>8. QED BY <1>1, <1>3, <1>4, <1>5, <1>6, <1>7 DEF R!RescueInv

LEMMA CheckKeeps ==
    ASSUME R!RescueInv, R!check
    PROVE  R!RescueInv'
<1>1. CASE ~ (~ctxDone /\ R!prepareTree(input))
  <2>1. /\ R!Fail /\ held' = held
        /\ UNCHANGED <<typ, input, ctxDone, files, temp, layout, dirs, written, cur, opens>>
      BY <1>1 DEF R!check, R!given, R!image
  <2>2. held' \subseteq Opened
      BY <2>1 DEF R!RescueInv, R!TypeOK, Opened
  <2>3. QED BY <2>1, <2>2, WriterFails
<1>2. CASE ~ctxDone /\ R!prepareTree(input)
  <2>1. /\ mediaPc = "check" /\ mediaPc' = "replace" /\ files' = R!Tree(input)
        /\ written' = [i \in DOMAIN R!Tree(input) |-> -1]
        /\ opens' = [i \in DOMAIN R!Tree(input) |-> 0]
        /\ UNCHANGED <<typ, input, ctxDone, temp, layout, dirs, cur, held, result>>
      BY <1>2 DEF R!check, R!Go, R!given, R!image
  <2>2. /\ input \in R!Input /\ files = <<>> /\ dirs \subseteq R!AllDirs
        /\ temp = "placeholder" /\ cur = 1 /\ result # "ok"
      BY <2>1 DEF R!RescueInv, R!TypeOK, R!TreeIsPrepared, R!OneAtATime, R!Staging
  <2>3. dirs = {}
    <3>1. DOMAIN files = {}
        BY <2>2
    <3>2. R!AllDirs = {}
        BY <3>1 DEF R!AllDirs
    <3>3. QED BY <2>2, <3>2
  <2>4. /\ files' \in Seq(TreeFile) /\ DOMAIN files' = 1..Len(files') /\ Len(files') \in Nat
        /\ Len(files') = Len(input.assets) + 2
      BY <1>2, <2>1, <2>2, PreparedTree
  <2>5. Len(input.assets) \in Nat
      BY <2>2 DEF R!Input
  <2>6. files' # <<>> /\ cur \in 1..Len(files') + 1
      BY <2>2, <2>4, <2>5
  <2>7. DOMAIN written' = DOMAIN files' /\ DOMAIN opens' = DOMAIN files'
      BY <2>1
  <2>8. R!TypeOK'
      BY <2>1, <2>2, <2>3, <2>6, <2>7 DEF R!RescueInv, R!TypeOK
  <2>9. R!TreeIsPrepared'
      BY <1>2, <2>1, <2>2, <2>6 DEF R!TreeIsPrepared, R!Building
  <2>10. /\ written' \in [DOMAIN files' -> Int] /\ opens' \in [DOMAIN files' -> {0, 1}]
         /\ \A i \in DOMAIN files' : written'[i] = -1 /\ opens'[i] = 0 /\ ~ (i < 1)
    <3>1. \A i \in DOMAIN files' : ~ (i < 1)
        BY <2>4
    <3>2. QED BY <2>1, <3>1
  <2>11. R!OneAtATime'
      BY <2>1, <2>2, <2>10 DEF R!OneAtATime, R!Staging
  <2>12. R!DirsBeforeFiles'
      BY <2>1, <2>3, <2>10 DEF R!DirsBeforeFiles, R!Staging
  <2>13. R!LayoutIsComputed'
      BY <2>1 DEF R!RescueInv, R!LayoutIsComputed
  <2>14. QED BY <2>1, <2>8, <2>9, <2>11, <2>12, <2>13 DEF R!RescueInv
<1>3. QED BY <1>1, <1>2

LEMMA ReplaceFileKeeps ==
    ASSUME R!RescueInv, R!replaceFile
    PROVE  R!RescueInv'
<1>1. /\ mediaPc = "replace"
      /\ UNCHANGED <<typ, input, ctxDone, files, layout, dirs, written, cur, opens, held>>
    BY DEF R!replaceFile, R!given, R!tree
<1>2. CASE R!Fail /\ UNCHANGED temp
  <2>1. held' \subseteq Opened
      BY <1>1 DEF R!RescueInv, R!TypeOK, Opened
  <2>2. QED BY <1>1, <1>2, <2>1, WriterFails
<1>3. CASE R!Go("create") /\ temp' = "none"
  <2>1. mediaPc' = "create" /\ result' = result /\ temp' = "none"
      BY <1>3 DEF R!Go
  <2>2. R!AllDirs' = R!AllDirs
      BY <1>1 DEF R!AllDirs
  <2>3. R!TypeOK'
      BY <1>1, <2>1, <2>2 DEF R!RescueInv, R!TypeOK
  <2>4. files # <<>> /\ result # "ok"
      BY <1>1 DEF R!RescueInv, R!TreeIsPrepared, R!OneAtATime
  <2>5. R!TreeIsPrepared'
      BY <1>1, <2>1, <2>4 DEF R!RescueInv, R!TreeIsPrepared, R!Building
  <2>6. R!OneAtATime'
      BY <1>1, <2>1, <2>4 DEF R!RescueInv, R!OneAtATime, R!Staging
  <2>7. R!DirsBeforeFiles'
      BY <1>1, <2>1, <2>2 DEF R!RescueInv, R!DirsBeforeFiles, R!Staging
  <2>8. R!LayoutIsComputed'
      BY <1>1 DEF R!RescueInv, R!LayoutIsComputed
  <2>9. QED BY <2>1, <2>3, <2>5, <2>6, <2>7, <2>8 DEF R!RescueInv
<1>4. QED BY <1>2, <1>3 DEF R!replaceFile

LEMMA CreateKeeps ==
    ASSUME R!RescueInv, R!Create
    PROVE  R!RescueInv'
<1>1. /\ mediaPc = "create"
      /\ UNCHANGED <<typ, input, ctxDone, files, dirs, written, cur, opens>>
    BY DEF R!Create, R!given, R!tree
<1>2. CASE R!Fail /\ UNCHANGED <<R!image, held>>
  <2>1. held' \subseteq Opened /\ UNCHANGED <<temp, layout>>
      BY <1>2 DEF R!RescueInv, R!TypeOK, Opened, R!image
  <2>2. QED BY <1>1, <1>2, <2>1, WriterFails
<1>3. CASE ~ (R!Fail /\ UNCHANGED <<R!image, held>>)
  <2>1. /\ temp' = "media" /\ held' = {"disk"} /\ mediaPc' = "filesystem" /\ result' = result
        /\ \E content \in Sizes :
              layout' = {[content |-> content, raw |-> R!rawSizesFor(content),
                          iso |-> R!isoBackingSize(content)]}
      BY <1>3 DEF R!Create, R!Go
  <2>2. R!AllDirs' = R!AllDirs
      BY <1>1 DEF R!AllDirs
  <2>3. R!TypeOK'
      BY <1>1, <2>1, <2>2 DEF R!RescueInv, R!TypeOK
  <2>4. files # <<>> /\ result # "ok"
      BY <1>1 DEF R!RescueInv, R!TreeIsPrepared, R!OneAtATime
  <2>5. R!TreeIsPrepared'
      BY <1>1, <2>1, <2>4 DEF R!RescueInv, R!TreeIsPrepared, R!Building
  <2>6. R!OneAtATime'
      BY <1>1, <2>1, <2>4 DEF R!RescueInv, R!OneAtATime, R!Staging
  <2>7. R!DirsBeforeFiles'
      BY <1>1, <2>1, <2>2 DEF R!RescueInv, R!DirsBeforeFiles, R!Staging
  <2>8. R!LayoutIsComputed'
      BY <2>1 DEF R!LayoutIsComputed
  <2>9. QED BY <2>1, <2>3, <2>5, <2>6, <2>7, <2>8 DEF R!RescueInv
<1>4. QED BY <1>2, <1>3 DEF R!Create

LEMMA CreateFilesystemKeeps ==
    ASSUME R!RescueInv, R!CreateFilesystem
    PROVE  R!RescueInv'
<1>1. /\ mediaPc = "filesystem"
      /\ UNCHANGED <<typ, input, ctxDone, files, temp, layout, dirs, written, cur, opens>>
    BY DEF R!CreateFilesystem, R!given, R!image, R!tree
<1>2. CASE R!Fail /\ UNCHANGED held
  <2>1. held' \subseteq Opened
      BY <1>2 DEF R!RescueInv, R!TypeOK, Opened
  <2>2. QED BY <1>1, <1>2, <2>1, WriterFails
<1>3. CASE /\ held' = held \cup (IF typ = "iso" THEN {"workspace"} ELSE {})
           /\ R!Go("mkdir")
  <2>1. mediaPc' = "mkdir" /\ result' = result
      BY <1>3 DEF R!Go
  <2>2. R!AllDirs' = R!AllDirs
      BY <1>1 DEF R!AllDirs
  <2>3. R!TypeOK'
      BY <1>1, <1>3, <2>1, <2>2 DEF R!RescueInv, R!TypeOK
  <2>4. files # <<>> /\ result # "ok" /\ temp = "media"
      BY <1>1 DEF R!RescueInv, R!TreeIsPrepared, R!OneAtATime, R!Building
  <2>5. R!TreeIsPrepared'
      BY <1>1, <2>1, <2>4 DEF R!RescueInv, R!TreeIsPrepared, R!Building
  <2>6. R!OneAtATime'
      BY <1>1, <2>1, <2>4 DEF R!RescueInv, R!OneAtATime, R!Staging
  <2>7. R!DirsBeforeFiles'
      BY <1>1, <2>1, <2>2 DEF R!RescueInv, R!DirsBeforeFiles, R!Staging
  <2>8. R!LayoutIsComputed'
      BY <1>1 DEF R!RescueInv, R!LayoutIsComputed
  <2>9. QED BY <2>1, <2>3, <2>5, <2>6, <2>7, <2>8 DEF R!RescueInv
<1>4. QED BY <1>2, <1>3 DEF R!CreateFilesystem

LEMMA MkdirKeeps ==
    ASSUME R!RescueInv, R!mkdirParents
    PROVE  R!RescueInv'
<1>1. /\ mediaPc = "mkdir"
      /\ UNCHANGED <<typ, input, ctxDone, files, temp, layout, written, cur, opens, held>>
    BY DEF R!mkdirParents, R!given, R!image
<1>2. R!AllDirs' = R!AllDirs
    BY <1>1 DEF R!AllDirs
<1>3. /\ files # <<>> /\ result # "ok" /\ temp = "media" /\ dirs \subseteq R!AllDirs
      /\ held \subseteq Opened
      /\ \A i \in DOMAIN files : ~ (written[i] >= 0)
    BY <1>1 DEF R!RescueInv, R!TypeOK, R!TreeIsPrepared, R!OneAtATime, R!Building, R!Staging,
                Opened
<1>4. CASE R!Fail /\ UNCHANGED dirs
    BY <1>1, <1>3, <1>4, WriterFails
<1>5. CASE R!AllDirs = dirs /\ R!Go("file") /\ UNCHANGED dirs
  <2>1. mediaPc' = "file" /\ result' = result
      BY <1>5 DEF R!Go
  <2>2. R!TypeOK'
      BY <1>1, <1>2, <1>5, <2>1 DEF R!RescueInv, R!TypeOK
  <2>3. R!TreeIsPrepared'
      BY <1>1, <1>3, <2>1 DEF R!RescueInv, R!TreeIsPrepared, R!Building
  <2>4. R!OneAtATime'
      BY <1>1, <1>3, <2>1 DEF R!RescueInv, R!OneAtATime, R!Staging
  <2>5. R!DirsBeforeFiles'
      BY <1>1, <1>2, <1>5 DEF R!RescueInv, R!DirsBeforeFiles
  <2>6. R!LayoutIsComputed'
      BY <1>1 DEF R!RescueInv, R!LayoutIsComputed
  <2>7. QED BY <2>1, <2>2, <2>3, <2>4, <2>5, <2>6 DEF R!RescueInv
<1>6. ASSUME NEW d \in R!Shallowest(R!AllDirs \ dirs), dirs' = dirs \cup {d},
             UNCHANGED <<mediaPc, result>>
      PROVE  R!RescueInv'
  <2>1. d \in R!AllDirs \ dirs /\ \A e \in R!AllDirs \ dirs : Len(d) <= Len(e)
      BY <1>6 DEF R!Shallowest
  <2>2. PICK i \in DOMAIN files : d \in R!Ancestors(files[i].rel)
      BY <2>1 DEF R!AllDirs
  <2>3. files[i].rel \in Seq(R!Names)
    <3>1. files[i] \in TreeFile
        BY <2>2, FilesAreStaged, ElementOfSeq
    <3>2. QED BY <3>1 DEF TreeFile
  <2>4. ASSUME NEW e \in R!Ancestors(d) PROVE e \in dirs
    <3>1. e \in R!Ancestors(files[i].rel) /\ Len(e) < Len(d) /\ Len(e) \in Nat /\ Len(d) \in Nat
        BY <2>2, <2>3, AncestorsOfAncestors
    <3>2. e \in R!AllDirs
        BY <2>2, <3>1 DEF R!AllDirs
    <3>3. ~ (Len(d) <= Len(e))
        BY <3>1
    <3>4. QED BY <2>1, <3>2, <3>3
  <2>5. dirs' \subseteq R!AllDirs
      BY <1>3, <1>6, <2>1
  <2>6. R!TypeOK'
      BY <1>1, <1>2, <1>6, <2>5 DEF R!RescueInv, R!TypeOK
  <2>7. R!TreeIsPrepared'
      BY <1>1, <1>6 DEF R!RescueInv, R!TreeIsPrepared, R!Building
  <2>8. R!OneAtATime'
      BY <1>1, <1>6 DEF R!RescueInv, R!OneAtATime, R!Staging
  <2>9. \A e \in dirs' : R!Ancestors(e) \subseteq dirs'
      BY <1>6, <2>4 DEF R!RescueInv, R!DirsBeforeFiles
  <2>10. R!DirsBeforeFiles'
      BY <1>1, <1>3, <1>6, <2>9 DEF R!DirsBeforeFiles, R!Staging
  <2>11. R!LayoutIsComputed'
      BY <1>1 DEF R!RescueInv, R!LayoutIsComputed
  <2>12. QED BY <1>1, <1>6, <2>6, <2>7, <2>8, <2>10, <2>11 DEF R!RescueInv
<1>7. QED BY <1>4, <1>5, <1>6 DEF R!mkdirParents

LEMMA StageFileKeeps ==
    ASSUME R!RescueInv, R!stageFile
    PROVE  R!RescueInv'
<1>1. /\ mediaPc = "file" /\ cur <= Len(files)
      /\ UNCHANGED <<typ, input, ctxDone, files, temp, layout, dirs, cur>>
    BY DEF R!stageFile, R!given, R!image
<1>2. R!AllDirs' = R!AllDirs
    BY <1>1 DEF R!AllDirs
<1>3. /\ files # <<>> /\ result # "ok" /\ temp = "media" /\ dirs = R!AllDirs
      /\ held \subseteq Opened
    BY <1>1 DEF R!RescueInv, R!TypeOK, R!TreeIsPrepared, R!OneAtATime, R!DirsBeforeFiles,
                R!Building, R!Staging, Opened
<1>4. cur \in DOMAIN files /\ DOMAIN files = 1..Len(files) /\ Len(files) \in Nat
  <2>1. cur \in 1..Len(files) + 1
      BY DEF R!RescueInv, R!TypeOK
  <2>2. QED BY <1>1, <2>1, FilesAreStaged
<1>5. /\ written \in [DOMAIN files -> Int] /\ opens \in [DOMAIN files -> {0, 1}]
      /\ opens[cur] = 0
    BY <1>1, <1>4 DEF R!RescueInv, R!OneAtATime
<1>6. CASE R!Fail /\ UNCHANGED <<opens, written, held>>
    BY <1>1, <1>3, <1>6, WriterFails
<1>7. CASE /\ R!Fail /\ opens' = [opens EXCEPT ![cur] = @ + 1]
           /\ UNCHANGED <<written, held>>
  <2>1. mediaPc' = "unwind" /\ result' = "output"
      BY <1>7 DEF R!Fail
  <2>2. opens' \in [DOMAIN files -> {0, 1}] /\ \A i \in DOMAIN files : i > cur => opens'[i] = opens[i]
      BY <1>4, <1>5, <1>7
  <2>3. R!TypeOK'
      BY <1>1, <1>2, <1>7, <2>1, <2>2 DEF R!RescueInv, R!TypeOK
  <2>4. R!TreeIsPrepared'
      BY <1>1, <1>3, <2>1 DEF R!RescueInv, R!TreeIsPrepared, R!Building
  <2>5. R!OneAtATime'
      BY <1>1, <1>7, <2>1, <2>2 DEF R!RescueInv, R!OneAtATime, R!Staging
  <2>6. R!DirsBeforeFiles'
      BY <1>1, <1>2, <1>3, <1>7 DEF R!RescueInv, R!DirsBeforeFiles
  <2>7. R!LayoutIsComputed'
      BY <1>1 DEF R!RescueInv, R!LayoutIsComputed
  <2>8. QED BY <2>1, <2>3, <2>4, <2>5, <2>6, <2>7 DEF R!RescueInv
<1>8. CASE /\ opens' = IF files[cur].asset THEN [opens EXCEPT ![cur] = @ + 1] ELSE opens
           /\ written' = [written EXCEPT ![cur] = 0]
           /\ held' = held \cup {"file"} \cup (IF files[cur].asset THEN {"asset"} ELSE {})
           /\ R!Go("copy")
  <2>1. mediaPc' = "copy" /\ result' = result
      BY <1>8 DEF R!Go
  <2>2. /\ opens' \in [DOMAIN files -> {0, 1}]
        /\ \A i \in DOMAIN files : i > cur => opens'[i] = opens[i]
      BY <1>4, <1>5, <1>8
  <2>3. /\ written' \in [DOMAIN files -> Int] /\ written'[cur] = 0
        /\ \A i \in DOMAIN files : i # cur => written'[i] = written[i]
      BY <1>4, <1>5, <1>8
  <2>4. held' \subseteq Opened
      BY <1>3, <1>8 DEF Opened
  <2>5. DOMAIN written' = DOMAIN files' /\ DOMAIN opens' = DOMAIN files'
      BY <1>1, <2>2, <2>3
  <2>6. R!TypeOK'
      BY <1>1, <1>2, <2>1, <2>4, <2>5 DEF R!RescueInv, R!TypeOK, Opened
  <2>7. R!TreeIsPrepared'
      BY <1>1, <1>3, <2>1 DEF R!RescueInv, R!TreeIsPrepared, R!Building
  <2>8. ASSUME NEW i \in DOMAIN files
        PROVE  /\ i < cur => written'[i] = files[i].size
               /\ i > cur => written'[i] = -1 /\ opens'[i] = 0
               /\ i = cur => written'[i] >= 0
    <3>1. /\ i < cur => written[i] = files[i].size
          /\ i > cur => written[i] = -1 /\ opens[i] = 0
        BY DEF R!RescueInv, R!OneAtATime
    <3>2. (i < cur => i # cur) /\ (i > cur => i # cur)
        BY <1>4
    <3>3. QED BY <2>2, <2>3, <3>1, <3>2
  <2>9. R!OneAtATime'
      BY <1>1, <1>3, <2>1, <2>2, <2>3, <2>8 DEF R!OneAtATime, R!Staging
  <2>10. R!DirsBeforeFiles'
      BY <1>1, <1>2, <1>3 DEF R!RescueInv, R!DirsBeforeFiles
  <2>11. R!LayoutIsComputed'
      BY <1>1 DEF R!RescueInv, R!LayoutIsComputed
  <2>12. QED BY <2>1, <2>6, <2>7, <2>9, <2>10, <2>11 DEF R!RescueInv
<1>9. QED BY <1>6, <1>7, <1>8 DEF R!stageFile

LEMMA StreamCopyKeeps ==
    ASSUME R!RescueInv, R!streamCopy
    PROVE  R!RescueInv'
<1>1. /\ mediaPc = "copy"
      /\ UNCHANGED <<typ, input, ctxDone, files, temp, layout, dirs, opens>>
    BY DEF R!streamCopy, R!given, R!image
<1>2. PICK n \in 0..Buffer :
         /\ written' = [written EXCEPT ![cur] = @ + n]
         /\ \/ UNCHANGED <<mediaPc, result, cur, held>>
            \/ R!Closed /\ R!Exact(written[cur] + n) /\ R!Go("file") /\ cur' = cur + 1
            \/ R!Closed /\ R!Fail /\ UNCHANGED cur
    BY DEF R!streamCopy
<1>3. R!AllDirs' = R!AllDirs
    BY <1>1 DEF R!AllDirs
<1>4. /\ files # <<>> /\ result # "ok" /\ temp = "media" /\ dirs = R!AllDirs
      /\ held \subseteq Opened
    BY <1>1 DEF R!RescueInv, R!TypeOK, R!TreeIsPrepared, R!OneAtATime, R!DirsBeforeFiles,
                R!Building, R!Staging, Opened
<1>5. cur \in DOMAIN files /\ DOMAIN files = 1..Len(files) /\ Len(files) \in Nat
  <2>1. cur \in 1..Len(files) + 1 /\ cur <= Len(files)
      BY <1>1 DEF R!RescueInv, R!TypeOK, R!OneAtATime
  <2>2. QED BY <2>1, FilesAreStaged
<1>6. /\ written \in [DOMAIN files -> Int] /\ opens \in [DOMAIN files -> {0, 1}]
      /\ written[cur] >= 0
    BY <1>1, <1>5 DEF R!RescueInv, R!OneAtATime
<1>7. n \in Nat
  <2>1. Buffer \in Nat
      BY OfflineMediaAssumption DEF R!RescueAssumption
  <2>2. QED BY <1>2, <2>1
<1>8. /\ written' \in [DOMAIN files -> Int] /\ written'[cur] = written[cur] + n
      /\ \A i \in DOMAIN files : i # cur => written'[i] = written[i]
    BY <1>2, <1>5, <1>6, <1>7
<1>9. held' \subseteq Opened
    BY <1>2, <1>4 DEF R!Closed
<1>10. DOMAIN written' = DOMAIN files' /\ DOMAIN opens' = DOMAIN files'
    BY <1>1, <1>6, <1>8
<1>11. \A i \in DOMAIN files :
          /\ i < cur => written'[i] = files[i].size
          /\ i > cur => written'[i] = -1 /\ opens[i] = 0
  <2>1. ASSUME NEW i \in DOMAIN files
        PROVE  /\ i < cur => written'[i] = files[i].size
               /\ i > cur => written'[i] = -1 /\ opens[i] = 0
    <3>1. /\ i < cur => written[i] = files[i].size
          /\ i > cur => written[i] = -1 /\ opens[i] = 0
        BY DEF R!RescueInv, R!OneAtATime
    <3>2. (i < cur => i # cur) /\ (i > cur => i # cur)
        BY <1>5
    <3>3. QED BY <1>8, <3>1, <3>2
  <2>2. QED BY <2>1
<1>12. R!DirsBeforeFiles'
    BY <1>1, <1>3, <1>4 DEF R!RescueInv, R!DirsBeforeFiles
<1>13. R!LayoutIsComputed'
    BY <1>1 DEF R!RescueInv, R!LayoutIsComputed
<1>14. CASE UNCHANGED <<mediaPc, result, cur, held>>
  <2>1. R!TypeOK'
      BY <1>1, <1>3, <1>10, <1>14 DEF R!RescueInv, R!TypeOK
  <2>2. R!TreeIsPrepared'
      BY <1>1, <1>4, <1>14 DEF R!RescueInv, R!TreeIsPrepared, R!Building
  <2>3. written'[cur] >= 0
      BY <1>5, <1>6, <1>7, <1>8
  <2>4. cur <= Len(files)
      BY <1>1 DEF R!RescueInv, R!OneAtATime
  <2>5. R!OneAtATime'
      BY <1>1, <1>4, <1>6, <1>8, <1>11, <1>14, <2>3, <2>4 DEF R!OneAtATime, R!Staging
  <2>6. QED BY <1>1, <1>12, <1>13, <1>14, <2>1, <2>2, <2>5 DEF R!RescueInv
<1>15. CASE R!Exact(written[cur] + n) /\ R!Go("file") /\ cur' = cur + 1
  <2>1. mediaPc' = "file" /\ result' = result /\ written'[cur] = files[cur].size
      BY <1>8, <1>15 DEF R!Go, R!Exact
  <2>2. cur' \in 1..Len(files) + 1
      BY <1>5, <1>15
  <2>3. R!TypeOK'
      BY <1>1, <1>3, <1>9, <1>10, <2>1, <2>2 DEF R!RescueInv, R!TypeOK, Opened
  <2>4. R!TreeIsPrepared'
      BY <1>1, <1>4, <2>1 DEF R!RescueInv, R!TreeIsPrepared, R!Building
  <2>5. ASSUME NEW i \in DOMAIN files
        PROVE  /\ i < cur' => written'[i] = files[i].size
               /\ i >= cur' => written'[i] = -1 /\ opens[i] = 0
    <3>1. i < cur' => i < cur \/ i = cur
        BY <1>5, <1>15
    <3>2. i >= cur' => i > cur
        BY <1>5, <1>15
    <3>3. QED BY <1>11, <2>1, <3>1, <3>2
  <2>6. \A i \in DOMAIN files : (i > cur' => i >= cur') /\ (i = cur' => i >= cur')
      BY <1>5, <2>2
  <2>7. R!OneAtATime'
      BY <1>1, <1>4, <1>6, <1>8, <2>1, <2>5, <2>6 DEF R!OneAtATime, R!Staging
  <2>8. QED BY <1>12, <1>13, <2>1, <2>3, <2>4, <2>7 DEF R!RescueInv
<1>16. CASE R!Fail /\ UNCHANGED cur
  <2>1. mediaPc' = "unwind" /\ result' = "output"
      BY <1>16 DEF R!Fail
  <2>2. R!TypeOK'
      BY <1>1, <1>3, <1>9, <1>10, <1>16, <2>1 DEF R!RescueInv, R!TypeOK, Opened
  <2>3. R!TreeIsPrepared'
      BY <1>1, <1>4, <2>1 DEF R!RescueInv, R!TreeIsPrepared, R!Building
  <2>4. R!OneAtATime'
      BY <1>1, <1>6, <1>8, <1>11, <1>16, <2>1 DEF R!OneAtATime, R!Staging
  <2>5. QED BY <1>12, <1>13, <2>1, <2>2, <2>3, <2>4 DEF R!RescueInv
<1>17. QED BY <1>2, <1>14, <1>15, <1>16

LEMMA StagedKeeps ==
    ASSUME R!RescueInv, R!Staged
    PROVE  R!RescueInv'
<1>1. /\ mediaPc = "file" /\ cur > Len(files)
      /\ UNCHANGED <<typ, input, ctxDone, files, temp, layout, dirs, written, cur, opens, held>>
      /\ \/ mediaPc' = "finalize" /\ result' = result
         \/ mediaPc' = "unwind" /\ result' = "ok"
    BY DEF R!Staged, R!Go, R!given, R!image, R!tree
<1>2. R!AllDirs' = R!AllDirs
    BY <1>1 DEF R!AllDirs
<1>3. files # <<>> /\ result # "ok" /\ temp = "media" /\ dirs = R!AllDirs
    BY <1>1 DEF R!RescueInv, R!TreeIsPrepared, R!OneAtATime, R!DirsBeforeFiles, R!Building,
                R!Staging
<1>4. cur = Len(files) + 1
  <2>1. cur \in 1..Len(files) + 1
      BY DEF R!RescueInv, R!TypeOK
  <2>2. QED BY <1>1, <2>1, FilesAreStaged
<1>5. R!TypeOK'
    BY <1>1, <1>2 DEF R!RescueInv, R!TypeOK
<1>6. R!TreeIsPrepared'
    BY <1>1, <1>3 DEF R!RescueInv, R!TreeIsPrepared, R!Building
<1>7. R!OneAtATime'
    BY <1>1, <1>3, <1>4 DEF R!RescueInv, R!OneAtATime, R!Staging
<1>8. R!DirsBeforeFiles'
    BY <1>1, <1>2, <1>3 DEF R!RescueInv, R!DirsBeforeFiles
<1>9. R!LayoutIsComputed'
    BY <1>1 DEF R!RescueInv, R!LayoutIsComputed
<1>10. QED BY <1>1, <1>5, <1>6, <1>7, <1>8, <1>9 DEF R!RescueInv

LEMMA FinalizeKeeps ==
    ASSUME R!RescueInv, R!Finalize
    PROVE  R!RescueInv'
<1>1. /\ mediaPc = "finalize"
      /\ UNCHANGED <<typ, input, ctxDone, files, temp, layout, dirs, written, cur, opens>>
    BY DEF R!Finalize, R!given, R!image, R!tree
<1>2. held \subseteq Opened
    BY DEF R!RescueInv, R!TypeOK, Opened
<1>3. CASE R!Fail /\ \E closed \in {{}, {"workspace"}} : held' = held \ closed
  <2>1. held' \subseteq Opened
      BY <1>2, <1>3
  <2>2. QED BY <1>1, <1>3, <2>1, WriterFails
<1>4. CASE held' = {} /\ R!Go("truncate")
  <2>1. mediaPc' = "truncate" /\ result' = result
      BY <1>4 DEF R!Go
  <2>2. R!AllDirs' = R!AllDirs
      BY <1>1 DEF R!AllDirs
  <2>3. files # <<>> /\ result # "ok" /\ temp = "media" /\ dirs = R!AllDirs
      BY <1>1 DEF R!RescueInv, R!TreeIsPrepared, R!OneAtATime, R!DirsBeforeFiles, R!Building,
                  R!Staging
  <2>4. R!TypeOK'
      BY <1>1, <1>4, <2>1, <2>2 DEF R!RescueInv, R!TypeOK
  <2>5. R!TreeIsPrepared'
      BY <1>1, <2>1, <2>3 DEF R!RescueInv, R!TreeIsPrepared, R!Building
  <2>6. R!OneAtATime'
      BY <1>1, <2>1, <2>3 DEF R!RescueInv, R!OneAtATime, R!Staging
  <2>7. R!DirsBeforeFiles'
      BY <1>1, <2>2, <2>3 DEF R!RescueInv, R!DirsBeforeFiles
  <2>8. R!LayoutIsComputed'
      BY <1>1 DEF R!RescueInv, R!LayoutIsComputed
  <2>9. QED BY <2>1, <2>4, <2>5, <2>6, <2>7, <2>8 DEF R!RescueInv
<1>5. QED BY <1>3, <1>4 DEF R!Finalize

LEMMA TruncateKeeps ==
    ASSUME R!RescueInv, R!truncateToPVD
    PROVE  R!RescueInv'
<1>1. /\ mediaPc = "truncate"
      /\ UNCHANGED <<typ, input, ctxDone, files, temp, layout, dirs, written, cur, opens, held>>
    BY DEF R!truncateToPVD, R!given, R!image, R!tree
<1>2. CASE R!Fail
  <2>1. held' \subseteq Opened
      BY <1>1 DEF R!RescueInv, R!TypeOK, Opened
  <2>2. QED BY <1>1, <1>2, <2>1, WriterFails
<1>3. CASE mediaPc' = "unwind" /\ result' = "ok"
  <2>1. R!AllDirs' = R!AllDirs
      BY <1>1 DEF R!AllDirs
  <2>2. files # <<>> /\ temp = "media" /\ cur = Len(files) + 1
      BY <1>1 DEF R!RescueInv, R!TreeIsPrepared, R!OneAtATime, R!Building
  <2>3. R!TypeOK'
      BY <1>1, <1>3, <2>1 DEF R!RescueInv, R!TypeOK
  <2>4. R!TreeIsPrepared'
      BY <1>1, <1>3, <2>2 DEF R!RescueInv, R!TreeIsPrepared, R!Building
  <2>5. R!OneAtATime'
      BY <1>1, <1>3, <2>2 DEF R!RescueInv, R!OneAtATime, R!Staging
  <2>6. R!DirsBeforeFiles'
      BY <1>1, <1>3, <2>1 DEF R!RescueInv, R!DirsBeforeFiles, R!Staging
  <2>7. R!LayoutIsComputed'
      BY <1>1 DEF R!RescueInv, R!LayoutIsComputed
  <2>8. QED BY <1>3, <2>3, <2>4, <2>5, <2>6, <2>7 DEF R!RescueInv
<1>4. QED BY <1>2, <1>3 DEF R!truncateToPVD

LEMMA UnwindKeeps ==
    ASSUME R!RescueInv, R!Unwind
    PROVE  R!RescueInv'
<1>1. /\ mediaPc = "unwind" /\ mediaPc' = "end" /\ held' = {}
      /\ UNCHANGED <<typ, input, ctxDone, files, temp, layout, dirs, written, cur, opens, result>>
    BY DEF R!Unwind, R!given, R!image, R!tree
<1>2. R!AllDirs' = R!AllDirs
    BY <1>1 DEF R!AllDirs
<1>3. R!TypeOK'
    BY <1>1, <1>2 DEF R!RescueInv, R!TypeOK
<1>4. R!TreeIsPrepared'
    BY <1>1 DEF R!RescueInv, R!TreeIsPrepared, R!Building
<1>5. R!OneAtATime'
    BY <1>1 DEF R!RescueInv, R!OneAtATime, R!Staging
<1>6. R!DirsBeforeFiles'
    BY <1>1, <1>2 DEF R!RescueInv, R!DirsBeforeFiles, R!Staging
<1>7. R!LayoutIsComputed'
    BY <1>1 DEF R!RescueInv, R!LayoutIsComputed
<1>8. QED BY <1>1, <1>3, <1>4, <1>5, <1>6, <1>7 DEF R!RescueInv

(* What happens around the writer: its name is taken, it is cancelled, or nothing. *)
LEMMA OthersKeep ==
    ASSUME R!RescueInv, R!TakeName \/ R!Cancel \/ UNCHANGED R!vars
    PROVE  R!RescueInv'
<1>1. /\ UNCHANGED <<mediaPc, typ, input, files, layout, dirs, written, cur, opens, held, result>>
      /\ temp' = temp \/ (temp = "none" /\ temp' = "foreign")
      /\ ctxDone' = ctxDone \/ ctxDone' = TRUE
    BY DEF R!TakeName, R!Cancel, R!vars, R!given, R!image, R!tree
<1>2. R!AllDirs' = R!AllDirs
    BY <1>1 DEF R!AllDirs
<1>3. R!TypeOK'
    BY <1>1, <1>2 DEF R!RescueInv, R!TypeOK
<1>4. R!TreeIsPrepared'
    BY <1>1 DEF R!RescueInv, R!TreeIsPrepared, R!Building
<1>5. R!OneAtATime'
    BY <1>1 DEF R!RescueInv, R!OneAtATime, R!Staging
<1>6. R!DirsBeforeFiles'
    BY <1>1, <1>2 DEF R!RescueInv, R!DirsBeforeFiles, R!Staging
<1>7. R!LayoutIsComputed'
    BY <1>1 DEF R!RescueInv, R!LayoutIsComputed
<1>8. QED BY <1>1, <1>3, <1>4, <1>5, <1>6, <1>7 DEF R!RescueInv

LEMMA WriterSteps ==
    ASSUME R!RescueInv, R!Next
    PROVE  R!RescueInv'
<1>1. CASE R!check
    BY <1>1, CheckKeeps
<1>2. CASE R!replaceFile
    BY <1>2, ReplaceFileKeeps
<1>3. CASE R!Create
    BY <1>3, CreateKeeps
<1>4. CASE R!CreateFilesystem
    BY <1>4, CreateFilesystemKeeps
<1>5. CASE R!mkdirParents
    BY <1>5, MkdirKeeps
<1>6. CASE R!stageFile
    BY <1>6, StageFileKeeps
<1>7. CASE R!streamCopy
    BY <1>7, StreamCopyKeeps
<1>8. CASE R!Staged
    BY <1>8, StagedKeeps
<1>9. CASE R!Finalize
    BY <1>9, FinalizeKeeps
<1>10. CASE R!truncateToPVD
    BY <1>10, TruncateKeeps
<1>11. CASE R!Unwind
    BY <1>11, UnwindKeeps
<1>12. CASE R!TakeName \/ R!Cancel \/ R!Ended
    BY <1>12, OthersKeep DEF R!Ended
<1>13. QED BY <1>1, <1>2, <1>3, <1>4, <1>5, <1>6, <1>7, <1>8, <1>9, <1>10, <1>11, <1>12
       DEF R!Next, R!WriteRescue

-----------------------------------------------------------------------------
(* What the invariant of the writer says.                                   *)

LEMMA MediaIsSoundFollows ==
    ASSUME R!RescueInv
    PROVE  MediaIsSound
<1>1. /\ files \in Seq(TreeFile) /\ DOMAIN files = 1..Len(files) /\ Len(files) \in Nat
      /\ \A i \in 1..Len(files) : files[i].size \in Nat
    BY FilesAreStaged
<1>2. R!MediaIsComplete
  <2>1. SUFFICES ASSUME result = "ok" PROVE R!MediaIsComplete
      BY DEF R!MediaIsComplete
  <2>2. /\ temp = "media" /\ files # <<>> /\ files = R!Tree(input) /\ R!prepareTree(input)
        /\ input \in R!Input /\ cur = Len(files) + 1
      BY <2>1 DEF R!RescueInv, R!TypeOK, R!TreeIsPrepared, R!OneAtATime
  <2>3. \A i \in DOMAIN files : written[i] = files[i].size
    <3>1. \A i \in DOMAIN files : i < cur
        BY <1>1, <2>2
    <3>2. QED BY <3>1 DEF R!RescueInv, R!OneAtATime
  <2>4. PICK n : n = Len(files) /\ n = Len(input.assets) + 2 /\ n \in Nat
      BY <1>1, <2>2, PreparedTree
  <2>5. \A i, j \in 1..n : i # j => files[i].rel # files[j].rel
      BY <2>2, <2>4, PreparedTree
  <2> DEFINE rels == {files[i].rel : i \in DOMAIN files}
             named == [i \in 1..n |-> files[i].rel]
  <2>6. Cardinality(rels) = n
    <3>1. rels = {files[i].rel : i \in 1..n}
        BY <1>1, <2>4
    <3>2. named \in [1..n -> rels]
        BY <3>1
    <3>3. named \in Bijection(1..n, rels)
      <4>1. \A i, j \in 1..n : named[i] = named[j] => i = j
          BY <2>5
      <4>2. \A r \in rels : \E i \in 1..n : named[i] = r
          BY <3>1
      <4>3. QED BY <3>2, <4>1, <4>2 DEF Bijection, Injection, IsInjective, Surjection
    <3>4. ExistsBijection(1..n, rels)
        BY <3>3 DEF ExistsBijection
    <3>5. IsFiniteSet(1..n) /\ Cardinality(1..n) = n
        BY <2>4, PlacesAreFinite
    <3>6. Cardinality(rels) = Cardinality(1..n)
        BY <3>4, <3>5, FS_Bijection
    <3>7. QED BY <3>5, <3>6
  <2>7. files[2].size > 0
    <3>1. StagedFiles(files, input.assets, input.sjson)
        BY <2>2, TreeStages
    <3>2. files[2].size = input.sjson
        BY <3>1 DEF StagedFiles, R!Document
    <3>3. QED BY <2>2, <3>2 DEF R!prepareTree
  <2>8. R!Cardinality(rels) = Cardinality(rels)
      BY DEF R!Cardinality, Cardinality
  <2>9. QED BY <2>2, <2>3, <2>4, <2>6, <2>7, <2>8 DEF R!MediaIsComplete
<1>3. R!ParentsFirst
  <2>1. \A d \in dirs : R!Ancestors(d) \subseteq dirs
      BY DEF R!RescueInv, R!DirsBeforeFiles
  <2>2. DOMAIN written = DOMAIN files
      BY DEF R!RescueInv, R!TypeOK
  <2>3. ASSUME NEW i \in DOMAIN written, written[i] >= 0
        PROVE  R!Ancestors(files[i].rel) \subseteq dirs
    <3>1. dirs = R!AllDirs
        BY <2>2, <2>3 DEF R!RescueInv, R!DirsBeforeFiles
    <3>2. QED BY <2>2, <3>1 DEF R!AllDirs
  <2>4. QED BY <2>1, <2>3 DEF R!ParentsFirst
<1>4. R!RefusalKeepsPlaceholder
    BY DEF R!RescueInv, R!TreeIsPrepared, R!RefusalKeepsPlaceholder
<1>5. R!NothingHeld
  <2>1. DOMAIN opens = DOMAIN files /\ opens \in [DOMAIN files -> {0, 1}]
      BY DEF R!RescueInv, R!TypeOK, R!OneAtATime
  <2>2. \A i \in DOMAIN opens : opens[i] = 0 \/ opens[i] = 1
      BY <2>1
  <2>3. \A i \in DOMAIN opens : opens[i] <= 1
      BY <2>2
  <2>4. mediaPc = "end" => held = {}
      BY DEF R!RescueInv
  <2>5. QED BY <2>3, <2>4 DEF R!NothingHeld
<1>6. QED BY <1>2, <1>3, <1>4, <1>5 DEF MediaIsSound, R!MediaIsSound, R!RescueInv

\* The sizes of fat.go and iso.go, in sectors: 1 MiB of slack, a floor of 256 MiB, a
\* fiftieth for the tables, 1 MiB on either side; 8 MiB of slack, blocks of 2 KiB.
SizesOfTheCode ==
    /\ FatSlack = 2048 /\ FatFloor = 524288 /\ FatDivisor = 50 /\ Margin = 2048
    /\ IsoSlack = 16384 /\ IsoBlock = 4

(* The partition has room for the content and a cluster for each of a hundred files
   and directories, beside its tables. *)
LEMMA PartitionHasRoom ==
    ASSUME SizesOfTheCode, NEW c \in Nat, NEW raw, raw = R!rawSizesFor(c)
    PROVE  /\ c + 100 * 8 + R!Tables(raw.part) <= raw.part
           /\ raw.part >= FatFloor /\ raw.part + 2 * Margin <= raw.disk
<1>1. PICK bytes, base, part :
         /\ bytes = c + 2048 /\ base = IF bytes > 524288 THEN bytes ELSE 524288
         /\ part = base + base \div 50
    OBVIOUS
<1>2. raw = [part |-> part, disk |-> part + 2 * 2048]
    BY <1>1 DEF SizesOfTheCode, R!rawSizesFor
<1>3. raw.part = part /\ raw.disk = part + 2 * 2048
    BY <1>2
<1>4. bytes \in Nat /\ base \in Nat /\ base >= c + 2048 /\ base >= 524288
    BY <1>1
<1>5. part \in Nat /\ 50 * (part - base) <= base /\ base < 50 * (part - base) + 50
    BY <1>1, <1>4
<1>6. PICK eighths, tables :
         /\ eighths = part \div 8 /\ tables = (eighths + 128) \div 128
         /\ eighths \in Nat /\ 8 * eighths <= part
         /\ tables \in Nat /\ 128 * tables <= eighths + 128
    BY <1>5
<1>7. R!Tables(raw.part) = 32 + 2 * tables
    BY <1>3, <1>6 DEF R!Tables
<1>8. c + 100 * 8 + (32 + 2 * tables) <= part
    BY <1>4, <1>5, <1>6
<1>9. part >= 524288
    BY <1>4, <1>5
<1>10. QED BY <1>3, <1>5, <1>7, <1>8, <1>9 DEF SizesOfTheCode

(* The ISO is whole blocks and has room for its content. *)
LEMMA IsoHasRoom ==
    ASSUME SizesOfTheCode, NEW c \in Nat
    PROVE  R!isoBackingSize(c) % IsoBlock = 0 /\ R!isoBackingSize(c) >= c + IsoSlack
<1>1. PICK n, blocks : /\ n = c + 16384 /\ n \in Nat
                       /\ blocks = (n + 4 - 1) \div 4 /\ blocks \in Nat
                       /\ 4 * blocks >= n
    OBVIOUS
<1>2. R!isoBackingSize(c) = blocks * 4
    BY <1>1 DEF SizesOfTheCode, R!isoBackingSize, R!alignUp
<1>3. (blocks * 4) % 4 = 0
    BY <1>1
<1>4. QED BY <1>1, <1>2, <1>3 DEF SizesOfTheCode

LEMMA RoomFollows ==
    ASSUME SizesOfTheCode, R!RescueInv
    PROVE  RoomForContent
<1>1. ASSUME NEW l \in layout
      PROVE  /\ l.content + 100 * 8 + R!Tables(l.raw.part) <= l.raw.part
             /\ l.raw.part >= FatFloor /\ l.raw.part + 2 * Margin <= l.raw.disk
             /\ l.iso % IsoBlock = 0 /\ l.iso >= l.content + IsoSlack
  <2>1. PICK c \in Sizes : l = [content |-> c, raw |-> R!rawSizesFor(c),
                                iso |-> R!isoBackingSize(c)]
      BY DEF R!RescueInv, R!LayoutIsComputed
  <2>2. c \in Nat
      BY OfflineMediaAssumption DEF R!RescueAssumption
  <2>3. l.content = c /\ l.raw = R!rawSizesFor(c) /\ l.iso = R!isoBackingSize(c)
      BY <2>1
  <2>4. QED BY <2>2, <2>3, PartitionHasRoom, IsoHasRoom
<1>2. QED BY <1>1 DEF RoomForContent, R!RoomForContent

-----------------------------------------------------------------------------
(* The build and its writer.                                                *)

LEMMA BothStart == InitBoth => OfflineMediaInv
<1>1. SUFFICES ASSUME InitBoth PROVE OfflineMediaInv
    OBVIOUS
<1>2. ReleaseInv /\ R!RescueInv
    BY <1>1, ReleaseStarts, WriterStarts DEF InitBoth
<1>3. /\ caller # "build" /\ order = NoOrder
      /\ mediaPc = "check" /\ files = <<>> /\ result = "none"
    BY <1>1 DEF InitBoth, R!Init
<1>4. QED BY <1>2, <1>3 DEF OfflineMediaInv, OrderIsGiven

(* The writer does not change what it was given. *)
LEMMA InputIsKept ==
    ASSUME R!Next
    PROVE  input' = input
BY DEF R!Next, R!WriteRescue, R!check, R!replaceFile, R!Create, R!CreateFilesystem,
       R!mkdirParents, R!stageFile, R!streamCopy, R!Staged, R!Finalize, R!truncateToPVD,
       R!Unwind, R!TakeName, R!Cancel, R!Ended, R!given, R!vars

(* A sequence of a set is one of a larger set. *)
LEMMA SequenceOfMore ==
    ASSUME NEW S, NEW T, S \subseteq T, NEW s \in Seq(S)
    PROVE  s \in Seq(T)
<1>1. PICK n : n = Len(s) /\ n \in Nat /\ s \in [1..n -> S]
    BY LenProperties
<1>2. s \in [1..n -> T]
    BY <1>1
<1>3. QED BY <1>1, <1>2

(* An asset is given under the path of its file, which ends with its name. *)
LEMMA PathOfFile ==
    ASSUME NEW file \in AssetFile
    PROVE  /\ RescueAsset(file) \in R!Asset
           /\ RescueAsset(file).rel = <<"update">> \o Append(file.dir, file.base)
           /\ RescueAsset(file).rel[Len(RescueAsset(file).rel)] = file.base
<1>1. PICK dir, base, size : /\ dir = file.dir /\ base = file.base /\ size = file.size
                             /\ dir \in Seq(STRING) /\ base \in STRING /\ size \in Int
    BY DEF AssetFile
<1>2. PICK Segments : /\ Segments = R!Names /\ "update" \in Segments
                      /\ base \in Segments /\ STRING \subseteq Segments
  <2>1. "update" \in R!Names
      BY Zenon DEF R!Names
  <2>2. STRING \subseteq R!Names
      BY Zenon DEF R!Names
  <2>3. QED BY <1>1, <2>1, <2>2, Zenon
<1>3. dir \in Seq(Segments)
    BY <1>1, <1>2, SequenceOfMore
<1>4. PICK name : name = Append(dir, base)
    OBVIOUS
<1>5. /\ name \in Seq(Segments) /\ Len(name) = Len(dir) + 1 /\ name[Len(dir) + 1] = base
      /\ Len(dir) \in Nat
    BY <1>2, <1>3, <1>4, AppendProperties
<1>6. PICK rel : rel = <<"update">> \o name
    OBVIOUS
<1>7. <<"update">> \in Seq(Segments) /\ Len(<<"update">>) = 1
    BY <1>2
<1>8. /\ rel \in Seq(Segments) /\ Len(rel) = 1 + Len(name)
      /\ \A i \in 1..1 + Len(name) : rel[i] = IF i <= 1 THEN <<"update">>[i] ELSE name[i - 1]
    BY <1>5, <1>6, <1>7, ConcatProperties
<1>9. rel[Len(rel)] = base
  <2>1. /\ Len(rel) \in 1..1 + Len(name) /\ ~ (Len(rel) <= 1)
        /\ Len(rel) - 1 = Len(dir) + 1
      BY <1>5, <1>8
  <2>2. QED BY <1>5, <1>8, <2>1
<1>10. RescueAsset(file) = [rel |-> rel, size |-> size, handle |-> TRUE]
    BY <1>1, <1>4, <1>6 DEF RescueAsset, rescueRelPath
<1>11. QED BY <1>1, <1>2, <1>4, <1>6, <1>8, <1>9, <1>10 DEF R!Asset

LEMMA CallWriterKeeps ==
    ASSUME OfflineMediaInv, CallWriter
    PROVE  OfflineMediaInv'
<1>1. /\ caller = "nobody" /\ pc = "done" /\ Spec0.offline /\ caller' = "build"
      /\ input' = RescueInput /\ typ' = Spec0.type
      /\ order' = [names |-> Spec0.apps, arch |-> Spec0.arch,
                   signed |-> UNION {d.files : d \in got.sjson}]
      /\ UNCHANGED <<mediaPc, files, temp, layout, dirs, written, cur, opens, held,
                     ctxDone, result>>
    BY DEF CallWriter
<1>2. ReleaseInv /\ R!RescueInv /\ files = <<>>
    BY <1>1 DEF OfflineMediaInv
<1>3. plan # NoPlan /\ case \in Cases
    BY <1>1, <1>2 DEF ReleaseInv, PlanIsResolved, TypeOK
<1>4. Spec0.type \in Types /\ Spec0.apps \in Seq(STRING)
    BY <1>3, CaseIsCase DEF BuildSpec
<1>5. PICK apps, n : /\ apps = plan.apps /\ n = Len(apps) /\ apps \in Seq(AssetFile)
                     /\ n = Len(Spec0.apps) /\ n \in Nat /\ DOMAIN apps = 1..n
                     /\ \A k \in 1..n : apps[k] \in AssetFile /\ apps[k].base = Spec0.apps[k]
  <2>1. PlanIs(plan, Spec0, Updates)
      BY <1>2, <1>3, PlanOfState
  <2>2. /\ plan.apps \in Seq(AssetFile) /\ Len(plan.apps) = Len(Spec0.apps)
        /\ \A k \in 1..Len(plan.apps) : plan.apps[k].base = Spec0.apps[k]
      BY <1>1, <2>1 DEF PlanIs
  <2>3. /\ Len(plan.apps) \in Nat /\ DOMAIN plan.apps = 1..Len(plan.apps)
        /\ \A k \in 1..Len(plan.apps) : plan.apps[k] \in AssetFile
      BY <2>2, LenProperties
  <2>4. QED BY <2>2, <2>3
<1>6. PICK assets : /\ assets = [k \in 1..n |-> RescueAsset(apps[k])]
                    /\ RescueInput = [sjson |-> 1, assets |-> assets]
    BY <1>5 DEF RescueInput
<1>7. \A k \in 1..n : /\ assets[k] \in R!Asset
                      /\ assets[k].rel = <<"update">> \o Append(apps[k].dir, apps[k].base)
                      /\ assets[k].rel[Len(assets[k].rel)] = Spec0.apps[k]
    BY <1>5, <1>6, PathOfFile
<1>8. assets \in Seq(R!Asset) /\ Len(assets) = n
  <2>1. assets \in [1..n -> R!Asset]
      BY <1>6, <1>7
  <2>2. QED BY <1>5, <1>6, <2>1
<1>9. input' \in R!Input /\ input'.assets = assets
  <2>1. input' = [sjson |-> 1, assets |-> assets]
      BY <1>1, <1>6
  <2>2. QED BY <1>8, <2>1 DEF R!Input
<1>10. R!RescueInv'
  <2>1. R!AllDirs' = R!AllDirs
      BY <1>1 DEF R!AllDirs
  <2>2. R!TypeOK'
      BY <1>1, <1>2, <1>4, <1>9, <2>1 DEF R!RescueInv, R!TypeOK, Types
  <2>3. R!TreeIsPrepared'
      BY <1>1, <1>2 DEF R!RescueInv, R!TreeIsPrepared, R!Building
  <2>4. R!OneAtATime'
      BY <1>1, <1>2 DEF R!RescueInv, R!OneAtATime, R!Staging
  <2>5. R!DirsBeforeFiles'
      BY <1>1, <1>2, <2>1 DEF R!RescueInv, R!DirsBeforeFiles, R!Staging
  <2>6. R!LayoutIsComputed'
      BY <1>1, <1>2 DEF R!RescueInv, R!LayoutIsComputed
  <2>7. QED BY <1>1, <1>2, <2>2, <2>3, <2>4, <2>5, <2>6 DEF R!RescueInv
<1>11. OrderIsGiven'
  <2>1. order'.names = Spec0.apps /\ order'.signed = UNION {d.files : d \in got.sjson}
      BY <1>1
  <2>2. ASSUME NEW k \in 1..n
        PROVE  \E f \in order'.signed : assets[k].rel = <<"update">> \o f.name
    <3>1. PICK d \in got.sjson : \A j \in DOMAIN plan.apps : \E f \in d.files :
             f.name = Append(plan.apps[j].dir, plan.apps[j].base)
        BY <1>1, <1>2, FilesFollow DEF FilesOfOneRelease, DocumentsBindFiles
    <3>2. PICK f \in d.files : f.name = Append(apps[k].dir, apps[k].base)
        BY <1>5, <3>1
    <3>3. f \in order'.signed
        BY <2>1, <3>2
    <3>4. QED BY <1>7, <3>2, <3>3
  <2>3. QED BY <1>4, <1>5, <1>7, <1>8, <1>9, <2>1, <2>2 DEF OrderIsGiven
<1>12. ReleaseInv'
    BY <1>2, CallWriterResets
<1>13. QED BY <1>1, <1>10, <1>11, <1>12 DEF OfflineMediaInv

LEMMA BothKeep == OfflineMediaInv /\ [NextBoth]_allVars => OfflineMediaInv'
<1>1. SUFFICES ASSUME OfflineMediaInv, [NextBoth]_allVars
               PROVE  OfflineMediaInv'
    OBVIOUS
<1>2. ReleaseInv'
    BY <1>1, ReleaseInvIsKept DEF OfflineMediaInv
<1>3. CASE UNCHANGED <<writer, caller, order>>
  <2>1. /\ UNCHANGED <<mediaPc, typ, input, files, temp, layout, dirs, written, cur, opens, held,
                       ctxDone, result, caller, order>>
      BY <1>3 DEF writer
  <2>2. UNCHANGED R!vars
      BY <2>1 DEF R!vars, R!image, R!tree
  <2>3. R!RescueInv'
      BY <1>1, <2>2, OthersKeep DEF OfflineMediaInv
  <2>4. OrderIsGiven'
      BY <1>1, <2>1 DEF OfflineMediaInv, OrderIsGiven
  <2>5. QED BY <1>1, <1>2, <2>1, <2>3, <2>4 DEF OfflineMediaInv
<1>4. CASE Selecting \/ UNCHANGED allVars
    BY <1>3, <1>4 DEF Selecting, allVars
<1>5. CASE CallWriter
    BY <1>1, <1>5, CallWriterKeeps
<1>6. CASE Writing
  <2>1. caller # "nobody" /\ R!Next /\ UNCHANGED <<caller, order>> /\ input' = input
      BY <1>6, InputIsKept DEF Writing
  <2>2. R!RescueInv'
      BY <1>1, <2>1, WriterSteps DEF OfflineMediaInv
  <2>3. OrderIsGiven'
      BY <1>1, <2>1 DEF OfflineMediaInv, OrderIsGiven
  <2>4. QED BY <1>1, <1>2, <2>1, <2>2, <2>3 DEF OfflineMediaInv
<1>7. QED BY <1>1, <1>4, <1>5, <1>6 DEF NextBoth

LEMMA ApplicationsFollow ==
    ASSUME OfflineMediaInv
    PROVE  MediaHoldsApplications
<1>1. SUFFICES ASSUME caller = "build", result = "ok"
               PROVE  MediaHoldsApplications
    BY DEF MediaHoldsApplications
<1>2. /\ R!RescueInv /\ order.names \in Seq(STRING) /\ Len(input.assets) = Len(order.names)
      /\ \A k \in 1..Len(input.assets) :
            /\ input.assets[k].rel[Len(input.assets[k].rel)] = order.names[k]
            /\ \E f \in order.signed : input.assets[k].rel = <<"update">> \o f.name
    BY <1>1 DEF OfflineMediaInv, OrderIsGiven
<1>3. /\ files = R!Tree(input) /\ input \in R!Input
      /\ \A i \in DOMAIN files : written[i] = files[i].size
    BY <1>1, <1>2, MediaIsSoundFollows
       DEF MediaIsSound, R!MediaIsSound, R!MediaIsComplete, R!RescueInv, R!TypeOK
<1>4. PICK a, n : a = input.assets /\ n = Len(a) /\ n \in Nat
  <2>1. input.assets \in Seq(R!Asset)
      BY <1>3 DEF R!Input
  <2>2. QED BY <2>1
<1>5. /\ Len(files) = n + 2 /\ DOMAIN files = 1..n + 2
      /\ \A k \in 1..n : files[k + 2].rel = a[k].rel
  <2>1. StagedFiles(files, a, input.sjson)
      BY <1>3, <1>4, TreeStages
  <2>2. QED BY <1>4, <2>1, LenProperties DEF StagedFiles
<1>6. ASSUME NEW i \in 3..Len(files)
      PROVE  /\ i - 2 \in 1..n /\ files[i].rel = a[i - 2].rel /\ i \in DOMAIN files
             /\ files[i].rel[Len(files[i].rel)] = order.names[i - 2]
             /\ \E f \in order.signed : files[i].rel = <<"update">> \o f.name
  <2>1. i - 2 \in 1..n /\ (i - 2) + 2 = i /\ i \in 1..n + 2
      BY <1>4, <1>5
  <2>2. files[i].rel = a[i - 2].rel
      BY <1>5, <2>1
  <2>3. QED BY <1>2, <1>4, <1>5, <2>1, <2>2
<1>7. DOMAIN order.names = 1..n
    BY <1>2, <1>4, LenProperties
<1> DEFINE named == {files[i].rel[Len(files[i].rel)] : i \in 3..Len(files)}
           wanted == {order.names[k] : k \in DOMAIN order.names}
<1>8. named \subseteq wanted
    BY <1>6, <1>7
<1>9. ASSUME NEW k \in 1..n PROVE order.names[k] \in named
  <2>1. k + 2 \in 3..Len(files) /\ (k + 2) - 2 = k
      BY <1>4, <1>5
  <2>2. files[k + 2].rel[Len(files[k + 2].rel)] = order.names[k]
      BY <1>6, <2>1
  <2>3. QED BY <2>1, <2>2
<1>10. wanted \subseteq named
    BY <1>7, <1>9
<1>11. named = wanted
    BY <1>8, <1>10
<1>12. \A i \in 3..Len(files) : /\ \E f \in order.signed : files[i].rel = <<"update">> \o f.name
                               /\ written[i] = files[i].size
    BY <1>3, <1>6
<1>13. QED BY <1>11, <1>12 DEF MediaHoldsApplications

(* What an offline build and its writer keep up together. *)
THEOREM OfflineMediaInvariant == SpecBoth => []OfflineMediaInv
<1>1. InitBoth => OfflineMediaInv
    BY BothStart
<1>2. OfflineMediaInv /\ [NextBoth]_allVars => OfflineMediaInv'
    BY BothKeep
<1>3. QED BY <1>1, <1>2, PTL DEF SpecBoth

(* Media that is reported written is whole, whatever the readers give and whichever step
   fails; its directories were made before what is in them; input that is refused leaves
   the placeholder; and nothing is open at the end (WriteRescue). *)
THEOREM WriterIsSound == SpecBoth => []MediaIsSound
<1>1. OfflineMediaInv => MediaIsSound
    BY MediaIsSoundFollows DEF OfflineMediaInv
<1>2. QED BY <1>1, OfflineMediaInvariant, PTL

(* With the sizes of the code, content of any length fits into the image that is made for
   it, beside the tables of the file system (rawSizesFor, isoBackingSize). *)
THEOREM ContentFits ==
    ASSUME SizesOfTheCode
    PROVE  SpecBoth => []RoomForContent
<1>1. OfflineMediaInv => RoomForContent
    BY RoomFollows DEF OfflineMediaInv
<1>2. QED BY <1>1, OfflineMediaInvariant, PTL

(* Media of a build that is reported written has the applications of the configuration,
   each whole and under its name in the signed document that is beside them, and no other
   application, whatever was published in between (runBuild, writeRescue, prepareTree). *)
THEOREM ApplicationsReachMedia == SpecBoth => []MediaHoldsApplications
<1>1. OfflineMediaInv => MediaHoldsApplications
    BY ApplicationsFollow
<1>2. QED BY <1>1, OfflineMediaInvariant, PTL
=============================================================================
