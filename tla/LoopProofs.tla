----------------------------- MODULE LoopProofs -----------------------------
(***************************************************************************)
(* What loops leave, for slices of any length.  A set of numbers that is    *)
(* not empty has a least one; what a loop over a sequence computes follows  *)
(* from it by taking the least place at which it would be wrong.            *)
(***************************************************************************)
EXTENDS Loops, SequenceTheorems, WellFoundedInduction, TLAPS

(* The least-number principle. *)
LEMMA LeastNumber ==
    ASSUME NEW T, T \subseteq Nat, T # {}
    PROVE  \E n \in T : \A m \in T : n <= m
<1>1. PICK n \in T : \A m \in T : ~ (<<m, n>> \in OpToRel(<, Nat))
    BY NatLessThanWellFounded, WFMin
<1>2. \A m \in T : ~ (m < n)
    BY <1>1 DEF OpToRel
<1>3. QED BY <1>2

(* Least is the least of such a set. *)
LEMMA LeastIsLeast ==
    ASSUME NEW T, T \subseteq Nat, T # {}
    PROVE  Least(T) \in T /\ \A m \in T : Least(T) <= m
BY LeastNumber DEF Least

(* Induction, with the places at which something is so as a set. *)
LEMMA LoopInduction ==
    ASSUME NEW N \in Nat, NEW T, 0 \in T, \A n \in 1..N : n - 1 \in T => n \in T
    PROVE  \A n \in 0..N : n \in T
<1> DEFINE Bad == {n \in 0..N : n \notin T}
<1>1. ASSUME Bad # {} PROVE FALSE
  <2>1. PICK n \in Bad : \A m \in Bad : n <= m
    <3>1. Bad \subseteq Nat
        OBVIOUS
    <3>2. QED BY <1>1, <3>1, LeastNumber
  <2>2. n \in 1..N /\ n - 1 \in 0..N
      BY <2>1
  <2>3. n - 1 \notin Bad
      BY <2>1, <2>2
  <2>4. QED BY <2>1, <2>2, <2>3
<1>2. QED BY <1>1

\* H gives what a turn makes of a value, f the values that a loop goes through.
IsTurn(H, N, V) == \A n \in 1..N, v \in V : H[<<n, v>>] \in V

Computes(f, H, N, V, z) ==
    f \in [0..N -> V] /\ f[0] = z /\ \A n \in 1..N : f[n] = H[<<n, f[n - 1]>>]

(* A loop has a value at each of its turns. *)
LEMMA LoopIsDefined ==
    ASSUME NEW N \in Nat, NEW V, NEW z \in V, NEW H, IsTurn(H, N, V)
    PROVE  \E f : Computes(f, H, N, V, z)
<1>0. \A n \in 1..N, v \in V : H[<<n, v>>] \in V
    BY DEF IsTurn
<1> DEFINE Runs(n) == {f \in [0..n -> V] :
                          f[0] = z /\ \A m \in 1..n : f[m] = H[<<m, f[m - 1]>>]}
           T == {n \in 0..N : Runs(n) # {}}
<1>1. 0 \in T
  <2>1. [m \in 0..0 |-> z] \in Runs(0)
      OBVIOUS
  <2>2. QED BY <2>1
<1>2. ASSUME NEW n \in 1..N, n - 1 \in T PROVE n \in T
  <2>1. PICK f \in [0..n - 1 -> V] :
           f[0] = z /\ \A m \in 1..n - 1 : f[m] = H[<<m, f[m - 1]>>]
      BY <1>2
  <2> DEFINE g == [m \in 0..n |-> IF m = n THEN H[<<n, f[n - 1]>>] ELSE f[m]]
  <2>2. H[<<n, f[n - 1]>>] \in V
      BY <1>0, <2>1
  <2>3. g \in [0..n -> V]
      BY <2>1, <2>2
  <2>4. g[0] = z
      BY <2>1
  <2>5. ASSUME NEW m \in 1..n PROVE g[m] = H[<<m, g[m - 1]>>]
    <3>1. m \in 0..n /\ m - 1 \in 0..n /\ m - 1 # n
        OBVIOUS
    <3>2. g[m - 1] = f[m - 1]
        BY <3>1
    <3>3. CASE m = n
        BY <3>1, <3>2, <3>3
    <3>4. CASE m # n
      <4>1. m \in 1..n - 1 /\ g[m] = f[m]
          BY <3>1, <3>4
      <4>2. QED BY <2>1, <3>2, <4>1
    <3>5. QED BY <3>3, <3>4
  <2> HIDE DEF g
  <2>6. g \in Runs(n)
      BY <2>3, <2>4, <2>5
  <2>7. QED BY <2>6
<1> HIDE DEF T
<1>3. N \in T
    BY <1>1, <1>2, LoopInduction
<1>4. QED BY <1>3 DEF T, Computes

\* What is kept after each of the N turns over s.
KeptSoFar(kept, s, keep, S, N) ==
    /\ kept \in [0..N -> Seq(S)] /\ kept[0] = <<>>
    /\ \A n \in 1..N :
          kept[n] = IF n \in keep THEN Append(kept[n - 1], s[n]) ELSE kept[n - 1]

(* A loop that appends runs to its end. *)
LEMMA KeptRuns ==
    ASSUME NEW S, NEW s \in Seq(S), NEW keep, NEW N, N = Len(s)
    PROVE  \E kept : KeptSoFar(kept, s, keep, S, N) /\ Kept(s, keep) = kept[N]
<1>1. N \in Nat /\ \A k \in 1..N : s[k] \in S
    BY LenProperties
<1> DEFINE H == [p \in (1..N) \X Seq(S) |->
                    IF p[1] \in keep THEN Append(p[2], s[p[1]]) ELSE p[2]]
           Turn(f) == [n \in 0..N |-> IF n = 0 THEN <<>>
                                      ELSE IF n \in keep THEN Append(f[n - 1], s[n])
                                      ELSE f[n - 1]]
           kept == CHOOSE f : f = Turn(f)
<1>2. /\ H \in [(1..N) \X Seq(S) -> Seq(S)] /\ <<>> \in Seq(S)
      /\ \A n \in 1..N, q \in Seq(S) :
            H[<<n, q>>] = IF n \in keep THEN Append(q, s[n]) ELSE q
    BY <1>1
<1> HIDE DEF H
<1>3. \E f : f = Turn(f)
  <2>0. IsTurn(H, N, Seq(S))
      BY <1>1, <1>2 DEF IsTurn
  <2>1. PICK f \in [0..N -> Seq(S)] :
           f[0] = <<>> /\ \A n \in 1..N : f[n] = H[<<n, f[n - 1]>>]
    <3>1. \E f : Computes(f, H, N, Seq(S), <<>>)
        BY <1>1, <1>2, <2>0, LoopIsDefined
    <3>2. QED BY <3>1 DEF Computes
  <2>2. ASSUME NEW n \in 1..N
        PROVE  f[n] = IF n \in keep THEN Append(f[n - 1], s[n]) ELSE f[n - 1]
    <3>1. n - 1 \in 0..N
        BY <1>1
    <3>2. f[n - 1] \in Seq(S)
        BY <2>1, <3>1
    <3>3. QED BY <1>2, <2>1, <3>2
  <2>3. \A n \in 0..N : n # 0 => n \in 1..N
      BY <1>1
  <2>4. f = Turn(f)
      BY <2>1, <2>2, <2>3
  <2>5. QED BY <2>4
<1>4. kept = Turn(kept)
    BY <1>3
<1>5. Kept(s, keep) = kept[N]
    BY <1>1 DEF Kept
<1> HIDE DEF kept
<1>6. /\ kept[0] = <<>>
      /\ \A n \in 1..N : kept[n] = IF n \in keep THEN Append(kept[n - 1], s[n]) ELSE kept[n - 1]
  <2>1. 0 \in 0..N /\ \A n \in 1..N : n \in 0..N /\ n # 0
      BY <1>1
  <2>2. QED BY <1>4, <2>1
<1>7. kept \in [0..N -> Seq(S)]
  <2> DEFINE T == {n \in 0..N : kept[n] \in Seq(S)}
  <2>1. 0 \in T
    <3>1. 0 \in 0..N /\ kept[0] \in Seq(S)
        BY <1>1, <1>2, <1>6
    <3>2. QED BY <3>1
  <2>2. ASSUME NEW n \in 1..N, n - 1 \in T PROVE n \in T
    <3>1. kept[n - 1] \in Seq(S) /\ s[n] \in S /\ n \in 0..N
        BY <1>1, <2>2
    <3>2. Append(kept[n - 1], s[n]) \in Seq(S)
        BY <3>1, AppendProperties
    <3>3. kept[n] \in Seq(S)
        BY <1>6, <3>1, <3>2
    <3>4. QED BY <3>1, <3>3
  <2> HIDE DEF T
  <2>3. \A n \in 0..N : n \in T
      BY <1>1, <2>1, <2>2, LoopInduction
  <2>4. \A n \in 0..N : kept[n] \in Seq(S)
      BY <2>3 DEF T
  <2>5. kept = [n \in 0..N |-> kept[n]]
      BY <1>4
  <2>6. QED BY <2>4, <2>5
<1>8. QED BY <1>1, <1>5, <1>6, <1>7 DEF KeptSoFar

\* The elements of kept, of S, are those of s at the places of keep.
Keeps(kept, s, keep, S) ==
    /\ kept \in Seq(S)
    /\ \A m \in 1..Len(kept) : \E k \in 1..Len(s) : k \in keep /\ kept[m] = s[k]
    /\ \A k \in 1..Len(s) : k \in keep => \E m \in 1..Len(kept) : kept[m] = s[k]

(* A loop that appends keeps the elements at the places it is told to. *)
LEMMA KeptElements ==
    ASSUME NEW S, NEW s \in Seq(S), NEW keep
    PROVE  Keeps(Kept(s, keep), s, keep, S)
<1>1. PICK N : N = Len(s) /\ N \in Nat /\ \A k \in 1..N : s[k] \in S
    BY LenProperties
<1>2. PICK kept : KeptSoFar(kept, s, keep, S, N) /\ Kept(s, keep) = kept[N]
    BY <1>1, KeptRuns
<1>6. /\ kept[0] = <<>>
      /\ \A n \in 1..N : kept[n] = IF n \in keep THEN Append(kept[n - 1], s[n]) ELSE kept[n - 1]
    BY <1>2 DEF KeptSoFar
<1>5. <<>> \in Seq(S)
    OBVIOUS
<1> DEFINE Right(n) ==
              /\ kept[n] \in Seq(S)
              /\ \A m \in 1..Len(kept[n]) : \E k \in 1..n : k \in keep /\ kept[n][m] = s[k]
              /\ \A k \in 1..n : k \in keep => \E m \in 1..Len(kept[n]) : kept[n][m] = s[k]
           T == {n \in 0..N : Right(n)}
<1>7. 0 \in T
  <2>1. Len(<<>>) = 0 /\ 0 \in 0..N
      BY <1>1
  <2>2. Right(0)
      BY <1>5, <1>6, <2>1
  <2>3. QED BY <2>1, <2>2
<1>8. ASSUME NEW n \in 1..N, n - 1 \in T PROVE n \in T
  <2>1. Right(n - 1) /\ n \in 0..N
      BY <1>1, <1>8
  <2>2. CASE n \notin keep
    <3>1. kept[n] = kept[n - 1]
        BY <1>6, <2>2
    <3>2. \A k \in 1..n : k \in keep => k \in 1..n - 1
        BY <2>2
    <3>3. \A k \in 1..n - 1 : k \in 1..n
        OBVIOUS
    <3>4. Right(n)
        BY <2>1, <3>1, <3>2, <3>3
    <3>5. QED BY <2>1, <3>4
  <2>3. CASE n \in keep
    <3> DEFINE old == kept[n - 1]
               new == kept[n]
    <3>1. new = Append(old, s[n])
        BY <1>6, <2>3
    <3>2. /\ new \in Seq(S) /\ Len(new) = Len(old) + 1 /\ new[Len(new)] = s[n]
          /\ \A m \in 1..Len(old) : new[m] = old[m]
          /\ Len(old) \in Nat
        BY <1>1, <2>1, <3>1, AppendProperties
    <3> HIDE DEF new, old
    <3>3. \A m \in 1..Len(new) : \E k \in 1..n : k \in keep /\ new[m] = s[k]
      <4>1. TAKE m \in 1..Len(new)
      <4>2. CASE m = Len(new)
          BY <2>3, <3>2, <4>2
      <4>3. CASE m # Len(new)
        <5>1. m \in 1..Len(old) /\ new[m] = old[m]
            BY <3>2, <4>3
        <5>2. PICK k \in 1..n - 1 : k \in keep /\ old[m] = s[k]
            BY <2>1, <5>1 DEF old
        <5>3. k \in 1..n
            BY <5>2
        <5>4. QED BY <5>1, <5>2, <5>3
      <4>4. QED BY <4>2, <4>3
    <3>4. \A k \in 1..n : k \in keep => \E m \in 1..Len(new) : new[m] = s[k]
      <4>1. SUFFICES ASSUME NEW k \in 1..n, k \in keep
                     PROVE  \E m \in 1..Len(new) : new[m] = s[k]
          OBVIOUS
      <4>2. CASE k = n
          BY <3>2, <4>2
      <4>3. CASE k # n
        <5>1. k \in 1..n - 1
            BY <4>3
        <5>2. PICK m \in 1..Len(old) : old[m] = s[k]
            BY <2>1, <4>1, <5>1 DEF old
        <5>3. m \in 1..Len(new) /\ new[m] = s[k]
            BY <3>2, <5>2
        <5>4. QED BY <5>3
      <4>4. QED BY <4>2, <4>3
    <3>5. QED BY <2>1, <3>2, <3>3, <3>4 DEF new
  <2>4. QED BY <2>2, <2>3
<1> HIDE DEF T
<1>9. N \in T
  <2>1. \A n \in 1..N : n - 1 \in T => n \in T
      BY <1>8
  <2>2. \A n \in 0..N : n \in T
      BY <1>1, <1>7, <2>1, LoopInduction
  <2>3. QED BY <1>1, <2>2
<1>10. QED BY <1>1, <1>2, <1>9 DEF T, Keeps

(* Elements of s that all differ are kept once each. *)
LEMMA KeptOnce ==
    ASSUME NEW S, NEW s \in Seq(S), NEW keep,
           \A k, l \in 1..Len(s) : s[k] = s[l] => k = l
    PROVE  \A m, n \in 1..Len(Kept(s, keep)) :
              Kept(s, keep)[m] = Kept(s, keep)[n] => m = n
<1>1. PICK N : N = Len(s) /\ N \in Nat /\ \A k \in 1..N : s[k] \in S
    BY LenProperties
<1>2. PICK kept : KeptSoFar(kept, s, keep, S, N) /\ Kept(s, keep) = kept[N]
    BY <1>1, KeptRuns
<1>3. /\ kept[0] = <<>> /\ \A n \in 0..N : kept[n] \in Seq(S)
      /\ \A n \in 1..N : kept[n] = IF n \in keep THEN Append(kept[n - 1], s[n]) ELSE kept[n - 1]
    BY <1>2 DEF KeptSoFar
<1> DEFINE Right(n) ==
              /\ \A m \in 1..Len(kept[n]) : \E k \in 1..n : kept[n][m] = s[k]
              /\ \A l, m \in 1..Len(kept[n]) : kept[n][l] = kept[n][m] => l = m
           T == {n \in 0..N : Right(n)}
<1>4. 0 \in T
  <2>1. Len(<<>>) = 0 /\ 0 \in 0..N
      BY <1>1
  <2>2. Right(0)
      BY <1>3, <2>1
  <2>3. QED BY <2>1, <2>2
<1>5. ASSUME NEW n \in 1..N, n - 1 \in T PROVE n \in T
  <2>1. Right(n - 1) /\ n \in 0..N /\ n - 1 \in 0..N
      BY <1>1, <1>5
  <2> DEFINE old == kept[n - 1]
             new == kept[n]
  <2>2. \A k \in 1..n - 1 : k \in 1..n
      OBVIOUS
  <2>3. CASE n \notin keep
    <3>1. new = old
        BY <1>3, <2>3
    <3>2. Right(n)
        BY <2>1, <2>2, <3>1
    <3>3. QED BY <2>1, <3>2
  <2>4. CASE n \in keep
    <3>1. new = Append(old, s[n])
        BY <1>3, <2>4
    <3>2. /\ new \in Seq(S) /\ Len(new) = Len(old) + 1 /\ new[Len(new)] = s[n]
          /\ \A m \in 1..Len(old) : new[m] = old[m]
          /\ Len(old) \in Nat
        BY <1>1, <1>3, <2>1, <3>1, AppendProperties
    <3> HIDE DEF new, old
    <3>3. ASSUME NEW m \in 1..Len(new)
          PROVE  \/ m = Len(new) /\ new[m] = s[n]
                 \/ m \in 1..Len(old) /\ new[m] = old[m]
        BY <3>2
    <3>4. ASSUME NEW m \in 1..Len(old) PROVE old[m] # s[n]
      <4>1. PICK k \in 1..n - 1 : old[m] = s[k]
          BY <2>1 DEF old
      <4>2. k \in 1..Len(s) /\ n \in 1..Len(s) /\ k # n
          BY <1>1
      <4>3. QED BY <4>1, <4>2
    <3>5. \A m \in 1..Len(new) : \E k \in 1..n : new[m] = s[k]
      <4>1. n \in 1..n
          OBVIOUS
      <4>2. \A m \in 1..Len(old) : \E k \in 1..n : old[m] = s[k]
          BY <2>1, <2>2 DEF old
      <4>3. QED BY <3>3, <4>1, <4>2
    <3>6. \A l, m \in 1..Len(new) : new[l] = new[m] => l = m
      <4>1. \A l, m \in 1..Len(old) : old[l] = old[m] => l = m
          BY <2>1 DEF old
      <4>2. QED BY <3>3, <3>4, <4>1
    <3>7. QED BY <2>1, <3>5, <3>6 DEF new
  <2>5. QED BY <2>3, <2>4
<1> HIDE DEF T
<1>6. N \in T
  <2>1. \A n \in 1..N : n - 1 \in T => n \in T
      BY <1>5
  <2>2. \A n \in 0..N : n \in T
      BY <1>1, <1>4, <2>1, LoopInduction
  <2>3. QED BY <1>1, <2>2
<1>7. QED BY <1>2, <1>6 DEF T
=============================================================================
