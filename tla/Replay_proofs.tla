--------------------------- MODULE Replay_proofs ---------------------------
(***************************************************************************)
(* Theorems about RowDiff and Replay, for CSVs of any length with any      *)
(* duplicates, any limit on the edits that are looked for, and any         *)
(* requests.                                                               *)
(***************************************************************************)
EXTENDS Replay, FiniteSetTheorems, TLAPS

----------------------------------------------------------------------------
(* Positions and their order.                                              *)

\* How many positions of S there are up to i, and from i on.
Rank(S, i) == Cardinality({j \in S : j <= i})
RankFrom(S, i) == Cardinality({j \in S : j >= i})

\* Ranks count a finite set of positions through.
LEMMA Ranks ==
    ASSUME NEW S \in SUBSET Nat, IsFiniteSet(S)
    PROVE  /\ Cardinality(S) \in Nat
           /\ \A i \in S : Rank(S, i) \in 1..Cardinality(S)
           /\ \A i, j \in S : i < j => Rank(S, i) < Rank(S, j)
           /\ \A n \in 1..Cardinality(S) : \E i \in S : Rank(S, i) = n
  <1> DEFINE N == Cardinality(S)
             UpTo(i) == {j \in S : j <= i}
  <1>1. N \in Nat
    BY FS_CardinalityType
  <1>2. \A i \in S : /\ IsFiniteSet(UpTo(i)) /\ Cardinality(UpTo(i)) \in Nat
                     /\ Cardinality(UpTo(i)) <= N
    BY FS_Subset, FS_CardinalityType
  <1>3. ASSUME NEW i \in S PROVE Rank(S, i) \in 1..N
    <2>1. UpTo(i) # {}
      BY <1>3
    <2>2. Cardinality(UpTo(i)) # 0
      BY <1>2, <1>3, <2>1, FS_EmptySet
    <2> HIDE DEF UpTo, N
    <2>3. Cardinality(UpTo(i)) \in 1..N
      BY <1>1, <1>2, <1>3, <2>2
    <2> QED
      BY <2>3 DEF Rank, UpTo
  <1>4. ASSUME NEW i \in S, NEW j \in S, i < j PROVE Rank(S, i) < Rank(S, j)
    <2>1. UpTo(i) \subseteq UpTo(j) /\ j \in UpTo(j) /\ j \notin UpTo(i)
      <3>1. \A x \in S : x <= i => x <= j
        BY <1>4
      <3>2. j <= j /\ ~(j <= i)
        BY <1>4
      <3> QED
        BY <1>4, <3>1, <3>2
    <2>2. UpTo(i) \in SUBSET UpTo(j) /\ UpTo(i) # UpTo(j)
      BY <2>1
    <2> HIDE DEF UpTo
    <2>3. Cardinality(UpTo(i)) <= Cardinality(UpTo(j)) /\ Cardinality(UpTo(i)) # Cardinality(UpTo(j))
      BY <1>2, <1>4, <2>2, FS_Subset
    <2>4. Cardinality(UpTo(i)) < Cardinality(UpTo(j))
      BY <1>2, <1>4, <2>3
    <2> QED
      BY <2>4 DEF Rank, UpTo
  <1>5. ASSUME NEW n \in 1..N PROVE \E i \in S : Rank(S, i) = n
    <2> DEFINE f == [i \in S |-> Rank(S, i)]
    <2>1. f \in Injection(S, 1..N)
      <3>1. f \in [S -> 1..N]
        BY <1>3
      <3>2. \A i, j \in S : f[i] = f[j] => i = j
        <4> SUFFICES ASSUME NEW i \in S, NEW j \in S, f[i] = f[j], i # j PROVE FALSE
          OBVIOUS
        <4>1. i < j \/ j < i
          OBVIOUS
        <4>2. Rank(S, i) < Rank(S, j) \/ Rank(S, j) < Rank(S, i)
          BY <1>4, <4>1
        <4>3. Rank(S, i) \in Nat /\ Rank(S, j) \in Nat
          BY <1>1, <1>3
        <4> QED
          BY <4>2, <4>3
      <3> HIDE DEF f
      <3> QED
        BY <3>1, <3>2 DEF Injection, IsInjective
    <2>2. IsFiniteSet(1..N) /\ Cardinality(1..N) = N
      BY <1>1, FS_Interval
    <2> HIDE DEF f, N
    <2>3. f \in Surjection(S, 1..N)
      BY <2>1, <2>2, FS_Injection DEF N
    <2> QED
      BY <2>3, <1>5 DEF Surjection, f
  <1> QED
    BY <1>1, <1>3, <1>4, <1>5

\* Nth goes the other way.
LEMMA NthIs ==
    ASSUME NEW S \in SUBSET Nat, IsFiniteSet(S)
    PROVE  /\ \A n \in 1..Cardinality(S) : Nth(S, n) \in S /\ Rank(S, Nth(S, n)) = n
           /\ \A i \in S : Nth(S, Rank(S, i)) = i
           /\ \A m, n \in 1..Cardinality(S) : m < n => Nth(S, m) < Nth(S, n)
  <1> DEFINE N == Cardinality(S)
  <1>1. /\ N \in Nat /\ \A i \in S : Rank(S, i) \in 1..N
        /\ \A i, j \in S : i < j => Rank(S, i) < Rank(S, j)
        /\ \A n \in 1..N : \E i \in S : Rank(S, i) = n
    BY Ranks
  <1> HIDE DEF N
  <1>2. \A n : Nth(S, n) = CHOOSE i \in S : Rank(S, i) = n
    BY DEF Nth, Rank
  <1>3. \A n \in 1..N : Nth(S, n) \in S /\ Rank(S, Nth(S, n)) = n
    BY <1>1, <1>2
  <1>4. \A i, j \in S : Rank(S, i) = Rank(S, j) => i = j
    <2> SUFFICES ASSUME NEW i \in S, NEW j \in S, Rank(S, i) = Rank(S, j), i # j PROVE FALSE
      OBVIOUS
    <2>1. i < j \/ j < i
      OBVIOUS
    <2>2. Rank(S, i) \in Nat /\ (Rank(S, i) < Rank(S, j) \/ Rank(S, j) < Rank(S, i))
      BY <1>1, <2>1
    <2> QED BY <2>2
  <1>5. \A i \in S : Nth(S, Rank(S, i)) = i
    BY <1>1, <1>3, <1>4
  <1>6. ASSUME NEW m \in 1..N, NEW n \in 1..N, m < n PROVE Nth(S, m) < Nth(S, n)
    <2>1. /\ Nth(S, m) \in Nat /\ Rank(S, Nth(S, m)) = m /\ Nth(S, m) \in S
          /\ Nth(S, n) \in Nat /\ Rank(S, Nth(S, n)) = n /\ Nth(S, n) \in S
      BY <1>3
    <2>2. Nth(S, n) < Nth(S, m) => n < m
      BY <1>1, <2>1
    <2>3. Nth(S, n) # Nth(S, m)
      BY <1>6, <1>1, <2>1
    <2> QED
      BY <1>1, <1>6, <2>1, <2>2, <2>3
  <1> QED
    BY <1>3, <1>5, <1>6 DEF N

\* m positions have ranks up to m, from either end.
LEMMA FirstRanks ==
    ASSUME NEW S \in SUBSET Nat, IsFiniteSet(S), NEW m \in 0..Cardinality(S)
    PROVE  Cardinality({i \in S : Rank(S, i) <= m}) = m
  <1> DEFINE N == Cardinality(S)
             F == {i \in S : Rank(S, i) <= m}
  <1>1. /\ N \in Nat /\ \A i \in S : Rank(S, i) \in 1..N
        /\ \A i, j \in S : i < j => Rank(S, i) < Rank(S, j)
    BY Ranks
  <1>2. CASE m = 0
    <2>1. \A i \in S : ~(Rank(S, i) <= 0)
      BY <1>1
    <2>2. F = {}
      BY <1>2, <2>1
    <2> QED
      BY <1>2, <2>2, FS_EmptySet
  <1>3. CASE m # 0
    <2>1. m \in 1..N
      BY <1>1, <1>3
    <2> DEFINE x == Nth(S, m)
    <2>2. x \in S /\ Rank(S, x) = m
      BY <2>1, NthIs
    <2> HIDE DEF x
    <2>3. ASSUME NEW i \in S PROVE Rank(S, i) <= m <=> i <= x
      <3>1. i \in Nat /\ x \in Nat /\ Rank(S, i) \in Nat /\ Rank(S, x) \in Nat
        BY <1>1, <2>2, <2>3
      <3>2. i < x => Rank(S, i) < m
        BY <1>1, <2>2, <2>3
      <3>3. x < i => m < Rank(S, i)
        BY <1>1, <2>2, <2>3
      <3>4. i = x => Rank(S, i) = m
        BY <2>2
      <3> QED
        BY <2>2, <3>1, <3>2, <3>3, <3>4
    <2>4. F = {j \in S : j <= x}
      BY <2>3
    <2> QED
      BY <2>2, <2>4 DEF Rank
  <1> QED BY <1>2, <1>3

LEMMA LastRanks ==
    ASSUME NEW S \in SUBSET Nat, IsFiniteSet(S), NEW m \in 0..Cardinality(S)
    PROVE  /\ Cardinality({i \in S : RankFrom(S, i) <= m}) = m
           /\ \A i \in S : RankFrom(S, i) = Cardinality(S) + 1 - Rank(S, i)
  <1> DEFINE N == Cardinality(S)
  <1>1. N \in Nat /\ \A i \in S : Rank(S, i) \in 1..N
    BY Ranks
  <1>2. ASSUME NEW i \in S PROVE RankFrom(S, i) = N + 1 - Rank(S, i)
    <2> DEFINE U == {j \in S : j <= i}
    <2>1. IsFiniteSet(U) /\ i \in U
      BY FS_Subset
    <2>2. IsFiniteSet(U \ {i}) /\ Cardinality(U \ {i}) = Cardinality(U) - 1
      BY <2>1, FS_RemoveElement
    <2>3. {j \in S : j >= i} = S \ (U \ {i}) /\ S \cap (U \ {i}) = U \ {i}
      <3>1. \A j \in S : j >= i <=> ~(j <= i /\ j # i)
        BY <1>2
      <3> QED
        BY <3>1
    <2>4. Cardinality(S \ (U \ {i})) = N - Cardinality(S \cap (U \ {i}))
      BY FS_Difference
    <2>5. Cardinality(U) = Rank(S, i)
      BY DEF Rank
    <2>6. RankFrom(S, i) = N - (Rank(S, i) - 1)
      BY <2>2, <2>3, <2>4, <2>5 DEF RankFrom
    <2> QED
      BY <1>1, <2>6
  <1>3. Cardinality({i \in S : RankFrom(S, i) <= m}) = m
    <2> DEFINE F == {i \in S : Rank(S, i) <= N - m}
    <2>1. N - m \in 0..N
      BY <1>1
    <2>2. Cardinality(F) = N - m
      BY <2>1, FirstRanks
    <2>3. {i \in S : RankFrom(S, i) <= m} = S \ F
      <3>1. \A i \in S : RankFrom(S, i) <= m <=> ~(Rank(S, i) <= N - m)
        BY <1>1, <1>2
      <3> QED
        BY <3>1
    <2>4. F = S \cap F
      OBVIOUS
    <2> HIDE DEF F
    <2>5. Cardinality(S \ F) = N - Cardinality(S \cap F)
      BY FS_Difference
    <2>6. Cardinality(S \ F) = N - (N - m)
      BY <2>2, <2>4, <2>5
    <2> HIDE DEF N
    <2>7. N - (N - m) = m
      BY <1>1, <2>1
    <2> QED
      BY <2>3, <2>6, <2>7
  <1> QED BY <1>2, <1>3

----------------------------------------------------------------------------
(* Differences of two contents.                                            *)

\* The positions of rows with the key k; counting rows is ranking these.
Having(rows, k, C) == {i \in DOMAIN rows : Key(rows[i], C) = k}

LEMMA Counts ==
    ASSUME NEW R, NEW rows \in Seq(R), NEW C, NEW k
    PROVE  /\ Having(rows, k, C) \in SUBSET Nat /\ IsFiniteSet(Having(rows, k, C))
           /\ Times(rows, k, C) = Cardinality(Having(rows, k, C))
           /\ Times(rows, k, C) \in Nat
           /\ \A i \in DOMAIN rows :
                /\ Count(rows, 1..i, k, C) = Rank(Having(rows, k, C), i)
                /\ Count(rows, i..Len(rows), k, C) = RankFrom(Having(rows, k, C), i)
           /\ \A S \in SUBSET DOMAIN rows :
                Count(rows, S, k, C) = Cardinality(S \cap Having(rows, k, C))
  <1> DEFINE P == Having(rows, k, C)
  <1>1. DOMAIN rows = 1..Len(rows) /\ Len(rows) \in Nat
    OBVIOUS
  <1>2. P \in SUBSET DOMAIN rows /\ P \in SUBSET Nat
    BY <1>1 DEF Having
  <1>3. IsFiniteSet(P)
    <2>1. IsFiniteSet(1..Len(rows))
      <3>1. 1 \in Int /\ Len(rows) \in Int
        BY <1>1
      <3> QED BY <3>1, FS_Interval
    <2>2. IsFiniteSet(DOMAIN rows)
      BY <1>1, <2>1
    <2> QED
      BY <1>2, <2>2, FS_Subset
  <1>4. ASSUME NEW S \in SUBSET DOMAIN rows
        PROVE  Count(rows, S, k, C) = Cardinality(S \cap P)
    <2>1. {i \in S : Key(rows[i], C) = k} = S \cap P
      BY DEF Having
    <2> QED
      BY <2>1 DEF Count
  <1>5. Times(rows, k, C) = Cardinality(P)
    BY DEF Times, Count, Having
  <1>6. ASSUME NEW i \in DOMAIN rows
        PROVE  /\ Count(rows, 1..i, k, C) = Rank(P, i)
               /\ Count(rows, i..Len(rows), k, C) = RankFrom(P, i)
    <2>1. 1..i \in SUBSET DOMAIN rows /\ i..Len(rows) \in SUBSET DOMAIN rows
      BY <1>1
    <2>2. \A j \in P : (j \in 1..i <=> j <= i) /\ (j \in i..Len(rows) <=> j >= i)
      BY <1>1, <1>2, <1>6
    <2>3. (1..i) \cap P = {j \in P : j <= i} /\ (i..Len(rows)) \cap P = {j \in P : j >= i}
      BY <2>2
    <2> QED
      BY <1>4, <2>1, <2>3 DEF Rank, RankFrom
  <1> QED
    BY <1>2, <1>3, <1>4, <1>5, <1>6, FS_CardinalityType

\* Of the rows with one key as many are removed as are in excess, and the others stay.
LEMMA RemovedOf ==
    ASSUME NEW R, NEW old \in Seq(R), NEW new \in Seq(R), NEW C, NEW k
    PROVE  LET gone == ComputeRemoved(old, new, C) IN
           /\ gone \in SUBSET DOMAIN old
           /\ Count(old, DOMAIN old \ gone, k, C) =
                  IF Times(old, k, C) <= Times(new, k, C) THEN Times(old, k, C) ELSE Times(new, k, C)
           /\ \A i \in gone : Key(old[i], C) = k => Times(new, k, C) < Times(old, k, C)
  <1> DEFINE gone == ComputeRemoved(old, new, C)
             P == Having(old, k, C)
             T == Times(old, k, C)
             N == Times(new, k, C)
             Q == {i \in P : N + Rank(P, i) <= T}
  <1>1. /\ P \in SUBSET Nat /\ IsFiniteSet(P) /\ T = Cardinality(P) /\ T \in Nat /\ N \in Nat
        /\ \A i \in DOMAIN old : Count(old, 1..i, k, C) = Rank(P, i)
        /\ \A S \in SUBSET DOMAIN old : Count(old, S, k, C) = Cardinality(S \cap P)
    <2>1. N \in Nat
      BY Counts
    <2>2. P \in SUBSET Nat /\ IsFiniteSet(P) /\ T = Cardinality(P) /\ T \in Nat
      BY Counts
    <2>3. \A i \in DOMAIN old : Count(old, 1..i, k, C) = Rank(P, i)
      BY Counts
    <2>4. \A S \in SUBSET DOMAIN old : Count(old, S, k, C) = Cardinality(S \cap P)
      BY Counts
    <2> HIDE DEF P, T, N
    <2> QED
      BY <2>1, <2>2, <2>3, <2>4
  <1>2. \A i \in P : Rank(P, i) \in 1..T
    BY <1>1, Ranks
  <1>3. \A i \in DOMAIN old : i \in gone <=>
            LET k_i == Key(old[i], C) IN Times(new, k_i, C) + Count(old, 1..i, k_i, C) <= Times(old, k_i, C)
    BY DEF ComputeRemoved
  <1>4. gone \in SUBSET DOMAIN old
    BY DEF ComputeRemoved
  <1>5. \A i \in P : i \in gone <=> i \in Q
    BY <1>1, <1>3 DEF Having
  <1>6. Count(old, DOMAIN old \ gone, k, C) = Cardinality(P \ Q)
    <2>1. (DOMAIN old \ gone) \cap P = P \ Q
      BY <1>5 DEF Having
    <2>2. DOMAIN old \ gone \in SUBSET DOMAIN old
      OBVIOUS
    <2> HIDE DEF gone, P, Q
    <2> QED
      BY <1>1, <2>1, <2>2
  <1> HIDE DEF gone, P, T, N
  <1>7. CASE T <= N
    <2>1. \A i \in P : ~(N + Rank(P, i) <= T)
      BY <1>1, <1>2, <1>7
    <2>2. P \ Q = P
      BY <2>1
    <2>3. \A i \in gone : Key(old[i], C) # k
      BY <1>4, <1>5, <2>1 DEF P, Having
    <2> QED
      BY <1>1, <1>4, <1>6, <1>7, <2>2, <2>3 DEF gone, T, N
  <1>8. CASE N < T
    <2>1. T - N \in 0..T
      BY <1>1, <1>8
    <2>2. Cardinality({i \in P : Rank(P, i) <= T - N}) = T - N
      BY <1>1, <2>1, FirstRanks
    <2>3. \A i \in P : N + Rank(P, i) <= T <=> Rank(P, i) <= T - N
      BY <1>1, <1>2
    <2>4. Q = {i \in P : Rank(P, i) <= T - N} /\ P \cap Q = Q
      BY <2>3
    <2>5. Cardinality(P \ Q) = Cardinality(P) - Cardinality(P \cap Q)
      BY <1>1, FS_Difference
    <2>6. Cardinality(P \ Q) = Cardinality(P) - (T - N)
      BY <2>2, <2>4, <2>5
    <2> HIDE DEF Q
    <2>7. Cardinality(P \ Q) = N /\ ~(T <= N)
      BY <1>1, <1>8, <2>6
    <2> QED
      BY <1>4, <1>6, <1>8, <2>7 DEF gone, T, N
  <1> QED
    BY <1>1, <1>7, <1>8

\* As many are added as there are more of now; the others were there.
LEMMA AddedOf ==
    ASSUME NEW R, NEW old \in Seq(R), NEW new \in Seq(R), NEW C, NEW k
    PROVE  LET come == ComputeAdded(old, new, C) IN
           /\ come \in SUBSET DOMAIN new
           /\ Count(new, DOMAIN new \ come, k, C) =
                  IF Times(new, k, C) <= Times(old, k, C) THEN Times(new, k, C) ELSE Times(old, k, C)
           /\ \A i \in come : Key(new[i], C) = k => Times(old, k, C) < Times(new, k, C)
  <1> DEFINE come == ComputeAdded(old, new, C)
             P == Having(new, k, C)
             T == Times(new, k, C)
             N == Times(old, k, C)
             Q == {i \in P : N + RankFrom(P, i) <= T}
  <1>1. /\ P \in SUBSET Nat /\ IsFiniteSet(P) /\ T = Cardinality(P) /\ T \in Nat /\ N \in Nat
        /\ \A i \in DOMAIN new : Count(new, i..Len(new), k, C) = RankFrom(P, i)
        /\ \A S \in SUBSET DOMAIN new : Count(new, S, k, C) = Cardinality(S \cap P)
    <2>1. N \in Nat
      BY Counts
    <2>2. P \in SUBSET Nat /\ IsFiniteSet(P) /\ T = Cardinality(P) /\ T \in Nat
      BY Counts
    <2>3. \A i \in DOMAIN new : Count(new, i..Len(new), k, C) = RankFrom(P, i)
      BY Counts
    <2>4. \A S \in SUBSET DOMAIN new : Count(new, S, k, C) = Cardinality(S \cap P)
      BY Counts
    <2> HIDE DEF P, T, N
    <2> QED
      BY <2>1, <2>2, <2>3, <2>4
  <1>2. \A i \in P : RankFrom(P, i) \in 1..T
    <2>1. \A i \in P : Rank(P, i) \in 1..T
      BY <1>1, Ranks
    <2>2. \A i \in P : RankFrom(P, i) = T + 1 - Rank(P, i)
      <3>1. 0 \in 0..Cardinality(P)
        BY <1>1
      <3> HIDE DEF P, T
      <3> QED
        BY <1>1, <3>1, LastRanks
    <2> HIDE DEF P, T
    <2> QED
      BY <1>1, <2>1, <2>2
  <1>3. \A i \in DOMAIN new : i \in come <=>
            LET k_i == Key(new[i], C) IN Times(old, k_i, C) + Count(new, i..Len(new), k_i, C) <= Times(new, k_i, C)
    BY DEF ComputeAdded
  <1>4. come \in SUBSET DOMAIN new
    BY DEF ComputeAdded
  <1>5. \A i \in P : i \in come <=> i \in Q
    BY <1>1, <1>3 DEF Having
  <1>6. Count(new, DOMAIN new \ come, k, C) = Cardinality(P \ Q)
    <2>1. (DOMAIN new \ come) \cap P = P \ Q
      BY <1>5 DEF Having
    <2>2. DOMAIN new \ come \in SUBSET DOMAIN new
      OBVIOUS
    <2> HIDE DEF come, P, Q
    <2> QED
      BY <1>1, <2>1, <2>2
  <1> HIDE DEF come, P, T, N
  <1>7. CASE T <= N
    <2>1. \A i \in P : ~(N + RankFrom(P, i) <= T)
      BY <1>1, <1>2, <1>7
    <2>2. P \ Q = P
      BY <2>1
    <2>3. \A i \in come : Key(new[i], C) # k
      BY <1>4, <1>5, <2>1 DEF P, Having
    <2> QED
      BY <1>1, <1>4, <1>6, <1>7, <2>2, <2>3 DEF come, T, N
  <1>8. CASE N < T
    <2>1. T - N \in 0..T
      BY <1>1, <1>8
    <2>2. Cardinality({i \in P : RankFrom(P, i) <= T - N}) = T - N
      BY <1>1, <2>1, LastRanks
    <2>3. \A i \in P : N + RankFrom(P, i) <= T <=> RankFrom(P, i) <= T - N
      BY <1>1, <1>2
    <2>4. Q = {i \in P : RankFrom(P, i) <= T - N} /\ P \cap Q = Q
      BY <2>3
    <2>5. Cardinality(P \ Q) = Cardinality(P) - Cardinality(P \cap Q)
      BY <1>1, FS_Difference
    <2>6. Cardinality(P \ Q) = Cardinality(P) - (T - N)
      BY <2>2, <2>4, <2>5
    <2> HIDE DEF Q
    <2>7. Cardinality(P \ Q) = N /\ ~(T <= N)
      BY <1>1, <1>8, <2>6
    <2> QED
      BY <1>4, <1>6, <1>8, <2>7 DEF come, T, N
  <1> QED
    BY <1>1, <1>7, <1>8

\* What Pair gives is a removed row that is not taken, or none.
LEMMA PairIs ==
    ASSUME NEW removed \in SUBSET Nat, IsFiniteSet(removed), NEW j, NEW taken, NEW old, NEW new, NEW C
    PROVE  Pair(j, taken, old, new, removed, C) \in (removed \ taken) \cup {0}
  <1> DEFINE free == removed \ taken
             best == {i \in free : \A x \in free : Overlap(old[x], new[j], C) <= Overlap(old[i], new[j], C)}
  <1>1. CASE \E i \in best : 2 * Overlap(old[i], new[j], C) >= Cardinality(C)
    <2>1. best \in SUBSET Nat /\ best \in SUBSET removed /\ best # {}
      BY <1>1
    <2>2. IsFiniteSet(best)
      BY <2>1, FS_Subset
    <2> HIDE DEF best
    <2>3. 1 \in 1..Cardinality(best)
      BY <2>1, <2>2, FS_CardinalityType, FS_EmptySet
    <2>4. Nth(best, 1) \in best
      BY <2>1, <2>2, <2>3, NthIs
    <2>5. Pair(j, taken, old, new, removed, C) = Nth(best, 1)
      BY <1>1 DEF Pair, best
    <2> QED
      BY <2>4, <2>5 DEF best
  <1>2. CASE ~\E i \in best : 2 * Overlap(old[i], new[j], C) >= Cardinality(C)
    <2>1. Pair(j, taken, old, new, removed, C) = 0
      BY <1>2 DEF Pair
    <2> QED BY <2>1
  <1> QED BY <1>1, <1>2

\* The pairing that ComputeEdited takes row by row.
Paired(f, n, old, new, added, removed, C) ==
    \A j \in added : j <= n =>
        f[j] = Pair(j, {f[i] : i \in {x \in added : x < j}}, old, new, removed, C)

AllPaired(f, old, new, added, removed, C) ==
    \A j \in added : f[j] = Pair(j, {f[i] : i \in {x \in added : x < j}}, old, new, removed, C)

\* There is one: a longest one that is so up to some row is so for all.
LEMMA PairingExists ==
    ASSUME NEW L \in Nat, NEW added \in SUBSET (1..L),
           NEW removed \in SUBSET Nat, IsFiniteSet(removed), NEW old, NEW new, NEW C
    PROVE  \E f \in [added -> removed \cup {0}] : AllPaired(f, old, new, added, removed, C)
  <1> DEFINE Good(n) == \E f \in [added -> removed \cup {0}] : Paired(f, n, old, new, added, removed, C)
             G == {n \in 0..L : Good(n)}
             m == Nth(G, Cardinality(G))
  <1>1. 0 \in G
    <2>1. [j \in added |-> 0] \in [added -> removed \cup {0}]
      OBVIOUS
    <2>2. \A j \in added : ~(j <= 0)
      OBVIOUS
    <2>3. Paired([j \in added |-> 0], 0, old, new, added, removed, C)
      BY <2>2 DEF Paired
    <2> QED
      BY <2>1, <2>3
  <1>2. G \in SUBSET Nat /\ IsFiniteSet(G) /\ G # {}
    <2>1. G \in SUBSET (0..L) /\ 0..L \in SUBSET Nat /\ 0 \in Int /\ L \in Int
      OBVIOUS
    <2> HIDE DEF G
    <2>2. IsFiniteSet(0..L)
      BY <2>1, FS_Interval
    <2> QED
      BY <1>1, <2>1, <2>2, FS_Subset
  <1>3. m \in G /\ \A n \in G : n <= m
    <2> HIDE DEF G
    <2>1. Cardinality(G) \in Nat /\ Cardinality(G) # 0
      BY <1>2, FS_CardinalityType, FS_EmptySet
    <2>2. Cardinality(G) \in 1..Cardinality(G)
      BY <2>1
    <2>3. m \in G /\ Rank(G, m) = Cardinality(G)
      BY <1>2, <2>2, NthIs
    <2>4. ASSUME NEW n \in G, m < n PROVE FALSE
      <3>1. Rank(G, m) < Rank(G, n) /\ Rank(G, n) \in 1..Cardinality(G)
        BY <1>2, <2>3, <2>4, Ranks
      <3> QED
        BY <2>1, <2>3, <3>1
    <2>5. \A n \in G : n \in Nat
      BY <1>2
    <2> HIDE DEF m
    <2> QED
      BY <2>3, <2>4, <2>5
  <1> HIDE DEF m
  <1>4. PICK f \in [added -> removed \cup {0}] : Paired(f, m, old, new, added, removed, C)
    BY <1>3
  <1>5. m \in 0..L
    BY <1>3
  <1>6. CASE m = L
    <2>1. \A j \in added : j <= m
      BY <1>6
    <2> QED
      BY <1>4, <2>1 DEF Paired, AllPaired
  <1>7. CASE m # L
    <2> DEFINE n == m + 1
               p == Pair(n, {f[i] : i \in {x \in added : x < n}}, old, new, removed, C)
               g == [f EXCEPT ![n] = p]
    <2>1. n \in 0..L
      BY <1>5, <1>7
    <2>2. p \in removed \cup {0}
      BY PairIs
    <2>3. g \in [added -> removed \cup {0}]
      <3> HIDE DEF p
      <3> QED BY <2>2
    <2>4. ASSUME NEW j \in added, j <= n
          PROVE  g[j] = Pair(j, {g[i] : i \in {x \in added : x < j}}, old, new, removed, C)
      <3>1. \A i \in {x \in added : x < j} : g[i] = f[i]
        <4>1. \A i \in {x \in added : x < j} : i # n
          BY <2>4, <1>5
        <4> HIDE DEF p, n
        <4> QED
          BY <4>1
      <3>2. {g[i] : i \in {x \in added : x < j}} = {f[i] : i \in {x \in added : x < j}}
        <4> HIDE DEF g
        <4> QED BY <3>1
      <3>3. CASE j = n
        <4>1. g[j] = p
          <5> HIDE DEF p, n
          <5> QED BY <3>3, <2>4
        <4> HIDE DEF g
        <4> QED
          BY <3>2, <3>3, <4>1
      <3>4. CASE j # n
        <4>1. g[j] = f[j]
          <5> HIDE DEF p, n
          <5> QED BY <3>4, <2>4
        <4>2. j <= m
          BY <2>4, <3>4, <1>5
        <4>3. f[j] = Pair(j, {f[i] : i \in {x \in added : x < j}}, old, new, removed, C)
          BY <1>4, <2>4, <4>2 DEF Paired
        <4> HIDE DEF g
        <4> QED
          BY <3>2, <4>1, <4>3
      <3> QED BY <3>3, <3>4
    <2>5. Good(n)
      <3> HIDE DEF g, n
      <3> QED
        BY <2>3, <2>4 DEF Paired
    <2>6. n \in G
      BY <2>1, <2>5
    <2> QED
      BY <1>3, <1>5, <2>6
  <1> QED BY <1>6, <1>7

Firsts(E) == {e[1] : e \in E}
Seconds(E) == {e[2] : e \in E}
IsOneToOne(E) == \A e, g \in E : e[1] = g[1] \/ e[2] = g[2] => e = g

\* The edits are pairs of removed and added rows, one to one.
LEMMA EditedOf ==
    ASSUME NEW L \in Nat, NEW added \in SUBSET (1..L), NEW M \in Nat,
           NEW removed \in SUBSET (1..M), NEW old, NEW new, NEW C
    PROVE  LET E == ComputeEdited(old, new, added, removed, C) IN
           Firsts(E) \subseteq removed /\ Seconds(E) \subseteq added /\ IsOneToOne(E)
  <1> DEFINE E == ComputeEdited(old, new, added, removed, C)
  <1>1. CASE Cardinality(added) > MAX_DIFF_ROWS \/ Cardinality(removed) > MAX_DIFF_ROWS
    <2>1. E = {}
      BY <1>1 DEF ComputeEdited
    <2> QED
      BY <2>1 DEF IsOneToOne, Firsts, Seconds
  <1>2. CASE ~(Cardinality(added) > MAX_DIFF_ROWS \/ Cardinality(removed) > MAX_DIFF_ROWS)
    <2> DEFINE IsPairing(f) == AllPaired(f, old, new, added, removed, C)
               pair == CHOOSE f \in [added -> removed \cup {0}] : IsPairing(f)
    <2>1. removed \in SUBSET Nat /\ IsFiniteSet(removed)
      <3>1. 1 \in Int /\ M \in Int
        OBVIOUS
      <3>2. IsFiniteSet(1..M)
        BY <3>1, FS_Interval
      <3>3. IsFiniteSet(removed)
        BY <3>2, FS_Subset
      <3>4. removed \in SUBSET Nat
        OBVIOUS
      <3> QED
        BY <3>3, <3>4
    <2>2. \E f \in [added -> removed \cup {0}] : IsPairing(f)
      <3>1. removed \in SUBSET Nat /\ IsFiniteSet(removed) /\ L \in Nat /\ added \in SUBSET (1..L)
        BY <2>1
      <3> QED
        BY <3>1, PairingExists
    <2>3. pair \in [added -> removed \cup {0}] /\ IsPairing(pair)
      BY <2>2
    <2>4. E = {<<pair[j], j>> : j \in {x \in added : pair[x] # 0}}
      BY <1>2 DEF ComputeEdited, AllPaired
    <2> HIDE DEF pair, E
    <2>5. ASSUME NEW i \in added, NEW j \in added, pair[i] # 0, i < j PROVE pair[i] # pair[j]
      <3> DEFINE taken == {pair[y] : y \in {x \in added : x < j}}
      <3>1. pair[j] = Pair(j, taken, old, new, removed, C)
        BY <2>3 DEF AllPaired
      <3>2. pair[i] \in taken
        BY <2>5
      <3>3. Pair(j, taken, old, new, removed, C) \in (removed \ taken) \cup {0}
        BY <2>1, PairIs
      <3> HIDE DEF taken
      <3> QED
        BY <2>5, <3>1, <3>2, <3>3
    <2>6. \A i, j \in added : i < j \/ j < i \/ i = j
      OBVIOUS
    <2>7. \A j \in added : pair[j] # 0 => pair[j] \in removed
      BY <2>3
    <2>8. \A i, j \in added : pair[i] # 0 /\ pair[i] = pair[j] => i = j
      BY <2>5, <2>6
    <2>9. \A e \in E : \E j \in added : e = <<pair[j], j>> /\ pair[j] # 0
      BY <2>4
    <2>10. Firsts(E) \subseteq removed /\ Seconds(E) \subseteq added
      BY <2>7, <2>9 DEF Firsts, Seconds
    <2>11. IsOneToOne(E)
      BY <2>8, <2>9 DEF IsOneToOne
    <2> QED
      BY <2>10, <2>11 DEF E
  <1> QED BY <1>1, <1>2

\* One-to-one pairs are as many as what they pair, on either side.
LEMMA OneToOne ==
    ASSUME NEW E, IsOneToOne(E), IsFiniteSet(Firsts(E))
    PROVE  /\ IsFiniteSet(E)
           /\ Cardinality(Firsts(E)) = Cardinality(E)
           /\ Cardinality(Seconds(E)) = Cardinality(E)
  <1>1. \A e, g \in E : e[1] = g[1] => e = g
    BY DEF IsOneToOne
  <1>2. \A e, g \in E : e[2] = g[2] => e = g
    BY DEF IsOneToOne
  <1> DEFINE P == {e[1] : e \in E}
             Q == {e[2] : e \in E}
             f == [e \in E |-> e[1]]
             h == [e \in E |-> e[2]]
  <1>3. IsFiniteSet(P)
    BY DEF Firsts
  <1>4. f \in Bijection(E, P)
    <2>1. f \in Injection(E, P)
      BY <1>1 DEF Injection, IsInjective
    <2>2. f \in Surjection(E, P)
      BY DEF Surjection
    <2> QED
      BY <2>1, <2>2 DEF Bijection
  <1>5. h \in Bijection(E, Q)
    <2>1. h \in Injection(E, Q)
      BY <1>2 DEF Injection, IsInjective
    <2>2. h \in Surjection(E, Q)
      BY DEF Surjection
    <2> QED
      BY <2>1, <2>2 DEF Bijection
  <1> HIDE DEF P, Q, f, h
  <1>6. f \in Injection(E, P) /\ f \in Surjection(E, P) /\ h \in Injection(E, Q) /\ h \in Surjection(E, Q)
    BY <1>4, <1>5 DEF Bijection
  <1>7. IsFiniteSet(E) /\ Cardinality(E) <= Cardinality(P)
    BY <1>3, <1>6, FS_Injection
  <1>8. Cardinality(P) <= Cardinality(E) /\ IsFiniteSet(Q) /\ Cardinality(Q) <= Cardinality(E)
    BY <1>6, <1>7, FS_Surjection
  <1>9. Cardinality(E) <= Cardinality(Q)
    BY <1>6, <1>8, FS_Injection
  <1>10. Cardinality(E) \in Nat /\ Cardinality(P) \in Nat /\ Cardinality(Q) \in Nat
    BY <1>3, <1>7, <1>8, FS_CardinalityType
  <1>11. Cardinality(P) = Cardinality(E) /\ Cardinality(Q) = Cardinality(E)
    BY <1>7, <1>8, <1>9, <1>10
  <1> QED
    BY <1>7, <1>11 DEF P, Q, Firsts, Seconds

\* Whatever a CSV is replaced by, the differences found account for the change.
THEOREM DiffAccounts ==
    ASSUME NEW R, NEW old \in Seq(R), NEW new \in Seq(R), NEW C
    PROVE  /\ Reconciles(old, new, C, ComputeDiff(old, new, C))
           /\ IsFiniteSet(ComputeDiff(old, new, C).added)
           /\ IsFiniteSet(ComputeDiff(old, new, C).removed)
           /\ IsFiniteSet(ComputeDiff(old, new, C).edited)
  <1> DEFINE A == ComputeAdded(old, new, C)
             D == ComputeRemoved(old, new, C)
             E == ComputeEdited(old, new, A, D, C)
             E1 == Firsts(E)
             E2 == Seconds(E)
             d == ComputeDiff(old, new, C)
             gone == d.removed \cup E1
             come == d.added \cup E2
  <1>1. /\ A \in SUBSET (1..Len(new)) /\ D \in SUBSET (1..Len(old))
        /\ Len(old) \in Nat /\ Len(new) \in Nat
    BY DEF ComputeAdded, ComputeRemoved
  <1>2. d.added = A \ E2 /\ d.removed = D \ E1 /\ d.edited = E
    BY DEF ComputeDiff, Firsts, Seconds
  <1>3. IsOneToOne(E) /\ E1 \subseteq D /\ E2 \subseteq A
    <2> HIDE DEF A, D
    <2> QED
      BY <1>1, EditedOf
  <1>5. gone = D /\ come = A
    <2> HIDE DEF A, D, E, d
    <2> QED
      BY <1>2, <1>3
  <1>6. IsFiniteSet(A) /\ IsFiniteSet(D)
    <2>1. 1 \in Int /\ Len(old) \in Int /\ Len(new) \in Int
      BY <1>1
    <2>2. IsFiniteSet(1..Len(old)) /\ IsFiniteSet(1..Len(new))
      BY <2>1, FS_Interval
    <2> HIDE DEF A, D
    <2> QED
      BY <1>1, <2>2, FS_Subset
  <1>7. IsFiniteSet(E) /\ Cardinality(E1) = Cardinality(E) /\ Cardinality(E2) = Cardinality(E)
    <2> HIDE DEF A, D, E
    <2>1. IsFiniteSet(Firsts(E))
      BY <1>3, <1>6, FS_Subset
    <2> QED
      BY <1>3, <2>1, OneToOne
  <1>8. ASSUME NEW k
        PROVE  Count(old, DOMAIN old \ D, k, C) = Count(new, DOMAIN new \ A, k, C)
    <2>1. Times(old, k, C) \in Nat
      BY Counts
    <2>2. Times(new, k, C) \in Nat
      BY Counts
    <2>3. Count(old, DOMAIN old \ D, k, C) =
              IF Times(old, k, C) <= Times(new, k, C) THEN Times(old, k, C) ELSE Times(new, k, C)
      BY RemovedOf
    <2>4. Count(new, DOMAIN new \ A, k, C) =
              IF Times(new, k, C) <= Times(old, k, C) THEN Times(new, k, C) ELSE Times(old, k, C)
      BY AddedOf
    <2> HIDE DEF A, D
    <2> QED
      BY <2>1, <2>2, <2>3, <2>4
  <1>9. {Key(old[i], C) : i \in D} \cap {Key(new[i], C) : i \in A} = {}
    <2> SUFFICES ASSUME NEW i \in D, NEW j \in A, Key(old[i], C) = Key(new[j], C) PROVE FALSE
      OBVIOUS
    <2> DEFINE k == Key(old[i], C)
    <2>1. Times(new, k, C) < Times(old, k, C)
      BY RemovedOf
    <2>2. Times(old, k, C) < Times(new, k, C)
      BY AddedOf
    <2>3. Times(old, k, C) \in Nat
      BY Counts
    <2>4. Times(new, k, C) \in Nat
      BY Counts
    <2> HIDE DEF k
    <2> QED
      BY <2>1, <2>2, <2>3, <2>4
  <1>10. /\ Cardinality(D \ E1) + Cardinality(E) = Cardinality(D)
         /\ Cardinality(A \ E2) + Cardinality(E) = Cardinality(A)
    <2> HIDE DEF A, D, E, E1, E2
    <2>1. D \cap E1 = E1 /\ A \cap E2 = E2
      BY <1>3
    <2>2. Cardinality(D \ E1) = Cardinality(D) - Cardinality(D \cap E1)
      BY <1>6, FS_Difference
    <2>4. Cardinality(A \ E2) = Cardinality(A) - Cardinality(A \cap E2)
      BY <1>6, FS_Difference
    <2>3. Cardinality(D) \in Nat /\ Cardinality(A) \in Nat /\ Cardinality(E) \in Nat
      BY <1>6, <1>7, FS_CardinalityType
    <2> QED
      <3> DEFINE a1 == Cardinality(D \ E1)
                 a2 == Cardinality(A \ E2)
                 n1 == Cardinality(D)
                 n2 == Cardinality(A)
                 n3 == Cardinality(E)
      <3>1. a1 = n1 - n3 /\ a2 = n2 - n3 /\ n1 \in Nat /\ n2 \in Nat /\ n3 \in Nat
        BY <1>7, <2>1, <2>2, <2>3, <2>4
      <3> HIDE DEF a1, a2, n1, n2, n3
      <3>2. a1 + n3 = n1 /\ a2 + n3 = n2
        BY <3>1
      <3> QED
        BY <3>2 DEF a1, a2, n1, n2, n3
  <1>11. Reconciles(old, new, C, d)
    <2> HIDE DEF A, D, E, d
    <2>1. /\ d.removed \cup {p[1] : p \in d.edited} = D
          /\ d.added \cup {p[2] : p \in d.edited} = A
      BY <1>2, <1>5 DEF Firsts, Seconds
    <2>2. /\ Cardinality(d.removed) + Cardinality(d.edited) = Cardinality(D)
          /\ Cardinality(d.added) + Cardinality(d.edited) = Cardinality(A)
      BY <1>2, <1>10
    <2> QED
      BY <1>8, <1>9, <2>1, <2>2 DEF Reconciles
  <1>12. IsFiniteSet(d.added) /\ IsFiniteSet(d.removed) /\ IsFiniteSet(d.edited)
    <2> HIDE DEF A, D, E, d, E1, E2
    <2>1. A \ E2 \in SUBSET A /\ D \ E1 \in SUBSET D
      OBVIOUS
    <2> QED
      BY <1>2, <1>6, <1>7, <2>1, FS_Subset
  <1> QED
    BY <1>11, <1>12

----------------------------------------------------------------------------
(* Types.                                                                  *)

\* The rows at some positions are a shorter sequence of those rows.
LEMMA AtIs ==
    ASSUME NEW R, NEW rows \in Seq(R), NEW S \in SUBSET DOMAIN rows
    PROVE  /\ At(rows, S) \in Seq(R)
           /\ Len(At(rows, S)) = Cardinality(S) /\ Cardinality(S) <= Len(rows)
           /\ \A n \in DOMAIN At(rows, S) : \E i \in S : At(rows, S)[n] = rows[i]
  <1> DEFINE N == Cardinality(S)
  <1>1. DOMAIN rows = 1..Len(rows) /\ Len(rows) \in Nat
    OBVIOUS
  <1>2. 1 \in Int /\ Len(rows) \in Int
    BY <1>1
  <1>3. IsFiniteSet(1..Len(rows)) /\ Cardinality(1..Len(rows)) = Len(rows)
    <2>1. /\ IsFiniteSet(1..Len(rows))
          /\ Cardinality(1..Len(rows)) = IF 1 > Len(rows) THEN 0 ELSE Len(rows) - 1 + 1
      BY <1>2, FS_Interval
    <2> DEFINE n == Len(rows)
    <2>2. n \in Nat
      BY <1>1
    <2> HIDE DEF n
    <2>3. (IF 1 > n THEN 0 ELSE n - 1 + 1) = n
      BY <2>2
    <2> QED
      BY <2>1, <2>3 DEF n
  <1>4. IsFiniteSet(S) /\ N <= Len(rows) /\ N \in Nat
    BY <1>1, <1>3, FS_Subset, FS_CardinalityType
  <1>5. S \in SUBSET Nat
    BY <1>1
  <1> HIDE DEF N
  <1>6. \A n \in 1..N : Nth(S, n) \in S
    BY <1>4, <1>5, NthIs DEF N
  <1>7. At(rows, S) = [n \in 1..N |-> rows[Nth(S, n)]]
    BY DEF At, N
  <1>8. \A n \in 1..N : rows[Nth(S, n)] \in R
    BY <1>6
  <1>9. At(rows, S) \in Seq(R) /\ Len(At(rows, S)) = N /\ DOMAIN At(rows, S) = 1..N
    BY <1>4, <1>7, <1>8
  <1> QED
    BY <1>4, <1>6, <1>7, <1>9 DEF N

\* What a request has to hold for its approval to make a table of it.
RequestOK(r) ==
    /\ r.action \in {"bulk_row_addition", "csv_import_replace", "inline"} =>
        r.cols \in SUBSET Columns /\ r.rows \in Seq(Rows)
    /\ r.action \in {"bulk_row_removal", "bulk_row_edit", "bulk_row_addition"} =>
        r.cols \in SUBSET Columns /\ r.keys \in Seq([r.cols -> Values])
    /\ r.action = "bulk_row_edit" => r.val \in Values
    /\ r.action = "inline" => r.count \in Nat

TypeInv ==
    /\ TypeOK
    /\ RequestOK(request)
    /\ outcome # "none" => request.action \in Actions

LEMMA CellsAre == \A C : \A f \in Cells(C) : f \in [Columns -> Values]
  BY DEF Cells

LEMMA KeysAre ==
    ASSUME NEW rows \in Seq(Rows), NEW S \in SUBSET DOMAIN rows, NEW C \in SUBSET Columns
    PROVE  Keys(rows, S, C) \in Seq([C -> Values])
  <1> DEFINE picked == At(rows, S)
  <1>1. picked \in Seq(Rows)
    BY AtIs
  <1> HIDE DEF picked
  <1>2. \A i \in DOMAIN picked : Key(picked[i], C) \in [C -> Values]
    <2> SUFFICES ASSUME NEW i \in DOMAIN picked PROVE Key(picked[i], C) \in [C -> Values]
      OBVIOUS
    <2>1. picked[i] \in Rows
      BY <1>1
    <2>2. picked[i].cell \in [Columns -> Values]
      BY <2>1 DEF Rows
    <2> QED
      BY <2>2 DEF Key
  <1>3. Keys(rows, S, C) = [i \in 1..Len(picked) |-> Key(picked[i], C)] /\ Len(picked) \in Nat
    BY <1>1 DEF Keys, picked
  <1> QED
    BY <1>1, <1>2, <1>3

LEMMA AskIsSubmit == Ask => \E r : Submit(r)
  <1> SUFFICES ASSUME Ask PROVE \E r : Submit(r)
    OBVIOUS
  <1>1. ASSUME NEW v, NEW S, SubmitRemoval(v, S) PROVE \E r : Submit(r)
    BY <1>1 DEF SubmitRemoval
  <1>2. ASSUME NEW v, NEW S, NEW c, NEW x, SubmitBulkEdit(v, S, c, x) PROVE \E r : Submit(r)
    BY <1>2 DEF SubmitBulkEdit
  <1>3. ASSUME NEW v, NEW new, SubmitInline(v, new) PROVE \E r : Submit(r)
    BY <1>3 DEF SubmitInline
  <1>4. ASSUME NEW v, NEW C, NEW new, SubmitAddition(v, C, new) PROVE \E r : Submit(r)
    BY <1>4 DEF SubmitAddition
  <1>5. ASSUME NEW v, NEW c, SubmitColumn(v, c) PROVE \E r : Submit(r)
    BY <1>5 DEF SubmitColumn
  <1>6. ASSUME NEW t, SubmitImport(t) PROVE \E r : Submit(r)
    BY <1>6 DEF SubmitImport
  <1> QED
    BY <1>1, <1>2, <1>3, <1>4, <1>5, <1>6 DEF Ask

LEMMA AsksOK ==
    ASSUME Ask
    PROVE  RequestOK(request') /\ request'.action \in Actions
  <1>0. ASSUME NEW v \in Loaded, NEW S \in SUBSET DOMAIN v.rows
        PROVE  v.cols \in SUBSET Columns /\ Keys(v.rows, S, v.cols) \in Seq([v.cols -> Values])
    <2>1. v.cols \in SUBSET Columns /\ v.rows \in Seq(Rows)
      BY ReplayAssumption DEF IsTable
    <2> QED
      BY <2>1, KeysAre
  <1>1. ASSUME NEW v \in Loaded, NEW S \in SUBSET DOMAIN v.rows, SubmitRemoval(v, S)
        PROVE  RequestOK(request') /\ request'.action \in Actions
    BY <1>0, <1>1 DEF SubmitRemoval, Submit, RequestOK, Actions
  <1>2. ASSUME NEW v \in Loaded, NEW S \in SUBSET DOMAIN v.rows, NEW c, NEW x \in Values, SubmitBulkEdit(v, S, c, x)
        PROVE  RequestOK(request') /\ request'.action \in Actions
    BY <1>0, <1>2 DEF SubmitBulkEdit, Submit, RequestOK, Actions
  <1>3. ASSUME NEW v \in Loaded, NEW new \in [DOMAIN v.rows -> Cells(v.cols)], SubmitInline(v, new)
        PROVE  RequestOK(request') /\ request'.action \in Actions
    <2> DEFINE changed == {i \in DOMAIN v.rows : new[i] # v.rows[i].cell}
               rows == [i \in DOMAIN v.rows |-> [v.rows[i] EXCEPT !.cell = new[i]]]
    <2>1. v.cols \in SUBSET Columns /\ v.rows \in Seq(Rows) /\ DOMAIN v.rows = 1..Len(v.rows)
      BY ReplayAssumption DEF IsTable
    <2>2. \A i \in DOMAIN v.rows : new[i] \in [Columns -> Values] /\ v.rows[i] \in Rows
      BY <1>3, <2>1, CellsAre
    <2>3. \A i \in DOMAIN v.rows : [v.rows[i] EXCEPT !.cell = new[i]] \in Rows
      BY <2>2 DEF Rows
    <2>4. rows \in Seq(Rows)
      BY <2>1, <2>3
    <2>5. Cardinality(changed) \in Nat
      <3>1. Len(v.rows) \in Int /\ 1 \in Int
        BY <2>1
      <3>2. IsFiniteSet(1..Len(v.rows))
        BY <3>1, FS_Interval
      <3>3. changed \in SUBSET (1..Len(v.rows))
        BY <2>1
      <3> HIDE DEF changed
      <3> QED
        BY <3>2, <3>3, FS_Subset, FS_CardinalityType
    <2>6. request' = [cols |-> v.cols, rows |-> rows, action |-> "inline",
                      count |-> Cardinality(changed)]
      BY <1>3 DEF SubmitInline, Submit
    <2> HIDE DEF rows, changed
    <2> QED
      BY <2>1, <2>4, <2>5, <2>6 DEF RequestOK, Actions
  <1>4. ASSUME NEW v \in Loaded, NEW C \in SUBSET Columns, NEW n \in 1..MaxNew,
               NEW new \in [1..n -> Cells(C)], SubmitAddition(v, C, new)
        PROVE  RequestOK(request') /\ request'.action \in Actions
    <2> DEFINE added == [i \in DOMAIN new |-> [cell |-> new[i], by |-> Blank]]
               rows == v.rows \o added
    <2>1. v.rows \in Seq(Rows)
      BY ReplayAssumption DEF IsTable
    <2>2. n \in Nat /\ DOMAIN new = 1..n
      BY <1>4, ReplayAssumption
    <2>3. \A i \in 1..n : [cell |-> new[i], by |-> Blank] \in Rows
      BY <1>4, CellsAre, ReplayAssumption DEF Rows
    <2>4. added \in Seq(Rows)
      BY <2>2, <2>3
    <2> HIDE DEF added
    <2>5. rows \in Seq(Rows)
      BY <2>1, <2>4
    <2>6. request' = [cols |-> C, rows |-> rows, action |-> "bulk_row_addition",
                      keys |-> Keys(rows, Len(v.rows) + 1..Len(rows), C)]
      BY <1>4 DEF SubmitAddition, Submit, added
    <2>7. Len(v.rows) + 1..Len(rows) \in SUBSET DOMAIN rows
      <3>1. Len(v.rows) \in Nat /\ DOMAIN rows = 1..Len(rows) /\ Len(rows) \in Nat
        BY <2>1, <2>5
      <3> HIDE DEF rows
      <3> QED
        BY <3>1
    <2>8. Keys(rows, Len(v.rows) + 1..Len(rows), C) \in Seq([C -> Values])
      <3> HIDE DEF rows
      <3> QED
        BY <2>5, <2>7, KeysAre
    <2> HIDE DEF rows
    <2> QED
      BY <2>5, <2>6, <2>8 DEF RequestOK, Actions
  <1>5. ASSUME NEW v \in Loaded, NEW c, SubmitColumn(v, c) PROVE RequestOK(request') /\ request'.action \in Actions
    BY <1>5 DEF SubmitColumn, Submit, RequestOK, Actions
  <1>6. ASSUME NEW t \in Imports, SubmitImport(t) PROVE RequestOK(request') /\ request'.action \in Actions
    <2>1. t.cols \in SUBSET Columns /\ t.rows \in Seq(Rows)
      BY ReplayAssumption DEF IsTable
    <2> QED
      BY <1>6, <2>1 DEF SubmitImport, Submit, RequestOK, Actions
  <1> QED
    BY Ask, <1>1, <1>2, <1>3, <1>4, <1>5, <1>6 DEF Ask

\* What an approval makes of a table is one.
LEMMA RebuiltIs ==
    ASSUME NEW t \in [cols : SUBSET Columns, rows : Seq(Rows)], NEW r, RequestOK(r),
           r.action \in Actions
    PROVE  Rebuilt(t, r) \in [cols : SUBSET Columns, rows : Seq(Rows)]
  <1> DEFINE T == [cols : SUBSET Columns, rows : Seq(Rows)]
  <1>1. DOMAIN t.rows = 1..Len(t.rows) /\ Len(t.rows) \in Nat /\ t.rows \in Seq(Rows)
    OBVIOUS
  <1>2. CASE r.action = "bulk_row_removal"
    <2> DEFINE S == DOMAIN t.rows \ Matches(t, r)
    <2>1. At(t.rows, S) \in Seq(Rows)
      BY AtIs
    <2>2. Rebuilt(t, r) = [t EXCEPT !.rows = At(t.rows, S)]
      BY <1>2 DEF Rebuilt
    <2> HIDE DEF S
    <2> QED
      BY <2>1, <2>2
  <1>3. CASE r.action = "bulk_row_edit"
    <2> DEFINE new == [i \in DOMAIN t.rows |-> IF i \in Matches(t, r)
                                               THEN [t.rows[i] EXCEPT !.cell[r.col] = r.val] ELSE t.rows[i]]
    <2>1. ASSUME NEW row \in Rows PROVE [row EXCEPT !.cell[r.col] = r.val] \in Rows
      <3>1. r.val \in Values
        BY <1>3 DEF RequestOK
      <3>2. row.cell \in [Columns -> Values]
        BY <2>1 DEF Rows
      <3>3. [row.cell EXCEPT ![r.col] = r.val] \in [Columns -> Values]
        BY <3>1, <3>2
      <3> QED
        BY <2>1, <3>3 DEF Rows
    <2>2. \A i \in DOMAIN t.rows : new[i] \in Rows
      BY <1>1, <2>1
    <2>3. new \in Seq(Rows)
      BY <1>1, <2>2
    <2>4. Rebuilt(t, r) = [t EXCEPT !.rows = new]
      BY <1>3 DEF Rebuilt
    <2> HIDE DEF new
    <2> QED
      BY <2>3, <2>4
  <1>4. CASE r.action = "column_removal"
    <2>1. Rebuilt(t, r) = [t EXCEPT !.cols = t.cols \ {r.col}]
      BY <1>4 DEF Rebuilt
    <2>2. t.cols \ {r.col} \in SUBSET Columns
      OBVIOUS
    <2> QED
      BY <2>1, <2>2
  <1>5. CASE r.action = "bulk_row_addition"
    <2>1. r.cols \in SUBSET Columns /\ r.rows \in Seq(Rows)
      BY <1>5 DEF RequestOK
    <2>2. NewRows(r) \in Seq(Rows)
      <3> DEFINE S == {i \in DOMAIN r.rows : LET k == Key(r.rows[i], r.cols)
                                             IN Count(r.rows, i..Len(r.rows), k, r.cols) <= Named(r, k)}
      <3>1. S \in SUBSET DOMAIN r.rows /\ NewRows(r) = At(r.rows, S)
        BY DEF NewRows
      <3> HIDE DEF S
      <3> QED
        BY <2>1, <3>1, AtIs
    <2>3. t.rows \o NewRows(r) \in Seq(Rows) /\ t.cols \cup r.cols \in SUBSET Columns
      BY <2>1, <2>2
    <2>4. Rebuilt(t, r) = [cols |-> t.cols \cup r.cols, rows |-> t.rows \o NewRows(r)]
      BY <1>5 DEF Rebuilt
    <2> QED
      BY <2>3, <2>4
  <1>6. CASE r.action \in {"csv_import_replace", "inline"}
    <2>1. r.cols \in SUBSET Columns /\ r.rows \in Seq(Rows)
      BY <1>6 DEF RequestOK
    <2>2. Rebuilt(t, r) = [cols |-> r.cols, rows |-> r.rows]
      BY <1>6 DEF Rebuilt
    <2> QED
      BY <2>1, <2>2
  <1> QED
    BY <1>2, <1>3, <1>4, <1>5, <1>6 DEF Actions

\* Counting the changes that a save makes gives numbers.
LEMMA CountersAre ==
    ASSUME TypeInv, request.action \in Actions
    PROVE  Corrected(request, Diff) \in [Limits -> Int]
  <1> DEFINE C == csv.cols \cap plan.cols
             n1 == Cardinality(Diff.added)
             n2 == Cardinality(Diff.removed)
             n3 == Cardinality(Diff.edited)
             n4 == Cardinality(plan.cols \ csv.cols)
             counted == Counted(request, Diff)
  <1>1. csv.rows \in Seq(Rows) /\ plan.rows \in Seq(Rows) /\ plan.cols \in SUBSET Columns
    BY DEF TypeInv, TypeOK, IsTable
  <1>2. Diff = ComputeDiff(csv.rows, plan.rows, C)
    BY DEF Diff
  <1>3. IsFiniteSet(Diff.added) /\ IsFiniteSet(Diff.removed) /\ IsFiniteSet(Diff.edited)
    <2> HIDE DEF C
    <2> QED
      BY <1>1, <1>2, DiffAccounts
  <1>4. IsFiniteSet(plan.cols \ csv.cols)
    <2>1. plan.cols \ csv.cols \in SUBSET Columns
      BY <1>1
    <2> QED
      BY <2>1, ReplayAssumption, FS_Subset
  <1>5. n1 \in Int /\ n2 \in Int /\ n3 \in Int /\ n4 \in Int
    <2>1. n1 \in Nat /\ n2 \in Nat /\ n3 \in Nat /\ n4 \in Nat
      BY <1>3, <1>4, FS_CardinalityType
    <2> HIDE DEF n1, n2, n3, n4
    <2> QED
      BY <2>1
  <1>6. \A x \in Limits : counted[x] \in {n1, n2, n3, n4, 0, 1}
    BY DEF Counted
  <1>7. counted \in [Limits -> Int]
    <2>1. counted = [x \in Limits |-> counted[x]]
      BY DEF Counted
    <2> HIDE DEF counted, n1, n2, n3, n4
    <2>2. \A x \in Limits : counted[x] \in Int
      BY <1>5, <1>6
    <2> QED
      BY <2>1, <2>2
  <1>8. CASE request.action = "inline" /\ Diff.added # {}
    <2>1. request.count \in Int
      BY <1>8 DEF TypeInv, RequestOK
    <2>2. Corrected(request, Diff) =
              [[counted EXCEPT !["row_addition"] = counted["row_addition"] - n1]
                        EXCEPT !["bulk_row_edit"] = counted["bulk_row_edit"] - n3 + request.count]
      BY <1>8 DEF Corrected
    <2> HIDE DEF counted, n1, n3
    <2>3. counted["row_addition"] - n1 \in Int /\ counted["bulk_row_edit"] - n3 + request.count \in Int
      BY <1>5, <1>7, <2>1 DEF Limits
    <2> QED
      BY <1>7, <2>2, <2>3
  <1>9. CASE ~(request.action = "inline" /\ Diff.added # {})
    <2>1. Corrected(request, Diff) = counted
      BY <1>9 DEF Corrected
    <2> HIDE DEF counted
    <2> QED
      BY <1>7, <2>1
  <1> QED
    BY <1>8, <1>9

\* What is written is a table, as long as what was to be saved.
LEMMA WrittenIs ==
    ASSUME TypeInv, NEW d
    PROVE  IsTable(Written(d)) /\ Len(Written(d).rows) = Len(plan.rows)
  <1> DEFINE Stamped(i) == IF i \in d.added THEN [plan.rows[i] EXCEPT !.by = analyst] ELSE plan.rows[i]
             new == [i \in DOMAIN plan.rows |-> Stored(Stamped(i), plan.cols)]
  <1>1. plan \in [cols : SUBSET Columns, rows : Seq(Rows)]
    BY DEF TypeInv, TypeOK
  <1>2. DOMAIN plan.rows = 1..Len(plan.rows) /\ Len(plan.rows) \in Nat
    BY <1>1
  <1>3. ASSUME NEW i \in DOMAIN plan.rows PROVE Stamped(i) \in Rows
    <2>1. plan.rows[i] \in Rows
      BY <1>1, <1>3
    <2> QED
      BY <2>1, ReplayAssumption DEF Rows
  <1>4. ASSUME NEW row \in Rows
        PROVE  Stored(row, plan.cols) \in Rows /\ Stored(row, plan.cols).cell \in Cells(plan.cols)
    <2> DEFINE cell == [c \in Columns |-> IF c \in plan.cols THEN row.cell[c] ELSE Blank]
    <2>1. cell \in [Columns -> Values]
      BY <1>4, ReplayAssumption DEF Rows
    <2>2. cell \in Cells(plan.cols)
      BY <2>1 DEF Cells
    <2>3. Stored(row, plan.cols) = [row EXCEPT !.cell = cell]
      BY DEF Stored
    <2> HIDE DEF cell
    <2> QED
      BY <1>4, <2>1, <2>2, <2>3 DEF Rows
  <1>5. \A i \in DOMAIN plan.rows : new[i] \in Rows /\ new[i].cell \in Cells(plan.cols)
    <2> HIDE DEF Stamped
    <2> QED
      BY <1>3, <1>4
  <1>6. new \in Seq(Rows) /\ Len(new) = Len(plan.rows) /\ DOMAIN new = DOMAIN plan.rows
    <2> DEFINE n == Len(plan.rows)
    <2>1. new = [i \in 1..n |-> new[i]] /\ n \in Nat
      BY <1>2
    <2>2. \A i \in 1..n : new[i] \in Rows
      BY <1>2, <1>5
    <2> HIDE DEF new
    <2>3. new \in Seq(Rows) /\ Len(new) = n /\ DOMAIN new = 1..n
      <3> HIDE DEF n
      <3> QED BY <2>1, <2>2
    <2> QED
      BY <1>2, <2>3
  <1>7. Written(d) = [plan EXCEPT !.rows = new]
    BY DEF Written
  <1> HIDE DEF new
  <1> QED
    BY <1>1, <1>5, <1>6, <1>7 DEF IsTable

\* Every step keeps the types.
LEMMA TypeStep == TypeInv /\ [Next]_vars => TypeInv'
  <1> SUFFICES ASSUME TypeInv, [Next]_vars PROVE TypeInv'
    OBVIOUS
  <1> USE DEF TypeInv
  <1>1. CASE Ask
    <2>1. RequestOK(request') /\ request'.action \in Actions
      BY <1>1, AsksOK
    <2>2. UNCHANGED <<csv, base, plan, charged, faults>> /\ outcome' = "pending"
      BY <1>1, AskIsSubmit DEF Submit
    <2> QED
      BY <2>1, <2>2 DEF TypeOK, RequestOK, IsTable
  <1>2. CASE Approve
    <2>1. /\ UNCHANGED <<csv, request, charged, faults>> /\ request.action \in Actions
          /\ \/ outcome' = "failed" /\ plan' = plan
             \/ outcome' = "approving" /\ plan' = Rebuilt(csv, request)
      BY <1>2 DEF Approve
    <2>2. Rebuilt(csv, request) \in [cols : SUBSET Columns, rows : Seq(Rows)]
      BY <2>1, RebuiltIs DEF TypeOK, IsTable
    <2> QED
      BY <2>1, <2>2 DEF TypeOK, RequestOK, IsTable
  <1>3. CASE Save
    <2>1. UNCHANGED <<request, base, plan, faults>> /\ request.action \in Actions
      BY <1>3 DEF Save
    <2>2. CASE Refusals(plan) # {}
      <3>1. outcome' \in {"failed", "approved"} /\ csv' = csv /\ charged' = [x \in Limits |-> 0]
        BY <1>3, <2>2 DEF Save
      <3> QED
        BY <2>1, <3>1 DEF TypeOK, RequestOK, IsTable
    <2>3. CASE Refusals(plan) = {}
      <3>0. ~(Len(plan.rows) > MAX_ROWS)
        BY <2>3 DEF Refusals
      <3>1. /\ outcome' = "approved"
            /\ \/ csv' = Written(Diff) /\ charged' = Corrected(request, Diff)
               \/ csv' = csv /\ charged' = [x \in Limits |-> 0]
        BY <1>3, <2>3 DEF Save
      <3>2. IsTable(Written(Diff)) /\ Len(Written(Diff).rows) <= MAX_ROWS
        <4>1. IsTable(Written(Diff)) /\ Len(Written(Diff).rows) = Len(plan.rows)
          BY WrittenIs
        <4>2. Len(plan.rows) \in Nat /\ MAX_ROWS \in Nat
          BY ReplayAssumption DEF TypeOK
        <4> QED
          BY <3>0, <4>1, <4>2
      <3>3. Corrected(request, Diff) \in [Limits -> Int]
        BY <2>1, CountersAre
      <3>4. IsTable(csv') /\ Len(csv'.rows) <= MAX_ROWS /\ charged' \in [Limits -> Int]
        BY <3>1, <3>2, <3>3 DEF TypeOK
      <3> QED
        BY <2>1, <3>1, <3>4 DEF TypeOK, RequestOK
    <2> QED
      BY <2>2, <2>3
  <1>4. CASE Drop
    BY <1>4 DEF Drop, TypeOK, RequestOK, IsTable
  <1>5. CASE Expire
    <2> DEFINE past == {i \in DOMAIN csv.rows : csv.rows[i].cell[ExpireColumn] = Past}
               S == DOMAIN csv.rows \ past
               left == At(csv.rows, S)
    <2>1. UNCHANGED <<request, outcome, base, plan, charged, faults>> /\ csv' = [csv EXCEPT !.rows = left]
      BY <1>5 DEF Expire
    <2>2. csv \in [cols : SUBSET Columns, rows : Seq(Rows)]
      BY DEF TypeOK, IsTable
    <2>3. /\ left \in Seq(Rows) /\ Len(left) = Cardinality(S) /\ Cardinality(S) <= Len(csv.rows)
          /\ \A n \in DOMAIN left : \E i \in S : left[n] = csv.rows[i]
      <3> HIDE DEF past
      <3>1. csv.rows \in Seq(Rows) /\ S \in SUBSET DOMAIN csv.rows
        BY <2>2
      <3> HIDE DEF S
      <3> QED
        BY <3>1, AtIs
    <2>4. \A n \in DOMAIN left : left[n].cell \in Cells(csv.cols)
      <3> HIDE DEF left, past
      <3> QED
        BY <2>3 DEF TypeOK, IsTable
    <2> HIDE DEF left, S
    <2>5. IsTable(csv')
      BY <2>1, <2>2, <2>3, <2>4 DEF IsTable
    <2>6. Len(csv'.rows) <= MAX_ROWS
      <3>1. Len(csv.rows) \in Nat /\ MAX_ROWS \in Nat /\ Len(csv.rows) <= MAX_ROWS
        BY <2>2, ReplayAssumption DEF TypeOK
      <3>2. Len(left) \in Nat /\ Len(left) <= Len(csv.rows)
        BY <2>3
      <3> QED
        BY <2>1, <2>2, <3>1, <3>2
    <2> QED
      BY <2>1, <2>5, <2>6 DEF TypeOK, RequestOK
  <1>6. CASE UNCHANGED vars
    BY <1>6 DEF vars, TypeOK, RequestOK, IsTable
  <1>7. CASE SaveFails
    <2>1. /\ UNCHANGED <<csv, request, plan, charged>> /\ outcome' \in {"failed", "pending"}
          /\ faults' = faults + 1 /\ outcome = "approving"
      BY <1>7 DEF SaveFails
    <2> QED
      BY <2>1 DEF TypeOK, RequestOK, IsTable
  <1> QED
    BY <1>1, <1>2, <1>3, <1>4, <1>5, <1>6, <1>7 DEF Next

LEMMA TypeInit == Init => TypeInv
  <1> SUFFICES ASSUME Init PROVE TypeInv
    OBVIOUS
  <1>1. IsTable(csv) /\ Len(csv.rows) <= MAX_ROWS /\ plan = csv
    BY ReplayAssumption DEF Init
  <1>2. charged \in [Limits -> Int] /\ faults \in Nat
    BY DEF Init
  <1>3. outcome = "none" /\ request.action = "none"
    BY DEF Init
  <1> QED
    BY <1>1, <1>2, <1>3 DEF TypeInv, TypeOK, RequestOK, IsTable

\* Requests, the contents worked out from them and the CSV stay what they are read as:
\* no approval puts anything else into the file.
THEOREM TypeCorrect == Spec => []TypeOK
  <1>1. Init => TypeInv
    BY TypeInit
  <1>2. TypeInv /\ [Next]_vars => TypeInv'
    BY TypeStep
  <1>3. TypeInv => TypeOK
    BY DEF TypeInv
  <1> QED
    BY <1>1, <1>2, <1>3, PTL DEF Spec

\* Whatever a request has made of the CSV, and whatever has been made of it since, what the
\* save records accounts for the difference.
THEOREM ReplayAccounts == Spec => []DiffReconciles
  <1>1. Init => TypeInv
    BY TypeInit
  <1>2. TypeInv /\ [Next]_vars => TypeInv'
    BY TypeStep
  <1>3. TypeInv => DiffReconciles
    <2> SUFFICES ASSUME TypeInv
                 PROVE  Reconciles(csv.rows, plan.rows, csv.cols \cap plan.cols, Diff)
      BY DEF DiffReconciles
    <2> DEFINE C == csv.cols \cap plan.cols
    <2>1. csv.rows \in Seq(Rows) /\ plan.rows \in Seq(Rows)
      BY DEF TypeInv, TypeOK, IsTable
    <2>2. Diff = ComputeDiff(csv.rows, plan.rows, C)
      BY DEF Diff
    <2> HIDE DEF C
    <2>3. Reconciles(csv.rows, plan.rows, C, Diff)
      BY <2>1, <2>2, DiffAccounts
    <2> QED
      BY <2>3 DEF C
  <1> QED
    BY <1>1, <1>2, <1>3, PTL DEF Spec

----------------------------------------------------------------------------
(* Failures.                                                               *)

\* If a table has the rows that a request names, however they are chosen among equal
\* rows, approving it finds as many.
LEMMA NamedAreFound ==
    ASSUME NEW R, NEW t, t.rows \in Seq(R), NEW r, NEW S \in SUBSET DOMAIN t.rows, Names(r, t, S)
    PROVE  ~(Cardinality(Matches(t, r)) < Len(r.keys))
  <1> DEFINE C == r.cols
             k(i) == Key(t.rows[i], C)
             P(i) == Having(t.rows, k(i), C)
             Q(i) == S \cap P(i)
             g == [i \in S |-> Nth(P(i), Rank(Q(i), i))]
             M == Matches(t, r)
  <1>1. DOMAIN t.rows = 1..Len(t.rows) /\ Len(t.rows) \in Nat
    OBVIOUS
  <1>2. ASSUME NEW i \in S
        PROVE  /\ P(i) \in SUBSET Nat /\ IsFiniteSet(P(i))
               /\ Q(i) \in SUBSET P(i) /\ IsFiniteSet(Q(i)) /\ i \in Q(i)
               /\ Cardinality(Q(i)) \in Nat /\ Cardinality(P(i)) \in Nat
               /\ Cardinality(Q(i)) <= Cardinality(P(i))
               /\ Cardinality(Q(i)) = Named(r, k(i))
               /\ \A j \in DOMAIN t.rows : Count(t.rows, 1..j, k(i), C) = Rank(P(i), j)
    <2> DEFINE ki == k(i)
               Pi == P(i)
               Qi == Q(i)
    <2>1. /\ Pi \in SUBSET Nat /\ IsFiniteSet(Pi)
          /\ \A j \in DOMAIN t.rows : Count(t.rows, 1..j, ki, C) = Rank(Pi, j)
          /\ Count(t.rows, S, ki, C) = Cardinality(Qi)
      <3>1. Pi = Having(t.rows, ki, C) /\ Qi = S \cap Pi
        OBVIOUS
      <3> HIDE DEF C, k, P, Q, ki, Pi, Qi
      <3>2. Pi \in SUBSET Nat /\ IsFiniteSet(Pi)
        BY <3>1, Counts
      <3>3. \A j \in DOMAIN t.rows : Count(t.rows, 1..j, ki, C) = Rank(Pi, j)
        BY <3>1, Counts
      <3>4. \A U \in SUBSET DOMAIN t.rows : Count(t.rows, U, ki, C) = Cardinality(U \cap Pi)
        BY <3>1, Counts
      <3> QED
        BY <3>1, <3>2, <3>3, <3>4
    <2>2. i \in Qi
      BY DEF Having
    <2>3. Count(t.rows, S, ki, C) = Named(r, ki)
      BY DEF Names
    <2>4. Qi \in SUBSET Pi
      OBVIOUS
    <2> HIDE DEF Pi, Qi
    <2>5. IsFiniteSet(Qi) /\ Cardinality(Qi) <= Cardinality(Pi)
      BY <2>1, <2>4, FS_Subset
    <2>6. Cardinality(Qi) \in Nat /\ Cardinality(Pi) \in Nat
      BY <2>1, <2>5, FS_CardinalityType
    <2> QED
      BY <2>1, <2>2, <2>3, <2>4, <2>5, <2>6 DEF Pi, Qi
  <1>3. ASSUME NEW i \in S
        PROVE  /\ g[i] \in M /\ k(g[i]) = k(i)
               /\ Rank(P(i), g[i]) = Rank(Q(i), i)
    <2> DEFINE ki == k(i)
               Pi == P(i)
               Qi == Q(i)
               n == Rank(Qi, i)
               gi == Nth(Pi, n)
    <2>1. /\ Pi \in SUBSET Nat /\ IsFiniteSet(Pi) /\ Qi \in SUBSET Nat /\ IsFiniteSet(Qi) /\ i \in Qi
          /\ Cardinality(Qi) \in Nat /\ Cardinality(Pi) \in Nat
          /\ Cardinality(Qi) <= Cardinality(Pi) /\ Cardinality(Qi) = Named(r, ki)
          /\ \A j \in DOMAIN t.rows : Count(t.rows, 1..j, ki, C) = Rank(Pi, j)
      BY <1>2
    <2>2. n \in 1..Cardinality(Qi)
      <3> HIDE DEF Qi, Pi, ki
      <3> QED
        BY <2>1, Ranks
    <2>3. n \in 1..Cardinality(Pi) /\ n <= Named(r, ki)
      <3> HIDE DEF n, Qi, Pi, ki
      <3> QED
        BY <2>1, <2>2
    <2>4. gi \in Pi /\ Rank(Pi, gi) = n
      <3> HIDE DEF n, Pi
      <3> QED
        BY <2>1, <2>3, NthIs
    <2>5. gi \in DOMAIN t.rows /\ k(gi) = ki
      <3> HIDE DEF gi
      <3> QED
        BY <2>4 DEF Having
    <2>6. Count(t.rows, 1..gi, k(gi), C) <= Named(r, k(gi))
      <3> HIDE DEF gi, n, Pi, ki
      <3> QED
        BY <2>1, <2>3, <2>4, <2>5
    <2>7. gi \in M
      <3> HIDE DEF gi
      <3> QED
        BY <2>5, <2>6 DEF Matches
    <2>8. g[i] = gi
      BY <1>3
    <2> HIDE DEF gi, g
    <2> QED
      BY <2>4, <2>5, <2>7, <2>8
  <1>4. ASSUME NEW i \in S, NEW j \in S, g[i] = g[j] PROVE i = j
    <2>1. k(i) = k(j)
      BY <1>3, <1>4
    <2>2. P(i) = P(j) /\ Q(i) = Q(j)
      BY <2>1
    <2> DEFINE Qi == Q(i)
    <2>3. Rank(Qi, i) = Rank(Qi, j)
      BY <1>3, <1>4, <2>2
    <2>4. Qi \in SUBSET Nat /\ IsFiniteSet(Qi) /\ i \in Qi /\ j \in Qi
      BY <1>2, <2>2
    <2> HIDE DEF Qi
    <2>5. /\ Cardinality(Qi) \in Nat /\ Rank(Qi, i) \in 1..Cardinality(Qi)
          /\ i < j => Rank(Qi, i) < Rank(Qi, j)
          /\ j < i => Rank(Qi, j) < Rank(Qi, i)
      BY <2>4, Ranks
    <2> QED
      BY <2>3, <2>4, <2>5
  <1>5. IsFiniteSet(M)
    <2>1. 1 \in Int /\ Len(t.rows) \in Int
      BY <1>1
    <2>2. IsFiniteSet(1..Len(t.rows))
      BY <2>1, FS_Interval
    <2>3. M \in SUBSET (1..Len(t.rows))
      BY <1>1 DEF Matches
    <2> HIDE DEF M
    <2> QED
      BY <2>2, <2>3, FS_Subset
  <1>6. g \in Injection(S, M)
    <2>1. g = [i \in S |-> g[i]]
      OBVIOUS
    <2> HIDE DEF g, M, k, P, Q
    <2>2. g \in [S -> M]
      BY <1>3, <2>1
    <2> QED
      BY <1>4, <2>2 DEF Injection, IsInjective
  <1> HIDE DEF g, M
  <1>7. IsFiniteSet(S) /\ Cardinality(S) <= Cardinality(M)
    BY <1>5, <1>6, FS_Injection
  <1>8. Cardinality(S) \in Nat /\ Cardinality(M) \in Nat
    BY <1>5, <1>7, FS_CardinalityType
  <1>9. Cardinality(S) = Len(r.keys)
    BY DEF Names
  <1> QED
    BY <1>7, <1>8, <1>9 DEF M

\* What an addition is refused for is a row it names, and has.
LEMMA AddedIsNamed ==
    ASSUME NEW R, NEW K, NEW r, r.rows \in Seq(R), r.keys \in Seq(K), NEW n \in DOMAIN NewRows(r)
    PROVE  Named(r, Key(NewRows(r)[n], r.cols)) > 0
  <1> DEFINE C == r.cols
             S == {i \in DOMAIN r.rows : LET k == Key(r.rows[i], C)
                                         IN Count(r.rows, i..Len(r.rows), k, C) <= Named(r, k)}
  <1>1. S \in SUBSET DOMAIN r.rows /\ NewRows(r) = At(r.rows, S)
    BY DEF NewRows
  <1>2. PICK i \in S : NewRows(r)[n] = r.rows[i]
    <2> HIDE DEF S
    <2> QED
      BY <1>1, AtIs
  <1> DEFINE k == Key(r.rows[i], C)
             P == Having(r.rows, k, C)
  <1>3. i \in DOMAIN r.rows /\ Count(r.rows, i..Len(r.rows), k, C) <= Named(r, k)
    OBVIOUS
  <1>4. i \in P
    BY <1>3 DEF Having
  <1> HIDE DEF S
  <1>5. /\ P \in SUBSET Nat /\ IsFiniteSet(P)
        /\ Count(r.rows, i..Len(r.rows), k, C) = RankFrom(P, i)
    <2> HIDE DEF k, C
    <2> QED
      BY <1>3, Counts
  <1> HIDE DEF P
  <1>6. RankFrom(P, i) \in Nat /\ RankFrom(P, i) # 0
    <2> DEFINE U == {j \in P : j >= i}
    <2>1. i \in U /\ U \in SUBSET P
      BY <1>4, <1>5
    <2> HIDE DEF U
    <2>2. IsFiniteSet(U) /\ U # {}
      BY <1>5, <2>1, FS_Subset
    <2>3. Cardinality(U) \in Nat /\ Cardinality(U) # 0
      BY <2>2, FS_CardinalityType, FS_EmptySet
    <2> QED
      BY <2>3 DEF RankFrom, U
  <1>7. Named(r, k) \in Nat
    <2> DEFINE U == {j \in DOMAIN r.keys : r.keys[j] = k}
    <2>1. DOMAIN r.keys = 1..Len(r.keys) /\ 1 \in Int /\ Len(r.keys) \in Int
      OBVIOUS
    <2>2. U \in SUBSET (1..Len(r.keys))
      BY <2>1
    <2> HIDE DEF U
    <2>3. Cardinality(U) \in Nat
      BY <2>1, <2>2, FS_Interval, FS_Subset, FS_CardinalityType
    <2> QED
      BY <2>3 DEF Named, U
  <1> HIDE DEF k
  <1>8. Named(r, k) > 0
    BY <1>3, <1>5, <1>6, <1>7
  <1> QED
    BY <1>2, <1>8 DEF k

\* The cause that a failure has to have.
Cause ==
    \/ faults' > faults
    \/ /\ outcome = "approving"
       /\ \/ Len(plan.rows) > MAX_ROWS \/ plan.cols \in unfit.cols
          \/ Long(plan) \/ Undated(plan) \/ plan.cols \cap unfit.names # {}
          \/ request.action = "inline" /\ Odd(plan)
    \/ request.action = "bulk_row_addition" /\ \E i \in DOMAIN csv.rows :
           Named(request, Key(csv.rows[i], request.cols)) > 0
    \/ request.action \in {"bulk_row_edit", "column_removal"} /\ request.col \notin csv.cols
    \/ /\ request.action \in {"bulk_row_removal", "bulk_row_edit"}
       /\ ~\E S \in SUBSET DOMAIN csv.rows : Names(request, csv, S)

LEMMA RefusedForCause == TypeInv /\ Refused(csv, request) /\ outcome = "pending" => Cause
  <1> SUFFICES ASSUME TypeInv, Refused(csv, request), outcome = "pending" PROVE Cause
    OBVIOUS
  <1>1. request.action \in Actions /\ csv.rows \in Seq(Rows) /\ RequestOK(request)
    BY DEF TypeInv, TypeOK, IsTable
  <1>2. CASE request.action \in {"bulk_row_removal", "bulk_row_edit"}
    <2>1. \/ Cardinality(Matches(csv, request)) < Len(request.keys)
          \/ request.action = "bulk_row_edit" /\ request.col \notin csv.cols
      BY <1>2 DEF Refused
    <2>2. ASSUME NEW S \in SUBSET DOMAIN csv.rows, Names(request, csv, S)
          PROVE  ~(Cardinality(Matches(csv, request)) < Len(request.keys))
      BY <1>1, <2>2, NamedAreFound
    <2> QED
      BY <1>2, <2>1, <2>2 DEF Cause
  <1>3. CASE request.action = "column_removal"
    BY <1>3 DEF Refused, Cause
  <1>4. CASE request.action = "bulk_row_addition"
    <2>1. PICK n \in DOMAIN NewRows(request) :
              Times(csv.rows, Key(NewRows(request)[n], request.cols), request.cols) > 0
      BY <1>4 DEF Refused
    <2> DEFINE C == request.cols
               k == Key(NewRows(request)[n], C)
               P == Having(csv.rows, k, C)
    <2>2. Named(request, k) > 0
      <3>1. request.rows \in Seq(Rows) /\ request.keys \in Seq([request.cols -> Values])
        BY <1>1, <1>4 DEF RequestOK
      <3> QED
        BY <3>1, AddedIsNamed
    <2>3. Times(csv.rows, k, C) = Cardinality(P)
      <3> HIDE DEF k, C
      <3> QED
        BY <1>1, Counts
    <2>4. P # {}
      <3>1. Cardinality(P) > 0
        BY <2>1, <2>3
      <3> HIDE DEF P
      <3>2. Cardinality({}) = 0
        BY FS_EmptySet
      <3> QED
        BY <3>1, <3>2
    <2>5. PICK i \in DOMAIN csv.rows : Key(csv.rows[i], C) = k
      BY <2>4 DEF Having
    <2> QED
      BY <1>4, <2>2, <2>5 DEF Cause
  <1>5. CASE request.action \in {"csv_import_replace", "inline"}
    BY <1>5 DEF Refused
  <1> QED
    BY <1>1, <1>2, <1>3, <1>4, <1>5 DEF Actions

\* A request fails only if what it names is not there as often as it names it, or what it
\* adds is, or its contents are such that saves refuse them, or a write fails: rows are counted by position, and no choice
\* among equal rows, nor any order of them, makes an approval fail that could be carried out.
THEOREM FailuresHaveCause == Spec => FailsForCause
  <1>1. Init => TypeInv
    BY TypeInit
  <1>2. TypeInv /\ [Next]_vars => TypeInv'
    BY TypeStep
  <1>3. TypeInv /\ [Next]_vars =>
          [outcome # "failed" /\ outcome' = "failed" =>
             /\ csv' = csv
             /\ \/ faults' > faults
                \/ /\ outcome = "approving"
                   /\ \/ Len(plan.rows) > MAX_ROWS \/ plan.cols \in unfit.cols
                      \/ Long(plan) \/ Undated(plan) \/ plan.cols \cap unfit.names # {}
                      \/ request.action = "inline" /\ Odd(plan)
                \/ request.action = "bulk_row_addition" /\ \E i \in DOMAIN csv.rows :
                       Named(request, Key(csv.rows[i], request.cols)) > 0
                \/ request.action \in {"bulk_row_edit", "column_removal"} /\ request.col \notin csv.cols
                \/ /\ request.action \in {"bulk_row_removal", "bulk_row_edit"}
                   /\ ~\E S \in SUBSET DOMAIN csv.rows : Names(request, csv, S)]_vars
    <2> SUFFICES ASSUME TypeInv, Next, outcome # "failed", outcome' = "failed"
                 PROVE  csv' = csv /\ Cause
      BY DEF vars, Cause
    <2>1. CASE Ask
      BY <2>1, AskIsSubmit DEF Submit
    <2>2. CASE Approve
      <3>1. csv' = csv /\ outcome = "pending" /\ Refused(csv, request)
        BY <2>2 DEF Approve
      <3> QED
        BY <3>1, RefusedForCause
    <2>3. CASE Save
      <3>1. outcome = "approving"
        BY <2>3 DEF Save
      <3>2. Refusals(plan) # {} /\ csv' = csv
        BY <2>3 DEF Save
      <3>3. \E status \in Refusals(plan) : status >= 400 \/ request.action = "inline"
        BY <2>3, <3>2 DEF Save
      <3> QED
        BY <3>1, <3>2, <3>3 DEF Cause, Refusals
    <2>6. CASE SaveFails
      <3>1. csv' = csv /\ faults' = faults + 1 /\ faults \in Nat
        BY <2>6 DEF SaveFails, TypeInv, TypeOK
      <3> QED
        BY <3>1 DEF Cause
    <2>4. CASE Drop
      BY <2>4 DEF Drop
    <2>5. CASE Expire
      BY <2>5 DEF Expire
    <2> QED
      BY <2>1, <2>2, <2>3, <2>4, <2>5, <2>6 DEF Next
  <1> QED
    BY <1>1, <1>2, <1>3, PTL DEF Spec, FailsForCause

----------------------------------------------------------------------------
(* More about counting.                                                    *)

\* Positions of a sequence are numbers, and finitely many.
LEMMA Positions ==
    ASSUME NEW R, NEW rows \in Seq(R), NEW S \in SUBSET DOMAIN rows
    PROVE  /\ S \in SUBSET Nat /\ IsFiniteSet(S) /\ Cardinality(S) \in Nat /\ 0 \notin S
           /\ Cardinality(DOMAIN rows) = Len(rows) /\ IsFiniteSet(DOMAIN rows)
  <1> DEFINE n == Len(rows)
  <1>1. DOMAIN rows = 1..n /\ n \in Nat
    OBVIOUS
  <1> HIDE DEF n
  <1>2. 1 \in Int /\ n \in Int
    BY <1>1
  <1>3. IsFiniteSet(1..n) /\ Cardinality(1..n) = IF 1 > n THEN 0 ELSE n - 1 + 1
    BY <1>2, FS_Interval
  <1>4. Cardinality(1..n) = n
    <2>1. (IF 1 > n THEN 0 ELSE n - 1 + 1) = n
      BY <1>1
    <2> QED
      BY <1>3, <2>1
  <1>5. IsFiniteSet(S)
    BY <1>1, <1>3, FS_Subset
  <1>6. S \in SUBSET Nat /\ 0 \notin S
    BY <1>1
  <1> QED
    BY <1>1, <1>3, <1>4, <1>5, <1>6, FS_CardinalityType DEF n

\* A set of numbers has a least one.
LEMMA Least ==
    ASSUME NEW S \in SUBSET Nat, IsFiniteSet(S), S # {}
    PROVE  \E m \in S : \A n \in S : m <= n
  <1> DEFINE m == Nth(S, 1)
  <1>1. Cardinality(S) \in Nat /\ Cardinality(S) # 0
    BY FS_CardinalityType, FS_EmptySet
  <1>2. 1 \in 1..Cardinality(S)
    BY <1>1
  <1>3. m \in S /\ Rank(S, m) = 1
    BY <1>2, NthIs
  <1> HIDE DEF m
  <1>4. ASSUME NEW n \in S, n < m PROVE FALSE
    <2>1. Rank(S, n) < Rank(S, m) /\ Rank(S, n) \in 1..Cardinality(S)
      BY <1>3, <1>4, Ranks
    <2> QED
      BY <1>1, <1>3, <2>1
  <1> QED
    BY <1>3, <1>4

\* Counting a part of the rows is counting the rest.
LEMMA CountRest ==
    ASSUME NEW R, NEW rows \in Seq(R), NEW C, NEW k, NEW S \in SUBSET DOMAIN rows
    PROVE  /\ Count(rows, S, k, C) \in Nat /\ Times(rows, k, C) \in Nat
           /\ Count(rows, S, k, C) + Count(rows, DOMAIN rows \ S, k, C) = Times(rows, k, C)
  <1> DEFINE P == Having(rows, k, C)
             Q == S \cap P
  <1>1. P \in SUBSET Nat /\ IsFiniteSet(P) /\ Times(rows, k, C) = Cardinality(P) /\ Times(rows, k, C) \in Nat
    BY Counts
  <1>2. \A U \in SUBSET DOMAIN rows : Count(rows, U, k, C) = Cardinality(U \cap P)
    BY Counts
  <1>3. DOMAIN rows \ S \in SUBSET DOMAIN rows /\ (DOMAIN rows \ S) \cap P = P \ Q
    BY DEF Having
  <1>4. Count(rows, S, k, C) = Cardinality(Q) /\ Count(rows, DOMAIN rows \ S, k, C) = Cardinality(P \ Q)
    <2> HIDE DEF P
    <2> QED
      BY <1>2, <1>3
  <1>5. Q \in SUBSET P /\ P \cap Q = Q
    OBVIOUS
  <1> HIDE DEF P, Q
  <1>6. IsFiniteSet(Q) /\ Cardinality(Q) \in Nat
    BY <1>1, <1>5, FS_Subset, FS_CardinalityType
  <1>7. Cardinality(P \ Q) = Cardinality(P) - Cardinality(Q)
    <2>1. Cardinality(P \ Q) = Cardinality(P) - Cardinality(P \cap Q)
      BY <1>1, FS_Difference
    <2> QED
      BY <1>5, <2>1
  <1> DEFINE p == Cardinality(P)
             q == Cardinality(Q)
  <1>8. p \in Nat /\ q \in Nat
    BY <1>1, <1>6
  <1> HIDE DEF p, q
  <1>9. q + (p - q) = p
    BY <1>8
  <1> QED
    BY <1>1, <1>4, <1>6, <1>7, <1>9 DEF p, q

\* Rows that are no more of any kind are no more.
LEMMA FewerOfEach ==
    ASSUME NEW R, NEW old \in Seq(R), NEW new \in Seq(R), NEW C,
           NEW X \in SUBSET DOMAIN old, NEW Y \in SUBSET DOMAIN new,
           \A k : Count(old, X, k, C) <= Count(new, Y, k, C)
    PROVE  Cardinality(X) <= Cardinality(Y)
  <1> DEFINE k(i) == Key(old[i], C)
             P(i) == X \cap Having(old, k(i), C)
             Q(i) == Y \cap Having(new, k(i), C)
             g == [i \in X |-> Nth(Q(i), Rank(P(i), i))]
  <1>1. ASSUME NEW i \in X
        PROVE  /\ P(i) \in SUBSET Nat /\ IsFiniteSet(P(i)) /\ i \in P(i)
               /\ Q(i) \in SUBSET Nat /\ IsFiniteSet(Q(i))
               /\ Cardinality(P(i)) \in Nat /\ Cardinality(Q(i)) \in Nat
               /\ Cardinality(P(i)) <= Cardinality(Q(i))
    <2> DEFINE ki == k(i)
               Pi == P(i)
               Qi == Q(i)
    <2>1. Pi \in SUBSET DOMAIN old /\ Qi \in SUBSET DOMAIN new
      OBVIOUS
    <2>2. i \in Pi
      BY <1>1 DEF Having
    <2>3. Pi = X \cap Having(old, ki, C) /\ Qi = Y \cap Having(new, ki, C)
      OBVIOUS
    <2> HIDE DEF ki, Pi, Qi
    <2>4. \A U \in SUBSET DOMAIN old : Count(old, U, ki, C) = Cardinality(U \cap Having(old, ki, C))
      BY Counts
    <2>5. \A U \in SUBSET DOMAIN new : Count(new, U, ki, C) = Cardinality(U \cap Having(new, ki, C))
      BY Counts
    <2>6. Cardinality(Pi) <= Cardinality(Qi)
      BY <2>3, <2>4, <2>5
    <2>7. Pi \in SUBSET Nat /\ IsFiniteSet(Pi) /\ Cardinality(Pi) \in Nat
      BY <2>1, Positions
    <2>8. Qi \in SUBSET Nat /\ IsFiniteSet(Qi) /\ Cardinality(Qi) \in Nat
      BY <2>1, Positions
    <2> QED
      BY <2>2, <2>6, <2>7, <2>8 DEF Pi, Qi
  <1>2. ASSUME NEW i \in X
        PROVE  g[i] \in Q(i) /\ Rank(Q(i), g[i]) = Rank(P(i), i)
    <2> DEFINE Pi == P(i)
               Qi == Q(i)
               n == Rank(Pi, i)
    <2>1. /\ Pi \in SUBSET Nat /\ IsFiniteSet(Pi) /\ i \in Pi
          /\ Qi \in SUBSET Nat /\ IsFiniteSet(Qi)
          /\ Cardinality(Pi) \in Nat /\ Cardinality(Qi) \in Nat
          /\ Cardinality(Pi) <= Cardinality(Qi)
      BY <1>1
    <2>2. g[i] = Nth(Qi, n)
      OBVIOUS
    <2> HIDE DEF Pi, Qi, g
    <2>3. n \in 1..Cardinality(Pi)
      BY <2>1, Ranks
    <2> HIDE DEF n
    <2>4. n \in 1..Cardinality(Qi)
      BY <2>1, <2>3
    <2>5. Nth(Qi, n) \in Qi /\ Rank(Qi, Nth(Qi, n)) = n
      BY <2>1, <2>4, NthIs
    <2> QED
      BY <2>2, <2>5 DEF Qi, Pi, n
  <1>3. ASSUME NEW i \in X, NEW j \in X, g[i] = g[j] PROVE i = j
    <2>1. g[i] \in Having(new, k(i), C) /\ g[j] \in Having(new, k(j), C)
      <3> HIDE DEF g, k
      <3> QED BY <1>2
    <2>2. k(i) = k(j)
      <3> HIDE DEF g, k
      <3> QED
        BY <1>3, <2>1 DEF Having
    <2>3. P(i) = P(j) /\ Q(i) = Q(j)
      BY <2>2
    <2> DEFINE Pi == P(i)
    <2>4. Rank(Pi, i) = Rank(Pi, j)
      <3> HIDE DEF g
      <3> QED
        BY <1>2, <1>3, <2>3
    <2>5. Pi \in SUBSET Nat /\ IsFiniteSet(Pi) /\ i \in Pi /\ j \in Pi
      BY <1>1, <2>3
    <2> HIDE DEF Pi
    <2>6. /\ Cardinality(Pi) \in Nat /\ Rank(Pi, i) \in 1..Cardinality(Pi)
          /\ i < j => Rank(Pi, i) < Rank(Pi, j)
          /\ j < i => Rank(Pi, j) < Rank(Pi, i)
      BY <2>5, Ranks
    <2> QED
      BY <2>4, <2>5, <2>6
  <1>4. g \in Injection(X, Y)
    <2>1. g = [i \in X |-> g[i]]
      OBVIOUS
    <2>2. \A i \in X : g[i] \in Y
      <3> HIDE DEF g
      <3> QED BY <1>2
    <2> HIDE DEF g
    <2>3. g \in [X -> Y]
      BY <2>1, <2>2
    <2> QED
      BY <1>3, <2>3 DEF Injection, IsInjective
  <1>5. IsFiniteSet(Y)
    BY Positions
  <1> HIDE DEF g
  <1> QED
    BY <1>4, <1>5, FS_Injection

\* So they are no more of any coarser kind either.
LEMMA FewerCoarser ==
    ASSUME NEW R, NEW old \in Seq(R), NEW new \in Seq(R), NEW C, NEW B \in SUBSET C, NEW m,
           NEW X \in SUBSET DOMAIN old, NEW Y \in SUBSET DOMAIN new,
           \A k : Count(old, X, k, C) <= Count(new, Y, k, C)
    PROVE  Count(old, X, m, B) <= Count(new, Y, m, B)
  <1> DEFINE Part(k) == [c \in B |-> k[c]]
             X1 == X \cap Having(old, m, B)
             Y1 == Y \cap Having(new, m, B)
  <1>1. \A row : Key(row, B) = Part(Key(row, C))
    BY DEF Key
  <1>2. Count(old, X, m, B) = Cardinality(X1)
    <2>1. \A U \in SUBSET DOMAIN old : Count(old, U, m, B) = Cardinality(U \cap Having(old, m, B))
      BY Counts
    <2> QED
      BY <2>1
  <1>3. Count(new, Y, m, B) = Cardinality(Y1)
    <2>1. \A U \in SUBSET DOMAIN new : Count(new, U, m, B) = Cardinality(U \cap Having(new, m, B))
      BY Counts
    <2> QED
      BY <2>1
  <1>4. X1 \in SUBSET DOMAIN old /\ Y1 \in SUBSET DOMAIN new
    OBVIOUS
  <1>5. ASSUME NEW k PROVE Count(old, X1, k, C) <= Count(new, Y1, k, C)
    <2> HIDE DEF Part, X1, Y1
    <2>1. CASE Part(k) = m
      <3>1. {i \in X1 : Key(old[i], C) = k} = {i \in X : Key(old[i], C) = k}
        BY <1>1, <2>1 DEF X1, Having
      <3>2. {i \in Y1 : Key(new[i], C) = k} = {i \in Y : Key(new[i], C) = k}
        BY <1>1, <2>1 DEF Y1, Having
      <3>3. Count(old, X1, k, C) = Count(old, X, k, C) /\ Count(new, Y1, k, C) = Count(new, Y, k, C)
        BY <3>1, <3>2 DEF Count
      <3> QED
        BY <3>3
    <2>2. CASE Part(k) # m
      <3>1. {i \in X1 : Key(old[i], C) = k} = {}
        BY <1>1, <2>2 DEF X1, Having
      <3>2. Count(old, X1, k, C) = 0
        BY <3>1, FS_EmptySet DEF Count
      <3>3. Count(new, Y1, k, C) \in Nat
        BY <1>4, CountRest
      <3> QED
        BY <3>2, <3>3
    <2> QED
      BY <2>1, <2>2
  <1>6. Cardinality(X1) <= Cardinality(Y1)
    <2> HIDE DEF X1, Y1
    <2> QED
      BY <1>4, <1>5, FewerOfEach
  <1> QED
    BY <1>2, <1>3, <1>6

\* Rows put in a sequence of their own are counted there as where they were.
LEMMA AtCounts ==
    ASSUME NEW R, NEW rows \in Seq(R), NEW S \in SUBSET DOMAIN rows, NEW k, NEW C
    PROVE  Times(At(rows, S), k, C) = Count(rows, S, k, C)
  <1> DEFINE N == Cardinality(S)
             new == At(rows, S)
             X == {n \in 1..N : Key(new[n], C) = k}
             Y == {i \in S : Key(rows[i], C) = k}
             f == [n \in X |-> Nth(S, n)]
  <1>1. S \in SUBSET Nat /\ IsFiniteSet(S) /\ N \in Nat
    BY Positions
  <1>2. new = [n \in 1..N |-> rows[Nth(S, n)]]
    BY DEF At
  <1> HIDE DEF new
  <1>3. /\ \A n \in 1..N : Nth(S, n) \in S /\ Rank(S, Nth(S, n)) = n
        /\ \A i \in S : Nth(S, Rank(S, i)) = i
    BY <1>1, NthIs
  <1>4. \A i \in S : Rank(S, i) \in 1..N
    BY <1>1, Ranks
  <1> HIDE DEF N
  <1>5. f \in [X -> Y]
    <2>1. \A n \in X : n \in 1..N /\ Nth(S, n) \in S /\ Key(rows[Nth(S, n)], C) = k
      BY <1>2, <1>3
    <2>2. \A n \in X : Nth(S, n) \in Y
      BY <2>1
    <2> HIDE DEF X, Y
    <2> QED
      BY <2>2
  <1>6. f \in Injection(X, Y)
    <2>1. \A m, n \in X : f[m] = f[n] => m = n
      BY <1>3
    <2> HIDE DEF f, X, Y
    <2> QED
      BY <1>5, <2>1 DEF Injection, IsInjective
  <1>7. f \in Surjection(X, Y)
    <2>1. ASSUME NEW i \in Y PROVE Rank(S, i) \in X /\ f[Rank(S, i)] = i
      <3>1. Rank(S, i) \in 1..N /\ Nth(S, Rank(S, i)) = i /\ Key(rows[i], C) = k
        BY <1>3, <1>4
      <3>2. Key(new[Rank(S, i)], C) = k
        BY <1>2, <3>1
      <3> QED
        BY <3>1, <3>2
    <2> HIDE DEF f, X, Y
    <2> QED
      BY <1>5, <2>1 DEF Surjection
  <1>8. IsFiniteSet(Y)
    <2>1. Y \in SUBSET S
      OBVIOUS
    <2> HIDE DEF Y
    <2> QED
      BY <1>1, <2>1, FS_Subset
  <1>9. Cardinality(X) = Cardinality(Y)
    <2> HIDE DEF X, Y, f
    <2> QED
      BY <1>6, <1>7, <1>8, FS_Injection
  <1>10. DOMAIN new = 1..N
    BY <1>2
  <1> QED
    BY <1>9, <1>10 DEF Times, Count, new

\* From a row on there are at most as many of its kind as after the n-th if it comes after.
LEMMA LastAre ==
    ASSUME NEW R, NEW rows \in Seq(R), NEW n \in 0..Len(rows), NEW C, NEW i \in DOMAIN rows
    PROVE  LET k == Key(rows[i], C) IN
           Count(rows, i..Len(rows), k, C) <= Count(rows, n+1..Len(rows), k, C) <=> i \in n+1..Len(rows)
  <1> DEFINE L == Len(rows)
             k == Key(rows[i], C)
             P == Having(rows, k, C)
             U == (i..L) \cap P
             V == (n+1..L) \cap P
  <1>1. L \in Nat /\ DOMAIN rows = 1..L /\ i \in 1..L /\ n \in 0..L
    OBVIOUS
  <1>2. i..L \in SUBSET DOMAIN rows /\ n+1..L \in SUBSET DOMAIN rows
    <2> HIDE DEF L
    <2> QED
      BY <1>1
  <1>3. i \in P /\ P \in SUBSET DOMAIN rows
    BY DEF Having
  <1>4. \A S \in SUBSET DOMAIN rows : Count(rows, S, k, C) = Cardinality(S \cap P)
    <2> HIDE DEF k
    <2> QED
      BY Counts
  <1>5. Count(rows, i..L, k, C) = Cardinality(U) /\ Count(rows, n+1..L, k, C) = Cardinality(V)
    <2> HIDE DEF L, k, P
    <2> QED
      BY <1>2, <1>4
  <1>6. IsFiniteSet(P)
    BY <1>3, Positions
  <1>7. IsFiniteSet(U) /\ IsFiniteSet(V) /\ Cardinality(U) \in Nat /\ Cardinality(V) \in Nat
    <2>1. U \in SUBSET P /\ V \in SUBSET P
      OBVIOUS
    <2> HIDE DEF U, V, P
    <2> QED
      BY <1>6, <2>1, FS_Subset, FS_CardinalityType
  <1>8. CASE i \in n+1..L
    <2>1. i..L \in SUBSET (n+1..L)
      <3> HIDE DEF L
      <3> QED
        BY <1>1, <1>8
    <2>2. U \in SUBSET V
      BY <2>1
    <2> HIDE DEF U, V
    <2>3. Cardinality(U) <= Cardinality(V)
      BY <1>7, <2>2, FS_Subset
    <2> QED
      BY <1>5, <1>8, <2>3
  <1>9. CASE i \notin n+1..L
    <2>1. n+1..L \in SUBSET (i..L) /\ i \in i..L
      <3> HIDE DEF L
      <3> QED
        BY <1>1, <1>9
    <2>2. V \in SUBSET U /\ i \in U /\ i \notin V
      BY <1>3, <1>9, <2>1
    <2> HIDE DEF U, V
    <2>3. Cardinality(V) <= Cardinality(U) /\ Cardinality(U) # Cardinality(V)
      BY <1>7, <2>2, FS_Subset
    <2>4. ~(Cardinality(U) <= Cardinality(V))
      BY <1>7, <2>3
    <2> QED
      BY <1>5, <1>9, <2>4
  <1> QED
    BY <1>8, <1>9

\* If as many rows are found as the request names, they are the rows it names.
LEMMA MatchesAreNamed ==
    ASSUME NEW R, NEW K, NEW t, t.rows \in Seq(R), NEW r, r.keys \in Seq(K),
           ~(Cardinality(Matches(t, r)) < Len(r.keys))
    PROVE  Matches(t, r) \in SUBSET DOMAIN t.rows /\ Names(r, t, Matches(t, r))
  <1> DEFINE C == r.cols
             M == Matches(t, r)
             k(i) == Key(t.rows[i], C)
             P(i) == Having(t.rows, k(i), C)
             At1(m) == {j \in DOMAIN r.keys : r.keys[j] = m}
             Q(i) == At1(k(i))
             g == [i \in M |-> Nth(Q(i), Rank(P(i), i))]
  <1>1. M \in SUBSET DOMAIN t.rows
    BY DEF Matches
  <1>2. IsFiniteSet(M) /\ Cardinality(M) \in Nat
    <2> HIDE DEF M
    <2> QED
      BY <1>1, Positions
  <1>3. /\ IsFiniteSet(DOMAIN r.keys) /\ Cardinality(DOMAIN r.keys) = Len(r.keys) /\ Len(r.keys) \in Nat
        /\ \A m : At1(m) \in SUBSET Nat /\ IsFiniteSet(At1(m)) /\ Cardinality(At1(m)) \in Nat
    <2>1. \A m : At1(m) \in SUBSET DOMAIN r.keys
      OBVIOUS
    <2>2. DOMAIN r.keys \in SUBSET DOMAIN r.keys /\ Len(r.keys) \in Nat
      OBVIOUS
    <2>3. \A S \in SUBSET DOMAIN r.keys : S \in SUBSET Nat /\ IsFiniteSet(S) /\ Cardinality(S) \in Nat
      BY Positions
    <2>4. Cardinality(DOMAIN r.keys) = Len(r.keys)
      BY <2>2, Positions
    <2> HIDE DEF At1
    <2> QED
      BY <2>1, <2>2, <2>3, <2>4
  <1>4. \A m : Named(r, m) = Cardinality(At1(m))
    BY DEF Named
  <1> HIDE DEF At1
  <1>5. ASSUME NEW i \in M
        PROVE  /\ P(i) \in SUBSET Nat /\ IsFiniteSet(P(i)) /\ i \in P(i)
               /\ Rank(P(i), i) \in 1..Cardinality(P(i)) /\ Rank(P(i), i) <= Cardinality(Q(i))
    <2> DEFINE ki == k(i)
               Pi == P(i)
    <2>1. i \in DOMAIN t.rows /\ Count(t.rows, 1..i, ki, C) <= Named(r, ki)
      BY <1>5 DEF Matches
    <2>2. i \in Pi /\ Pi = Having(t.rows, ki, C)
      BY <2>1 DEF Having
    <2> HIDE DEF ki, Pi
    <2>3. Pi \in SUBSET Nat /\ IsFiniteSet(Pi)
      BY <2>2, Counts
    <2>4. Count(t.rows, 1..i, ki, C) = Rank(Pi, i)
      BY <2>1, <2>2, Counts
    <2>5. Rank(Pi, i) \in 1..Cardinality(Pi)
      BY <2>2, <2>3, Ranks
    <2> QED
      BY <1>4, <2>1, <2>2, <2>3, <2>4, <2>5 DEF ki, Pi
  <1>6. ASSUME NEW i \in M
        PROVE  g[i] \in Q(i) /\ Rank(Q(i), g[i]) = Rank(P(i), i)
    <2> DEFINE Pi == P(i)
               Qi == Q(i)
               n == Rank(Pi, i)
    <2>1. n \in 1..Cardinality(Pi) /\ n <= Cardinality(Qi) /\ IsFiniteSet(Pi)
      BY <1>5
    <2>2. Qi \in SUBSET Nat /\ IsFiniteSet(Qi) /\ Cardinality(Qi) \in Nat
      BY <1>3
    <2>3. g[i] = Nth(Qi, n)
      BY <1>6
    <2> HIDE DEF Pi, Qi, g
    <2>4. Cardinality(Pi) \in Nat
      BY <2>1, FS_CardinalityType
    <2> HIDE DEF n
    <2>5. n \in 1..Cardinality(Qi)
      BY <2>1, <2>2, <2>4
    <2>6. Nth(Qi, n) \in Qi /\ Rank(Qi, Nth(Qi, n)) = n
      BY <2>2, <2>5, NthIs
    <2> QED
      BY <2>3, <2>6 DEF Qi, Pi, n
  <1>7. \A i \in M : g[i] \in DOMAIN r.keys /\ r.keys[g[i]] = k(i)
    <2> HIDE DEF g, k, M
    <2> QED
      BY <1>6 DEF At1
  <1>8. ASSUME NEW i \in M, NEW j \in M, g[i] = g[j] PROVE i = j
    <2>1. k(i) = k(j)
      <3> HIDE DEF g, k, M
      <3> QED
        BY <1>7, <1>8
    <2>2. P(i) = P(j) /\ Q(i) = Q(j)
      BY <2>1
    <2> DEFINE Pi == P(i)
    <2>3. Rank(Pi, i) = Rank(Pi, j)
      <3> HIDE DEF g, M
      <3> QED
        BY <1>6, <1>8, <2>2
    <2>4. Pi \in SUBSET Nat /\ IsFiniteSet(Pi) /\ i \in Pi /\ j \in Pi
      BY <1>5, <2>2
    <2> HIDE DEF Pi
    <2>5. /\ Cardinality(Pi) \in Nat /\ Rank(Pi, i) \in 1..Cardinality(Pi)
          /\ i < j => Rank(Pi, i) < Rank(Pi, j)
          /\ j < i => Rank(Pi, j) < Rank(Pi, i)
      BY <2>4, Ranks
    <2> QED
      BY <2>3, <2>4, <2>5
  <1>9. g \in Injection(M, DOMAIN r.keys)
    <2>1. g = [i \in M |-> g[i]]
      OBVIOUS
    <2> HIDE DEF g, M
    <2>2. g \in [M -> DOMAIN r.keys]
      BY <1>7, <2>1
    <2> QED
      BY <1>8, <2>2 DEF Injection, IsInjective
  <1> HIDE DEF g, M
  <1>10. Cardinality(M) <= Cardinality(DOMAIN r.keys)
    BY <1>3, <1>9, FS_Injection
  <1>11. Cardinality(M) = Len(r.keys)
    BY <1>2, <1>3, <1>10 DEF M
  <1>12. g \in Surjection(M, DOMAIN r.keys)
    <2>1. Cardinality(M) = Cardinality(DOMAIN r.keys)
      BY <1>3, <1>11
    <2> QED
      BY <1>3, <1>9, <2>1, FS_Injection
  <1>13. ASSUME NEW i \in M PROVE Count(t.rows, M, k(i), C) = Named(r, k(i))
    <2> DEFINE ki == k(i)
               X == {x \in M : k(x) = ki}
               Y == Q(i)
               h == [x \in X |-> g[x]]
    <2>1. Count(t.rows, M, ki, C) = Cardinality(X) /\ Named(r, ki) = Cardinality(Y)
      BY <1>4 DEF Count
    <2>2. \A x \in X : g[x] \in Y
      <3> HIDE DEF k
      <3> QED
        BY <1>7 DEF At1
    <2>3. h \in Injection(X, Y)
      <3>1. h \in [X -> Y]
        <4> HIDE DEF X, Y
        <4> QED BY <2>2
      <3>2. \A x, y \in X : h[x] = h[y] => x = y
        BY <1>8
      <3> HIDE DEF h, X, Y
      <3> QED
        BY <3>1, <3>2 DEF Injection, IsInjective
    <2>4. ASSUME NEW y \in Y PROVE \E x \in X : h[x] = y
      <3>1. y \in DOMAIN r.keys /\ r.keys[y] = ki
        BY DEF At1
      <3>2. PICK x \in M : g[x] = y
        BY <1>12, <3>1 DEF Surjection
      <3>3. k(x) = ki
        <4> HIDE DEF k, ki
        <4> QED
          BY <1>7, <3>1, <3>2
      <3> QED
        BY <3>2, <3>3
    <2>5. h \in Surjection(X, Y)
      <3> HIDE DEF h, X, Y
      <3> QED
        BY <2>3, <2>4 DEF Injection, Surjection
    <2>6. IsFiniteSet(Y)
      BY <1>3
    <2> HIDE DEF h, X, Y, ki
    <2>7. Cardinality(X) = Cardinality(Y)
      BY <2>3, <2>5, <2>6, FS_Injection
    <2> QED
      BY <2>1, <2>7 DEF ki
  <1> QED
    BY <1>1, <1>11, <1>13 DEF Names, M

----------------------------------------------------------------------------
(* Edits of one column.                                                    *)

Few(added, removed) == ~(Cardinality(added) > MAX_DIFF_ROWS \/ Cardinality(removed) > MAX_DIFF_ROWS)
EditsOf(f, added) == {<<f[j], j>> : j \in {x \in added : f[x] # 0}}

\* The pairing that ComputeEdited takes is what the code does row by row.
LEMMA PairingIs ==
    ASSUME NEW R, NEW old \in Seq(R), NEW new \in Seq(R), NEW C,
           NEW added, added = ComputeAdded(old, new, C),
           NEW removed, removed = ComputeRemoved(old, new, C), Few(added, removed)
    PROVE  \E f \in [added -> removed \cup {0}] :
               /\ AllPaired(f, old, new, added, removed, C)
               /\ ComputeEdited(old, new, added, removed, C) = EditsOf(f, added)
  <1> DEFINE L == Len(new)
             M == Len(old)
  <1>0. L \in Nat /\ M \in Nat /\ added \in SUBSET (1..L) /\ removed \in SUBSET (1..M)
    BY DEF ComputeAdded, ComputeRemoved
  <1> HIDE DEF L, M
  <1> DEFINE pair == CHOOSE f \in [added -> removed \cup {0}] : AllPaired(f, old, new, added, removed, C)
  <1>1. removed \in SUBSET Nat /\ IsFiniteSet(removed)
    <2>1. 1 \in Int /\ M \in Int
      BY <1>0
    <2>2. IsFiniteSet(1..M)
      BY <2>1, FS_Interval
    <2>3. IsFiniteSet(removed)
      BY <1>0, <2>2, FS_Subset
    <2>4. removed \in SUBSET Nat
      BY <1>0
    <2> QED
      BY <2>3, <2>4
  <1>2. \E f \in [added -> removed \cup {0}] : AllPaired(f, old, new, added, removed, C)
    BY <1>0, <1>1, PairingExists
  <1>3. pair \in [added -> removed \cup {0}] /\ AllPaired(pair, old, new, added, removed, C)
    BY <1>2
  <1>4. ComputeEdited(old, new, added, removed, C) = {<<pair[j], j>> : j \in {x \in added : pair[x] # 0}}
    BY DEF ComputeEdited, AllPaired, Few
  <1> HIDE DEF pair
  <1> QED
    BY <1>3, <1>4 DEF EditsOf

\* The new content differs from the old in one column, where some rows have a new value.
Changed(old, new, C, col, val, S) ==
    /\ Len(new) = Len(old) /\ col \in C /\ S \in SUBSET DOMAIN old
    /\ \A i \in DOMAIN old, c \in C :
        new[i].cell[c] = old[i].cell[c] \/ (c = col /\ i \in S /\ new[i].cell[c] = val)

\* The rows that appear have the value, those that disappear have not.
LEMMA ChangedRows ==
    ASSUME NEW R, NEW old \in Seq(R), NEW new \in Seq(R), NEW C, NEW col, NEW val, NEW S,
           Changed(old, new, C, col, val, S)
    PROVE  /\ \A j \in ComputeAdded(old, new, C) : new[j].cell[col] = val
           /\ \A i \in ComputeRemoved(old, new, C) : old[i].cell[col] # val
           /\ DOMAIN new = DOMAIN old
  <1>1. DOMAIN new = DOMAIN old
    BY DEF Changed
  <1>4. ASSUME NEW j \in ComputeAdded(old, new, C), new[j].cell[col] # val PROVE FALSE
    <2> DEFINE k == Key(new[j], C)
               P == Having(old, k, C)
               Q == Having(new, k, C)
    <2>1. j \in DOMAIN new /\ Times(old, k, C) < Times(new, k, C)
      BY AddedOf
    <2>2. k[col] # val
      BY <1>4 DEF Key, Changed
    <2>3. Q \in SUBSET P
      <3> SUFFICES ASSUME NEW i \in DOMAIN new, Key(new[i], C) = k PROVE Key(old[i], C) = k
        BY <1>1 DEF Having
      <3>1. \A c \in C : new[i].cell[c] = k[c]
        BY DEF Key
      <3>2. new[i].cell[col] # val
        BY <2>2, <3>1 DEF Changed
      <3>3. \A c \in C : new[i].cell[c] = old[i].cell[c]
        BY <1>1, <3>2 DEF Changed
      <3>4. Key(old[i], C) = Key(new[i], C)
        BY <3>3 DEF Key
      <3> QED
        BY <3>4
    <2> HIDE DEF k
    <2>4. IsFiniteSet(P) /\ Times(old, k, C) = Cardinality(P) /\ Times(old, k, C) \in Nat
      BY Counts
    <2>5. Times(new, k, C) = Cardinality(Q) /\ Times(new, k, C) \in Nat
      BY Counts
    <2> HIDE DEF P, Q
    <2>6. Cardinality(Q) <= Cardinality(P)
      BY <2>3, <2>4, FS_Subset
    <2> QED
      BY <2>1, <2>4, <2>5, <2>6
  <1>5. ASSUME NEW j \in ComputeRemoved(old, new, C), old[j].cell[col] = val PROVE FALSE
    <2> DEFINE k == Key(old[j], C)
               P == Having(old, k, C)
               Q == Having(new, k, C)
    <2>1. j \in DOMAIN old /\ Times(new, k, C) < Times(old, k, C)
      BY RemovedOf
    <2>2. k[col] = val
      BY <1>5 DEF Key, Changed
    <2>3. P \in SUBSET Q
      <3> SUFFICES ASSUME NEW i \in DOMAIN old, Key(old[i], C) = k PROVE Key(new[i], C) = k
        BY <1>1 DEF Having
      <3>1. \A c \in C : old[i].cell[c] = k[c]
        BY DEF Key
      <3>2. old[i].cell[col] = val
        BY <2>2, <3>1 DEF Changed
      <3>3. \A c \in C : new[i].cell[c] = old[i].cell[c]
        BY <3>2 DEF Changed
      <3>4. Key(old[i], C) = Key(new[i], C)
        BY <3>3 DEF Key
      <3> QED
        BY <3>4
    <2> HIDE DEF k
    <2>4. Times(old, k, C) = Cardinality(P) /\ Times(old, k, C) \in Nat
      BY Counts
    <2>5. IsFiniteSet(Q) /\ Times(new, k, C) = Cardinality(Q) /\ Times(new, k, C) \in Nat
      BY Counts
    <2> HIDE DEF P, Q
    <2>6. Cardinality(P) <= Cardinality(Q)
      BY <2>3, <2>5, FS_Subset
    <2> QED
      BY <2>1, <2>4, <2>5, <2>6
  <1> QED
    BY <1>1, <1>4, <1>5

\* X has as many rows of each kind in old as Y has in new.
SameKinds(old, X, new, Y, B) == \A m : Count(old, X, m, B) = Count(new, Y, m, B)

\* As many rows appear as disappear, at most as many as are changed, and the same number
\* among those that agree in the other columns.
LEMMA ChangedCounts ==
    ASSUME NEW R, NEW old \in Seq(R), NEW new \in Seq(R), NEW C, NEW col, NEW val, NEW S,
           Changed(old, new, C, col, val, S)
    PROVE  LET A == ComputeAdded(old, new, C)
               D == ComputeRemoved(old, new, C)
               B == C \ {col}
           IN /\ A \in SUBSET DOMAIN new /\ D \in SUBSET DOMAIN old
              /\ Cardinality(A) = Cardinality(D) /\ Cardinality(D) <= Cardinality(S)
              /\ SameKinds(old, D, new, A, B)
  <1> DEFINE A == ComputeAdded(old, new, C)
             D == ComputeRemoved(old, new, C)
             B == C \ {col}
             X == DOMAIN old \ D
             Y == DOMAIN new \ A
             min(k) == IF Times(old, k, C) <= Times(new, k, C) THEN Times(old, k, C) ELSE Times(new, k, C)
  <1>1. A \in SUBSET DOMAIN new /\ D \in SUBSET DOMAIN old
    BY DEF ComputeAdded, ComputeRemoved
  <1>2. X \in SUBSET DOMAIN old /\ Y \in SUBSET DOMAIN new /\ S \in SUBSET DOMAIN old
    BY DEF Changed
  <1>3. DOMAIN new = DOMAIN old
    BY ChangedRows
  <1>4. \A k : Times(old, k, C) \in Nat /\ Times(new, k, C) \in Nat
    <2>1. \A k : Times(old, k, C) \in Nat
      BY Counts
    <2>2. \A k : Times(new, k, C) \in Nat
      BY Counts
    <2> QED
      BY <2>1, <2>2
  <1>5. \A k : Count(old, X, k, C) = min(k) /\ Count(new, Y, k, C) = min(k) /\ min(k) \in Nat
    <2> SUFFICES ASSUME NEW k
                 PROVE  Count(old, X, k, C) = min(k) /\ Count(new, Y, k, C) = min(k) /\ min(k) \in Nat
      OBVIOUS
    <2>1. Count(old, X, k, C) = min(k)
      BY RemovedOf
    <2>2. Count(new, Y, k, C) =
              IF Times(new, k, C) <= Times(old, k, C) THEN Times(new, k, C) ELSE Times(old, k, C)
      BY AddedOf
    <2> HIDE DEF X, Y
    <2> QED
      BY <1>4, <2>1, <2>2
  <1> HIDE DEF A, D, min
  <1>6. Cardinality(DOMAIN old) \in Nat /\ Cardinality(DOMAIN old) = Cardinality(DOMAIN new) /\ IsFiniteSet(DOMAIN old)
    BY <1>3, Positions
  <1>7. Cardinality(X) = Cardinality(Y)
    <2>1. \A k : Count(old, X, k, C) <= Count(new, Y, k, C) /\ Count(new, Y, k, C) <= Count(old, X, k, C)
      <3> HIDE DEF X, Y
      <3> QED BY <1>5
    <2>2. Cardinality(X) \in Nat
      BY <1>2, Positions
    <2>3. Cardinality(Y) \in Nat
      BY <1>2, Positions
    <2> HIDE DEF X, Y
    <2>4. Cardinality(X) <= Cardinality(Y)
      BY <1>2, <2>1, FewerOfEach
    <2>5. Cardinality(Y) <= Cardinality(X)
      BY <1>2, <2>1, FewerOfEach
    <2> QED
      BY <2>2, <2>3, <2>4, <2>5
  <1>8. /\ Cardinality(D) \in Nat /\ Cardinality(A) \in Nat
        /\ Cardinality(X) = Cardinality(DOMAIN old) - Cardinality(D)
        /\ Cardinality(Y) = Cardinality(DOMAIN old) - Cardinality(A)
    <2>1. Cardinality(D) \in Nat
      BY <1>1, Positions
    <2>2. Cardinality(A) \in Nat
      BY <1>1, Positions
    <2>3. Cardinality(X) = Cardinality(DOMAIN old) - Cardinality(DOMAIN old \cap D)
      BY <1>6, FS_Difference
    <2>4. Cardinality(Y) = Cardinality(DOMAIN old) - Cardinality(DOMAIN old \cap A)
      BY <1>3, <1>6, FS_Difference
    <2>5. DOMAIN old \cap D = D /\ DOMAIN old \cap A = A
      BY <1>1, <1>3
    <2> HIDE DEF X, Y
    <2> QED
      BY <2>1, <2>2, <2>3, <2>4, <2>5
  <1>9. Cardinality(A) = Cardinality(D)
    <2> HIDE DEF X, Y
    <2> DEFINE a == Cardinality(A)
               n == Cardinality(DOMAIN old)
               e == Cardinality(D)
    <2>1. n - e = n - a /\ n \in Nat /\ e \in Nat /\ a \in Nat
      BY <1>6, <1>7, <1>8
    <2> HIDE DEF a, n, e
    <2>2. a = e
      BY <2>1
    <2> QED
      BY <2>2 DEF a, e
  <1>10. Cardinality(D) <= Cardinality(S)
    <2> DEFINE U == DOMAIN old \ S
    <2>1. ASSUME NEW k PROVE Count(old, U, k, C) <= Count(old, X, k, C)
      <3>1. Count(old, U, k, C) = Count(new, U, k, C)
        <4>1. {i \in U : Key(old[i], C) = k} = {i \in U : Key(new[i], C) = k}
          <5>1. \A i \in U : Key(old[i], C) = Key(new[i], C)
            BY DEF Changed, Key
          <5> HIDE DEF U
          <5> QED BY <5>1
        <4> QED
          BY <4>1 DEF Count
      <3>2. U \in SUBSET DOMAIN old /\ U \in SUBSET DOMAIN new
        BY <1>3
      <3> HIDE DEF U, X
      <3>3. /\ Count(old, U, k, C) \in Nat /\ Count(old, DOMAIN old \ U, k, C) \in Nat
            /\ Count(old, U, k, C) + Count(old, DOMAIN old \ U, k, C) = Times(old, k, C)
        <4>1. DOMAIN old \ U \in SUBSET DOMAIN old
          OBVIOUS
        <4> QED
          BY <3>2, <4>1, CountRest
      <3>4. /\ Count(new, U, k, C) \in Nat /\ Count(new, DOMAIN new \ U, k, C) \in Nat
            /\ Count(new, U, k, C) + Count(new, DOMAIN new \ U, k, C) = Times(new, k, C)
        <4>1. DOMAIN new \ U \in SUBSET DOMAIN new
          OBVIOUS
        <4> QED
          BY <3>2, <4>1, CountRest
      <3>5. Count(old, U, k, C) <= Times(old, k, C) /\ Count(old, U, k, C) <= Times(new, k, C)
        <4> DEFINE u == Count(old, U, k, C)
                   u1 == Count(old, DOMAIN old \ U, k, C)
                   u2 == Count(new, DOMAIN new \ U, k, C)
        <4>1. /\ u \in Nat /\ u1 \in Nat /\ u2 \in Nat
              /\ Times(old, k, C) = u + u1 /\ Times(new, k, C) = u + u2
          BY <3>1, <3>3, <3>4
        <4> HIDE DEF u, u1, u2
        <4>2. u <= u + u1 /\ u <= u + u2
          BY <4>1
        <4> QED
          BY <4>1, <4>2 DEF u
      <3> QED
        BY <1>5, <3>5 DEF min
    <2>2. U \in SUBSET DOMAIN old
      OBVIOUS
    <2>3. Cardinality(U) = Cardinality(DOMAIN old) - Cardinality(DOMAIN old \cap S) /\ DOMAIN old \cap S = S
      <3>1. DOMAIN old \cap S = S
        BY <1>2
      <3> QED
        BY <1>6, <3>1, FS_Difference
    <2>4. Cardinality(S) \in Nat
      BY <1>2, Positions
    <2> HIDE DEF U, X
    <2>5. Cardinality(U) <= Cardinality(X)
      BY <1>2, <2>1, <2>2, FewerOfEach
    <2> DEFINE s == Cardinality(S)
               n == Cardinality(DOMAIN old)
               e == Cardinality(D)
    <2>6. n - s <= n - e /\ n \in Nat /\ e \in Nat /\ s \in Nat
      BY <1>6, <1>8, <2>3, <2>4, <2>5
    <2> HIDE DEF s, n, e
    <2>7. e <= s
      BY <2>6
    <2> QED
      BY <2>7 DEF e, s
  <1>11. ASSUME NEW m PROVE Count(old, D, m, B) = Count(new, A, m, B)
    <2>1. Times(old, m, B) = Times(new, m, B)
      <3>1. \A i \in DOMAIN old : Key(old[i], B) = Key(new[i], B)
        BY DEF Changed, Key
      <3> HIDE DEF B
      <3>2. {i \in DOMAIN old : Key(old[i], B) = m} = {i \in DOMAIN new : Key(new[i], B) = m}
        BY <1>3, <3>1
      <3> QED
        BY <3>2 DEF Times, Count
    <2>2. B \in SUBSET C
      OBVIOUS
    <2> HIDE DEF B
    <2>3. Count(old, X, m, B) = Count(new, Y, m, B)
      <3>1. \A k : Count(old, X, k, C) <= Count(new, Y, k, C) /\ Count(new, Y, k, C) <= Count(old, X, k, C)
        <4> HIDE DEF X, Y
        <4> QED BY <1>5
      <3>2. Count(old, X, m, B) \in Nat
        BY <1>2, CountRest
      <3>3. Count(new, Y, m, B) \in Nat
        BY <1>2, CountRest
      <3> HIDE DEF X, Y
      <3>4. Count(old, X, m, B) <= Count(new, Y, m, B)
        BY <1>2, <2>2, <3>1, FewerCoarser
      <3>5. Count(new, Y, m, B) <= Count(old, X, m, B)
        BY <1>2, <2>2, <3>1, FewerCoarser
      <3> QED
        BY <3>2, <3>3, <3>4, <3>5
    <2>4. /\ Count(old, D, m, B) \in Nat /\ Count(old, X, m, B) \in Nat
          /\ Count(old, D, m, B) + Count(old, X, m, B) = Times(old, m, B)
      BY <1>1, <1>2, CountRest
    <2>5. /\ Count(new, A, m, B) \in Nat /\ Count(new, Y, m, B) \in Nat
          /\ Count(new, A, m, B) + Count(new, Y, m, B) = Times(new, m, B)
      BY <1>1, <1>2, CountRest
    <2> HIDE DEF X, Y
    <2> QED
      BY <2>1, <2>3, <2>4, <2>5
  <1> QED
    BY <1>1, <1>9, <1>10, <1>11 DEF A, D, SameKinds

\* A row with the new value is like a row without it but for that column, or less.
LEMMA Overlaps ==
    ASSUME NEW C, IsFiniteSet(C), NEW col \in C, NEW x, NEW y, x.cell[col] # y.cell[col]
    PROVE  /\ Cardinality(C) \in Nat /\ Overlap(x, y, C) \in Nat
           /\ Overlap(x, y, C) <= Cardinality(C) - 1
           /\ Overlap(x, y, C) = Cardinality(C) - 1 <=> Key(x, C \ {col}) = Key(y, C \ {col})
  <1> DEFINE B == C \ {col}
             E == {c \in C : x.cell[c] = y.cell[c]}
             n == Cardinality(C)
  <1>1. IsFiniteSet(B) /\ Cardinality(B) = n - 1 /\ n \in Nat /\ Cardinality(B) \in Nat
    <2>1. IsFiniteSet(B) /\ Cardinality(B) = n - 1
      BY FS_RemoveElement
    <2> QED
      BY <2>1, FS_CardinalityType
  <1>2. E \in SUBSET B
    OBVIOUS
  <1>3. E = B <=> Key(x, B) = Key(y, B)
    <2>1. Key(x, B) = [c \in B |-> x.cell[c]] /\ Key(y, B) = [c \in B |-> y.cell[c]]
      BY DEF Key
    <2>2. Key(x, B) = Key(y, B) <=> \A c \in B : x.cell[c] = y.cell[c]
      <3> HIDE DEF B
      <3>1. ASSUME Key(x, B) = Key(y, B), NEW c \in B PROVE x.cell[c] = y.cell[c]
        <4>1. Key(x, B)[c] = x.cell[c] /\ Key(y, B)[c] = y.cell[c]
          BY <2>1
        <4> QED
          BY <3>1, <4>1
      <3>2. ASSUME \A c \in B : x.cell[c] = y.cell[c] PROVE Key(x, B) = Key(y, B)
        BY <2>1, <3>2
      <3> QED
        BY <3>1, <3>2
    <2>3. E = B <=> \A c \in B : x.cell[c] = y.cell[c]
      OBVIOUS
    <2> HIDE DEF E, B
    <2> QED
      BY <2>2, <2>3
  <1> HIDE DEF E, B, n
  <1>4. IsFiniteSet(E) /\ Cardinality(E) <= Cardinality(B) /\ (Cardinality(E) = Cardinality(B) <=> E = B)
    BY <1>1, <1>2, FS_Subset
  <1>5. Overlap(x, y, C) = Cardinality(E) /\ Cardinality(E) \in Nat
    BY <1>4, FS_CardinalityType DEF Overlap, E
  <1> QED
    BY <1>1, <1>3, <1>4, <1>5 DEF n, B

\* When a new value is given to some rows in one of several columns, every row that appears
\* is paired with a row that agrees with it in the others, and so seen to be an edit.
LEMMA EditsFound ==
    ASSUME NEW R, NEW old \in Seq(R), NEW new \in Seq(R), NEW C, NEW col, NEW val, NEW S,
           Changed(old, new, C, col, val, S),
           IsFiniteSet(C), Cardinality(C) > 1, Cardinality(S) <= MAX_DIFF_ROWS
    PROVE  /\ ComputeDiff(old, new, C).added = {}
           /\ Cardinality(ComputeDiff(old, new, C).edited) <= Cardinality(S)
  <1> DEFINE A == ComputeAdded(old, new, C)
             D == ComputeRemoved(old, new, C)
             B == C \ {col}
             n == Cardinality(C)
  <1>1. /\ A \in SUBSET DOMAIN new /\ D \in SUBSET DOMAIN old
        /\ Cardinality(A) = Cardinality(D) /\ Cardinality(D) <= Cardinality(S)
        /\ \A m : Count(old, D, m, B) = Count(new, A, m, B)
    <2>1. A \in SUBSET DOMAIN new /\ D \in SUBSET DOMAIN old
      BY DEF ComputeAdded, ComputeRemoved
    <2>2. Cardinality(A) = Cardinality(D) /\ Cardinality(D) <= Cardinality(S)
      BY ChangedCounts
    <2>3. SameKinds(old, D, new, A, B)
      BY ChangedCounts
    <2> HIDE DEF A, D
    <2> QED
      BY <2>1, <2>2, <2>3 DEF SameKinds
  <1>2. (\A j \in A : new[j].cell[col] = val) /\ (\A i \in D : old[i].cell[col] # val)
    BY ChangedRows
  <1>3. n \in Nat /\ n > 1 /\ col \in C /\ S \in SUBSET DOMAIN old /\ MAX_DIFF_ROWS \in Nat
    BY FS_CardinalityType, DiffAssumption DEF Changed
  <1>4. /\ IsFiniteSet(D) /\ D \in SUBSET Nat /\ 0 \notin D /\ Cardinality(D) \in Nat
        /\ IsFiniteSet(A) /\ A \in SUBSET Nat /\ 0 \notin A /\ Cardinality(A) \in Nat
        /\ Cardinality(S) \in Nat
    <2>1. IsFiniteSet(D) /\ D \in SUBSET Nat /\ 0 \notin D /\ Cardinality(D) \in Nat
      BY <1>1, Positions
    <2>2. IsFiniteSet(A) /\ A \in SUBSET Nat /\ 0 \notin A /\ Cardinality(A) \in Nat
      BY <1>1, Positions
    <2>3. Cardinality(S) \in Nat
      BY <1>3, Positions
    <2> QED
      BY <2>1, <2>2, <2>3
  <1>5. PICK f \in [A -> D \cup {0}] :
            /\ AllPaired(f, old, new, A, D, C)
            /\ ComputeEdited(old, new, A, D, C) = EditsOf(f, A)
    <2>2. A = ComputeAdded(old, new, C) /\ D = ComputeRemoved(old, new, C)
      OBVIOUS
    <2> HIDE DEF A, D
    <2>1. Few(A, D)
      BY <1>1, <1>3, <1>4 DEF Few
    <2> QED
      BY <2>1, <2>2, PairingIs
  <1> DEFINE Like(i, j) == Key(old[i], B) = Key(new[j], B)
             Bad == {j \in A : ~(f[j] \in D /\ Like(f[j], j))}
  <1>6. ASSUME NEW x \in D, NEW j \in A
        PROVE  /\ Overlap(old[x], new[j], C) \in Nat /\ Overlap(old[x], new[j], C) <= n - 1
               /\ Overlap(old[x], new[j], C) = n - 1 <=> Like(x, j)
    <2>1. old[x].cell[col] # new[j].cell[col]
      BY <1>2
    <2> QED
      BY <1>3, <2>1, Overlaps
  <1>7. ASSUME NEW j \in Bad, \A i \in A : i < j => i \notin Bad PROVE FALSE
    <2> DEFINE m == Key(new[j], B)
               Aj == A \cap Having(new, m, B)
               Dj == D \cap Having(old, m, B)
               before == {i \in Aj : i < j}
               earlier == {x \in A : x < j}
               taken == {f[i] : i \in earlier}
               T == taken \cap Dj
               free == D \ taken
               best == {i \in free : \A x \in free : Overlap(old[x], new[j], C) <= Overlap(old[i], new[j], C)}
    <2>1. j \in A /\ j \in DOMAIN new /\ j \in Nat
      BY <1>1, <1>4
    <2>2. j \in Aj
      BY <2>1 DEF Having
    <2>3. Cardinality(Aj) = Cardinality(Dj)
      <3> HIDE DEF A, D, B, m
      <3>1. \A U \in SUBSET DOMAIN new : Count(new, U, m, B) = Cardinality(U \cap Having(new, m, B))
        BY Counts
      <3>2. \A U \in SUBSET DOMAIN old : Count(old, U, m, B) = Cardinality(U \cap Having(old, m, B))
        BY Counts
      <3> QED
        BY <1>1, <3>1, <3>2
    <2>4. IsFiniteSet(Aj) /\ IsFiniteSet(Dj) /\ Cardinality(Aj) \in Nat
      <3>1. Aj \in SUBSET A /\ Dj \in SUBSET D
        OBVIOUS
      <3> HIDE DEF Aj, Dj, A, D
      <3> QED
        BY <1>4, <3>1, FS_Subset, FS_CardinalityType
    <2>5. before \in SUBSET Aj /\ before # Aj
      <3>1. j \notin before
        BY <2>1
      <3> HIDE DEF Aj
      <3> QED
        BY <2>2, <3>1
    <2>6. Cardinality(before) < Cardinality(Aj) /\ IsFiniteSet(before) /\ Cardinality(before) \in Nat
      <3> HIDE DEF before, Aj
      <3>1. IsFiniteSet(before) /\ Cardinality(before) <= Cardinality(Aj) /\ Cardinality(before) # Cardinality(Aj)
        BY <2>4, <2>5, FS_Subset
      <3>2. Cardinality(before) \in Nat
        BY <3>1, FS_CardinalityType
      <3> QED
        BY <2>4, <3>1, <3>2
    <2>7. ASSUME NEW i \in earlier PROVE i \in A /\ f[i] \in D /\ Like(f[i], i)
      <3> HIDE DEF A, D, Like
      <3> QED
        BY <1>7, <2>7
    <2>8. \A i \in earlier : f[i] \in Dj => i \in before
      <3> SUFFICES ASSUME NEW i \in earlier, f[i] \in Dj PROVE i \in before
        OBVIOUS
      <3>1. Key(old[f[i]], B) = m
        <4> HIDE DEF m, B, A, D
        <4> QED
          BY DEF Having
      <3>2. Key(new[i], B) = m /\ i \in A /\ i < j
        <4> HIDE DEF m, A, D
        <4> QED
          BY <2>7, <3>1
      <3>3. i \in Having(new, m, B)
        <4> HIDE DEF A, m
        <4> QED
          BY <1>1, <3>2 DEF Having
      <3> QED
        BY <3>2, <3>3
    <2>9. IsFiniteSet(T) /\ Cardinality(T) <= Cardinality(before)
      <3> DEFINE sources == {i \in before : f[i] \in Dj}
                 h == [i \in sources |-> f[i]]
      <3>1. sources \in SUBSET before
        OBVIOUS
      <3>2. \A i \in sources : i \in earlier /\ h[i] = f[i] /\ f[i] \in T
        OBVIOUS
      <3>3. \A x \in T : \E i \in sources : h[i] = x
        <4> SUFFICES ASSUME NEW x \in T PROVE \E i \in sources : h[i] = x
          OBVIOUS
        <4>1. PICK i \in earlier : f[i] = x
          OBVIOUS
        <4>2. i \in before
          <5> HIDE DEF before, earlier, Dj
          <5> QED
            BY <2>8, <4>1
        <4> HIDE DEF before, Dj
        <4> QED
          BY <4>1, <4>2
      <3> HIDE DEF before, T, earlier, Dj
      <3>4. h \in Surjection(sources, T)
        <4>1. h \in [sources -> T]
          BY <3>2
        <4> HIDE DEF h, sources
        <4> QED
          BY <3>3, <4>1 DEF Surjection
      <3> HIDE DEF h, sources
      <3>5. IsFiniteSet(sources) /\ Cardinality(sources) <= Cardinality(before)
        BY <2>6, <3>1, FS_Subset
      <3>6. IsFiniteSet(T) /\ Cardinality(T) <= Cardinality(sources)
        BY <3>4, <3>5, FS_Surjection
      <3>7. Cardinality(T) \in Nat /\ Cardinality(sources) \in Nat
        BY <3>5, <3>6, FS_CardinalityType
      <3> QED
        BY <2>6, <3>5, <3>6, <3>7
    <2>10. PICK x \in Dj : x \notin taken
      <3>1. T # Dj
        <4> HIDE DEF T, Dj, Aj, before
        <4>1. Cardinality(T) \in Nat
          BY <2>9, FS_CardinalityType
        <4> QED
          BY <2>3, <2>4, <2>6, <2>9, <4>1
      <3> HIDE DEF taken, Dj
      <3> QED
        BY <3>1
    <2>11. x \in free /\ Like(x, j)
      <3>1. x \in D /\ Key(old[x], B) = m
        BY DEF Having
      <3> HIDE DEF taken, D
      <3> QED
        BY <2>10, <3>1
    <2> HIDE DEF taken, A, D, Like, Dj
    <2>12. \A i \in free : /\ Overlap(old[i], new[j], C) \in Nat /\ Overlap(old[i], new[j], C) <= n - 1
                           /\ Overlap(old[i], new[j], C) = n - 1 <=> Like(i, j)
      BY <1>6, <2>1
    <2> HIDE DEF n, free
    <2>13. Overlap(old[x], new[j], C) = n - 1
      BY <2>11, <2>12
    <2>14. x \in best
      BY <2>11, <2>12, <2>13
    <2>15. \A i \in best : i \in free /\ Like(i, j)
      BY <1>3, <2>11, <2>12, <2>13
    <2>16. 2 * Overlap(old[x], new[j], C) >= n
      BY <1>3, <2>13
    <2> DEFINE p == Pair(j, taken, old, new, D, C)
    <2>17. p = Nth(best, 1)
      BY <2>14, <2>16 DEF Pair, free, n
    <2>18. Nth(best, 1) \in best
      <3>1. best \in SUBSET D
        BY DEF free
      <3> HIDE DEF best
      <3>2. best \in SUBSET Nat /\ IsFiniteSet(best) /\ best # {}
        BY <1>4, <2>14, <3>1, FS_Subset
      <3>3. Cardinality(best) \in Nat /\ Cardinality(best) # 0
        BY <3>2, FS_CardinalityType, FS_EmptySet
      <3>4. 1 \in 1..Cardinality(best)
        BY <3>3
      <3> QED
        BY <3>2, <3>4, NthIs
    <2>19. f[j] = p
      BY <1>5, <2>1 DEF AllPaired, taken
    <2> HIDE DEF best, p
    <2>20. f[j] \in D /\ Like(f[j], j)
      BY <2>15, <2>17, <2>18, <2>19 DEF free
    <2> QED
      BY <1>7, <2>20
  <1> HIDE DEF Like
  <1>8. Bad = {}
    <2> SUFFICES ASSUME Bad # {} PROVE FALSE
      OBVIOUS
    <2>1. Bad \in SUBSET A
      OBVIOUS
    <2> HIDE DEF Bad, A
    <2>2. Bad \in SUBSET Nat /\ IsFiniteSet(Bad)
      BY <1>4, <2>1, FS_Subset
    <2>3. PICK j \in Bad : \A i \in Bad : j <= i
      BY <2>2, Least
    <2>4. \A i \in A : i < j => i \notin Bad
      <3> SUFFICES ASSUME NEW i \in A, i < j, i \in Bad PROVE FALSE
        OBVIOUS
      <3>1. j <= i /\ i \in Nat /\ j \in Nat
        BY <2>2, <2>3
      <3> QED
        BY <3>1
    <2> QED
      BY <1>7, <2>4
  <1>9. \A j \in A : f[j] # 0
    <2> HIDE DEF A, D
    <2> QED
      BY <1>4, <1>8
  <1> DEFINE E == ComputeEdited(old, new, A, D, C)
             d == ComputeDiff(old, new, C)
  <1>10. E = {<<f[j], j>> : j \in A}
    <2> HIDE DEF A, D
    <2> QED
      BY <1>5, <1>9 DEF EditsOf
  <1>11. d.added = A \ {p[2] : p \in E} /\ d.edited = E
    BY DEF ComputeDiff
  <1> HIDE DEF A, D, E, d, B, n
  <1>12. d.added = {}
    <2>1. \A j \in A : <<f[j], j>> \in E /\ <<f[j], j>>[2] = j
      BY <1>10
    <2>2. A \subseteq {p[2] : p \in E}
      BY <2>1
    <2> QED
      BY <1>11, <2>2
  <1>13. Cardinality(E) <= Cardinality(A)
    <2> DEFINE h == [j \in A |-> <<f[j], j>>]
    <2>1. h \in [A -> E] /\ \A e \in E : \E j \in A : h[j] = e
      BY <1>10
    <2> HIDE DEF h
    <2>2. h \in Surjection(A, E)
      BY <2>1 DEF Surjection
    <2> QED
      BY <1>4, <2>2, FS_Surjection
  <1>14. Cardinality(E) \in Nat
    <2>1. IsFiniteSet(E)
      BY <1>11, DiffAccounts DEF d
    <2> QED
      BY <2>1, FS_CardinalityType
  <1> QED
    BY <1>1, <1>4, <1>11, <1>12, <1>13, <1>14 DEF d

----------------------------------------------------------------------------
(* What is saved, and counted, by the kind of request.                     *)

\* Where no kind of row has become more, none is added or edited.
LEMMA NoneAdded ==
    ASSUME NEW R, NEW old \in Seq(R), NEW new \in Seq(R), NEW C,
           \A k : Times(new, k, C) <= Times(old, k, C)
    PROVE  LET d == ComputeDiff(old, new, C) IN
           d.added = {} /\ d.edited = {} /\ d.removed = ComputeRemoved(old, new, C)
  <1> DEFINE A == ComputeAdded(old, new, C)
             D == ComputeRemoved(old, new, C)
             E == ComputeEdited(old, new, A, D, C)
             d == ComputeDiff(old, new, C)
  <1>1. A = {}
    <2> SUFFICES ASSUME NEW i \in A PROVE FALSE
      OBVIOUS
    <2> DEFINE k == Key(new[i], C)
    <2>1. Times(old, k, C) < Times(new, k, C)
      BY AddedOf
    <2>2. Times(old, k, C) \in Nat
      BY Counts
    <2>3. Times(new, k, C) \in Nat
      BY Counts
    <2>4. Times(new, k, C) <= Times(old, k, C)
      OBVIOUS
    <2> HIDE DEF k
    <2> QED
      BY <2>1, <2>2, <2>3, <2>4
  <1>2. /\ A \in SUBSET (1..Len(new)) /\ D \in SUBSET (1..Len(old))
        /\ Len(old) \in Nat /\ Len(new) \in Nat
    BY DEF ComputeAdded, ComputeRemoved
  <1>3. Seconds(E) \subseteq A
    <2> HIDE DEF A, D
    <2> QED
      BY <1>2, EditedOf
  <1>4. E = {}
    <2> HIDE DEF A, D, E
    <2> QED
      BY <1>1, <1>3 DEF Seconds
  <1>5. d.added = A \ {p[2] : p \in E} /\ d.removed = D \ {p[1] : p \in E} /\ d.edited = E
    BY DEF ComputeDiff
  <1> HIDE DEF A, D, E, d
  <1>6. d.added = {} /\ d.edited = {} /\ d.removed = D
    BY <1>1, <1>4, <1>5
  <1> QED
    BY <1>6 DEF d, D

\* Contents without difference have the same rows.
LEMMA NoDifference ==
    ASSUME NEW R, NEW old \in Seq(R), NEW new \in Seq(R), NEW C,
           ComputeDiff(old, new, C).added = {}, ComputeDiff(old, new, C).removed = {},
           ComputeDiff(old, new, C).edited = {}
    PROVE  \A k : Times(old, k, C) = Times(new, k, C)
  <1> DEFINE A == ComputeAdded(old, new, C)
             D == ComputeRemoved(old, new, C)
             d == ComputeDiff(old, new, C)
  <1>1. d.added = A \ {p[2] : p \in d.edited} /\ d.removed = D \ {p[1] : p \in d.edited}
    BY DEF ComputeDiff
  <1>2. A = {} /\ D = {}
    <2> HIDE DEF A, D
    <2> QED
      BY <1>1
  <1> SUFFICES ASSUME NEW k PROVE Times(old, k, C) = Times(new, k, C)
    OBVIOUS
  <1>3. Times(old, k, C) \in Nat
    BY Counts
  <1>4. Times(new, k, C) \in Nat
    BY Counts
  <1>5. Count(old, DOMAIN old \ D, k, C) =
            IF Times(old, k, C) <= Times(new, k, C) THEN Times(old, k, C) ELSE Times(new, k, C)
    BY RemovedOf
  <1>6. Count(new, DOMAIN new \ A, k, C) =
            IF Times(new, k, C) <= Times(old, k, C) THEN Times(new, k, C) ELSE Times(old, k, C)
    BY AddedOf
  <1> HIDE DEF A, D
  <1>7. Count(old, DOMAIN old \ D, k, C) = Times(old, k, C) /\ Count(new, DOMAIN new \ A, k, C) = Times(new, k, C)
    <2>1. DOMAIN old \ D = DOMAIN old /\ DOMAIN new \ A = DOMAIN new
      BY <1>2
    <2> QED
      BY <2>1 DEF Times
  <1> QED
    BY <1>3, <1>4, <1>5, <1>6, <1>7

\* Contents with the same rows are the same bag of them.
LEMMA SameBag ==
    ASSUME NEW R, NEW old \in Seq(R), NEW new \in Seq(R), NEW C,
           \A k : Times(old, k, C) = Times(new, k, C)
    PROVE  Bag(old, C) = Bag(new, C)
  <1> DEFINE keys(rows) == {Key(rows[i], C) : i \in DOMAIN rows}
  <1>1. ASSUME NEW rows \in Seq(R) PROVE \A k : k \in keys(rows) <=> Times(rows, k, C) # 0
    <2> SUFFICES ASSUME NEW k PROVE k \in keys(rows) <=> Times(rows, k, C) # 0
      OBVIOUS
    <2> DEFINE P == Having(rows, k, C)
    <2>1. IsFiniteSet(P) /\ Times(rows, k, C) = Cardinality(P)
      BY Counts
    <2>2. k \in keys(rows) <=> P # {}
      BY DEF Having
    <2> HIDE DEF P, keys
    <2> QED
      BY <2>1, <2>2, FS_EmptySet
  <1>2. keys(old) = keys(new)
    <2> HIDE DEF keys
    <2> QED
      BY <1>1
  <1>3. Bag(old, C) = [k \in keys(old) |-> Times(old, k, C)] /\ Bag(new, C) = [k \in keys(new) |-> Times(new, k, C)]
    BY DEF Bag
  <1> HIDE DEF keys
  <1> QED
    BY <1>2, <1>3

LEMMA SameTimes ==
    ASSUME NEW old, NEW new, NEW C, DOMAIN old = DOMAIN new,
           \A i \in DOMAIN old : Key(old[i], C) = Key(new[i], C)
    PROVE  \A k : Times(old, k, C) = Times(new, k, C)
  <1> SUFFICES ASSUME NEW k PROVE Times(old, k, C) = Times(new, k, C)
    OBVIOUS
  <1>1. {i \in DOMAIN old : Key(old[i], C) = k} = {i \in DOMAIN new : Key(new[i], C) = k}
    OBVIOUS
  <1> QED
    BY <1>1 DEF Times, Count

\* Rows that come after all others are what is added.
LEMMA AppendedAre ==
    ASSUME NEW R, NEW old \in Seq(R), NEW more \in Seq(R), NEW C
    PROVE  LET d == ComputeDiff(old, old \o more, C) IN
           /\ d.added = Len(old) + 1..Len(old) + Len(more) /\ d.edited = {}
           /\ Cardinality(d.added) = Len(more)
  <1> DEFINE n == Len(old)
             m == Len(more)
             new == old \o more
             A == ComputeAdded(old, new, C)
             D == ComputeRemoved(old, new, C)
             E == ComputeEdited(old, new, A, D, C)
             d == ComputeDiff(old, new, C)
             tail == n+1..n+m
  <1>1. /\ new \in Seq(R) /\ Len(new) = n + m /\ n \in Nat /\ m \in Nat
        /\ DOMAIN new = 1..n+m /\ DOMAIN old = 1..n
        /\ \A i \in 1..n : new[i] = old[i]
    OBVIOUS
  <1> HIDE DEF new, n, m
  <1>2. tail \in SUBSET DOMAIN new /\ DOMAIN new \ tail = 1..n /\ n \in 0..Len(new)
    <2>1. \A i : i \in n+1..n+m => i \in 1..n+m
      BY <1>1
    <2>2. \A i : i \in 1..n+m /\ ~(i \in n+1..n+m) <=> i \in 1..n
      BY <1>1
    <2>3. n \in 0..n+m
      BY <1>1
    <2> QED
      BY <1>1, <2>1, <2>2, <2>3
  <1>3. ASSUME NEW k
        PROVE  /\ Times(old, k, C) \in Nat /\ Times(new, k, C) \in Nat /\ Count(new, tail, k, C) \in Nat
               /\ Times(new, k, C) = Times(old, k, C) + Count(new, tail, k, C)
    <2>1. Times(old, k, C) \in Nat
      BY Counts
    <2>2. Count(new, 1..n, k, C) = Times(old, k, C)
      <3>1. {i \in 1..n : Key(new[i], C) = k} = {i \in 1..n : Key(old[i], C) = k}
        BY <1>1
      <3> QED
        BY <1>1, <3>1 DEF Times, Count
    <2> HIDE DEF tail
    <2>3. /\ Count(new, tail, k, C) \in Nat /\ Times(new, k, C) \in Nat
          /\ Count(new, tail, k, C) + Count(new, DOMAIN new \ tail, k, C) = Times(new, k, C)
      BY <1>1, <1>2, CountRest
    <2>4. Count(new, DOMAIN new \ tail, k, C) = Times(old, k, C)
      BY <1>2, <2>2
    <2> DEFINE a == Count(new, tail, k, C)
               b == Count(new, DOMAIN new \ tail, k, C)
               o == Times(old, k, C)
               w == Times(new, k, C)
    <2>5. o \in Nat /\ a \in Nat /\ w \in Nat /\ b = o /\ a + b = w
      BY <2>1, <2>3, <2>4
    <2> HIDE DEF a, b, o, w
    <2>6. o \in Nat /\ w \in Nat /\ a \in Nat /\ w = o + a
      BY <2>5
    <2> QED
      BY <2>6 DEF a, o, w
  <1>4. A = tail
    <2> DEFINE k(i) == Key(new[i], C)
               c(i) == Count(new, i..Len(new), k(i), C)
               e(i) == Count(new, n+1..Len(new), k(i), C)
    <2>1. \A i \in DOMAIN new : c(i) <= e(i) <=> i \in n+1..Len(new)
      BY <1>1, <1>2, LastAre
    <2>2. \A i \in DOMAIN new : c(i) \in Nat
      <3> SUFFICES ASSUME NEW i \in DOMAIN new PROVE c(i) \in Nat
        OBVIOUS
      <3>1. i..Len(new) \in SUBSET DOMAIN new
        BY <1>1
      <3> QED
        BY <1>1, <3>1, CountRest
    <2>3. n+1..Len(new) = tail
      BY <1>1
    <2>4. \A i \in DOMAIN new : Times(old, k(i), C) + c(i) <= Times(new, k(i), C) <=> c(i) <= e(i)
      <3> SUFFICES ASSUME NEW i \in DOMAIN new
                   PROVE  Times(old, k(i), C) + c(i) <= Times(new, k(i), C) <=> c(i) <= e(i)
        OBVIOUS
      <3>1. /\ Times(old, k(i), C) \in Nat /\ e(i) \in Nat /\ c(i) \in Nat
            /\ Times(new, k(i), C) = Times(old, k(i), C) + e(i)
        <4> HIDE DEF k, c, tail
        <4> QED
          BY <1>3, <2>2, <2>3
      <3> HIDE DEF c, e, k
      <3> QED
        BY <3>1
    <2>5. A = {i \in DOMAIN new : Times(old, k(i), C) + c(i) <= Times(new, k(i), C)}
      BY DEF ComputeAdded
    <2> HIDE DEF A, c, e, k, tail
    <2> QED
      BY <1>2, <2>1, <2>3, <2>4, <2>5
  <1>5. D = {}
    <2> SUFFICES ASSUME NEW i \in D PROVE FALSE
      OBVIOUS
    <2> DEFINE k == Key(old[i], C)
    <2>1. Times(new, k, C) < Times(old, k, C)
      BY <1>1, RemovedOf
    <2> HIDE DEF k
    <2> QED
      BY <1>3, <2>1
  <1>6. E = {}
    <2>1. A \in SUBSET (1..Len(new)) /\ D \in SUBSET (1..Len(old)) /\ Len(old) \in Nat /\ Len(new) \in Nat
      BY <1>1 DEF ComputeAdded, ComputeRemoved
    <2> HIDE DEF A, D
    <2>2. Firsts(E) \subseteq D
      BY <2>1, EditedOf
    <2> HIDE DEF E
    <2> QED
      BY <1>5, <2>2 DEF Firsts
  <1>7. d.added = A \ {p[2] : p \in E} /\ d.edited = E
    BY DEF ComputeDiff
  <1>8. Cardinality(tail) = m
    <2>1. n + 1 \in Int /\ n + m \in Int
      BY <1>1
    <2> DEFINE a == n + 1
               b == n + m
    <2> HIDE DEF a, b
    <2>2. Cardinality(a..b) = IF a > b THEN 0 ELSE b-a+1
      BY <2>1, FS_Interval DEF a, b
    <2>3. (IF a > b THEN 0 ELSE b-a+1) = m
      BY <1>1 DEF a, b
    <2> QED
      BY <2>2, <2>3 DEF a, b
  <1> HIDE DEF A, E, d, tail
  <1>9. d.added = tail /\ d.edited = {}
    BY <1>4, <1>6, <1>7
  <1> QED
    BY <1>8, <1>9 DEF d, tail, new, n, m

\* A row that has no cells outside these columns is stored as it is.
LEMMA StoredIs ==
    ASSUME NEW row \in Rows, NEW C \in SUBSET Columns, row.cell \in Cells(C)
    PROVE  Stored(row, C) = row
  <1> DEFINE cell == [c \in Columns |-> IF c \in C THEN row.cell[c] ELSE Blank]
  <1>1. row.cell \in [Columns -> Values] /\ \A c \in Columns \ C : row.cell[c] = Blank
    BY DEF Cells
  <1>2. cell = row.cell
    BY <1>1
  <1>3. Stored(row, C) = [row EXCEPT !.cell = cell]
    BY DEF Stored
  <1> HIDE DEF cell
  <1>4. [row EXCEPT !.cell = row.cell] = row
    BY DEF Rows
  <1> QED
    BY <1>2, <1>3, <1>4

\* What a request has, besides, that is approved.
SubmissionOK(r) ==
    /\ r.action \in {"bulk_row_removal", "bulk_row_edit"} => Len(r.keys) >= 1
    /\ r.action = "bulk_row_addition" =>
        /\ Len(r.keys) >= 1
        /\ NewRows(r) \in Seq(Rows) /\ Len(NewRows(r)) = Len(r.keys)
        /\ \A i \in 1..Len(r.keys) :
            NewRows(r)[i].cell \in Cells(r.cols) /\ r.keys[i] = Key(NewRows(r)[i], r.cols)

\* What a save adds to the counters, by the differences.
LEMMA CountedIs ==
    ASSUME NEW r, NEW d, Cardinality(d.added) \in Nat, Cardinality(d.removed) \in Nat,
           Cardinality(d.edited) \in Nat
    PROVE  LET c == Counted(r, d) IN
           /\ r.action = "bulk_row_removal" => c["row_removal"] + c["bulk_row_removal"] = Cardinality(d.removed)
           /\ r.action # "bulk_row_removal" => c["row_removal"] = 0 /\ c["bulk_row_removal"] = 0
           /\ c["row_addition"] = Cardinality(d.added)
           /\ Cardinality(d.edited) >= 2 => c["row_edit"] = 0 /\ c["bulk_row_edit"] = Cardinality(d.edited)
           /\ Cardinality(d.edited) < 2 => /\ c["row_edit"] \in {0, Cardinality(d.edited)}
                                           /\ c["bulk_row_edit"] = 0
  <1> DEFINE na == Cardinality(d.added)
             nr == Cardinality(d.removed)
             ne == Cardinality(d.edited)
             c == Counted(r, d)
  <1>1. na \in Nat /\ nr \in Nat /\ ne \in Nat
    OBVIOUS
  <1>2. \A x \in Limits : c[x] =
          LET removal == IF r.action # "bulk_row_removal" THEN "none"
                         ELSE IF Len(r.keys) >= 2 THEN "bulk_row_removal" ELSE "row_removal"
              edit == IF ne >= 2 THEN "bulk_row_edit"
                      ELSE IF csv.cols = plan.cols THEN "row_edit" ELSE "none"
          IN CASE x = removal -> nr
               [] x = "column_removal" /\ r.action = x -> 1
               [] x = edit -> ne
               [] x = "row_addition" -> na
               [] x = "column_addition" -> Cardinality(plan.cols \ csv.cols)
               [] OTHER -> 0
    BY DEF Counted
  <1> HIDE DEF na, nr, ne, c
  <1>3. c["row_removal"] = IF r.action = "bulk_row_removal" /\ ~(Len(r.keys) >= 2) THEN nr ELSE 0
    BY <1>2 DEF Limits
  <1>4. c["bulk_row_removal"] = IF r.action = "bulk_row_removal" /\ Len(r.keys) >= 2 THEN nr ELSE 0
    BY <1>2 DEF Limits
  <1>5. c["row_addition"] = na
    BY <1>2 DEF Limits
  <1>6. c["bulk_row_edit"] = IF ne >= 2 THEN ne ELSE 0
    BY <1>2 DEF Limits
  <1>7. c["row_edit"] = IF ~(ne >= 2) /\ csv.cols = plan.cols THEN ne ELSE 0
    BY <1>2 DEF Limits
  <1>8. /\ r.action = "bulk_row_removal" => c["row_removal"] + c["bulk_row_removal"] = nr
        /\ r.action # "bulk_row_removal" => c["row_removal"] = 0 /\ c["bulk_row_removal"] = 0
        /\ ne >= 2 => c["row_edit"] = 0 /\ c["bulk_row_edit"] = ne
        /\ ne < 2 => c["row_edit"] \in {0, ne} /\ c["bulk_row_edit"] = 0
    BY <1>1, <1>3, <1>4, <1>6, <1>7
  <1> QED
    BY <1>5, <1>8 DEF na, nr, ne, c

\* What is known when a save starts and the CSV is as the approval has read it.
ReadyToSave ==
    /\ TypeInv /\ SubmissionOK(request) /\ request.action \in Actions
    /\ plan = Rebuilt(csv, request) /\ ~Refused(csv, request)

\* What the save then does.
Done ==
    IF Changes(Diff) THEN csv' = Written(Diff) /\ charged' = Corrected(request, Diff)
    ELSE csv' = csv /\ charged' = [x \in Limits |-> 0]

\* What it reads, finds and writes.
LEMMA SavesAre ==
    ASSUME ReadyToSave
    PROVE  /\ csv.cols \in SUBSET Columns /\ plan.cols \in SUBSET Columns
           /\ csv.rows \in Seq(Rows) /\ plan.rows \in Seq(Rows)
           /\ \A i \in DOMAIN csv.rows : csv.rows[i] \in Rows /\ csv.rows[i].cell \in Cells(csv.cols)
           /\ Diff = ComputeDiff(csv.rows, plan.rows, csv.cols \cap plan.cols)
           /\ \A d : /\ Written(d).cols = plan.cols /\ DOMAIN Written(d).rows = DOMAIN plan.rows
                     /\ \A i \in DOMAIN plan.rows : Written(d).rows[i] = Stored(
                          IF i \in d.added THEN [plan.rows[i] EXCEPT !.by = analyst] ELSE plan.rows[i], plan.cols)
           /\ csv \in [cols : SUBSET Columns, rows : Seq(Rows)]
           /\ \A d : Written(d) \in [cols : SUBSET Columns, rows : Seq(Rows)]
  <1>1. /\ csv \in [cols : SUBSET Columns, rows : Seq(Rows)]
        /\ plan \in [cols : SUBSET Columns, rows : Seq(Rows)]
        /\ \A i \in DOMAIN csv.rows : csv.rows[i].cell \in Cells(csv.cols)
    BY DEF ReadyToSave, TypeInv, TypeOK, IsTable
  <1>2. \A i \in DOMAIN csv.rows : csv.rows[i] \in Rows
    BY <1>1
  <1>3. ASSUME NEW d
        PROVE  /\ Written(d).cols = plan.cols /\ DOMAIN Written(d).rows = DOMAIN plan.rows
               /\ \A i \in DOMAIN plan.rows : Written(d).rows[i] = Stored(
                    IF i \in d.added THEN [plan.rows[i] EXCEPT !.by = analyst] ELSE plan.rows[i], plan.cols)
    BY <1>1 DEF Written
  <1>4. \A d : Written(d) \in [cols : SUBSET Columns, rows : Seq(Rows)]
    BY WrittenIs DEF ReadyToSave, IsTable
  <1> QED
    BY <1>1, <1>2, <1>3, <1>4 DEF Diff

\* What it counts, unless it corrects that.
LEMMA CountersAdd ==
    ASSUME ReadyToSave
    PROVE  LET c == Counted(request, Diff)
               na == Cardinality(Diff.added)
               nr == Cardinality(Diff.removed)
               ne == Cardinality(Diff.edited)
           IN /\ na \in Nat /\ nr \in Nat /\ ne \in Nat
              /\ request.action = "bulk_row_removal" => c["row_removal"] + c["bulk_row_removal"] = nr
              /\ request.action # "bulk_row_removal" => c["row_removal"] = 0 /\ c["bulk_row_removal"] = 0
              /\ c["row_addition"] = na
              /\ ne >= 2 => c["row_edit"] = 0 /\ c["bulk_row_edit"] = ne
              /\ ne < 2 => c["row_edit"] \in {0, ne} /\ c["bulk_row_edit"] = 0
              /\ request.action # "inline" => Corrected(request, Diff) = c
  <1>1. /\ Diff = ComputeDiff(csv.rows, plan.rows, csv.cols \cap plan.cols)
        /\ csv.rows \in Seq(Rows) /\ plan.rows \in Seq(Rows)
    BY SavesAre
  <1>2. IsFiniteSet(Diff.added) /\ IsFiniteSet(Diff.removed) /\ IsFiniteSet(Diff.edited)
    BY <1>1, DiffAccounts
  <1>3. Cardinality(Diff.added) \in Nat /\ Cardinality(Diff.removed) \in Nat /\ Cardinality(Diff.edited) \in Nat
    BY <1>2, FS_CardinalityType
  <1>4. request.action # "inline" => Corrected(request, Diff) = Counted(request, Diff)
    BY DEF Corrected
  <1> QED
    BY <1>3, <1>4, CountedIs

\* A removed column is all that goes.
LEMMA ColumnGoes ==
    ASSUME ReadyToSave, Done, request.action = "column_removal"
    PROVE  Asked(request, csv, csv')
  <1>1. request.col \in csv.cols /\ plan = [csv EXCEPT !.cols = @ \ {request.col}]
    BY DEF ReadyToSave, Refused, Rebuilt
  <1>2. plan.cols = csv.cols \ {request.col} /\ plan.rows = csv.rows
    BY <1>1, SavesAre
  <1>3. csv' = Written(Diff)
    <2>1. Changes(Diff)
      BY <1>1, <1>2 DEF Changes
    <2> QED
      BY <2>1 DEF Done
  <1> DEFINE C == csv.cols \cap plan.cols
             d == ComputeDiff(csv.rows, plan.rows, C)
  <1>4. Diff.added = {}
    <2>1. csv.rows \in Seq(Rows) /\ plan.rows \in Seq(Rows) /\ Diff = d
      BY SavesAre
    <2>2. \A k : Times(plan.rows, k, C) <= Times(csv.rows, k, C)
      <3> SUFFICES ASSUME NEW k PROVE Times(plan.rows, k, C) <= Times(csv.rows, k, C)
        OBVIOUS
      <3> HIDE DEF C
      <3>1. Times(csv.rows, k, C) \in Nat
        BY <2>1, Counts
      <3> QED
        BY <1>2, <3>1
    <2> HIDE DEF C
    <2>3. d.added = {}
      BY <2>1, <2>2, NoneAdded
    <2> QED
      BY <2>1, <2>3
  <1>5. \A i \in DOMAIN csv.rows : csv'.rows[i] = Stored(csv.rows[i], csv'.cols)
    BY <1>2, <1>3, <1>4, SavesAre
  <1>6. csv'.cols = csv.cols \ {request.col} /\ DOMAIN csv'.rows = DOMAIN csv.rows
    BY <1>2, <1>3, SavesAre
  <1>7. csv'.rows = [i \in DOMAIN csv.rows |-> Stored(csv.rows[i], csv'.cols)]
    <2>1. csv'.rows \in Seq(Rows)
      BY <1>3, SavesAre
    <2>2. csv'.rows = [i \in 1..Len(csv'.rows) |-> csv'.rows[i]] /\ DOMAIN csv'.rows = 1..Len(csv'.rows)
      BY <2>1
    <2>3. csv'.rows = [i \in DOMAIN csv.rows |-> csv'.rows[i]]
      BY <1>6, <2>2
    <2> DEFINE f(i) == csv'.rows[i]
               g(i) == Stored(csv.rows[i], csv'.cols)
    <2>4. \A i \in DOMAIN csv.rows : f(i) = g(i)
      BY <1>5
    <2>5. csv'.rows = [i \in DOMAIN csv.rows |-> f(i)]
      BY <2>3
    <2> HIDE DEF f, g
    <2>6. csv'.rows = [i \in DOMAIN csv.rows |-> g(i)]
      BY <2>4, <2>5
    <2> QED
      BY <2>6 DEF g
  <1> QED
    BY <1>6, <1>7 DEF Asked

\* New contents have the rows that were submitted.
LEMMA ContentsReplaced ==
    ASSUME ReadyToSave, Done, request.action \in {"csv_import_replace", "inline"}
    PROVE  Asked(request, csv, csv')
  <1> DEFINE C == request.cols
  <1>1. plan.cols = C /\ plan.rows = request.rows
    BY DEF ReadyToSave, Rebuilt
  <1>2. csv.rows \in Seq(Rows) /\ plan.rows \in Seq(Rows)
    BY SavesAre
  <1>3. CASE Changes(Diff)
    <2>1. csv' = Written(Diff) /\ csv'.rows \in Seq(Rows)
      BY <1>3, SavesAre DEF Done
    <2>2. csv'.cols = C /\ DOMAIN csv'.rows = DOMAIN plan.rows
      BY <1>1, <2>1, SavesAre
    <2>3. \A i \in DOMAIN plan.rows : Key(csv'.rows[i], C) = Key(plan.rows[i], C)
      <3> SUFFICES ASSUME NEW i \in DOMAIN plan.rows PROVE Key(csv'.rows[i], C) = Key(plan.rows[i], C)
        OBVIOUS
      <3> DEFINE row == IF i \in Diff.added THEN [plan.rows[i] EXCEPT !.by = analyst] ELSE plan.rows[i]
      <3>1. csv'.rows[i] = Stored(row, C)
        <4>1. Written(Diff).rows[i] = Stored(row, plan.cols)
          BY SavesAre
        <4> HIDE DEF row
        <4> QED
          BY <1>1, <2>1, <4>1
      <3>2. plan.rows[i] \in Rows
        BY <1>2
      <3>3. row.cell = plan.rows[i].cell /\ row \in [cell : [Columns -> Values], by : {row.by}]
        BY <3>2 DEF Rows
      <3> HIDE DEF row
      <3>4. Stored(row, C).cell = [c \in Columns |-> IF c \in C THEN row.cell[c] ELSE Blank]
        BY <3>3 DEF Stored
      <3>5. C \subseteq Columns
        BY <1>1, SavesAre
      <3> QED
        BY <3>1, <3>3, <3>4, <3>5 DEF Key
    <2>4. \A k : Times(csv'.rows, k, C) = Times(plan.rows, k, C)
      <3> HIDE DEF C
      <3> QED
        BY <2>2, <2>3, SameTimes
    <2> HIDE DEF C
    <2>5. Bag(csv'.rows, C) = Bag(plan.rows, C)
      BY <1>2, <2>1, <2>4, SameBag
    <2> QED
      BY <1>1, <2>2, <2>5 DEF Asked, C
  <1>4. CASE ~Changes(Diff)
    <2>1. /\ csv' = csv /\ csv.cols = C
          /\ Diff.added = {} /\ Diff.removed = {} /\ Diff.edited = {}
      BY <1>1, <1>4 DEF Done, Changes
    <2>2. Diff = ComputeDiff(csv.rows, plan.rows, C)
      BY <1>1, <2>1, SavesAre
    <2> HIDE DEF C
    <2>3. \A k : Times(csv.rows, k, C) = Times(plan.rows, k, C)
      <3> DEFINE old == csv.rows
                 new == plan.rows
                 d == ComputeDiff(old, new, C)
      <3>1. old \in Seq(Rows) /\ new \in Seq(Rows)
        BY <1>2
      <3>2. d.added = {} /\ d.removed = {} /\ d.edited = {}
        BY <2>1, <2>2
      <3> HIDE DEF old, new
      <3>3. \A k : Times(old, k, C) = Times(new, k, C)
        BY <3>1, <3>2, NoDifference
      <3> QED
        BY <3>3 DEF old, new
    <2>4. Bag(csv.rows, C) = Bag(plan.rows, C)
      BY <1>2, <2>3, SameBag
    <2> QED
      BY <1>1, <2>1, <2>4 DEF Asked, C
  <1> QED
    BY <1>3, <1>4

\* Sequences are equal if they are so in every place.
LEMMA SameSeq ==
    ASSUME NEW R, NEW s \in Seq(R), NEW t \in Seq(R), DOMAIN s = DOMAIN t,
           \A i \in DOMAIN s : s[i] = t[i]
    PROVE  s = t
  OBVIOUS

\* The rows that a removal names go, the others stay as they are, and each is counted.
LEMMA RowsGo ==
    ASSUME ReadyToSave, Done, request.action = "bulk_row_removal"
    PROVE  /\ Asked(request, csv, csv')
           /\ Removals' = Len(request.keys) /\ Edits' = 0 /\ charged'["row_addition"] = 0
  <1> DEFINE S == Matches(csv, request)
             C == csv.cols
             old == csv.rows
             new == plan.rows
             D == ComputeRemoved(old, new, C)
             n == Len(request.keys)
  <1>1. old \in Seq(Rows) /\ new \in Seq(Rows)
    BY SavesAre
  <1>2. S \in SUBSET DOMAIN old /\ Names(request, csv, S) /\ n \in Nat /\ n >= 1
    <2>1. /\ ~(Cardinality(S) < n) /\ n >= 1 /\ request.keys \in Seq([request.cols -> Values])
      BY DEF ReadyToSave, Refused, SubmissionOK, TypeInv, RequestOK
    <2>2. n \in Nat
      BY <2>1
    <2> QED
      BY <1>1, <2>1, <2>2, MatchesAreNamed
  <1>3. plan = [csv EXCEPT !.rows = At(old, DOMAIN old \ S)]
    BY DEF ReadyToSave, Rebuilt
  <1>4. plan.cols = C /\ new = At(old, DOMAIN old \ S)
    BY <1>3, SavesAre
  <1>5. Diff = ComputeDiff(old, new, C)
    BY <1>4, SavesAre
  <1> HIDE DEF S, C, old, new, n
  <1> DEFINE To(k) == Times(old, k, C)
             Tn(k) == Times(new, k, C)
             Cs(k) == Count(old, S, k, C)
  <1>6. \A k : To(k) \in Nat /\ Tn(k) \in Nat /\ Cs(k) \in Nat /\ Cs(k) + Tn(k) = To(k)
    <2> SUFFICES ASSUME NEW k
                 PROVE  To(k) \in Nat /\ Tn(k) \in Nat /\ Cs(k) \in Nat /\ Cs(k) + Tn(k) = To(k)
      OBVIOUS
    <2>1. Tn(k) = Count(old, DOMAIN old \ S, k, C)
      <3>1. DOMAIN old \ S \in SUBSET DOMAIN old
        OBVIOUS
      <3> QED
        BY <1>1, <1>4, <3>1, AtCounts
    <2>2. Cs(k) \in Nat /\ To(k) \in Nat /\ Cs(k) + Count(old, DOMAIN old \ S, k, C) = To(k)
      BY <1>1, <1>2, CountRest
    <2>3. Tn(k) \in Nat
      BY <1>1, Counts
    <2> QED
      BY <2>1, <2>2, <2>3
  <1>7. Diff.added = {} /\ Diff.edited = {} /\ Diff.removed = D
    <2>1. \A k : Tn(k) <= To(k)
      <3> SUFFICES ASSUME NEW k PROVE Tn(k) <= To(k)
        OBVIOUS
      <3>1. To(k) \in Nat /\ Tn(k) \in Nat /\ Cs(k) \in Nat /\ Cs(k) + Tn(k) = To(k)
        BY <1>6
      <3> HIDE DEF To, Tn, Cs
      <3> QED
        BY <3>1
    <2> HIDE DEF D
    <2> QED
      BY <1>1, <1>5, <2>1, NoneAdded DEF D
  <1>8. D \in SUBSET DOMAIN old
    BY DEF ComputeRemoved
  <1>9. \A k : Count(old, D, k, C) = Cs(k)
    <2> SUFFICES ASSUME NEW k PROVE Count(old, D, k, C) = Cs(k)
      OBVIOUS
    <2> DEFINE a == Count(old, D, k, C)
               b == Count(old, DOMAIN old \ D, k, C)
    <2>1. b = IF To(k) <= Tn(k) THEN To(k) ELSE Tn(k)
      BY <1>1, RemovedOf
    <2> HIDE DEF D
    <2>2. a \in Nat /\ a + b = To(k)
      BY <1>1, <1>8, CountRest
    <2>3. To(k) \in Nat /\ Tn(k) \in Nat /\ Cs(k) \in Nat /\ Cs(k) + Tn(k) = To(k)
      BY <1>6
    <2> HIDE DEF a, b, To, Tn, Cs
    <2>4. a = Cs(k)
      BY <2>1, <2>2, <2>3
    <2> QED
      BY <2>4 DEF a
  <1>10. Cardinality(D) = n
    <2> HIDE DEF D
    <2>1. Cardinality(D) \in Nat
      BY <1>1, <1>8, Positions
    <2>2. Cardinality(S) \in Nat
      BY <1>1, <1>2, Positions
    <2>3. Cardinality(D) <= Cardinality(S)
      <3>1. \A k : Count(old, D, k, C) <= Count(old, S, k, C)
        BY <1>6, <1>9
      <3> QED
        BY <1>1, <1>2, <1>8, <3>1, FewerOfEach
    <2>4. Cardinality(S) <= Cardinality(D)
      <3>1. \A k : Count(old, S, k, C) <= Count(old, D, k, C)
        BY <1>6, <1>9
      <3> QED
        BY <1>1, <1>2, <1>8, <3>1, FewerOfEach
    <2>5. Cardinality(S) = n
      BY <1>2 DEF Names, n
    <2> QED
      BY <2>1, <2>2, <2>3, <2>4, <2>5
  <1> HIDE DEF D
  <1>11. Changes(Diff)
    <2>1. D # {}
      BY <1>2, <1>10, FS_EmptySet
    <2> QED
      BY <1>7, <2>1 DEF Changes
  <1>12. csv' = Written(Diff) /\ charged' = Counted(request, Diff)
    BY <1>11, CountersAdd DEF Done
  <1>13. csv' = [csv EXCEPT !.rows = At(old, DOMAIN old \ S)]
    <2>1. \A i \in DOMAIN new : csv'.rows[i] = new[i]
      <3> SUFFICES ASSUME NEW i \in DOMAIN new PROVE csv'.rows[i] = new[i]
        OBVIOUS
      <3>1. csv'.rows[i] = Stored(new[i], C)
        BY <1>4, <1>7, <1>12, SavesAre DEF new
      <3>2. \E j \in DOMAIN old : new[i] = old[j]
        BY <1>1, <1>4, AtIs
      <3>3. new[i] \in Rows /\ new[i].cell \in Cells(C) /\ C \in SUBSET Columns
        BY <3>2, SavesAre DEF old, C
      <3> QED
        BY <3>1, <3>3, StoredIs
    <2>2. /\ csv' \in [cols : SUBSET Columns, rows : Seq(Rows)] /\ csv'.cols = plan.cols
          /\ DOMAIN csv'.rows = DOMAIN new
      BY <1>12, SavesAre DEF new
    <2>3. csv'.rows = new
      BY <1>1, <2>1, <2>2, SameSeq
    <2>4. csv \in [cols : SUBSET Columns, rows : Seq(Rows)]
      BY SavesAre
    <2> QED
      BY <1>4, <2>2, <2>3, <2>4 DEF C
  <1>14. Asked(request, csv, csv')
    BY <1>2, <1>13 DEF Asked, old
  <1>15. Removals' = n /\ Edits' = 0 /\ charged'["row_addition"] = 0
    <2>1. Cardinality(Diff.added) = 0 /\ Cardinality(Diff.removed) = n /\ Cardinality(Diff.edited) = 0
      BY <1>7, <1>10, FS_EmptySet
    <2>2. /\ charged'["row_removal"] + charged'["bulk_row_removal"] = n /\ charged'["row_addition"] = 0
          /\ charged'["row_edit"] = 0 /\ charged'["bulk_row_edit"] = 0
      BY <1>12, <2>1, CountersAdd
    <2> QED
      BY <2>2 DEF Removals, Edits
  <1> QED
    BY <1>14, <1>15 DEF n

\* The rows that an addition has come after the others, which stay, and each is counted.
LEMMA RowsCome ==
    ASSUME ReadyToSave, Done, request.action = "bulk_row_addition"
    PROVE  /\ Asked(request, csv, csv')
           /\ charged'["row_addition"] = Len(request.keys) /\ Edits' = 0 /\ Removals' = 0
  <1> DEFINE more == NewRows(request)
             B == request.cols
             C == csv.cols
             P == plan.cols
             old == csv.rows
             n == Len(old)
             m == Len(request.keys)
  <1>1. /\ more \in Seq(Rows) /\ Len(more) = m /\ m \in Nat /\ m >= 1 /\ DOMAIN request.keys = 1..m
        /\ \A i \in 1..m : more[i].cell \in Cells(B) /\ request.keys[i] = Key(more[i], B)
        /\ B \in SUBSET Columns
    <2>1. /\ more \in Seq(Rows) /\ Len(more) = m /\ m >= 1
          /\ \A i \in 1..m : more[i].cell \in Cells(B) /\ request.keys[i] = Key(more[i], B)
      BY DEF ReadyToSave, SubmissionOK
    <2>2. request.keys \in Seq([request.cols -> Values]) /\ B \in SUBSET Columns
      BY DEF ReadyToSave, TypeInv, RequestOK
    <2> QED
      BY <2>1, <2>2
  <1>2. plan = [cols |-> C \cup B, rows |-> old \o more]
    BY DEF ReadyToSave, Rebuilt
  <1>3. /\ old \in Seq(Rows) /\ n \in Nat /\ DOMAIN old = 1..n /\ C \in SUBSET Columns /\ P \in SUBSET Columns
        /\ P = C \cup B /\ plan.rows = old \o more
    <2>1. P = C \cup B /\ plan.rows = old \o more
      BY <1>2
    <2>2. old \in Seq(Rows) /\ C \in SUBSET Columns
      BY SavesAre
    <2>3. P \in SUBSET Columns
      BY <1>1, <2>1, <2>2
    <2> QED
      BY <2>1, <2>2, <2>3
  <1> HIDE DEF more, m
  <1>4. Diff = ComputeDiff(old, old \o more, C)
    <2>1. C \cap P = C
      BY <1>3
    <2> QED
      BY <1>3, <2>1, SavesAre
  <1> HIDE DEF B, C, P, old, n
  <1>5. Diff.added = n + 1..n + m /\ Diff.edited = {} /\ Cardinality(Diff.added) = m
    <2> DEFINE d == ComputeDiff(old, old \o more, C)
    <2>1. /\ d.added = Len(old) + 1..Len(old) + Len(more) /\ d.edited = {}
          /\ Cardinality(d.added) = Len(more)
      <3>1. old \in Seq(Rows) /\ more \in Seq(Rows)
        BY <1>1, <1>3
      <3> QED
        BY <3>1, AppendedAre
    <2> HIDE DEF d
    <2> QED
      BY <1>1, <1>4, <2>1 DEF d, n
  <1>6. csv' = Written(Diff) /\ charged' = Counted(request, Diff)
    <2>1. Diff.added # {}
      <3>1. Cardinality(Diff.added) # 0
        BY <1>1, <1>5
      <3> QED
        BY <3>1, FS_EmptySet
    <2>2. Changes(Diff)
      BY <2>1 DEF Changes
    <2> QED
      BY <2>2, CountersAdd DEF Done
  <1>7. /\ csv'.rows \in Seq(Rows) /\ csv'.cols = P /\ DOMAIN csv'.rows = 1..n+m
        /\ \A i \in 1..n+m : csv'.rows[i] = Stored(
              IF i \in n+1..n+m THEN [(old \o more)[i] EXCEPT !.by = analyst] ELSE (old \o more)[i], P)
    <2>1. DOMAIN (old \o more) = 1..n+m
      <3>1. old \in Seq(Rows) /\ more \in Seq(Rows) /\ Len(more) = m
        BY <1>1, <1>3
      <3> QED
        BY <3>1 DEF n
    <2>2. /\ csv'.rows \in Seq(Rows) /\ csv'.cols = P /\ DOMAIN csv'.rows = DOMAIN (old \o more)
          /\ \A i \in DOMAIN (old \o more) : csv'.rows[i] = Stored(
                IF i \in Diff.added THEN [(old \o more)[i] EXCEPT !.by = analyst] ELSE (old \o more)[i], P)
      BY <1>3, <1>6, SavesAre DEF P
    <2> QED
      BY <1>5, <2>1, <2>2
  <1>8. \A i \in 1..n : csv'.rows[i] = old[i]
    <2> SUFFICES ASSUME NEW i \in 1..n PROVE csv'.rows[i] = old[i]
      OBVIOUS
    <2>1. i \in 1..n+m /\ i \notin n+1..n+m /\ (old \o more)[i] = old[i]
      BY <1>1, <1>3 DEF n
    <2>2. csv'.rows[i] = Stored(old[i], P)
      BY <1>7, <2>1
    <2>3. old[i] \in Rows /\ old[i].cell \in Cells(C)
      BY <1>3, SavesAre DEF old, C
    <2>4. old[i].cell \in Cells(P)
      BY <1>3, <2>3 DEF Cells
    <2> QED
      BY <1>3, <2>2, <2>3, <2>4, StoredIs
  <1> DEFINE row(i) == [cell |-> [c \in Columns |-> IF c \in B THEN request.keys[i][c] ELSE Blank],
                        by |-> analyst]
             last == [i \in DOMAIN request.keys |-> Stored(row(i), P)]
  <1>9. \A i \in 1..m : last[i] = csv'.rows[n + i]
    <2> SUFFICES ASSUME NEW i \in 1..m PROVE last[i] = csv'.rows[n + i]
      OBVIOUS
    <2>1. n + i \in 1..n+m /\ n + i \in n+1..n+m /\ (old \o more)[n + i] = more[i]
      BY <1>1, <1>3 DEF n
    <2>2. csv'.rows[n + i] = Stored([more[i] EXCEPT !.by = analyst], P)
      BY <1>7, <2>1
    <2>3. more[i] \in [cell : [Columns -> Values], by : Authors] /\ more[i].cell \in Cells(B)
      <3>1. more[i] \in Rows
        BY <1>1
      <3> QED
        BY <1>1, <3>1 DEF Rows
    <2>4. request.keys[i] = [c \in B |-> more[i].cell[c]]
      BY <1>1 DEF Key
    <2>5. [c \in Columns |-> IF c \in B THEN request.keys[i][c] ELSE Blank] = more[i].cell
      BY <2>3, <2>4 DEF Cells
    <2>6. [more[i] EXCEPT !.by = analyst] = [cell |-> more[i].cell, by |-> analyst]
      BY <2>3
    <2>7. row(i) = [more[i] EXCEPT !.by = analyst]
      BY <2>5, <2>6
    <2>8. last[i] = Stored(row(i), P)
      BY <1>1
    <2> QED
      BY <2>2, <2>7, <2>8
  <1>10. DOMAIN last = 1..m
    BY <1>1
  <1>11. last = [i \in 1..m |-> last[i]]
    BY <1>1
  <1> HIDE DEF last, row
  <1>12. csv'.rows = old \o last
    <2>1. \A i \in 1..m : n + i \in 1..n+m
      BY <1>1, <1>3
    <2>2. \A i \in 1..m : csv'.rows[n + i] \in Rows
      <3> DEFINE rows == csv'.rows
      <3>0. rows \in Seq(Rows)
        BY <1>7
      <3>2. DOMAIN rows = 1..n+m
        BY <1>7
      <3> HIDE DEF rows
      <3>3. \A x \in DOMAIN rows : rows[x] \in Rows
        BY <3>0
      <3>1. \A x \in 1..n+m : csv'.rows[x] \in Rows
        BY <3>2, <3>3 DEF rows
      <3> QED
        BY <2>1, <3>1
    <2>3. \A i \in 1..m : last[i] \in Rows
      BY <1>9, <2>2
    <2>4. last \in Seq(Rows) /\ Len(last) = m
      BY <1>1, <1>11, <2>3
    <2>5. old \o last \in Seq(Rows) /\ DOMAIN (old \o last) = 1..n+m
      BY <1>1, <1>3, <2>4 DEF n
    <2>6. \A i \in 1..n+m : csv'.rows[i] = (old \o last)[i]
      <3> SUFFICES ASSUME NEW i \in 1..n+m PROVE csv'.rows[i] = (old \o last)[i]
        OBVIOUS
      <3>1. CASE i \in 1..n
        <4>1. (old \o last)[i] = old[i]
          BY <1>3, <2>4, <3>1 DEF n
        <4> QED
          BY <1>8, <3>1, <4>1
      <3>2. CASE i \notin 1..n
        <4>1. i - n \in 1..m /\ n + (i - n) = i
          BY <1>1, <1>3, <3>2
        <4>2. (old \o last)[i] = last[i - n]
          BY <1>1, <1>3, <2>4, <4>1 DEF n
        <4> QED
          BY <1>9, <4>1, <4>2
      <3> QED
        BY <3>1, <3>2
    <2> QED
      BY <1>7, <2>5, <2>6, SameSeq
  <1>13. Asked(request, csv, csv')
    <2>1. csv'.cols = csv.cols \cup request.cols
      BY <1>3, <1>7 DEF C, B
    <2>2. csv'.rows = csv.rows \o [i \in DOMAIN request.keys |-> Stored(
              [cell |-> [c \in Columns |-> IF c \in request.cols THEN request.keys[i][c] ELSE Blank],
               by |-> analyst], csv'.cols)]
      BY <1>7, <1>12 DEF last, row, B, old
    <2> QED
      BY <2>1, <2>2 DEF Asked
  <1>14. charged'["row_addition"] = m /\ Edits' = 0 /\ Removals' = 0
    <2>1. Cardinality(Diff.added) = m /\ Cardinality(Diff.edited) = 0
      BY <1>5, FS_EmptySet
    <2>2. /\ charged'["row_removal"] = 0 /\ charged'["bulk_row_removal"] = 0 /\ charged'["row_addition"] = m
          /\ charged'["row_edit"] = 0 /\ charged'["bulk_row_edit"] = 0
      BY <1>6, <2>1, CountersAdd
    <2> QED
      BY <2>2 DEF Removals, Edits
  <1> QED
    BY <1>13, <1>14 DEF m

GivenTo(old, new, S, col, val) ==
    /\ S \in SUBSET DOMAIN old /\ DOMAIN new = DOMAIN old
    /\ \A i \in DOMAIN old : new[i].cell[col] = IF i \in S THEN val ELSE old[i].cell[col]

\* If giving a value to some rows makes no difference, they have it.
LEMMA HadIt ==
    ASSUME NEW R, NEW old \in Seq(R), NEW new \in Seq(R), NEW C, NEW col \in C, NEW val, NEW S,
           GivenTo(old, new, S, col, val), \A k : Times(old, k, C) = Times(new, k, C)
    PROVE  \A i \in S : old[i].cell[col] = val
  <1> USE DEF GivenTo
  <1> DEFINE B == {col}
             m == [c \in B |-> val]
             V == {i \in DOMAIN old : old[i].cell[col] = val}
             U == {i \in DOMAIN old : new[i].cell[col] = val}
  <1>1. \A row : Key(row, B) = m <=> row.cell[col] = val
    BY DEF Key
  <1>2. Count(old, DOMAIN old, m, B) = Cardinality(V) /\ Count(new, DOMAIN new, m, B) = Cardinality(U)
    <2>1. {i \in DOMAIN old : Key(old[i], B) = m} = V /\ {i \in DOMAIN new : Key(new[i], B) = m} = U
      <3> HIDE DEF m, B
      <3> QED
        BY <1>1
    <2> HIDE DEF V, U, m, B
    <2> QED
      BY <2>1 DEF Count
  <1>3. Cardinality(U) <= Cardinality(V)
    <2>1. \A k : Count(new, DOMAIN new, k, C) <= Count(old, DOMAIN old, k, C)
      <3> SUFFICES ASSUME NEW k PROVE Count(new, DOMAIN new, k, C) <= Count(old, DOMAIN old, k, C)
        OBVIOUS
      <3>1. Times(old, k, C) \in Nat
        BY Counts
      <3>2. Count(new, DOMAIN new, k, C) = Times(old, k, C) /\ Count(old, DOMAIN old, k, C) = Times(old, k, C)
        BY DEF Times
      <3> QED
        BY <3>1, <3>2
    <2>2. B \in SUBSET C
      OBVIOUS
    <2> HIDE DEF B, m
    <2>3. Count(new, DOMAIN new, m, B) <= Count(old, DOMAIN old, m, B)
      BY <2>1, <2>2, FewerCoarser
    <2> QED
      BY <1>2, <2>3
  <1> SUFFICES ASSUME NEW i \in S, old[i].cell[col] # val PROVE FALSE
    OBVIOUS
  <1>4. V \subseteq U /\ i \in U /\ i \notin V /\ U \in SUBSET DOMAIN old
    OBVIOUS
  <1> HIDE DEF U, V
  <1>5. IsFiniteSet(U)
    BY <1>4, Positions
  <1>6. V \in SUBSET U /\ V # U
    BY <1>4
  <1>7. Cardinality(V) < Cardinality(U) /\ Cardinality(V) \in Nat /\ Cardinality(U) \in Nat
    BY <1>5, <1>6, FS_Subset, FS_CardinalityType
  <1> QED
    BY <1>3, <1>7

\* The rows that an edit names get its value, the others stay; if the edits can be told
\* from additions, they are counted as edits only.
LEMMA RowsEdited ==
    ASSUME ReadyToSave, Done, request.action = "bulk_row_edit"
    PROVE  /\ Asked(request, csv, csv')
           /\ Comparable(request, csv) =>
                Edits' <= Len(request.keys) /\ charged'["row_addition"] = 0 /\ Removals' = 0
  <1> DEFINE S == Matches(csv, request)
             C == csv.cols
             old == csv.rows
             new == plan.rows
             n == Len(request.keys)
             col == request.col
             val == request.val
             want(i) == IF i \in S THEN [old[i].cell EXCEPT ![col] = val] ELSE old[i].cell
  <1>1. old \in Seq(Rows) /\ new \in Seq(Rows) /\ C \in SUBSET Columns
    BY SavesAre
  <1>2. /\ S \in SUBSET DOMAIN old /\ Names(request, csv, S) /\ n \in Nat /\ n >= 1
        /\ col \in C /\ val \in Values
    <2>1. /\ ~(Cardinality(S) < n) /\ n >= 1 /\ request.keys \in Seq([request.cols -> Values])
          /\ col \in C /\ val \in Values
      BY DEF ReadyToSave, Refused, SubmissionOK, TypeInv, RequestOK
    <2>2. n \in Nat
      BY <2>1
    <2> QED
      BY <1>1, <2>1, <2>2, MatchesAreNamed
  <1>3. plan = [csv EXCEPT !.rows = [i \in DOMAIN @ |-> IF i \in S THEN [@[i] EXCEPT !.cell[col] = val]
                                                        ELSE @[i]]]
    BY DEF ReadyToSave, Rebuilt
  <1>4. /\ plan.cols = C
        /\ new = [i \in DOMAIN old |-> IF i \in S THEN [old[i] EXCEPT !.cell[col] = val] ELSE old[i]]
    BY <1>3, SavesAre
  <1>5. Diff = ComputeDiff(old, new, C)
    BY <1>4, SavesAre
  <1>6. \A i \in DOMAIN old : old[i] \in Rows /\ old[i].cell \in Cells(C)
    BY SavesAre
  <1> HIDE DEF S, C, old, new, n, col, val
  <1>7. ASSUME NEW i \in DOMAIN old
        PROVE  /\ old[i] \in [cell : [Columns -> Values], by : Authors]
               /\ new[i] = [cell |-> want(i), by |-> old[i].by]
               /\ want(i) \in Cells(C)
               /\ \A c \in C : want(i)[c] = IF i \in S /\ c = col THEN val ELSE old[i].cell[c]
    <2>1. old[i] \in [cell : [Columns -> Values], by : Authors] /\ old[i].cell \in Cells(C)
      BY <1>6 DEF Rows
    <2>2. new[i] = IF i \in S THEN [old[i] EXCEPT !.cell[col] = val] ELSE old[i]
      BY <1>4
    <2>3. old[i] = [cell |-> old[i].cell, by |-> old[i].by]
      BY <2>1
    <2>4. [old[i] EXCEPT !.cell[col] = val] = [cell |-> [old[i].cell EXCEPT ![col] = val], by |-> old[i].by]
      BY <2>1
    <2>5. new[i] = [cell |-> want(i), by |-> old[i].by]
      BY <2>2, <2>3, <2>4
    <2>6. want(i) \in Cells(C)
      BY <1>1, <1>2, <2>1 DEF Cells
    <2>7. \A c \in C : want(i)[c] = IF i \in S /\ c = col THEN val ELSE old[i].cell[c]
      BY <1>1, <1>2, <2>1
    <2> QED
      BY <2>1, <2>5, <2>6, <2>7
  <1>8. DOMAIN new = DOMAIN old /\ Len(new) = Len(old)
    BY <1>1, <1>4
  <1>9. \A i \in DOMAIN old : /\ new[i].cell = want(i) /\ new[i].by = old[i].by
                              /\ want(i) \in Cells(C)
                              /\ \A c \in C : want(i)[c] = IF i \in S /\ c = col THEN val ELSE old[i].cell[c]
    <2> HIDE DEF want
    <2> SUFFICES ASSUME NEW i \in DOMAIN old
                 PROVE  /\ new[i].cell = want(i) /\ new[i].by = old[i].by
                        /\ want(i) \in Cells(C)
                        /\ \A c \in C : want(i)[c] = IF i \in S /\ c = col THEN val ELSE old[i].cell[c]
      OBVIOUS
    <2>1. new[i] = [cell |-> want(i), by |-> old[i].by]
      BY <1>7
    <2>2. new[i].cell = want(i) /\ new[i].by = old[i].by
      BY <2>1
    <2> QED
      BY <1>7, <2>2
  <1> HIDE DEF want
  <1>10. Changed(old, new, C, col, val, S)
    <2>1. ASSUME NEW i \in DOMAIN old, NEW c \in C
          PROVE  new[i].cell[c] = old[i].cell[c] \/ (c = col /\ i \in S /\ new[i].cell[c] = val)
      <3>1. new[i].cell = want(i)
        BY <1>9
      <3>2. want(i)[c] = IF i \in S /\ c = col THEN val ELSE old[i].cell[c]
        BY <1>9
      <3> QED
        BY <3>1, <3>2
    <2>2. S \in SUBSET DOMAIN old /\ col \in C
      BY <1>2
    <2> QED
      BY <1>8, <2>1, <2>2 DEF Changed
  <1>11. Cardinality(S) = n
    BY <1>2 DEF Names, n
  <1>12. Comparable(request, csv) => Diff.added = {} /\ Cardinality(Diff.edited) <= n
    <2> SUFFICES ASSUME Comparable(request, csv) PROVE Diff.added = {} /\ Cardinality(Diff.edited) <= n
      OBVIOUS
    <2>1. Cardinality(C) > 1 /\ Cardinality(S) <= MAX_DIFF_ROWS
      BY <1>11 DEF Comparable, C, n
    <2>2. IsFiniteSet(C)
      BY <1>1, ReplayAssumption, FS_Subset
    <2> QED
      BY <1>1, <1>5, <1>10, <1>11, <2>1, <2>2, EditsFound
  <1>13. CASE Changes(Diff)
    <2>1. csv' = Written(Diff) /\ charged' = Counted(request, Diff)
      BY <1>13, CountersAdd DEF Done
    <2>2. /\ csv'.cols = C /\ DOMAIN csv'.rows = DOMAIN old /\ csv'.rows \in Seq(Rows)
          /\ \A i \in DOMAIN old : csv'.rows[i] = Stored(
               IF i \in Diff.added THEN [new[i] EXCEPT !.by = analyst] ELSE new[i], C)
      BY <1>4, <1>8, <2>1, SavesAre DEF new
    <2>3. ASSUME NEW i \in DOMAIN old
          PROVE  csv'.rows[i].cell = want(i) /\ (Diff.added = {} => csv'.rows[i].by = old[i].by)
      <3> DEFINE row == IF i \in Diff.added THEN [new[i] EXCEPT !.by = analyst] ELSE new[i]
      <3>1. csv'.rows[i] = Stored(row, C)
        BY <2>2
      <3>2. new[i] \in [cell : [Columns -> Values], by : Authors]
        <4>1. new[i] \in Rows
          BY <1>1, <1>8
        <4> QED
          BY <4>1 DEF Rows
      <3>3. row \in Rows /\ row.cell = want(i) /\ (Diff.added = {} => row.by = old[i].by)
        BY <1>9, <3>2, ReplayAssumption DEF Rows
      <3> HIDE DEF row
      <3>4. Stored(row, C) = row
        BY <1>1, <1>9, <3>3, StoredIs
      <3> QED
        BY <3>1, <3>3, <3>4
    <2>4. Asked(request, csv, csv')
      <3>1. Len(csv'.rows) = Len(old)
        BY <1>1, <2>2
      <3>2. \A i \in DOMAIN old : csv'.rows[i].cell = IF i \in S THEN [old[i].cell EXCEPT ![col] = val]
                                                     ELSE old[i].cell
        BY <2>3 DEF want
      <3>3. \A i \in DOMAIN old : Comparable(request, csv) => csv'.rows[i].by = old[i].by
        BY <1>12, <2>3
      <3> QED
        BY <1>2, <2>2, <3>1, <3>2, <3>3 DEF Asked, old, C, col, val
    <2>5. ASSUME Comparable(request, csv)
          PROVE  Edits' <= n /\ charged'["row_addition"] = 0 /\ Removals' = 0
      <3> DEFINE ne == Cardinality(Diff.edited)
      <3>1. Cardinality(Diff.added) = 0 /\ ne <= n
        BY <1>12, <2>5, FS_EmptySet
      <3>2. /\ charged'["row_removal"] = 0 /\ charged'["bulk_row_removal"] = 0
            /\ charged'["row_addition"] = 0 /\ ne \in Nat
            /\ ne >= 2 => charged'["row_edit"] = 0 /\ charged'["bulk_row_edit"] = ne
            /\ ne < 2 => charged'["row_edit"] \in {0, ne} /\ charged'["bulk_row_edit"] = 0
        BY <2>1, <3>1, CountersAdd
      <3> HIDE DEF ne
      <3>3. charged'["row_edit"] + charged'["bulk_row_edit"] <= n
        BY <1>2, <3>1, <3>2
      <3> QED
        BY <3>2, <3>3 DEF Edits, Removals
    <2> QED
      BY <2>4, <2>5 DEF n
  <1>14. CASE ~Changes(Diff)
    <2>1. /\ csv' = csv /\ charged' = [x \in Limits |-> 0]
          /\ Diff.added = {} /\ Diff.removed = {} /\ Diff.edited = {}
      BY <1>14 DEF Done, Changes
    <2>2. \A k : Times(old, k, C) = Times(new, k, C)
      BY <1>1, <1>5, <2>1, NoDifference
    <2>3. \A i \in S : old[i].cell[col] = val
      <3>1. \A i \in DOMAIN old : new[i].cell[col] = IF i \in S THEN val ELSE old[i].cell[col]
        BY <1>2, <1>9
      <3> QED
        <4>1. old \in Seq(Rows) /\ new \in Seq(Rows) /\ col \in C
          BY <1>1, <1>2
        <4>2. GivenTo(old, new, S, col, val)
          BY <1>2, <1>8, <3>1 DEF GivenTo
        <4> QED
          BY <2>2, <4>1, <4>2, HadIt
    <2>4. \A i \in DOMAIN old : old[i].cell = want(i)
      <3> SUFFICES ASSUME NEW i \in DOMAIN old PROVE old[i].cell = want(i)
        OBVIOUS
      <3>1. old[i].cell \in [Columns -> Values]
        BY <1>7
      <3>2. i \in S => [old[i].cell EXCEPT ![col] = val] = old[i].cell
        BY <2>3, <3>1
      <3> QED
        BY <3>2 DEF want
    <2>5. Asked(request, csv, csv')
      <3>1. \A i \in DOMAIN old : csv'.rows[i].cell = IF i \in S THEN [old[i].cell EXCEPT ![col] = val]
                                                     ELSE old[i].cell
        BY <2>1, <2>4 DEF want, old
      <3> QED
        BY <1>2, <2>1, <3>1 DEF Asked, old, C, col, val
    <2>6. Edits' <= n /\ charged'["row_addition"] = 0 /\ Removals' = 0
      <3>1. /\ charged'["row_edit"] = 0 /\ charged'["bulk_row_edit"] = 0 /\ charged'["row_addition"] = 0
            /\ charged'["row_removal"] = 0 /\ charged'["bulk_row_removal"] = 0
        BY <2>1 DEF Limits
      <3> QED
        BY <1>2, <3>1 DEF Edits, Removals
    <2> QED
      BY <2>5, <2>6 DEF n
  <1> QED
    BY <1>13, <1>14

\* Inline edits that were taken for additions are counted as what was submitted.
LEMMA InlineCharged ==
    ASSUME ReadyToSave, Done, request.action = "inline",
           Diff.added # {}, Cardinality(Diff.edited) # 1
    PROVE  Edits' = request.count /\ charged'["row_addition"] = 0 /\ Removals' = 0
  <1> DEFINE c == Counted(request, Diff)
             na == Cardinality(Diff.added)
             ne == Cardinality(Diff.edited)
             count == request.count
  <1>1. /\ na \in Nat /\ ne \in Nat /\ c["row_removal"] = 0 /\ c["bulk_row_removal"] = 0
        /\ c["row_addition"] = na /\ ne # 1
        /\ ne >= 2 => c["row_edit"] = 0 /\ c["bulk_row_edit"] = ne
        /\ ne < 2 => c["row_edit"] \in {0, ne} /\ c["bulk_row_edit"] = 0
    BY CountersAdd
  <1>2. count \in Nat
    BY DEF ReadyToSave, TypeInv, RequestOK
  <1>3. charged' = [c EXCEPT !["row_addition"] = @ - na, !["bulk_row_edit"] = @ - ne + count]
    <2>1. Changes(Diff)
      BY DEF Changes
    <2> QED
      BY <2>1 DEF Done, Corrected
  <1>4. DOMAIN c = Limits
    BY DEF Counted
  <1> HIDE DEF c, na, ne, count
  <1>5. /\ charged'["row_addition"] = c["row_addition"] - na
        /\ charged'["bulk_row_edit"] = c["bulk_row_edit"] - ne + count
        /\ charged'["row_edit"] = c["row_edit"]
        /\ charged'["row_removal"] = c["row_removal"]
        /\ charged'["bulk_row_removal"] = c["bulk_row_removal"]
    BY <1>3, <1>4 DEF Limits
  <1>6. /\ charged'["row_addition"] = 0 /\ charged'["row_edit"] + charged'["bulk_row_edit"] = count
        /\ charged'["row_removal"] + charged'["bulk_row_removal"] = 0
    BY <1>1, <1>2, <1>5
  <1> QED
    BY <1>6 DEF Edits, Removals, count

\* The keys of some rows are those of the rows put in a sequence of their own.
LEMMA KeysOf ==
    ASSUME NEW rows \in Seq(Rows), NEW S \in SUBSET DOMAIN rows, NEW C
    PROVE  /\ DOMAIN Keys(rows, S, C) = DOMAIN At(rows, S)
           /\ \A i \in DOMAIN At(rows, S) : Keys(rows, S, C)[i] = Key(At(rows, S)[i], C)
           /\ Len(Keys(rows, S, C)) = Cardinality(S) /\ Len(At(rows, S)) = Cardinality(S)
           /\ At(rows, S) \in Seq(Rows)
  <1> DEFINE picked == At(rows, S)
             keys == Keys(rows, S, C)
  <1>1. picked \in Seq(Rows) /\ Len(picked) = Cardinality(S)
    BY AtIs
  <1>2. keys = [i \in DOMAIN picked |-> Key(picked[i], C)]
    BY DEF Keys
  <1> HIDE DEF picked, keys
  <1>3. DOMAIN keys = DOMAIN picked /\ \A i \in DOMAIN picked : keys[i] = Key(picked[i], C)
    BY <1>2
  <1>4. Len(keys) = Len(picked)
    <2>1. DOMAIN picked = 1..Len(picked) /\ Len(picked) \in Nat
      BY <1>1
    <2> QED
      BY <1>3, <2>1
  <1> QED
    BY <1>1, <1>3, <1>4 DEF picked, keys

\* A selection has at least one row, and what an addition names as new are the rows that
\* come after those its author has loaded.
LEMMA SubmissionsOK ==
    ASSUME Ask
    PROVE  SubmissionOK(request')
  <1>0. ASSUME NEW v \in Loaded PROVE v.cols \in SUBSET Columns /\ v.rows \in Seq(Rows)
    BY ReplayAssumption DEF IsTable
  <1>1. ASSUME NEW v \in Loaded, NEW S \in (SUBSET DOMAIN v.rows) \ {{}}
        PROVE  Len(Keys(v.rows, S, v.cols)) >= 1
    <2>1. v.rows \in Seq(Rows) /\ S \in SUBSET DOMAIN v.rows /\ S # {}
      BY <1>0
    <2>2. Cardinality(S) \in Nat /\ Cardinality(S) # 0
      BY <2>1, Positions, FS_EmptySet
    <2>3. Len(Keys(v.rows, S, v.cols)) = Cardinality(S)
      BY <2>1, KeysOf
    <2> QED
      BY <2>2, <2>3
  <1>2. ASSUME NEW v \in Loaded, NEW S \in (SUBSET DOMAIN v.rows) \ {{}}, SubmitRemoval(v, S)
        PROVE  SubmissionOK(request')
    BY <1>1, <1>2 DEF SubmitRemoval, Submit, SubmissionOK
  <1>3. ASSUME NEW v \in Loaded, NEW S \in (SUBSET DOMAIN v.rows) \ {{}}, NEW c, NEW x, SubmitBulkEdit(v, S, c, x)
        PROVE  SubmissionOK(request')
    BY <1>1, <1>3 DEF SubmitBulkEdit, Submit, SubmissionOK
  <1>4. ASSUME NEW v, NEW new, SubmitInline(v, new) PROVE SubmissionOK(request')
    BY <1>4 DEF SubmitInline, Submit, SubmissionOK
  <1>5. ASSUME NEW v \in Loaded, NEW C \in SUBSET Columns, NEW n \in 1..MaxNew,
               NEW new \in [1..n -> Cells(C)], SubmitAddition(v, C, new)
        PROVE  SubmissionOK(request')
    <2> DEFINE l == Len(v.rows)
               added == [i \in DOMAIN new |-> [cell |-> new[i], by |-> Blank]]
               rows == v.rows \o added
               T == l + 1..Len(rows)
               keys == Keys(rows, T, C)
               r == [cols |-> C, rows |-> rows, action |-> "bulk_row_addition", keys |-> keys]
    <2>1. v.rows \in Seq(Rows) /\ l \in Nat /\ n \in Nat /\ n >= 1 /\ DOMAIN new = 1..n
      BY <1>0, <1>5, ReplayAssumption
    <2>2. \A i \in 1..n : [cell |-> new[i], by |-> Blank] \in Rows
      BY <1>5, CellsAre, ReplayAssumption DEF Rows
    <2>3. /\ added \in Seq(Rows) /\ Len(added) = n /\ DOMAIN added = 1..n
          /\ \A i \in 1..n : added[i].cell \in Cells(C)
      BY <2>1, <2>2
    <2>4. request' = r
      BY <1>5 DEF SubmitAddition, Submit
    <2> HIDE DEF added
    <2>5. rows \in Seq(Rows) /\ Len(rows) = l + n
      <3>1. v.rows \in Seq(Rows)
        BY <2>1
      <3>2. added \in Seq(Rows) /\ Len(added) = n
        BY <2>3
      <3> QED
        BY <3>1, <3>2
    <2>6. \A j \in T : j - l \in 1..n /\ rows[j] = added[j - l]
      BY <2>1, <2>3, <2>5
    <2>7. \A j \in T : rows[j].cell \in Cells(C)
      BY <2>3, <2>6
    <2>8. l \in 0..Len(rows) /\ T \in SUBSET DOMAIN rows
      <3>1. DOMAIN rows = 1..l+n /\ l \in 0..l+n
        BY <2>1, <2>5
      <3>2. \A j \in l+1..l+n : j \in 1..l+n
        BY <2>1
      <3> HIDE DEF rows
      <3> QED
        BY <2>5, <3>1, <3>2
    <2>9. Cardinality(T) = n
      <3> DEFINE a == l + 1
                 b == l + n
      <3>1. a \in Int /\ b \in Int
        BY <2>1
      <3>2. T = a..b
        BY <2>5
      <3> HIDE DEF a, b
      <3>3. Cardinality(a..b) = IF a > b THEN 0 ELSE b-a+1
        BY <3>1, FS_Interval
      <3>4. (IF a > b THEN 0 ELSE b-a+1) = n
        BY <2>1 DEF a, b
      <3> HIDE DEF T
      <3> QED
        BY <3>2, <3>3, <3>4
    <2> DEFINE tail == At(rows, T)
    <2> HIDE DEF rows, T, l
    <2>10. /\ DOMAIN keys = DOMAIN tail /\ \A i \in DOMAIN tail : keys[i] = Key(tail[i], C)
           /\ Len(keys) = n /\ Len(tail) = n /\ tail \in Seq(Rows)
      BY <2>5, <2>8, <2>9, KeysOf
    <2>11. \A i \in DOMAIN tail : tail[i].cell \in Cells(C)
      <3> SUFFICES ASSUME NEW i \in DOMAIN tail PROVE tail[i].cell \in Cells(C)
        OBVIOUS
      <3>1. \E j \in T : tail[i] = rows[j]
        BY <2>5, <2>8, AtIs
      <3> QED
        BY <2>7, <3>1
    <2> HIDE DEF keys, tail
    <2>12. /\ r.rows = rows /\ r.cols = C /\ r.keys = keys /\ r.action = "bulk_row_addition"
      OBVIOUS
    <2> HIDE DEF r
    <2>13. \A k : Named(r, k) = Count(rows, T, k, C)
      <3> SUFFICES ASSUME NEW k PROVE Named(r, k) = Count(rows, T, k, C)
        OBVIOUS
      <3>1. {i \in DOMAIN keys : keys[i] = k} = {i \in DOMAIN tail : Key(tail[i], C) = k}
        BY <2>10
      <3>2. Named(r, k) = Times(tail, k, C)
        BY <2>12, <3>1 DEF Named, Times, Count
      <3>3. Times(tail, k, C) = Count(rows, T, k, C)
        BY <2>5, <2>8, AtCounts DEF tail
      <3> QED
        BY <3>2, <3>3
    <2>14. NewRows(r) = tail
      <3> DEFINE k(i) == Key(rows[i], C)
                 Sel == {i \in DOMAIN rows : Count(rows, i..Len(rows), k(i), C) <= Named(r, k(i))}
      <3>1. NewRows(r) = At(rows, Sel)
        BY <2>12 DEF NewRows
      <3>2. \A i \in DOMAIN rows : Count(rows, i..Len(rows), k(i), C) <= Count(rows, T, k(i), C) <=> i \in T
        BY <2>5, <2>8, LastAre DEF T
      <3>3. \A i \in DOMAIN rows : Named(r, k(i)) = Count(rows, T, k(i), C)
        BY <2>13
      <3>4. Sel = T
        <4> HIDE DEF k
        <4> QED
          BY <2>8, <3>2, <3>3
      <3> HIDE DEF Sel
      <3> QED
        BY <3>1, <3>4 DEF tail
    <2>15. DOMAIN tail = 1..n
      BY <2>10
    <2> QED
      BY <2>1, <2>4, <2>10, <2>11, <2>12, <2>14, <2>15 DEF SubmissionOK
  <1>6. ASSUME NEW v, NEW c, SubmitColumn(v, c) PROVE SubmissionOK(request')
    BY <1>6 DEF SubmitColumn, Submit, SubmissionOK
  <1>7. ASSUME NEW t, SubmitImport(t) PROVE SubmissionOK(request')
    BY <1>7 DEF SubmitImport, Submit, SubmissionOK
  <1> QED
    BY Ask, <1>2, <1>3, <1>4, <1>5, <1>6, <1>7 DEF Ask

\* Between the read and the save the contents to save are those worked out from what was read.
PlanOK == outcome = "approving" => plan = Rebuilt(base, request) /\ ~Refused(base, request)

PlanInv == TypeInv /\ SubmissionOK(request) /\ PlanOK

LEMMA PlanInit == Init => PlanInv
  <1> SUFFICES ASSUME Init PROVE PlanInv
    OBVIOUS
  <1>1. request.action = "none" /\ outcome = "none"
    BY DEF Init
  <1>2. SubmissionOK(request) /\ PlanOK
    BY <1>1 DEF SubmissionOK, PlanOK
  <1> QED
    BY <1>2, TypeInit DEF PlanInv

LEMMA PlanStep == PlanInv /\ [Next]_vars => PlanInv'
  <1> SUFFICES ASSUME PlanInv, [Next]_vars PROVE PlanInv'
    OBVIOUS
  <1>1. TypeInv'
    BY TypeStep DEF PlanInv
  <1>2. SubmissionOK(request)
    BY DEF PlanInv
  <1>3. SubmissionOK(request') /\ PlanOK'
    <2>1. CASE Ask
      BY <2>1, SubmissionsOK, AskIsSubmit DEF Submit, PlanOK
    <2>2. CASE Approve
      BY <1>2, <2>2 DEF Approve, PlanOK
    <2>3. CASE Save
      BY <1>2, <2>3 DEF Save, PlanOK
    <2>4. CASE Drop
      BY <1>2, <2>4 DEF Drop, PlanOK
    <2>5. CASE Expire
      BY <1>2, <2>5 DEF Expire, PlanOK, PlanInv
    <2>6. CASE UNCHANGED vars
      BY <1>2, <2>6 DEF vars, PlanOK, PlanInv
    <2>7. CASE SaveFails
      BY <1>2, <2>7 DEF SaveFails, PlanOK
    <2> QED
      BY <2>1, <2>2, <2>3, <2>4, <2>5, <2>6, <2>7 DEF Next
  <1>4. SubmissionOK(request)'
    BY <1>3
  <1> QED
    BY <1>1, <1>3, <1>4 DEF PlanInv

\* Only a save approves, and of those that refuse contents only one that answers otherwise.
LEMMA OnlySaves ==
    ASSUME PlanInv, Next, Saved, csv = base
    PROVE  \/ ReadyToSave /\ Done /\ ~Odd(plan)
           \/ Unnoticed /\ charged' = [x \in Limits |-> 0]
  <1>1. CASE Ask
    BY <1>1, AskIsSubmit DEF Submit, Saved
  <1>2. CASE Approve
    BY <1>2 DEF Approve, Saved
  <1>3. CASE Save
    <2>1. CASE Refusals(plan) = {}
      <3>1. Done
        BY <1>3, <2>1 DEF Save, Saved, Done
      <3>2. ReadyToSave
        BY DEF ReadyToSave, PlanInv, PlanOK, TypeInv, Saved
      <3>3. ~Odd(plan)
        BY <2>1 DEF Refusals
      <3> QED
        BY <3>1, <3>2, <3>3
    <2>2. CASE Refusals(plan) # {}
      <3>1. csv' = csv /\ charged' = [x \in Limits |-> 0]
        BY <1>3, <2>2 DEF Save
      <3>2. PICK status \in Refusals(plan) : ~(status >= 400 \/ request.action = "inline")
        BY <1>3, <2>2 DEF Save, Saved
      <3>3. Odd(plan) /\ request.action # "inline"
        BY <3>2 DEF Refusals
      <3> QED
        BY <3>1, <3>3 DEF Unnoticed
    <2> QED
      BY <2>1, <2>2
  <1>4. CASE Drop
    BY <1>4 DEF Drop, Saved
  <1>5. CASE Expire
    BY <1>5 DEF Expire, Saved
  <1>6. CASE SaveFails
    BY <1>6 DEF SaveFails, Saved
  <1> QED
    BY <1>1, <1>2, <1>3, <1>4, <1>5, <1>6 DEF Next

\* An approved request has changed what was asked for and nothing else: the rows it names,
\* as often as it names them, wherever they are now, in a CSV of any length; except where
\* a cell is not in ASCII, and then nothing.
THEOREM RequestsAreReplayed == Spec => ReplayedAsAsked
  <1>1. PlanInv /\ [Next]_vars => [Saved /\ csv = base => Asked(request, base, csv') \/ Unnoticed]_vars
    <2> SUFFICES ASSUME PlanInv, Next, Saved, csv = base, ~Unnoticed PROVE Asked(request, base, csv')
      BY DEF vars
    <2>1. ReadyToSave /\ Done
      BY OnlySaves
    <2>2. request.action \in Actions
      BY <2>1 DEF ReadyToSave
    <2>3. Asked(request, csv, csv')
      BY <2>1, <2>2, RowsGo, RowsCome, RowsEdited, ColumnGoes, ContentsReplaced DEF Actions
    <2> QED
      BY <2>3
  <1> QED
    BY <1>1, PlanInit, PlanStep, PTL DEF Spec, ReplayedAsAsked

\* An approved request is charged as what was asked for, although only the difference of
\* two contents is seen: no row twice, and no edit as an addition.
THEOREM RequestsAreCharged == Spec => ChargedAsAsked
  <1>1. PlanInv /\ [Next]_vars =>
          [Saved /\ csv = base =>
             IF Unnoticed THEN charged' = [x \in Limits |-> 0] ELSE
             CASE request.action = "bulk_row_removal" ->
                    Removals' = Len(request.keys) /\ Edits' = 0 /\ charged["row_addition"]' = 0
               [] request.action = "bulk_row_addition" ->
                    charged["row_addition"]' = Len(request.keys) /\ Edits' = 0 /\ Removals' = 0
               [] request.action = "bulk_row_edit" /\ Comparable(request, csv) ->
                    Edits' <= Len(request.keys) /\ charged["row_addition"]' = 0 /\ Removals' = 0
               [] request.action = "inline" /\ Diff.added # {} /\ Cardinality(Diff.edited) # 1 ->
                    Edits' = request.count /\ charged["row_addition"]' = 0 /\ Removals' = 0
               [] OTHER -> TRUE]_vars
    <2> SUFFICES ASSUME PlanInv, Next, Saved, csv = base
                 PROVE  IF Unnoticed THEN charged' = [x \in Limits |-> 0] ELSE
               CASE request.action = "bulk_row_removal" ->
                    Removals' = Len(request.keys) /\ Edits' = 0 /\ charged["row_addition"]' = 0
               [] request.action = "bulk_row_addition" ->
                    charged["row_addition"]' = Len(request.keys) /\ Edits' = 0 /\ Removals' = 0
               [] request.action = "bulk_row_edit" /\ Comparable(request, csv) ->
                    Edits' <= Len(request.keys) /\ charged["row_addition"]' = 0 /\ Removals' = 0
               [] request.action = "inline" /\ Diff.added # {} /\ Cardinality(Diff.edited) # 1 ->
                    Edits' = request.count /\ charged["row_addition"]' = 0 /\ Removals' = 0
               [] OTHER -> TRUE
      BY DEF vars
    <2>0. CASE Unnoticed
      BY <2>0, OnlySaves DEF Unnoticed
    <2> SUFFICES ASSUME ~Unnoticed
                 PROVE  CASE request.action = "bulk_row_removal" ->
                    Removals' = Len(request.keys) /\ Edits' = 0 /\ charged["row_addition"]' = 0
               [] request.action = "bulk_row_addition" ->
                    charged["row_addition"]' = Len(request.keys) /\ Edits' = 0 /\ Removals' = 0
               [] request.action = "bulk_row_edit" /\ Comparable(request, csv) ->
                    Edits' <= Len(request.keys) /\ charged["row_addition"]' = 0 /\ Removals' = 0
               [] request.action = "inline" /\ Diff.added # {} /\ Cardinality(Diff.edited) # 1 ->
                    Edits' = request.count /\ charged["row_addition"]' = 0 /\ Removals' = 0
               [] OTHER -> TRUE
      BY <2>0
    <2>1. ReadyToSave /\ Done
      BY OnlySaves
    <2>2. CASE request.action = "bulk_row_removal"
      BY <2>1, <2>2, RowsGo
    <2>3. CASE request.action = "bulk_row_addition"
      BY <2>1, <2>3, RowsCome
    <2>4. CASE request.action = "bulk_row_edit"
      BY <2>1, <2>4, RowsEdited
    <2>5. CASE request.action = "inline"
      <3>1. Diff.added # {} /\ Cardinality(Diff.edited) # 1 =>
                Edits' = request.count /\ charged["row_addition"]' = 0 /\ Removals' = 0
        BY <2>1, <2>5, InlineCharged
      <3> QED
        BY <2>5, <3>1
    <2>6. CASE request.action \notin {"bulk_row_removal", "bulk_row_addition", "bulk_row_edit", "inline"}
      BY <2>6
    <2> QED
      BY <2>2, <2>3, <2>4, <2>5, <2>6
  <1> QED
    BY <1>1, PlanInit, PlanStep, PTL DEF Spec, ChargedAsAsked

=============================================================================
