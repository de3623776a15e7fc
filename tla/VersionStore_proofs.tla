------------------------ MODULE VersionStore_proofs ------------------------
(***************************************************************************)
(* Theorems about VersionStore, for every set of concurrent requests, any  *)
(* number of requests, faults and versions kept, and any length of time.   *)
(***************************************************************************)
EXTENDS VersionStore, FiniteSetTheorems, TLAPS

----------------------------------------------------------------------------
(* Lists.                                                                  *)

Lists == Seq(Entry)

\* A list has no name twice.
Distinct(list) ==
    \A i, j \in DOMAIN list : list[i].name = list[j].name => i = j

\* A set of positions, and the number of those up to each.
Rank(kept) == [i \in kept |-> Cardinality({k \in kept : k <= i})]

\* Positions can be numbered in their order.
LEMMA Numbered ==
    ASSUME NEW m \in Nat, NEW kept \in SUBSET (1..m)
    PROVE  /\ IsFiniteSet(kept) /\ Cardinality(kept) \in 0..m
           /\ Rank(kept) \in Injection(kept, 1..Cardinality(kept))
           /\ Rank(kept) \in Surjection(kept, 1..Cardinality(kept))
  <1> DEFINE n == Cardinality(kept)
             Upto(i) == {k \in kept : k <= i}
  <1>1. IsFiniteSet(1..m) /\ Cardinality(1..m) = m
    BY FS_Interval
  <1>2. IsFiniteSet(kept) /\ n \in Nat /\ n <= m
    BY <1>1, FS_Subset, FS_CardinalityType
  <1>3. ASSUME NEW i \in kept
        PROVE  IsFiniteSet(Upto(i)) /\ Cardinality(Upto(i)) \in 1..n
    <2>1. Upto(i) \in SUBSET kept
      OBVIOUS
    <2>2. IsFiniteSet(Upto(i)) /\ Cardinality(Upto(i)) <= n
      BY <1>2, <2>1, FS_Subset
    <2>3. i \in Upto(i) /\ Cardinality(Upto(i)) \in Nat
      BY <2>2, FS_CardinalityType
    <2>4. Cardinality(Upto(i)) # 0
      BY <2>2, <2>3, FS_EmptySet
    <2> QED
      BY <1>2, <2>2, <2>3, <2>4
  <1>4. ASSUME NEW i \in kept, NEW j \in kept, i < j
        PROVE  Cardinality(Upto(i)) # Cardinality(Upto(j))
    <2>1. kept \subseteq Nat /\ i \in Nat /\ j \in Nat
      OBVIOUS
    <2>2. Upto(i) \in SUBSET Upto(j) /\ j \in Upto(j) /\ j \notin Upto(i)
      <3>1. \A k \in kept : k <= i => k <= j
        BY <1>4, <2>1
      <3>2. j <= j /\ ~(j <= i)
        BY <1>4, <2>1
      <3> QED
        BY <3>1, <3>2
    <2>3. Upto(i) # Upto(j)
      BY <2>2
    <2>4. IsFiniteSet(Upto(j))
      BY <1>3
    <2> HIDE DEF Upto
    <2> QED
      BY <2>2, <2>3, <2>4, FS_Subset
  <1> DEFINE rank == Rank(kept)
  <1>5. rank \in [kept -> 1..n] /\ \A i \in kept : rank[i] = Cardinality(Upto(i))
    BY <1>3 DEF Rank
  <1>6. \A i, j \in kept : rank[i] = rank[j] => i = j
    <2> SUFFICES ASSUME NEW i \in kept, NEW j \in kept, rank[i] = rank[j] PROVE i = j
      OBVIOUS
    <2>1. i \in Nat /\ j \in Nat
      OBVIOUS
    <2>2. Cardinality(Upto(i)) = Cardinality(Upto(j))
      BY <1>5
    <2> HIDE DEF Upto
    <2>3. ~(i < j) /\ ~(j < i)
      BY <1>4, <2>2
    <2> QED
      BY <2>1, <2>3
  <1> HIDE DEF rank
  <1>7. rank \in Injection(kept, 1..n)
    BY <1>5, <1>6 DEF Injection, IsInjective
  <1>8. IsFiniteSet(1..n) /\ Cardinality(1..n) = n
    BY <1>2, FS_Interval
  <1>9. rank \in Surjection(kept, 1..n)
    BY <1>7, <1>8, FS_Injection
  <1> QED
    BY <1>2, <1>7, <1>9 DEF rank

\* What remains of a list without a name.
LEMMA WithoutIs ==
    ASSUME NEW list \in Lists, NEW n
    PROVE  /\ Without(list, n) \in Lists /\ Len(Without(list, n)) <= Len(list)
           /\ NamesIn(Without(list, n)) = NamesIn(list) \ {n}
           /\ Distinct(list) => Distinct(Without(list, n))
  <1> DEFINE m == Len(list)
             kept == {i \in DOMAIN list : list[i].name # n}
             c == Cardinality(kept)
             rank == Rank(kept)
             Nth(j) == CHOOSE i \in kept : Cardinality({k \in kept : k <= i}) = j
             rest == [j \in 1..c |-> list[Nth(j)]]
  <1>1. m \in Nat /\ DOMAIN list = 1..m /\ kept \in SUBSET (1..m)
    BY DEF Lists
  <1>2. /\ c \in 0..m
        /\ rank \in Injection(kept, 1..c) /\ rank \in Surjection(kept, 1..c)
    BY <1>1, Numbered
  <1>3. ASSUME NEW j \in 1..c
        PROVE  Nth(j) \in kept /\ rank[Nth(j)] = j
    <2>1. PICK i \in kept : rank[i] = j
      BY <1>2 DEF Surjection
    <2>2. Cardinality({k \in kept : k <= i}) = j
      BY <2>1 DEF Rank
    <2>3. Nth(j) \in kept /\ Cardinality({k \in kept : k <= Nth(j)}) = j
      BY <2>2
    <2> QED
      BY <2>3 DEF Rank
  <1>4. Without(list, n) = rest
    BY DEF Without
  <1> HIDE DEF Nth, rank
  <1>5. ASSUME NEW i \in kept
        PROVE  rank[i] \in 1..c /\ Nth(rank[i]) = i
    <2>1. rank[i] \in 1..c /\ \A k \in kept : rank[k] = rank[i] => k = i
      BY <1>2 DEF Injection, IsInjective
    <2> QED
      BY <1>3, <2>1
  <1>6. rest \in Lists /\ Len(rest) = c /\ DOMAIN rest = 1..c
    BY <1>1, <1>2, <1>3 DEF Lists
  <1>7. NamesIn(rest) = NamesIn(list) \ {n}
    <2>1. ASSUME NEW x \in NamesIn(rest) PROVE x \in NamesIn(list) \ {n}
      <3>1. PICK j \in 1..c : x = list[Nth(j)].name
        BY <1>6 DEF NamesIn
      <3> QED
        BY <1>3, <3>1 DEF NamesIn
    <2>2. ASSUME NEW x \in NamesIn(list), x # n PROVE x \in NamesIn(rest)
      <3>1. PICK i \in DOMAIN list : x = list[i].name
        BY DEF NamesIn
      <3>2. rank[i] \in 1..c /\ Nth(rank[i]) = i
        BY <1>5, <2>2, <3>1
      <3> QED
        BY <1>6, <3>1, <3>2 DEF NamesIn
    <2> QED
      BY <2>1, <2>2
  <1>8. ASSUME Distinct(list) PROVE Distinct(rest)
    <2> SUFFICES ASSUME NEW i \in 1..c, NEW j \in 1..c, rest[i].name = rest[j].name
                 PROVE  i = j
      BY <1>6 DEF Distinct
    <2>1. Nth(i) \in DOMAIN list /\ Nth(j) \in DOMAIN list
      BY <1>3
    <2>2. Nth(i) = Nth(j)
      BY <1>8, <2>1 DEF Distinct
    <2> QED
      BY <1>3, <2>2
  <1> QED
    BY <1>1, <1>2, <1>4, <1>6, <1>7, <1>8

\* The list with the numbers of columns filled in.
LEMMA FilledIs ==
    ASSUME NEW list \in Lists
    PROVE  LET new == [i \in DOMAIN list |-> [list[i] EXCEPT !.cols = TRUE]] IN
           /\ new \in Lists /\ Len(new) = Len(list) /\ NamesIn(new) = NamesIn(list)
           /\ \A i \in DOMAIN list : new[i].name = list[i].name
           /\ Distinct(list) => Distinct(new)
  <1> DEFINE new == [i \in DOMAIN list |-> [list[i] EXCEPT !.cols = TRUE]]
  <1>1. DOMAIN list = 1..Len(list) /\ Len(list) \in Nat
    BY DEF Lists
  <1>2. \A i \in DOMAIN list : list[i] \in Entry
    BY DEF Lists
  <1>3. \A i \in DOMAIN list : new[i] \in Entry /\ new[i].name = list[i].name
    BY <1>2 DEF Entry
  <1>4. new \in Lists /\ Len(new) = Len(list) /\ DOMAIN new = DOMAIN list
    BY <1>1, <1>3 DEF Lists
  <1> HIDE DEF new
  <1>5. NamesIn(new) = NamesIn(list)
    BY <1>3, <1>4 DEF NamesIn
  <1>6. Distinct(list) => Distinct(new)
    BY <1>3, <1>4 DEF Distinct
  <1> QED
    BY <1>3, <1>4, <1>5, <1>6 DEF new

\* A list with one more entry.
LEMMA AppendIs ==
    ASSUME NEW list \in Lists, NEW e \in Entry
    PROVE  LET new == Append(list, e) IN
           /\ new \in Lists /\ Len(new) = Len(list) + 1 /\ new[Len(new)] = e
           /\ NamesIn(new) = NamesIn(list) \cup {e.name}
           /\ Distinct(list) /\ e.name \notin NamesIn(list) => Distinct(new)
  <1> DEFINE new == Append(list, e)
             n == Len(list)
  <1>1. n \in Nat /\ DOMAIN list = 1..n
    BY DEF Lists
  <1>2. /\ new \in Lists /\ Len(new) = n + 1 /\ DOMAIN new = 1..(n + 1)
        /\ new[n + 1] = e /\ \A i \in 1..n : new[i] = list[i]
    BY <1>1 DEF Lists
  <1> HIDE DEF new, n
  <1>3. \A i \in 1..(n + 1) : i \in 1..n \/ i = n + 1
    BY <1>1
  <1>4. \A i \in 1..n : i \in 1..(n + 1)
    BY <1>1
  <1>5. n + 1 \in 1..(n + 1)
    BY <1>1
  <1>6. NamesIn(new) = NamesIn(list) \cup {e.name}
    <2>1. \A x \in NamesIn(new) : x \in NamesIn(list) \cup {e.name}
      BY <1>1, <1>2, <1>3 DEF NamesIn
    <2>2. \A x \in NamesIn(list) \cup {e.name} : x \in NamesIn(new)
      BY <1>1, <1>2, <1>4, <1>5 DEF NamesIn
    <2> QED
      BY <2>1, <2>2
  <1>7. ASSUME Distinct(list), e.name \notin NamesIn(list) PROVE Distinct(new)
    <2> SUFFICES ASSUME NEW i \in 1..(n + 1), NEW j \in 1..(n + 1),
                        new[i].name = new[j].name
                 PROVE  i = j
      BY <1>2 DEF Distinct
    <2>1. \A k \in 1..n : list[k].name # e.name
      BY <1>1, <1>7 DEF NamesIn
    <2>2. CASE i \in 1..n /\ j \in 1..n
      BY <1>1, <1>2, <1>7, <2>2 DEF Distinct
    <2>3. CASE i = n + 1 \/ j = n + 1
      BY <1>2, <1>3, <2>1, <2>3
    <2> QED
      BY <1>3, <2>2, <2>3
  <1> QED
    BY <1>2, <1>6, <1>7 DEF new, n

\* A list without its first entry.
LEMMA TailIs ==
    ASSUME NEW list \in Lists, Len(list) > 1
    PROVE  /\ Tail(list) \in Lists /\ Len(Tail(list)) = Len(list) - 1
           /\ Tail(list) # <<>>
           /\ Tail(list)[Len(Tail(list))] = list[Len(list)]
           /\ list[1] \in Entry /\ Len(list) \in DOMAIN list /\ 1 \in DOMAIN list
           /\ Distinct(list) => /\ Distinct(Tail(list))
                                /\ NamesIn(Tail(list)) = NamesIn(list) \ {list[1].name}
                                /\ list[Len(list)].name # list[1].name
  <1> DEFINE new == Tail(list)
             n == Len(list)
  <1>1. n \in Nat /\ n > 1 /\ DOMAIN list = 1..n /\ \A i \in 1..n : list[i] \in Entry
    BY DEF Lists
  <1>2. /\ new \in Lists /\ Len(new) = n - 1 /\ DOMAIN new = 1..(n - 1)
        /\ \A i \in 1..(n - 1) : new[i] = list[i + 1]
    BY <1>1 DEF Lists
  <1> HIDE DEF new, n
  <1>3. n - 1 \in 1..(n - 1) /\ (n - 1) + 1 = n /\ 1 \in 1..n /\ n \in 1..n /\ 1 # n
    BY <1>1
  <1>4. \A i \in 1..(n - 1) : i + 1 \in 1..n /\ i + 1 # 1
    BY <1>1
  <1>5. \A i \in 1..n : i = 1 \/ (i - 1 \in 1..(n - 1) /\ (i - 1) + 1 = i)
    BY <1>1
  <1>6. ASSUME Distinct(list)
        PROVE  /\ Distinct(new) /\ NamesIn(new) = NamesIn(list) \ {list[1].name}
               /\ list[n].name # list[1].name
    <2>1. Distinct(new)
      <3> SUFFICES ASSUME NEW i \in 1..(n - 1), NEW j \in 1..(n - 1),
                          new[i].name = new[j].name
                   PROVE  i = j
        BY <1>2 DEF Distinct
      <3>1. i + 1 = j + 1
        BY <1>1, <1>2, <1>4, <1>6 DEF Distinct
      <3>2. i \in Nat /\ j \in Nat
        BY <1>1
      <3> QED
        BY <3>1, <3>2
    <2>2. \A i \in 1..n : list[i].name = list[1].name => i = 1
      BY <1>1, <1>3, <1>6 DEF Distinct
    <2>3. ASSUME NEW x \in NamesIn(new) PROVE x \in NamesIn(list) \ {list[1].name}
      <3>1. PICK i \in 1..(n - 1) : x = list[i + 1].name
        BY <1>2 DEF NamesIn
      <3> QED
        BY <1>1, <1>4, <2>2, <3>1 DEF NamesIn
    <2>4. ASSUME NEW x \in NamesIn(list), x # list[1].name PROVE x \in NamesIn(new)
      <3>1. PICK i \in 1..n : x = list[i].name
        BY <1>1 DEF NamesIn
      <3>2. i - 1 \in 1..(n - 1) /\ new[i - 1] = list[i]
        BY <1>2, <1>5, <2>4, <3>1
      <3> QED
        BY <1>2, <3>1, <3>2 DEF NamesIn
    <2> QED
      BY <1>1, <1>3, <2>1, <2>2, <2>3, <2>4
  <1>7. new # <<>>
    <2>1. Len(new) # 0
      BY <1>1, <1>2
    <2> QED
      BY <2>1
  <1> QED
    BY <1>1, <1>2, <1>3, <1>6, <1>7 DEF new, n

----------------------------------------------------------------------------
(* Types and control.                                                      *)

Ops == {"none", "save", "load", "list", "revert"}
Locals == [op : Ops, req : 0..MaxRequests, name : Names, data : Contents,
           inode : Inodes \cup {0, NoFile}, list : Lists]

\* What a request has in hand at each of its steps.
AtStep(w) ==
    /\ pc[w] # "idle" => loc[w].req \in 1..MaxRequests
    /\ pc[w] \in {"restore", "copy"} => loc[w].data # 0
    /\ pc[w] \in {"clear", "put", "drop", "rclear", "rput", "lclear", "lput"} =>
          Len(loc[w].list) <= MaxVersions

Types ==
    /\ live \in Contents \ {0} /\ files \in [Names -> Contents]
    /\ manifest \in {Missing, Torn} \cup Lists
    /\ manifest \in Lists => Len(manifest) <= MaxVersions
    /\ lockfile \in Inodes \cup {NoFile}
    /\ held \in [Inodes -> Workers \cup {NoOne}]
    /\ clock \in Times
    /\ pc \in [Workers -> Steps] /\ asked \in 0..MaxRequests
    /\ loc \in [Workers -> Locals]
    /\ faults \in Nat
    /\ saved \in BOOLEAN /\ raced \in BOOLEAN /\ reused \in BOOLEAN

TypeInv == Types /\ \A w \in Workers : AtStep(w)

\* The constants, and the values made of them, are of their types.
LEMMA ConstantTypes ==
    /\ MaxVersions \in Nat \ {0} /\ PerSecond \in Nat \ {0} /\ MaxTime \in Nat \ {0}
    /\ MaxRequests \in Nat /\ MaxFaults \in Nat
    /\ 0 \in Times /\ PerSecond \in Times
    /\ \A t \in Times : /\ Short(t) \in Names /\ Long(t) \in Names
                        /\ Short(t)[2] = 0 /\ Long(t)[2] # 0
    /\ Old \in Names /\ Idle \in Locals /\ <<>> \in Lists
    /\ Missing \notin Lists /\ Torn \notin Lists /\ Missing # Torn
    /\ NoOne \notin Workers /\ NoFile \notin Inodes
  <1>1. /\ MaxVersions \in Nat \ {0} /\ PerSecond \in Nat \ {0} /\ MaxTime \in Nat \ {0}
        /\ MaxRequests \in Nat /\ MaxFaults \in Nat
    BY VersionsAssumption
  <1>2. 0 \in Times /\ PerSecond \in Times
    BY <1>1 DEF Times
  <1>3. ASSUME NEW t \in Times
        PROVE  /\ Short(t) \in Names /\ Long(t) \in Names
               /\ Short(t)[2] = 0 /\ Long(t)[2] # 0
    <2>1. Short(t) \in Names /\ Long(t) \in Names
      BY DEF Names
    <2>2. t \in Nat /\ t % PerSecond \in 0..(PerSecond - 1)
      BY <1>1 DEF Times
    <2> QED
      BY <2>1, <2>2 DEF Short, Long
  <1>4. Old \in Names
    BY <1>2, <1>3 DEF Old
  <1>5. <<>> \in Lists
    BY DEF Lists
  <1>6. Idle \in Locals
    BY <1>1, <1>4, <1>5 DEF Idle, Locals, Ops, Contents
  <1> QED
    BY <1>1, <1>2, <1>3, <1>4, <1>5, <1>6, VersionsAssumption DEF Lists, Inodes

\* The tables of where a request goes.
LEMMA Tables ==
    /\ First["save"] = "write" /\ First["load"] = "load" /\ First["list"] = "list"
    /\ First["revert"] = "read"
    /\ DOMAIN Write = {"clear", "rclear", "lclear"}
    /\ Write["clear"] = "put" /\ Write["rclear"] = "rput" /\ Write["lclear"] = "lput"
    /\ DOMAIN After = {"put", "rput", "lput"}
    /\ After["put"] = "unlock" /\ After["rput"] = "open" /\ After["lput"] = "done"
    /\ \A x \in DOMAIN Failed : x # "idle" /\ Failed[x] \in {"unlock", "open", "done"}
  BY DEF First, Write, After, Failed

\* What the manifest holds, and the name of the next snapshot.
LEMMA ReadTypes ==
    ASSUME Types
    PROVE  /\ Versions \in Lists /\ Len(Versions) <= MaxVersions
           /\ NamesIn(Versions) \subseteq Names
           /\ NameAt(clock) \in Names
           /\ manifest \in Lists => Versions = manifest
           /\ manifest \notin Lists => Versions = <<>>
  <1>1. /\ Versions \in Lists /\ Len(Versions) <= MaxVersions
        /\ manifest \in Lists => Versions = manifest
        /\ manifest \notin Lists => Versions = <<>>
    BY ConstantTypes DEF Types, Versions, Lists
  <1>2. NamesIn(Versions) \subseteq Names
    <2>1. \A i \in DOMAIN Versions : Versions[i] \in Entry
      BY <1>1 DEF Lists
    <2> QED
      BY <2>1 DEF NamesIn, Entry
  <1>3. NameAt(clock) \in Names
    BY ConstantTypes DEF NameAt, Types
  <1> QED
    BY <1>1, <1>2, <1>3

\* The others stay where they are.
OthersRest(w) == \A v \in Workers \ {w} : pc'[v] = pc[v] /\ loc'[v] = loc[v]

\* The record of a request, with one field replaced.
LEMMA OneField ==
    ASSUME NEW l \in Locals
    PROVE  /\ \A x \in Names : [l EXCEPT !.name = x] \in Locals
           /\ \A x \in Contents : [l EXCEPT !.data = x] \in Locals
           /\ \A x \in Inodes \cup {0, NoFile} : [l EXCEPT !.inode = x] \in Locals
           /\ \A x \in Lists : [l EXCEPT !.list = x] \in Locals
  BY DEF Locals

\* A step moves one request.
LEMMA PcMoves ==
    ASSUME TypeInv, NEW w \in Workers, Step(w)
    PROVE  /\ pc' = [pc EXCEPT ![w] = pc'[w]] /\ pc'[w] \in Steps
  <1>1. pc \in [Workers -> Steps]
    BY DEF TypeInv, Types
  <1>2. ASSUME NEW from, NEW to \in Steps, Goto(w, from, to)
        PROVE  pc' = [pc EXCEPT ![w] = pc'[w]] /\ pc'[w] \in Steps
    BY <1>1, <1>2 DEF Goto
  <1>3. CASE Begin(w)
    <2>1. PICK op \in {"save", "load", "list", "revert"} : Goto(w, "idle", First[op])
      BY <1>3 DEF Begin
    <2>2. First[op] \in Steps
      BY Tables DEF Steps
    <2> QED
      BY <1>2, <2>1, <2>2
  <1>4. CASE WriteCsv(w) \/ Load(w) \/ Expire(w) \/ ReadVersion(w) \/ Restore(w)
    <2>1. \E from, to \in Steps : Goto(w, from, to)
      BY <1>4 DEF WriteCsv, Load, Expire, ReadVersion, Restore, Steps
    <2> QED
      BY <1>2, <2>1
  <1>5. CASE ReadToDrop(w) \/ DropFile(w) \/ ListVersions(w) \/ OpenLock(w) \/ Flock(w)
    <2>1. \E from, to \in Steps : Goto(w, from, to)
      BY <1>5 DEF ReadToDrop, DropFile, ListVersions, OpenLock, Flock, Steps
    <2> QED
      BY <1>2, <2>1
  <1>6. CASE Unlock(w) \/ Unlink(w) \/ Copy(w) \/ AddEntry(w) \/ Trim(w) \/ Trimmed(w)
    <2>1. \E from, to \in Steps : Goto(w, from, to)
      BY <1>6 DEF Unlock, Unlink, Copy, AddEntry, Trim, Trimmed, Steps
    <2> QED
      BY <1>2, <2>1
  <1>7. CASE ClearManifest(w)
    <2>1. Goto(w, pc[w], Write[pc[w]]) /\ Write[pc[w]] \in Steps
      BY <1>7, Tables DEF ClearManifest, Steps
    <2> QED
      BY <1>2, <2>1
  <1>8. CASE PutManifest(w)
    <2>1. Goto(w, pc[w], After[pc[w]]) /\ After[pc[w]] \in Steps
      BY <1>8, Tables DEF PutManifest, Steps
    <2> QED
      BY <1>2, <2>1
  <1>9. CASE Done(w) \/ WriteFails(w)
    <2>1. \E from, to \in Steps : Goto(w, from, to)
      BY <1>1, <1>9, Tables DEF Done, WriteFails, Steps
    <2> QED
      BY <1>2, <2>1
  <1>10. CASE Crash(w)
    BY <1>1, <1>10 DEF Crash, Steps
  <1> QED
    BY <1>3, <1>4, <1>5, <1>6, <1>7, <1>8, <1>9, <1>10 DEF Step

\* A step is a step of one request.
LEMMA OneMoves ==
    ASSUME TypeInv, NEW w \in Workers, Step(w)
    PROVE  /\ pc' \in [Workers -> Steps] /\ loc' \in [Workers -> Locals]
           /\ OthersRest(w)
  <1>1. /\ pc \in [Workers -> Steps] /\ loc \in [Workers -> Locals] /\ loc[w] \in Locals
        /\ loc[w].name \in Names /\ loc[w].op \in Ops /\ loc[w].req \in 0..MaxRequests
        /\ loc[w].data \in Contents /\ loc[w].list \in Lists
    BY DEF TypeInv, Types, Locals
  <1>0. pc' = [pc EXCEPT ![w] = pc'[w]] /\ pc'[w] \in Steps
    BY PcMoves
  <1> SUFFICES loc' \in [Workers -> Locals] /\ OthersRest(w)
    BY <1>0, <1>1
  <1>2. ASSUME NEW rec \in Locals, loc' = [loc EXCEPT ![w] = rec]
        PROVE  loc' \in [Workers -> Locals] /\ OthersRest(w)
    BY <1>0, <1>1, <1>2 DEF OthersRest
  <1>3. ASSUME loc' = loc
        PROVE  loc' \in [Workers -> Locals] /\ OthersRest(w)
    BY <1>0, <1>1, <1>3 DEF OthersRest
  <1>4. CASE Begin(w)
    <2>1. PICK op \in {"save", "load", "list", "revert"}, n \in {Old} \cup NamesIn(Versions) :
             /\ Goto(w, "idle", First[op])
             /\ loc' = [loc EXCEPT ![w] = [Idle EXCEPT !.op = op, !.req = asked', !.name = n]]
      BY <1>4 DEF Begin
    <2>2. n \in Names
      BY ConstantTypes, ReadTypes DEF TypeInv
    <2>3. asked' \in 0..MaxRequests
      BY <1>4, ConstantTypes DEF Begin, TypeInv, Types
    <2>4. [Idle EXCEPT !.op = op, !.req = asked', !.name = n] \in Locals
      BY <2>2, <2>3, ConstantTypes DEF Locals, Ops
    <2> QED
      BY <1>2, <2>1, <2>4
  <1>5. CASE WriteCsv(w) \/ Load(w) \/ Expire(w) \/ Restore(w) \/ DropFile(w) \/ Unlock(w)
             \/ Trimmed(w)
    BY <1>3, <1>5 DEF WriteCsv, Load, Expire, Restore, DropFile, Unlock, Trimmed
  <1>6. CASE ReadVersion(w)
    <2>1. files[loc[w].name] \in Contents
      BY <1>1 DEF TypeInv, Types
    <2> QED
      BY <1>1, <1>2, <1>6, <2>1, OneField DEF ReadVersion
  <1>7. CASE ReadToDrop(w)
    <2>1. Without(Versions, loc[w].name) \in Lists
      BY ReadTypes, WithoutIs DEF TypeInv
    <2> QED
      BY <1>1, <1>2, <1>7, <2>1, OneField DEF ReadToDrop
  <1>8. CASE ListVersions(w)
    <2> DEFINE new == [i \in DOMAIN Versions |-> [Versions[i] EXCEPT !.cols = TRUE]]
    <2>1. new \in Lists
      BY ReadTypes, FilledIs DEF TypeInv
    <2>2. loc' = [loc EXCEPT ![w].list = new]
      BY <1>8 DEF ListVersions
    <2> HIDE DEF new
    <2>3. [loc[w] EXCEPT !.list = new] \in Locals
      BY <1>1, <2>1, OneField
    <2> QED
      BY <1>1, <1>2, <2>2, <2>3
  <1>9. CASE OpenLock(w)
    <2>1. lockfile' \in Inodes \cup {0, NoFile}
      BY <1>1, <1>9, ConstantTypes DEF OpenLock, TypeInv, Types, Inodes
    <2> QED
      BY <1>1, <1>2, <1>9, <2>1, OneField DEF OpenLock
  <1>10. CASE Flock(w)
    <2>1. live \in Contents
      BY DEF TypeInv, Types
    <2> QED
      BY <1>1, <1>2, <1>10, <2>1, OneField DEF Flock
  <1>11. CASE Unlink(w)
    BY <1>3, <1>11 DEF Unlink
  <1>12. CASE Copy(w)
    BY <1>1, <1>2, <1>12, ReadTypes, OneField DEF Copy, TypeInv
  <1>13. CASE AddEntry(w)
    <2>1. [name |-> loc[w].name, cols |-> TRUE] \in Entry
      BY <1>1 DEF Entry
    <2>2. Append(Versions, [name |-> loc[w].name, cols |-> TRUE]) \in Lists
      BY <2>1, ReadTypes, AppendIs DEF TypeInv
    <2> QED
      BY <1>1, <1>2, <1>13, <2>2, OneField DEF AddEntry
  <1>14. CASE Trim(w)
    <2>1. Tail(loc[w].list) \in Lists
      BY <1>1, <1>14, TailIs, ConstantTypes DEF Trim, Lists
    <2> QED
      BY <1>1, <1>2, <1>14, <2>1, OneField DEF Trim
  <1>15. CASE ClearManifest(w)
    BY <1>3, <1>15 DEF ClearManifest
  <1>16. CASE PutManifest(w)
    BY <1>3, <1>16 DEF PutManifest
  <1>17. CASE Done(w)
    BY <1>2, <1>17, ConstantTypes DEF Done
  <1>18. CASE WriteFails(w)
    BY <1>3, <1>18 DEF WriteFails
  <1>19. CASE Crash(w)
    BY <1>2, <1>19, ConstantTypes DEF Crash, Steps
  <1> QED
    BY <1>4, <1>5, <1>6, <1>7, <1>8, <1>9, <1>10, <1>11, <1>12, <1>13, <1>14, <1>15,
       <1>16, <1>17, <1>18, <1>19 DEF Step

\* A step leaves the types and what the request has in hand.
LEMMA StepTypes ==
    ASSUME TypeInv, NEW w \in Workers, Step(w)
    PROVE  TypeInv'
  <1>0. /\ pc' \in [Workers -> Steps] /\ loc' \in [Workers -> Locals] /\ OthersRest(w)
        /\ pc' = [pc EXCEPT ![w] = pc'[w]] /\ pc'[w] \in Steps
    BY OneMoves, PcMoves
  <1>1. /\ Types /\ AtStep(w)
        /\ pc \in [Workers -> Steps] /\ loc \in [Workers -> Locals] /\ loc[w] \in Locals
        /\ loc[w].name \in Names /\ loc[w].op \in Ops /\ loc[w].req \in 0..MaxRequests
        /\ loc[w].data \in Contents /\ loc[w].list \in Lists
        /\ loc[w].inode \in Inodes \cup {0, NoFile}
    BY DEF TypeInv, Types, Locals
  <1> DEFINE OnDisk == /\ live \in Contents \ {0} /\ files \in [Names -> Contents]
                       /\ manifest \in {Missing, Torn} \cup Lists
                       /\ manifest \in Lists => Len(manifest) <= MaxVersions
             Rest == /\ lockfile \in Inodes \cup {NoFile}
                     /\ held \in [Inodes -> Workers \cup {NoOne}]
                     /\ clock \in Times /\ asked \in 0..MaxRequests /\ faults \in Nat
                     /\ saved \in BOOLEAN /\ raced \in BOOLEAN /\ reused \in BOOLEAN
  <1>2. OnDisk /\ Rest
    BY <1>1 DEF Types
  <1>3. ASSUME OnDisk', Rest', AtStep(w)' PROVE TypeInv'
    <2>1. ASSUME NEW v \in Workers \ {w} PROVE AtStep(v)'
      <3>1. AtStep(v) /\ pc'[v] = pc[v] /\ loc'[v] = loc[v]
        BY <1>0 DEF TypeInv, OthersRest
      <3> QED
        BY <3>1 DEF AtStep
    <2>2. \A v \in Workers : AtStep(v)'
      BY <1>3, <2>1
    <2>3. Types'
      BY <1>0, <1>3 DEF Types
    <2> QED
      BY <2>2, <2>3 DEF TypeInv
  <1> SUFFICES OnDisk' /\ Rest' /\ AtStep(w)'
    BY <1>3
  <1>4. CASE Begin(w)
    <2>1. PICK op \in {"save", "load", "list", "revert"}, n \in {Old} \cup NamesIn(Versions) :
             /\ Goto(w, "idle", First[op])
             /\ loc' = [loc EXCEPT ![w] = [Idle EXCEPT !.op = op, !.req = asked', !.name = n]]
      BY <1>4 DEF Begin
    <2>2. asked' \in 1..MaxRequests
      BY <1>2, <1>4, ConstantTypes DEF Begin
    <2>3. loc'[w] = [Idle EXCEPT !.op = op, !.req = asked', !.name = n]
      BY <1>1, <2>1
    <2>4. loc'[w].req = asked'
      BY <2>3 DEF Idle
    <2>5. pc'[w] \in {"write", "load", "list", "read"}
      BY <1>1, <2>1, Tables DEF Goto
    <2> QED
      BY <1>2, <1>4, <2>2, <2>4, <2>5, ConstantTypes
         DEF Begin, disk, locks, history, AtStep
  <1>5. CASE WriteCsv(w) \/ Expire(w)
    <2>1. loc[w].req \in 1..MaxRequests /\ loc[w].req + 1 \in Contents \ {0}
      BY <1>1, <1>5, ConstantTypes DEF WriteCsv, Expire, Goto, AtStep, Contents
    <2>2. pc'[w] \in {"open", "done"} /\ loc'[w] = loc[w]
      BY <1>1, <1>5 DEF WriteCsv, Expire, Goto
    <2> QED
      BY <1>2, <1>5, <2>1, <2>2 DEF WriteCsv, Expire, locks, AtStep
  <1>6. CASE Load(w) \/ Unlink(w)
    <2>1. pc[w] # "idle" /\ pc'[w] \in {"open", "expire", "done"} /\ loc'[w] = loc[w]
      BY <1>1, <1>6 DEF Load, Unlink, Goto
    <2> QED
      BY <1>1, <1>2, <1>6, <2>1 DEF Load, Unlink, disk, locks, history, AtStep
  <1>7. CASE ReadVersion(w)
    <2>1. pc[w] # "idle" /\ loc' = [loc EXCEPT ![w].data = files[loc[w].name]]
      BY <1>1, <1>7 DEF ReadVersion, Goto
    <2>2. loc'[w].data = files[loc[w].name] /\ loc'[w].req = loc[w].req
      BY <1>1, <2>1 DEF Locals
    <2>3. pc'[w] = IF files[loc[w].name] = 0 THEN "done" ELSE "restore"
      BY <1>1, <1>7 DEF ReadVersion, Goto
    <2> QED
      BY <1>1, <1>2, <1>7, <2>1, <2>2, <2>3 DEF ReadVersion, disk, locks, history, AtStep
  <1>8. CASE Restore(w)
    <2>1. pc[w] = "restore" /\ pc'[w] = "dropread" /\ loc'[w] = loc[w]
      BY <1>1, <1>8 DEF Restore, Goto
    <2> QED
      BY <1>1, <1>2, <1>8, <2>1 DEF Restore, locks, AtStep
  <1>9. CASE ReadToDrop(w)
    <2>1. pc[w] # "idle" /\ pc'[w] \in {"drop", "rclear"}
      BY <1>1, <1>9 DEF ReadToDrop, Goto
    <2>2. loc' = [loc EXCEPT ![w].list = Without(Versions, loc[w].name)]
      BY <1>9 DEF ReadToDrop
    <2>3. loc'[w].list = Without(Versions, loc[w].name) /\ loc'[w].req = loc[w].req
      BY <1>1, <2>2 DEF Locals
    <2>4. Len(Without(Versions, loc[w].name)) <= MaxVersions
      <3>1. /\ Versions \in Lists /\ Len(Versions) <= MaxVersions
            /\ Without(Versions, loc[w].name) \in Lists
            /\ Len(Without(Versions, loc[w].name)) <= Len(Versions)
        BY <1>1, ReadTypes, WithoutIs
      <3> QED
        BY <3>1, ConstantTypes DEF Lists
    <2>5. raced' \in BOOLEAN
      BY <1>9 DEF ReadToDrop, Enters
    <2> QED
      BY <1>1, <1>2, <1>9, <2>1, <2>3, <2>4, <2>5 DEF ReadToDrop, disk, locks, AtStep
  <1>10. CASE DropFile(w)
    <2>1. pc[w] = "drop" /\ pc'[w] = "rclear" /\ loc'[w] = loc[w]
      BY <1>1, <1>10 DEF DropFile, Goto
    <2>2. [files EXCEPT ![loc[w].name] = 0] \in [Names -> Contents]
      BY <1>1, <1>2, ConstantTypes DEF Contents
    <2> QED
      BY <1>1, <1>2, <1>10, <2>1, <2>2 DEF DropFile, locks, history, AtStep
  <1>11. CASE ListVersions(w)
    <2> DEFINE new == [i \in DOMAIN Versions |-> [Versions[i] EXCEPT !.cols = TRUE]]
    <2>1. new \in Lists /\ Len(new) <= MaxVersions
      BY <1>1, ReadTypes, FilledIs
    <2>2. loc' = [loc EXCEPT ![w].list = new]
      BY <1>11 DEF ListVersions
    <2> HIDE DEF new
    <2>3. loc'[w].list = new /\ loc'[w].req = loc[w].req
      BY <1>1, <2>2 DEF Locals
    <2>4. pc[w] # "idle" /\ pc'[w] \in {"lclear", "done"}
      BY <1>1, <1>11 DEF ListVersions, Goto
    <2>5. raced' \in BOOLEAN
      BY <1>2, <1>11 DEF ListVersions, Enters
    <2> QED
      BY <1>1, <1>2, <1>11, <2>1, <2>3, <2>4, <2>5 DEF ListVersions, disk, locks, AtStep
  <1>12. CASE OpenLock(w)
    <2>1. pc[w] # "idle" /\ pc'[w] = "flock"
      BY <1>1, <1>12 DEF OpenLock, Goto
    <2>2. loc' = [loc EXCEPT ![w].inode = lockfile'] /\ loc'[w].req = loc[w].req
      BY <1>1, <1>12 DEF OpenLock, Locals
    <2>3. lockfile' \in Inodes \cup {NoFile}
      BY <1>1, <1>2, <1>12, <2>1 DEF OpenLock, AtStep, Inodes
    <2> QED
      BY <1>1, <1>2, <1>12, <2>1, <2>2, <2>3 DEF OpenLock, disk, history, AtStep
  <1>13. CASE Flock(w)
    <2>1. pc[w] # "idle" /\ pc'[w] = "copy"
      BY <1>1, <1>13 DEF Flock, Goto
    <2>2. loc' = [loc EXCEPT ![w].data = live]
      BY <1>13 DEF Flock
    <2>3. loc'[w].data = live /\ loc'[w].req = loc[w].req
      BY <1>1, <2>2 DEF Locals
    <2>4. [held EXCEPT ![loc[w].inode] = w] \in [Inodes -> Workers \cup {NoOne}]
      BY <1>2
    <2>5. raced' \in BOOLEAN
      BY <1>13 DEF Flock, Enters
    <2> QED
      BY <1>1, <1>2, <1>13, <2>1, <2>3, <2>4, <2>5 DEF Flock, disk, AtStep
  <1>14. CASE Unlock(w)
    <2>1. pc[w] # "idle" /\ pc'[w] = "unlink" /\ loc'[w] = loc[w]
      BY <1>1, <1>14 DEF Unlock, Goto
    <2>2. [held EXCEPT ![loc[w].inode] = NoOne] \in [Inodes -> Workers \cup {NoOne}]
      BY <1>2
    <2> QED
      BY <1>1, <1>2, <1>14, <2>1, <2>2 DEF Unlock, disk, history, AtStep
  <1>15. CASE Copy(w)
    <2>1. pc[w] # "idle" /\ pc'[w] = "entry"
      BY <1>1, <1>15 DEF Copy, Goto
    <2>2. loc' = [loc EXCEPT ![w].name = NameAt(clock)] /\ loc'[w].req = loc[w].req
      BY <1>1, <1>15 DEF Copy, Locals
    <2>3. [files EXCEPT ![NameAt(clock)] = loc[w].data] \in [Names -> Contents]
      BY <1>1, <1>2
    <2>4. raced' \in BOOLEAN /\ reused' \in BOOLEAN
      BY <1>15 DEF Copy
    <2> QED
      BY <1>1, <1>2, <1>15, <2>1, <2>2, <2>3, <2>4 DEF Copy, locks, AtStep
  <1>16. CASE AddEntry(w)
    <2>1. pc[w] # "idle" /\ pc'[w] = "trim"
      BY <1>1, <1>16 DEF AddEntry, Goto
    <2>2. loc'[w].req = loc[w].req
      BY <1>1, <1>16 DEF AddEntry, Locals
    <2> QED
      BY <1>1, <1>2, <1>16, <2>1, <2>2 DEF AddEntry, disk, locks, history, AtStep
  <1>17. CASE Trim(w)
    <2>1. pc[w] # "idle" /\ pc'[w] = "trim" /\ loc'[w].req = loc[w].req
      BY <1>1, <1>17 DEF Trim, Goto, Locals
    <2>2. [files EXCEPT ![loc[w].list[1].name] = 0] \in [Names -> Contents]
      <3>1. files \in [Names -> Contents] /\ 0 \in Contents
        BY <1>2, ConstantTypes DEF Contents
      <3> QED
        BY <3>1
    <2> QED
      BY <1>1, <1>2, <1>17, <2>1, <2>2 DEF Trim, locks, history, AtStep
  <1>18. CASE Trimmed(w)
    <2>1. pc[w] # "idle" /\ pc'[w] = "clear" /\ loc'[w] = loc[w]
      BY <1>1, <1>18 DEF Trimmed, Goto
    <2> QED
      BY <1>1, <1>2, <1>18, <2>1 DEF Trimmed, disk, locks, history, AtStep
  <1>19. CASE ClearManifest(w)
    <2>1. /\ pc[w] \in {"clear", "rclear", "lclear"} /\ pc'[w] \in {"put", "rput", "lput"}
          /\ loc'[w] = loc[w]
      BY <1>1, <1>19, Tables DEF ClearManifest, Goto
    <2> QED
      BY <1>1, <1>2, <1>19, <2>1, ConstantTypes DEF ClearManifest, locks, history, AtStep
  <1>20. CASE PutManifest(w)
    <2>1. /\ pc[w] \in {"put", "rput", "lput"} /\ pc'[w] \in {"unlock", "open", "done"}
          /\ loc'[w] = loc[w]
      BY <1>1, <1>20, Tables DEF PutManifest, Goto
    <2>2. Len(loc[w].list) <= MaxVersions
      BY <1>1, <2>1 DEF AtStep
    <2> QED
      BY <1>1, <1>2, <1>20, <2>1, <2>2 DEF PutManifest, locks, history, AtStep
  <1>21. CASE Done(w)
    <2>1. pc'[w] = "idle"
      BY <1>1, <1>21 DEF Done, Goto
    <2> QED
      BY <1>2, <1>21, <2>1 DEF Done, disk, locks, history, AtStep
  <1>22. CASE WriteFails(w)
    <2>1. /\ pc[w] # "idle" /\ pc'[w] \in {"unlock", "open", "done"}
          /\ loc'[w] = loc[w]
      BY <1>1, <1>22, Tables DEF WriteFails, Goto
    <2>2. faults' \in Nat /\ saved' \in BOOLEAN
      <3>1. faults \in Nat
        BY <1>2
      <3>2. faults' = faults + 1 /\ saved' = FALSE
        BY <1>22 DEF WriteFails, Fault
      <3>3. faults' \in Nat
        BY <3>1, <3>2
      <3>4. saved' \in BOOLEAN
        BY <3>2
      <3> QED
        BY <3>3, <3>4
    <2>3. AtStep(w)'
      BY <1>1, <2>1 DEF AtStep
    <2> QED
      BY <1>2, <1>22, <2>2, <2>3 DEF WriteFails, disk, locks
  <1>23. CASE Crash(w)
    <2>1. pc'[w] = "idle"
      BY <1>1, <1>23 DEF Crash
    <2>2. held' \in [Inodes -> Workers \cup {NoOne}]
      BY <1>2, <1>23 DEF Crash
    <2>3. faults' \in Nat /\ saved' \in BOOLEAN
      <3>1. faults \in Nat
        BY <1>2
      <3>2. faults' = faults + 1 /\ saved' = FALSE
        BY <1>23 DEF Crash, Fault
      <3>3. faults' \in Nat
        BY <3>1, <3>2
      <3>4. saved' \in BOOLEAN
        BY <3>2
      <3> QED
        BY <3>3, <3>4
    <2>4. AtStep(w)'
      BY <2>1 DEF AtStep
    <2> QED
      BY <1>2, <1>23, <2>2, <2>3, <2>4 DEF Crash, disk
  <1> QED
    BY <1>4, <1>5, <1>6, <1>7, <1>8, <1>9, <1>10, <1>11, <1>12, <1>13, <1>14, <1>15,
       <1>16, <1>17, <1>18, <1>19, <1>20, <1>21, <1>22, <1>23 DEF Step

\* The clock does not matter to them.
LEMMA TickTypes ==
    ASSUME TypeInv, Tick
    PROVE  TypeInv'
  <1>1. Types'
    BY DEF TypeInv, Types, Tick, disk, locks, history
  <1>2. \A w \in Workers : AtStep(w)'
    BY DEF TypeInv, AtStep, Tick
  <1> QED
    BY <1>1, <1>2 DEF TypeInv

\* The initial state.
LEMMA InitTypes == Init => TypeInv
  <1> SUFFICES ASSUME Init PROVE TypeInv
    OBVIOUS
  <1> DEFINE first == <<[name |-> Old, cols |-> FALSE]>>
  <1>1. first \in Lists /\ Len(first) = 1
    <2>1. [name |-> Old, cols |-> FALSE] \in Entry
      BY ConstantTypes DEF Entry
    <2> HIDE DEF first
    <2> QED
      BY <2>1 DEF Lists, first
  <1> HIDE DEF first
  <1>2. manifest \in {Missing, first}
    BY DEF Init, first
  <1>3. files \in [Names -> Contents] /\ live \in Contents \ {0}
    BY ConstantTypes DEF Init, Contents
  <1>4. /\ manifest \in {Missing, Torn} \cup Lists
        /\ manifest \in Lists => Len(manifest) <= MaxVersions
    <2>1. CASE manifest = Missing
      BY <2>1, ConstantTypes
    <2>2. CASE manifest = first
      <3>1. MaxVersions \in Nat \ {0}
        BY ConstantTypes
      <3> QED
        BY <1>1, <2>2, <3>1
    <2> QED
      BY <1>2, <2>1, <2>2
  <1>5. Types
    <2>1. /\ lockfile \in Inodes \cup {NoFile} /\ held \in [Inodes -> Workers \cup {NoOne}]
          /\ clock \in Times /\ asked \in 0..MaxRequests /\ faults \in Nat
          /\ saved \in BOOLEAN /\ raced \in BOOLEAN /\ reused \in BOOLEAN
      <3>1. 0 \in 0..MaxRequests /\ PerSecond \in Times
        BY ConstantTypes
      <3>2. /\ lockfile = NoFile /\ held = [i \in Inodes |-> NoOne]
            /\ clock = PerSecond /\ asked = 0 /\ faults = 0
            /\ saved = FALSE /\ raced = FALSE /\ reused = FALSE
        BY DEF Init
      <3> QED
        BY <3>1, <3>2
    <2>2. pc \in [Workers -> Steps] /\ loc \in [Workers -> Locals]
      BY ConstantTypes DEF Init, Steps
    <2> QED
      BY <1>3, <1>4, <2>1, <2>2 DEF Types
  <1>6. \A w \in Workers : AtStep(w)
    BY DEF Init, AtStep
  <1> QED
    BY <1>5, <1>6 DEF TypeInv

\* Stuttering.
LEMMA StutterTypes ==
    ASSUME TypeInv, UNCHANGED vars
    PROVE  TypeInv'
  <1>1. Types'
    BY DEF TypeInv, Types, vars, disk, locks, history
  <1>2. \A w \in Workers : AtStep(w)'
    BY DEF TypeInv, AtStep, vars
  <1> QED
    BY <1>1, <1>2 DEF TypeInv

\* The types hold always.
LEMMA TypeInvHolds == Spec => []TypeInv
  <1>1. TypeInv /\ [Next]_vars => TypeInv'
    BY StepTypes, TickTypes, StutterTypes DEF Next
  <1> QED
    BY <1>1, InitTypes, PTL DEF Spec

\* The manifest is a list of at most MAX_VERSIONS entries, or missing, or being written
\* (snapshot_version, write_version_manifest).
THEOREM TypeCorrect == Spec => []TypeOK
  <1>1. TypeInv => TypeOK
    <2> SUFFICES ASSUME TypeInv PROVE TypeOK
      OBVIOUS
    <2>1. Types /\ (manifest \notin {Missing, Torn} => manifest \in Lists)
      BY DEF TypeInv, Types
    <2>2. ASSUME manifest \in Lists PROVE \A i \in DOMAIN manifest : manifest[i] \in Entry
      BY <2>2 DEF Lists
    <2> QED
      BY <2>1, <2>2 DEF TypeOK, Types
  <1> QED
    BY <1>1, TypeInvHolds, PTL

----------------------------------------------------------------------------
(* Requests that do not meet.                                              *)

Listing == {"trim", "clear", "put", "drop", "rclear", "rput", "lclear", "lput"}
Unsettled == {"entry", "trim", "clear", "put", "drop", "rclear", "rput", "lput"}
Pending == {"dropread", "drop", "rclear", "rput", "open", "flock"}
Taking == {"copy", "entry", "trim", "clear", "put", "lclear", "lput"}

\* One request at a time changes the manifest.
OneChanger == \A v, w \in Workers : Changing(v) /\ Changing(w) => v = w

\* The steps of one that does.
Works(w) ==
    \/ Copy(w) \/ AddEntry(w) \/ Trim(w) \/ Trimmed(w)
    \/ DropFile(w) \/ ClearManifest(w) \/ PutManifest(w)

\* They touch neither the CSV nor the history, and are taken while it is changed.
LEMMA WorkSteps ==
    ASSUME TypeInv, NEW w \in Workers, Works(w)
    PROVE  /\ Changing(w)
           /\ live' = live /\ saved' = saved /\ faults' = faults
           /\ raced => raced'
           /\ reused' = reused \/ Copy(w)
           /\ reused => reused'
  <1>1. raced \in BOOLEAN /\ reused \in BOOLEAN
    BY DEF TypeInv, Types
  <1>2. CASE Copy(w)
    BY <1>1, <1>2 DEF Copy, Goto, Changing
  <1>3. CASE AddEntry(w) \/ Trim(w) \/ Trimmed(w) \/ DropFile(w)
    BY <1>3 DEF AddEntry, Trim, Trimmed, DropFile, Goto, Changing, history, disk
  <1>4. CASE ClearManifest(w) \/ PutManifest(w)
    BY <1>4, Tables DEF ClearManifest, PutManifest, Changing, history
  <1> QED
    BY <1>2, <1>3, <1>4 DEF Works

\* Any other step leaves the manifest and the snapshots alone, and only three of them
\* begin a change.
LEMMA OtherSteps ==
    ASSUME TypeInv, NEW w \in Workers, Step(w), ~Works(w)
    PROVE  /\ files' = files /\ manifest' = manifest /\ Versions' = Versions
           /\ reused' = reused /\ (raced => raced')
           /\ pc'[w] \notin {"entry", "trim", "clear", "put", "rput", "lput"}
           /\ pc'[w] \in {"drop", "rclear"} => ReadToDrop(w)
           /\ pc'[w] = "lclear" => ListVersions(w)
           /\ pc'[w] = "copy" => Flock(w)
           /\ faults' = 0 => faults = 0 /\ ~Changing(w)
           /\ saved' => /\ ~Changing(w)
                        /\ (live' = live /\ saved) \/ pc'[w] \in Pending
                        /\ pc[w] \in Pending => pc'[w] \in Pending \/ Flock(w)
  <1>1. pc \in [Workers -> Steps] /\ faults \in Nat /\ raced \in BOOLEAN
    BY DEF TypeInv, Types
  <1> DEFINE Goal ==
                /\ files' = files /\ manifest' = manifest
                /\ reused' = reused /\ (raced => raced')
                /\ pc'[w] \notin {"entry", "trim", "clear", "put", "rput", "lput"}
                /\ pc'[w] \in {"drop", "rclear"} => ReadToDrop(w)
                /\ pc'[w] = "lclear" => ListVersions(w)
                /\ pc'[w] = "copy" => Flock(w)
                /\ faults' = 0 => faults = 0 /\ ~Changing(w)
                /\ saved' => /\ ~Changing(w)
                             /\ (live' = live /\ saved) \/ pc'[w] \in Pending
                             /\ pc[w] \in Pending => pc'[w] \in Pending \/ Flock(w)
  <1> SUFFICES Goal
    BY DEF Versions
  <1>2. CASE Begin(w)
    <2>1. PICK op \in {"save", "load", "list", "revert"} : Goto(w, "idle", First[op])
      BY <1>2 DEF Begin
    <2>2. pc[w] = "idle" /\ pc'[w] \in {"write", "load", "list", "read"}
      BY <1>1, <2>1, Tables DEF Goto
    <2> QED
      BY <1>2, <2>2 DEF Begin, disk, history, Changing, Pending
  <1>3. CASE WriteCsv(w) \/ Load(w) \/ Expire(w)
    BY <1>1, <1>3 DEF WriteCsv, Load, Expire, Goto, disk, history, Changing, Pending
  <1>4. CASE ReadVersion(w) \/ Restore(w)
    BY <1>1, <1>4 DEF ReadVersion, Restore, Goto, disk, history, Changing, Pending
  <1>5. CASE ReadToDrop(w) \/ ListVersions(w)
    BY <1>1, <1>5 DEF ReadToDrop, ListVersions, Enters, Goto, disk, Changing, Pending
  <1>6. CASE OpenLock(w) \/ Flock(w)
    BY <1>1, <1>6 DEF OpenLock, Flock, Enters, Goto, disk, history, Changing, Pending
  <1>7. CASE Unlock(w) \/ Unlink(w) \/ Done(w)
    BY <1>1, <1>7 DEF Unlock, Unlink, Done, Goto, disk, history, Changing, Pending
  <1>8. CASE WriteFails(w)
    <2>1. faults' # 0
      BY <1>1, <1>8 DEF WriteFails, Fault
    <2> QED
      BY <1>1, <1>8, <2>1, Tables DEF WriteFails, Fault, Goto, disk
  <1>9. CASE Crash(w)
    <2>1. faults' # 0
      BY <1>1, <1>9 DEF Crash, Fault
    <2> QED
      BY <1>1, <1>9, <2>1 DEF Crash, Fault, disk
  <1> QED
    BY <1>2, <1>3, <1>4, <1>5, <1>6, <1>7, <1>8, <1>9 DEF Step, Works

\* Where none have met yet, one request at a time changes the manifest, and while it does
\* no other begins to.
OneInv == ~raced => OneChanger

\* Who begins to change the manifest while another does has met it.
LEMMA NoneMeets ==
    ASSUME TypeInv, OneInv, NEW w \in Workers, Step(w), ~raced'
    PROVE  /\ ~raced
           /\ Changing(w) \/ Changing(w)' => \A v \in Workers \ {w} : ~Changing(v)
  <1>1. ~raced
    BY WorkSteps, OtherSteps
  <1>2. CASE Changing(w)
    BY <1>1, <1>2 DEF OneInv, OneChanger
  <1>3. CASE Changing(w)' /\ ~Changing(w)
    <2>1. ~Works(w)
      BY <1>3, WorkSteps
    <2>2. pc'[w] \in {"copy", "drop", "rclear", "lclear"}
      BY <1>3, <2>1, OtherSteps DEF Changing
    <2>3. ReadToDrop(w) \/ (ListVersions(w) /\ pc'[w] = "lclear") \/ Flock(w)
      BY <2>1, <2>2, OtherSteps
    <2>4. ASSUME ListVersions(w), pc'[w] = "lclear" PROVE Enters(w)
      BY <2>4 DEF ListVersions, Goto, TypeInv, Types
    <2>5. Enters(w)
      BY <2>3, <2>4 DEF ReadToDrop, Flock
    <2> QED
      BY <2>5 DEF Enters
  <1> QED BY <1>1, <1>2, <1>3

\* Each step keeps OneInv.
LEMMA OneStep ==
    ASSUME TypeInv, OneInv, NEW w \in Workers, Step(w)
    PROVE  OneInv'
  <1> SUFFICES ASSUME ~raced', NEW u \in Workers, NEW v \in Workers,
                      Changing(u)', Changing(v)'
               PROVE  u = v
    BY DEF OneInv, OneChanger
  <1>1. ~raced /\ OneChanger
    BY NoneMeets DEF OneInv
  <1>2. \A x \in Workers \ {w} : pc'[x] = pc[x]
    BY OneMoves DEF OthersRest
  <1>3. \A x \in Workers \ {w} : Changing(x)' => Changing(x)
    BY <1>2 DEF Changing
  <1>4. CASE u = w \/ v = w
    BY <1>3, <1>4, NoneMeets
  <1>5. CASE u # w /\ v # w
    BY <1>1, <1>3, <1>5 DEF OneChanger
  <1> QED BY <1>4, <1>5

----------------------------------------------------------------------------
(* No name twice.                                                          *)

\* Where none have met, and no listed name has been taken again, no name is listed
\* twice, and a snapshot has a name that is not listed.
FreshName(w) ==
    /\ pc[w] \in Listing => Distinct(loc[w].list)
    /\ pc[w] = "entry" => loc[w].name \notin NamesIn(Versions)

DistinctInv ==
    ~raced /\ ~reused => Distinct(Versions) /\ \A w \in Workers : FreshName(w)

\* What is written to the manifest is read from it.
LEMMA WrittenIsRead ==
    ASSUME TypeInv, NEW w \in Workers
    PROVE  /\ ClearManifest(w) => Versions' = <<>> /\ manifest' = Torn
           /\ PutManifest(w) => /\ Versions' = loc[w].list
                                /\ manifest' \notin {Missing, Torn}
  <1>1. loc[w].list \in Lists
    BY DEF TypeInv, Types, Locals
  <1>2. \A x \in Lists : x \notin {Missing, Torn}
    BY ConstantTypes
  <1>3. ClearManifest(w) => manifest' = Torn
    BY DEF ClearManifest
  <1>4. PutManifest(w) => manifest' = loc[w].list
    BY DEF PutManifest
  <1> QED
    BY <1>1, <1>2, <1>3, <1>4 DEF Versions

\* What the others have in hand stays good when the manifest is theirs.
LEMMA OthersManifest ==
    ASSUME TypeInv, OneInv, NEW w \in Workers, Step(w), ~raced',
           NEW v \in Workers \ {w}, Changing(v)
    PROVE  /\ ~Works(w) /\ files' = files /\ Versions' = Versions /\ manifest' = manifest
           /\ pc'[v] = pc[v] /\ loc'[v] = loc[v]
  <1>1. ~Changing(w)
    BY NoneMeets
  <1> QED
    BY <1>1, WorkSteps, OtherSteps, OneMoves DEF OthersRest

\* Each step keeps DistinctInv.
LEMMA DistinctStep ==
    ASSUME TypeInv, OneInv, DistinctInv, NEW w \in Workers, Step(w)
    PROVE  DistinctInv'
  <1> SUFFICES ASSUME ~raced', ~reused'
               PROVE  Distinct(Versions)' /\ \A v \in Workers : FreshName(v)'
    BY DEF DistinctInv
  <1>1. ~raced /\ ~reused
    BY NoneMeets, WorkSteps, OtherSteps
  <1>2. Distinct(Versions) /\ FreshName(w) /\ \A v \in Workers : FreshName(v)
    BY <1>1 DEF DistinctInv
  <1>3. ASSUME NEW v \in Workers \ {w} PROVE FreshName(v)'
    <2>1. pc'[v] = pc[v] /\ loc'[v] = loc[v]
      BY OneMoves DEF OthersRest
    <2>2. CASE Changing(v)
      BY <1>2, <2>1, <2>2, OthersManifest DEF FreshName
    <2>3. CASE ~Changing(v)
      BY <2>1, <2>3 DEF FreshName, Changing, Listing
    <2> QED BY <2>2, <2>3
  <1>4. /\ pc \in [Workers -> Steps] /\ loc \in [Workers -> Locals] /\ loc[w] \in Locals
        /\ loc[w].list \in Lists /\ loc[w].name \in Names /\ Types
        /\ Versions \in Lists
    BY ReadTypes DEF TypeInv, Types, Locals
  <1> SUFFICES Distinct(Versions)' /\ FreshName(w)'
    BY <1>3
  <1>5. CASE ReadToDrop(w)
    <2>1. /\ pc'[w] \in {"drop", "rclear"} /\ Versions' = Versions
          /\ loc' = [loc EXCEPT ![w].list = Without(Versions, loc[w].name)]
      BY <1>4, <1>5 DEF ReadToDrop, Goto, disk, Versions
    <2>2. loc'[w].list = Without(Versions, loc[w].name)
      BY <1>4, <2>1 DEF Locals
    <2>3. Distinct(Without(Versions, loc[w].name))
      BY <1>2, <1>4, WithoutIs
    <2> QED
      BY <1>2, <2>1, <2>2, <2>3 DEF FreshName
  <1>6. CASE ListVersions(w)
    <2> DEFINE new == [i \in DOMAIN Versions |-> [Versions[i] EXCEPT !.cols = TRUE]]
    <2>1. /\ pc'[w] \in {"lclear", "done"} /\ Versions' = Versions
          /\ loc' = [loc EXCEPT ![w].list = new]
      BY <1>4, <1>6 DEF ListVersions, Goto, disk, Versions
    <2>2. Distinct(new)
      BY <1>2, <1>4, FilledIs
    <2> HIDE DEF new
    <2>3. loc'[w].list = new
      BY <1>4, <2>1 DEF Locals
    <2> QED
      BY <1>2, <2>1, <2>2, <2>3 DEF FreshName
  <1>7. CASE Copy(w)
    <2> DEFINE n == NameAt(clock)
    <2>1. clock \in Times
      BY <1>4 DEF Types
    <2>2. /\ ~(files[n] # 0 /\ n[2] # 0) /\ ~(files[n] = 0 /\ n \in NamesIn(Versions))
      BY <1>7 DEF Copy
    <2>3. files[n] = 0
      BY <2>1, <2>2, ConstantTypes DEF NameAt
    <2> HIDE DEF n
    <2>4. pc'[w] = "entry" /\ Versions' = Versions /\ loc' = [loc EXCEPT ![w].name = n]
      BY <1>4, <1>7 DEF Copy, Goto, Versions, n
    <2>5. loc'[w].name = n
      BY <1>4, <2>4 DEF Locals
    <2> QED
      BY <1>2, <2>2, <2>3, <2>4, <2>5 DEF FreshName, Listing
  <1>8. CASE AddEntry(w)
    <2> DEFINE e == [name |-> loc[w].name, cols |-> TRUE]
    <2>1. /\ pc[w] = "entry" /\ pc'[w] = "trim" /\ Versions' = Versions
          /\ loc' = [loc EXCEPT ![w].list = Append(Versions, e)]
      BY <1>4, <1>8 DEF AddEntry, Goto, disk, Versions
    <2>2. e \in Entry /\ e.name = loc[w].name
      BY <1>4 DEF Entry
    <2> HIDE DEF e
    <2>3. loc'[w].list = Append(Versions, e)
      BY <1>4, <2>1 DEF Locals
    <2>4. loc[w].name \notin NamesIn(Versions)
      BY <1>2, <2>1 DEF FreshName
    <2>5. Distinct(Append(Versions, e))
      BY <1>2, <1>4, <2>2, <2>4, AppendIs
    <2> QED
      BY <1>2, <2>1, <2>3, <2>5 DEF FreshName
  <1>9. CASE Trim(w)
    <2>1. /\ pc[w] = "trim" /\ pc'[w] = "trim" /\ Versions' = Versions
          /\ loc' = [loc EXCEPT ![w].list = Tail(loc[w].list)]
          /\ Len(loc[w].list) > MaxVersions
      BY <1>4, <1>9 DEF Trim, Goto, Versions
    <2>2. loc'[w].list = Tail(loc[w].list)
      BY <1>4, <2>1 DEF Locals
    <2>3. Distinct(loc[w].list)
      BY <1>2, <2>1 DEF FreshName, Listing
    <2>4. Len(loc[w].list) > 1
      BY <1>4, <2>1, ConstantTypes DEF Lists
    <2>5. Distinct(Tail(loc[w].list))
      BY <1>4, <2>3, <2>4, TailIs
    <2> QED
      BY <1>2, <2>1, <2>2, <2>5 DEF FreshName
  <1>10. CASE Trimmed(w) \/ DropFile(w)
    <2>1. /\ pc[w] \in Listing /\ pc'[w] # "entry" /\ loc' = loc /\ Versions' = Versions
      BY <1>4, <1>10 DEF Trimmed, DropFile, Goto, disk, Versions, Listing
    <2> QED
      BY <1>2, <2>1 DEF FreshName
  <1>11. CASE ClearManifest(w)
    <2>1. pc[w] \in Listing /\ pc'[w] \in {"put", "rput", "lput"} /\ loc' = loc
      BY <1>4, <1>11, Tables DEF ClearManifest, Goto, Listing
    <2>2. Versions' = <<>>
      BY <1>11, WrittenIsRead
    <2>3. Distinct(Versions)'
      BY <2>2 DEF Distinct
    <2> QED
      BY <1>2, <2>1, <2>3 DEF FreshName
  <1>12. CASE PutManifest(w)
    <2>1. pc[w] \in Listing /\ pc'[w] \in {"unlock", "open", "done"} /\ loc' = loc
      BY <1>4, <1>12, Tables DEF PutManifest, Goto, Listing
    <2>2. Versions' = loc[w].list /\ Distinct(loc[w].list)
      BY <1>2, <1>12, <2>1, WrittenIsRead DEF FreshName
    <2>3. Distinct(Versions)'
      BY <2>2 DEF Distinct
    <2> QED
      BY <2>1, <2>3 DEF FreshName, Listing
  <1>13. CASE ~Works(w) /\ ~ReadToDrop(w) /\ ~ListVersions(w)
    <2>1. Versions' = Versions /\ pc'[w] \notin Listing \cup {"entry"}
      BY <1>13, OtherSteps DEF Listing
    <2> QED
      BY <1>2, <2>1 DEF FreshName
  <1> QED
    BY <1>5, <1>6, <1>7, <1>8, <1>9, <1>10, <1>11, <1>12, <1>13 DEF Works

----------------------------------------------------------------------------
(* The versions that are offered.                                          *)

\* The snapshots there are.
Present == {n \in Names : files[n] # 0}

\* Where none have met and nothing has failed, what a request will write to the manifest
\* is what there is, and so is the manifest when none is about to change it.
Matches(w) ==
    /\ pc[w] = "entry" => Present = NamesIn(Versions) \cup {loc[w].name}
    /\ pc[w] = "drop" => NamesIn(loc[w].list) = Present \ {loc[w].name}
    /\ pc[w] \in Listing \ {"drop"} => NamesIn(loc[w].list) = Present

MatchInv ==
    ~raced /\ faults = 0 =>
        /\ ~reused
        /\ \A w \in Workers : Matches(w)
        /\ (\A w \in Workers : pc[w] \notin Unsettled) => NamesIn(Versions) = Present
        /\ manifest = Torn => \E w \in Workers : pc[w] \in {"put", "rput", "lput"}

\* A file appears, or goes.
LEMMA PresentIs ==
    ASSUME Types, NEW n \in Names, NEW x \in Contents, files' = [files EXCEPT ![n] = x]
    PROVE  Present' = IF x = 0 THEN Present \ {n} ELSE Present \cup {n}
  <1>1. /\ files \in [Names -> Contents]
        /\ \A k \in Names : files'[k] = IF k = n THEN x ELSE files[k]
    BY DEF Types
  <1> QED
    BY <1>1 DEF Present

\* Each step keeps MatchInv.
LEMMA MatchStep ==
    ASSUME TypeInv, OneInv, DistinctInv, MatchInv, NEW w \in Workers, Step(w)
    PROVE  MatchInv'
  <1> SUFFICES ASSUME ~raced', faults' = 0
               PROVE  /\ ~reused'
                      /\ \A v \in Workers : Matches(v)'
                      /\ (\A v \in Workers : pc'[v] \notin Unsettled) =>
                            NamesIn(Versions)' = Present'
                      /\ manifest' = Torn =>
                            \E v \in Workers : pc'[v] \in {"put", "rput", "lput"}
    BY DEF MatchInv
  <1>1. ~raced /\ faults = 0 /\ (Works(w) \/ ~Changing(w))
    BY NoneMeets, WorkSteps, OtherSteps
  <1>2. /\ ~reused /\ Matches(w) /\ (\A v \in Workers : Matches(v))
        /\ (\A v \in Workers : pc[v] \notin Unsettled) => NamesIn(Versions) = Present
        /\ manifest = Torn => \E v \in Workers : pc[v] \in {"put", "rput", "lput"}
    BY <1>1 DEF MatchInv
  <1>3. FreshName(w) /\ \A v \in Workers : FreshName(v)
    BY <1>1, <1>2 DEF DistinctInv
  <1>4. /\ pc \in [Workers -> Steps] /\ loc \in [Workers -> Locals] /\ loc[w] \in Locals
        /\ loc[w].list \in Lists /\ loc[w].name \in Names /\ loc[w].data \in Contents
        /\ Types /\ Versions \in Lists /\ AtStep(w) /\ NamesIn(Versions) \subseteq Names
    BY ReadTypes DEF TypeInv, Types, Locals
  <1>5. \A v \in Workers \ {w} : pc'[v] = pc[v] /\ loc'[v] = loc[v]
    BY OneMoves DEF OthersRest
  <1>6. ASSUME NEW v \in Workers \ {w} PROVE Matches(v)'
    <2>1. CASE Changing(v)
      <3>1. /\ files' = files /\ Versions' = Versions
            /\ pc'[v] = pc[v] /\ loc'[v] = loc[v]
        BY <2>1, OthersManifest
      <3>2. Present' = Present
        BY <3>1 DEF Present
      <3> QED
        BY <1>2, <3>1, <3>2 DEF Matches
    <2>2. CASE ~Changing(v)
      BY <1>5, <2>2 DEF Matches, Changing, Listing
    <2> QED BY <2>1, <2>2
  \* When w begins a change, or takes its snapshot, the manifest is settled.
  <1>7. ASSUME pc[w] \notin Unsettled, Changing(w) \/ Changing(w)'
        PROVE  NamesIn(Versions) = Present
    <2>1. \A v \in Workers \ {w} : ~Changing(v)
      BY <1>7, NoneMeets
    <2>2. \A v \in Workers : pc[v] \notin Unsettled
      BY <1>7, <2>1 DEF Changing, Unsettled
    <2> QED
      BY <1>2, <2>2
  <1> DEFINE Settled == (\A v \in Workers : pc'[v] \notin Unsettled) =>
                            NamesIn(Versions)' = Present'
             Whole == manifest' = Torn =>
                         \E v \in Workers : pc'[v] \in {"put", "rput", "lput"}
  <1>8. ASSUME manifest' = manifest, pc[w] \notin {"put", "rput", "lput"} PROVE Whole
    BY <1>2, <1>5, <1>8
  <1>9. ASSUME files' = files, Versions' = Versions, pc[w] \notin Unsettled PROVE Settled
    <2>1. ASSUME \A v \in Workers : pc'[v] \notin Unsettled
          PROVE  \A v \in Workers : pc[v] \notin Unsettled
      BY <1>5, <1>9, <2>1
    <2> QED
      BY <1>2, <1>9, <2>1 DEF Present
  <1>10. ASSUME manifest' = manifest PROVE Versions' = Versions
    BY <1>10 DEF Versions
  <1> SUFFICES ~reused' /\ Matches(w)' /\ Settled /\ Whole
    BY <1>6
  <1> HIDE DEF Settled, Whole
  <1>11. CASE ReadToDrop(w)
    <2> DEFINE n == loc[w].name
               new == Without(Versions, n)
    <2>1. /\ pc[w] = "dropread"
          /\ pc'[w] = IF n \in NamesIn(Versions) THEN "drop" ELSE "rclear"
          /\ files' = files /\ manifest' = manifest /\ reused' = reused
          /\ loc' = [loc EXCEPT ![w].list = new]
      BY <1>4, <1>11 DEF ReadToDrop, Goto, disk
    <2>2. loc'[w].list = new /\ loc'[w].name = n
      BY <1>4, <2>1 DEF Locals
    <2>3. NamesIn(new) = NamesIn(Versions) \ {n}
      BY <1>4, WithoutIs
    <2>4. NamesIn(Versions) = Present
      <3>1. Changing(w)' /\ pc[w] \notin Unsettled
        BY <2>1 DEF Changing, Unsettled
      <3> QED
        BY <1>7, <3>1
    <2>5. Present' = Present /\ Versions' = Versions
      BY <1>10, <2>1 DEF Present
    <2> HIDE DEF new, n
    <2>6. Matches(w)'
      <3>1. CASE n \in NamesIn(Versions)
        BY <2>1, <2>2, <2>3, <2>4, <2>5, <3>1 DEF Matches
      <3>2. CASE n \notin NamesIn(Versions)
        BY <2>1, <2>2, <2>3, <2>4, <2>5, <3>2 DEF Matches
      <3> QED BY <3>1, <3>2
    <2> QED
      BY <1>2, <1>8, <1>9, <2>1, <2>5, <2>6 DEF Unsettled
  <1>12. CASE ListVersions(w)
    <2> DEFINE new == [i \in DOMAIN Versions |-> [Versions[i] EXCEPT !.cols = TRUE]]
    <2>1. /\ pc[w] = "list" /\ pc'[w] \in {"lclear", "done"}
          /\ files' = files /\ manifest' = manifest /\ reused' = reused
          /\ loc' = [loc EXCEPT ![w].list = new]
      BY <1>4, <1>12 DEF ListVersions, Goto, disk
    <2>2. NamesIn(new) = NamesIn(Versions)
      BY <1>4, FilledIs
    <2> HIDE DEF new
    <2>3. loc'[w].list = new
      BY <1>4, <2>1 DEF Locals
    <2>4. Present' = Present /\ Versions' = Versions
      BY <1>10, <2>1 DEF Present
    <2>5. ASSUME pc'[w] = "lclear" PROVE NamesIn(Versions) = Present
      <3>1. Changing(w)' /\ pc[w] \notin Unsettled
        BY <2>1, <2>5 DEF Changing, Unsettled
      <3> QED
        BY <1>7, <3>1
    <2>6. Matches(w)'
      BY <2>1, <2>2, <2>3, <2>4, <2>5 DEF Matches, Listing
    <2> QED
      BY <1>2, <1>8, <1>9, <2>1, <2>4, <2>6 DEF Unsettled
  <1>13. CASE Copy(w)
    <2> DEFINE n == NameAt(clock)
    <2>1. /\ pc[w] = "copy" /\ pc'[w] = "entry" /\ manifest' = manifest
          /\ files' = [files EXCEPT ![n] = loc[w].data]
          /\ loc' = [loc EXCEPT ![w].name = n]
          /\ reused' = (reused \/ (files[n] = 0 /\ n \in NamesIn(Versions)))
      BY <1>4, <1>13 DEF Copy, Goto
    <2>2. n \in Names
      BY <1>4, ReadTypes
    <2> HIDE DEF n
    <2>3. loc'[w].name = n
      BY <1>4, <2>1 DEF Locals
    <2>4. NamesIn(Versions) = Present
      <3>1. Changing(w) /\ pc[w] \notin Unsettled
        BY <2>1 DEF Changing, Unsettled
      <3> QED
        BY <1>7, <3>1
    <2>5. loc[w].data # 0
      BY <1>4, <2>1 DEF AtStep
    <2>6. Present' = Present \cup {n}
      BY <1>4, <2>1, <2>2, <2>5, PresentIs
    <2>7. ~reused'
      BY <1>2, <2>1, <2>4 DEF Present
    <2>8. Matches(w)'
      BY <1>10, <2>1, <2>3, <2>4, <2>6 DEF Matches, Listing
    <2>9. Settled
      BY <2>1 DEF Settled, Unsettled
    <2> QED
      BY <1>8, <2>1, <2>7, <2>8, <2>9
  <1>14. CASE AddEntry(w)
    <2> DEFINE e == [name |-> loc[w].name, cols |-> TRUE]
    <2>1. /\ pc[w] = "entry" /\ pc'[w] = "trim" /\ manifest' = manifest /\ files' = files
          /\ loc' = [loc EXCEPT ![w].list = Append(Versions, e)] /\ reused' = reused
      BY <1>4, <1>14 DEF AddEntry, Goto, disk, history
    <2>2. e \in Entry /\ e.name = loc[w].name
      BY <1>4 DEF Entry
    <2> HIDE DEF e
    <2>3. loc'[w].list = Append(Versions, e)
      BY <1>4, <2>1 DEF Locals
    <2>4. NamesIn(Append(Versions, e)) = NamesIn(Versions) \cup {loc[w].name}
      BY <1>4, <2>2, AppendIs
    <2>5. Present = NamesIn(Versions) \cup {loc[w].name}
      BY <1>2, <2>1 DEF Matches
    <2>6. Present' = Present
      BY <2>1 DEF Present
    <2>7. Matches(w)'
      BY <2>1, <2>3, <2>4, <2>5, <2>6 DEF Matches
    <2>8. Settled
      BY <2>1 DEF Settled, Unsettled
    <2> QED
      BY <1>2, <1>8, <2>1, <2>7, <2>8
  <1>15. CASE Trim(w)
    <2> DEFINE list == loc[w].list
               n == list[1].name
    <2>1. /\ pc[w] = "trim" /\ pc'[w] = "trim" /\ manifest' = manifest
          /\ files' = [files EXCEPT ![n] = 0] /\ reused' = reused
          /\ loc' = [loc EXCEPT ![w].list = Tail(list)]
          /\ Len(list) > MaxVersions
      BY <1>4, <1>15 DEF Trim, Goto, history
    <2>2. loc'[w].list = Tail(list)
      BY <1>4, <2>1 DEF Locals
    <2>3. Len(list) > 1
      BY <1>4, <2>1, ConstantTypes DEF Lists
    <2>4. Distinct(list) /\ NamesIn(list) = Present
      BY <1>2, <1>3, <2>1 DEF Matches, FreshName, Listing
    <2>5. NamesIn(Tail(list)) = NamesIn(list) \ {n} /\ list[1] \in Entry
      BY <1>4, <2>3, <2>4, TailIs
    <2>6. n \in Names
      BY <2>5 DEF Entry
    <2>7. 0 \in Contents
      BY ConstantTypes DEF Contents
    <2> HIDE DEF n
    <2>8. Present' = Present \ {n}
      BY <1>4, <2>1, <2>6, <2>7, PresentIs
    <2>9. Matches(w)'
      BY <2>1, <2>2, <2>4, <2>5, <2>8 DEF Matches
    <2>10. Settled
      BY <2>1 DEF Settled, Unsettled
    <2> QED
      BY <1>2, <1>8, <2>1, <2>9, <2>10
  <1>16. CASE Trimmed(w)
    <2>1. /\ pc[w] = "trim" /\ pc'[w] = "clear" /\ manifest' = manifest /\ files' = files
          /\ loc' = loc /\ reused' = reused
      BY <1>4, <1>16 DEF Trimmed, Goto, disk, history
    <2>2. Matches(w)'
      BY <1>2, <2>1 DEF Matches, Present, Listing
    <2>3. Settled
      BY <2>1 DEF Settled, Unsettled
    <2> QED
      BY <1>2, <1>8, <2>1, <2>2, <2>3
  <1>17. CASE DropFile(w)
    <2> DEFINE n == loc[w].name
    <2>1. /\ pc[w] = "drop" /\ pc'[w] = "rclear" /\ manifest' = manifest
          /\ files' = [files EXCEPT ![n] = 0] /\ loc' = loc /\ reused' = reused
      BY <1>4, <1>17 DEF DropFile, Goto, history
    <2>2. 0 \in Contents
      BY ConstantTypes DEF Contents
    <2>3. Present' = Present \ {n}
      BY <1>4, <2>1, <2>2, PresentIs
    <2>4. NamesIn(loc[w].list) = Present \ {n}
      BY <1>2, <2>1 DEF Matches
    <2>5. Matches(w)'
      BY <2>1, <2>3, <2>4 DEF Matches
    <2>6. Settled
      BY <2>1 DEF Settled, Unsettled
    <2> QED
      BY <1>2, <1>8, <2>1, <2>5, <2>6
  <1>18. CASE ClearManifest(w)
    <2>1. /\ pc[w] \in {"clear", "rclear", "lclear"} /\ pc'[w] \in {"put", "rput", "lput"}
          /\ files' = files /\ loc' = loc /\ reused' = reused
      BY <1>4, <1>18, Tables DEF ClearManifest, Goto, history
    <2>2. Matches(w)'
      BY <1>2, <2>1 DEF Matches, Present, Listing
    <2>3. Settled /\ Whole
      BY <2>1 DEF Settled, Whole, Unsettled
    <2> QED
      BY <1>2, <2>1, <2>2, <2>3
  <1>19. CASE PutManifest(w)
    <2>1. /\ pc[w] \in {"put", "rput", "lput"} /\ pc'[w] \in {"unlock", "open", "done"}
          /\ files' = files /\ loc' = loc /\ reused' = reused
      BY <1>4, <1>19, Tables DEF PutManifest, Goto, history
    <2>2. Versions' = loc[w].list /\ manifest' # Torn
      BY <1>19, WrittenIsRead
    <2>3. NamesIn(loc[w].list) = Present
      BY <1>2, <2>1 DEF Matches, Listing
    <2>4. Settled
      BY <2>1, <2>2, <2>3 DEF Settled, Present, NamesIn
    <2>5. Matches(w)'
      BY <2>1 DEF Matches, Listing
    <2> QED
      BY <1>2, <2>1, <2>2, <2>4, <2>5 DEF Whole
  <1>20. CASE ~Works(w) /\ ~ReadToDrop(w) /\ ~ListVersions(w)
    <2>1. /\ files' = files /\ manifest' = manifest /\ Versions' = Versions
          /\ reused' = reused /\ pc'[w] \notin Listing \cup {"entry"} /\ ~Changing(w)
      BY <1>20, OtherSteps DEF Listing
    <2>2. pc[w] \notin Unsettled /\ pc[w] \notin {"put", "rput", "lput"}
      BY <2>1 DEF Changing, Unsettled
    <2>3. Matches(w)'
      BY <2>1 DEF Matches, Listing
    <2> QED
      BY <1>2, <1>8, <1>9, <2>1, <2>2, <2>3
  <1> QED
    BY <1>11, <1>12, <1>13, <1>14, <1>15, <1>16, <1>17, <1>18, <1>19, <1>20 DEF Works

----------------------------------------------------------------------------
(* The newest version.                                                     *)

\* The last entry of a list is of a snapshot of what the CSV holds.
Current(list) == list # <<>> /\ files[list[Len(list)].name] = live

\* Once a save or a revert has written the CSV, and its request has taken the lock, what
\* is copied, or listed, is what the CSV holds.
IsCurrent(w) ==
    /\ pc[w] = "copy" => loc[w].data = live
    /\ pc[w] = "entry" => files[loc[w].name] = live
    /\ pc[w] \in {"trim", "clear", "put", "lclear", "lput"} => Current(loc[w].list)

CurrentInv ==
    ~raced /\ ~reused /\ saved /\ (\A w \in Workers : pc[w] \notin Pending) =>
        /\ \A w \in Workers : IsCurrent(w)
        /\ (\A w \in Workers : pc[w] \notin Taking) => Current(Versions)

\* The steps of a change, while nothing else is pending: none of the others has a list.
LEMMA WorkIsCurrent ==
    ASSUME TypeInv, DistinctInv, CurrentInv, NEW w \in Workers, Works(w),
           ~raced, ~reused, saved, live' = live,
           \A v \in Workers : pc[v] \notin Pending,
           pc'[w] \notin Pending
    PROVE  IsCurrent(w)' /\ (pc'[w] \notin Taking => Current(Versions)')
  <1>1. /\ IsCurrent(w) /\ FreshName(w)
    BY DEF CurrentInv, DistinctInv
  <1>2. /\ pc \in [Workers -> Steps] /\ loc \in [Workers -> Locals] /\ loc[w] \in Locals
        /\ loc[w].list \in Lists /\ loc[w].name \in Names /\ loc[w].data \in Contents
        /\ Types /\ Versions \in Lists /\ files \in [Names -> Contents]
    BY ReadTypes DEF TypeInv, Types, Locals
  <1>3. pc[w] \notin Pending
    OBVIOUS
  <1>4. CASE Copy(w)
    <2> DEFINE n == NameAt(clock)
    <2>1. /\ pc[w] = "copy" /\ pc'[w] = "entry"
          /\ files' = [files EXCEPT ![n] = loc[w].data]
          /\ loc' = [loc EXCEPT ![w].name = n]
      BY <1>2, <1>4 DEF Copy, Goto
    <2>2. n \in Names
      BY <1>2, ReadTypes
    <2> HIDE DEF n
    <2>3. loc'[w].name = n /\ files'[n] = loc[w].data
      BY <1>2, <2>1, <2>2 DEF Locals
    <2> QED
      BY <1>1, <2>1, <2>3 DEF IsCurrent, Taking
  <1>5. CASE AddEntry(w)
    <2> DEFINE e == [name |-> loc[w].name, cols |-> TRUE]
               new == Append(Versions, e)
    <2>1. /\ pc[w] = "entry" /\ pc'[w] = "trim" /\ files' = files
          /\ loc' = [loc EXCEPT ![w].list = new]
      BY <1>2, <1>5 DEF AddEntry, Goto, disk
    <2>2. e \in Entry /\ e.name = loc[w].name
      BY <1>2 DEF Entry
    <2> HIDE DEF e
    <2>3. Len(new) = Len(Versions) + 1 /\ new[Len(new)] = e /\ Len(Versions) \in Nat
      BY <1>2, <2>2, AppendIs DEF Lists
    <2>4. new # <<>>
      BY <1>2, <2>2 DEF Lists
    <2> HIDE DEF new
    <2>5. loc'[w].list = new
      BY <1>2, <2>1 DEF Locals
    <2>6. files[loc[w].name] = live
      BY <1>1, <2>1 DEF IsCurrent
    <2>7. Current(loc[w].list)'
      BY <2>1, <2>2, <2>3, <2>4, <2>5, <2>6 DEF Current
    <2> QED
      BY <2>1, <2>7 DEF IsCurrent, Taking
  <1>6. CASE Trim(w)
    <2> DEFINE list == loc[w].list
               n == list[1].name
    <2>1. /\ pc[w] = "trim" /\ pc'[w] = "trim"
          /\ files' = [files EXCEPT ![n] = 0]
          /\ loc' = [loc EXCEPT ![w].list = Tail(list)]
          /\ Len(list) > MaxVersions
      BY <1>2, <1>6 DEF Trim, Goto
    <2>2. loc'[w].list = Tail(list)
      BY <1>2, <2>1 DEF Locals
    <2>3. Len(list) > 1
      BY <1>2, <2>1, ConstantTypes DEF Lists
    <2>4. Distinct(list) /\ files[list[Len(list)].name] = live
      BY <1>1, <2>1 DEF IsCurrent, Current, FreshName, Listing
    <2>5. /\ Tail(list)[Len(Tail(list))] = list[Len(list)] /\ list[Len(list)].name # n
          /\ list[Len(list)] \in Entry
      BY <1>2, <2>3, <2>4, TailIs DEF Lists
    <2>6. Tail(list) # <<>>
      BY <1>2, <2>3, TailIs
    <2>7. list[Len(list)].name \in Names
      BY <2>5 DEF Entry
    <2>8. files'[list[Len(list)].name] = live
      BY <1>2, <2>1, <2>4, <2>5, <2>7
    <2>9. Current(loc[w].list)'
      BY <2>2, <2>5, <2>6, <2>8 DEF Current
    <2> QED
      BY <2>1, <2>9 DEF IsCurrent, Taking
  <1>7. CASE Trimmed(w)
    <2>1. /\ pc[w] = "trim" /\ pc'[w] = "clear" /\ loc' = loc /\ files' = files
      BY <1>2, <1>7 DEF Trimmed, Goto, disk
    <2> QED
      BY <1>1, <2>1 DEF IsCurrent, Current, Taking
  <1>8. CASE DropFile(w)
    BY <1>3, <1>8 DEF DropFile, Goto, Pending
  <1>9. CASE ClearManifest(w)
    <2>1. /\ pc[w] \in {"clear", "lclear"} /\ pc'[w] \in {"put", "lput"}
          /\ loc' = loc /\ files' = files
      BY <1>2, <1>3, <1>9, Tables DEF ClearManifest, Goto, Pending
    <2> QED
      BY <1>1, <2>1 DEF IsCurrent, Current, Taking
  <1>10. CASE PutManifest(w)
    <2>1. /\ pc[w] \in {"put", "lput"} /\ pc'[w] \in {"unlock", "done"}
          /\ loc' = loc /\ files' = files
      BY <1>2, <1>3, <1>10, Tables DEF PutManifest, Goto, Pending
    <2>2. Versions' = loc[w].list
      BY <1>10, WrittenIsRead
    <2>3. Current(loc[w].list)
      BY <1>1, <2>1 DEF IsCurrent
    <2> QED
      BY <2>1, <2>2, <2>3 DEF IsCurrent, Current
  <1> QED
    BY <1>4, <1>5, <1>6, <1>7, <1>8, <1>9, <1>10 DEF Works

\* Each step keeps CurrentInv.
LEMMA CurrentStep ==
    ASSUME TypeInv, OneInv, DistinctInv, CurrentInv, NEW w \in Workers, Step(w)
    PROVE  CurrentInv'
  <1> SUFFICES ASSUME ~raced', ~reused', saved', \A v \in Workers : pc'[v] \notin Pending
               PROVE  /\ \A v \in Workers : IsCurrent(v)'
                      /\ (\A v \in Workers : pc'[v] \notin Taking) => Current(Versions)'
    BY DEF CurrentInv
  <1>1. ~raced /\ ~reused
    BY NoneMeets, WorkSteps, OtherSteps
  <1>2. live' = live /\ saved /\ (Works(w) \/ ~Changing(w))
    BY WorkSteps, OtherSteps
  <1>3. pc'[w] \notin Pending
    OBVIOUS
  <1>4. \A v \in Workers \ {w} : /\ pc'[v] = pc[v] /\ loc'[v] = loc[v]
                                 /\ pc[v] \notin Pending
    BY OneMoves DEF OthersRest
  <1>5. /\ pc \in [Workers -> Steps] /\ loc \in [Workers -> Locals] /\ loc[w] \in Locals
        /\ loc[w].list \in Lists /\ Types /\ Versions \in Lists
    BY ReadTypes DEF TypeInv, Types, Locals
  \* While w changes the manifest, the others have nothing in hand.
  <1>6. ASSUME Changing(w) \/ Changing(w)', NEW v \in Workers \ {w} PROVE IsCurrent(v)'
    <2>1. ~Changing(v)
      BY <1>6, NoneMeets
    <2> QED
      BY <1>4, <2>1 DEF IsCurrent, Changing
  <1>7. CASE Works(w)
    <2>1. Changing(w)
      BY <1>7, WorkSteps
    <2>2. pc[w] \notin Pending
      <3>1. pc[w] # "dropread" /\ pc[w] # "open" /\ pc[w] # "flock"
        BY <2>1 DEF Changing
      <3>2. ASSUME pc[w] \in {"drop", "rclear", "rput"} PROVE FALSE
        <4>1. CASE DropFile(w)
          BY <1>3, <1>5, <4>1 DEF DropFile, Goto, Pending
        <4>2. CASE ClearManifest(w) \/ PutManifest(w)
          BY <1>3, <1>5, <3>2, <4>2, Tables DEF ClearManifest, PutManifest, Goto, Pending
        <4>3. CASE Copy(w) \/ AddEntry(w) \/ Trim(w) \/ Trimmed(w)
          BY <3>2, <4>3 DEF Copy, AddEntry, Trim, Trimmed, Goto
        <4> QED BY <1>7, <4>1, <4>2, <4>3 DEF Works
      <3> QED BY <3>1, <3>2 DEF Pending
    <2>3. \A v \in Workers : pc[v] \notin Pending
      BY <1>4, <2>2
    <2>4. IsCurrent(w)' /\ (pc'[w] \notin Taking => Current(Versions)')
      BY <1>1, <1>2, <1>3, <1>7, <2>3, WorkIsCurrent
    <2> QED
      BY <1>6, <2>1, <2>4
  <1>8. CASE Flock(w)
    <2>1. pc'[w] = "copy" /\ loc' = [loc EXCEPT ![w].data = live]
      BY <1>5, <1>8 DEF Flock, Goto
    <2>2. loc'[w].data = live
      BY <1>5, <2>1 DEF Locals
    <2>3. IsCurrent(w)' /\ Changing(w)'
      BY <1>2, <2>1, <2>2 DEF IsCurrent, Changing
    <2> QED
      BY <1>6, <2>1, <2>3 DEF Taking
  <1>9. CASE ~Works(w) /\ ~Flock(w)
    <2>1. /\ files' = files /\ Versions' = Versions /\ ~Changing(w)
          /\ pc'[w] \notin {"entry", "trim", "clear", "put", "lput", "copy"}
          /\ pc'[w] = "lclear" => ListVersions(w)
          /\ pc[w] \notin Pending
      BY <1>3, <1>9, OtherSteps
    <2>2. \A v \in Workers : pc[v] \notin Pending
      BY <1>4, <2>1
    <2>3. /\ \A v \in Workers : IsCurrent(v)
          /\ (\A v \in Workers : pc[v] \notin Taking) => Current(Versions)
      BY <1>1, <1>2, <2>2 DEF CurrentInv
    <2>4. \A v \in Workers \ {w} : IsCurrent(v)'
      BY <1>2, <1>4, <2>1, <2>3 DEF IsCurrent, Current
    <2>5. (\A v \in Workers : pc'[v] \notin Taking) => Current(Versions)'
      <3>1. pc[w] \notin Taking
        BY <2>1 DEF Changing, Taking
      <3> QED
        BY <1>2, <1>4, <2>1, <2>3, <3>1 DEF Current
    <2>6. IsCurrent(w)'
      <3>1. CASE pc'[w] # "lclear"
        BY <2>1, <3>1 DEF IsCurrent
      <3>2. CASE pc'[w] = "lclear"
        <4> DEFINE new == [i \in DOMAIN Versions |-> [Versions[i] EXCEPT !.cols = TRUE]]
        <4>1. loc' = [loc EXCEPT ![w].list = new]
          BY <2>1, <3>2 DEF ListVersions
        <4>2. \A v \in Workers : pc[v] \notin Taking
          <5>1. \A v \in Workers \ {w} : ~Changing(v)
            BY <3>2, NoneMeets DEF Changing
          <5> QED
            BY <2>1, <5>1 DEF Changing, Taking
        <4>3. Current(Versions)
          BY <2>3, <4>2
        <4>4. /\ new \in Lists /\ Len(new) = Len(Versions)
              /\ \A i \in DOMAIN Versions : new[i].name = Versions[i].name
          BY <1>5, FilledIs
        <4> HIDE DEF new
        <4>5. loc'[w].list = new
          BY <1>5, <4>1 DEF Locals
        <4>6. Len(Versions) \in DOMAIN Versions /\ new # <<>>
          BY <1>5, <4>3, <4>4 DEF Current, Lists
        <4>7. Current(loc[w].list)'
          BY <1>2, <2>1, <4>3, <4>4, <4>5, <4>6 DEF Current
        <4> QED
          BY <3>2, <4>7 DEF IsCurrent
      <3> QED BY <3>1, <3>2
    <2> QED
      BY <2>4, <2>5, <2>6
  <1> QED
    BY <1>7, <1>8, <1>9

----------------------------------------------------------------------------
(* The theorems.                                                           *)

Inv == TypeInv /\ OneInv /\ DistinctInv /\ MatchInv /\ CurrentInv

\* In the initial state the manifest lists the one snapshot there is, or there is none.
LEMMA InitInv == Init => Inv
  <1> SUFFICES ASSUME Init PROVE Inv
    OBVIOUS
  <1> DEFINE e == [name |-> Old, cols |-> FALSE]
  <1>1. TypeInv /\ Types
    BY InitTypes DEF TypeInv
  <1>2. \A w \in Workers : pc[w] = "idle"
    BY DEF Init
  <1>3. OneInv
    BY <1>2 DEF OneInv, OneChanger, Changing
  <1>4. e \in Entry /\ e.name = Old /\ <<e>> \in Lists
    <2>1. e \in Entry
      BY ConstantTypes DEF Entry
    <2> HIDE DEF e
    <2>2. <<e>> \in Lists
      BY <2>1 DEF Lists
    <2> QED
      BY <2>1, <2>2 DEF e
  <1>5. \/ manifest = Missing /\ files = [n \in Names |-> 0]
        \/ /\ manifest = <<e>>
           /\ files = [n \in Names |-> IF n = Old THEN 1 ELSE 0]
    BY DEF Init
  <1> HIDE DEF e
  <1>6. Distinct(Versions) /\ NamesIn(Versions) = Present /\ manifest # Torn
    <2>1. CASE manifest = Missing /\ files = [n \in Names |-> 0]
      <3>1. Versions = <<>> /\ manifest # Torn
        BY <1>1, <2>1, ReadTypes, ConstantTypes
      <3>2. Present = {}
        BY <2>1 DEF Present
      <3> QED
        BY <3>1, <3>2 DEF Distinct, NamesIn
    <2>2. CASE manifest = <<e>> /\ files = [n \in Names |-> IF n = Old THEN 1 ELSE 0]
      <3>1. Versions = <<e>> /\ manifest # Torn
        BY <1>1, <1>4, <2>2, ReadTypes, ConstantTypes
      <3>2. Present = {Old}
        BY <2>2, ConstantTypes DEF Present
      <3>3. DOMAIN <<e>> = {1} /\ <<e>>[1] = e
        OBVIOUS
      <3> QED
        BY <1>4, <3>1, <3>2, <3>3 DEF Distinct, NamesIn
    <2> QED
      BY <1>5, <2>1, <2>2
  <1>7. DistinctInv
    BY <1>2, <1>6 DEF DistinctInv, FreshName, Listing
  <1>8. MatchInv
    <2>1. \A w \in Workers : Matches(w)
      BY <1>2 DEF Matches, Listing
    <2>2. ~reused
      BY DEF Init
    <2> QED
      BY <1>6, <2>1, <2>2 DEF MatchInv
  <1>9. CurrentInv
    BY DEF CurrentInv, Init
  <1> QED
    BY <1>1, <1>3, <1>7, <1>8, <1>9 DEF Inv

\* The clock matters to none of it.
LEMMA RestInv ==
    ASSUME Inv, Tick \/ UNCHANGED vars
    PROVE  Inv'
  <1>1. TypeInv'
    BY TickTypes, StutterTypes DEF Inv
  <1>2. /\ live' = live /\ files' = files /\ manifest' = manifest /\ pc' = pc
        /\ loc' = loc /\ faults' = faults
        /\ saved' = saved /\ raced' = raced /\ reused' = reused
    BY DEF Tick, vars, disk, history
  <1>3. Versions' = Versions /\ Present' = Present
    BY <1>2 DEF Versions, Present
  <1>4. OneInv'
    BY <1>2 DEF Inv, OneInv, OneChanger, Changing
  <1>5. DistinctInv'
    BY <1>2, <1>3 DEF Inv, DistinctInv, FreshName, Distinct
  <1>6. MatchInv'
    <2>1. \A w \in Workers : Matches(w)' = Matches(w)
      BY <1>2, <1>3 DEF Matches
    <2> QED
      BY <1>2, <1>3, <2>1 DEF Inv, MatchInv
  <1>7. CurrentInv'
    <2>1. \A w \in Workers : IsCurrent(w)' = IsCurrent(w)
      BY <1>2 DEF IsCurrent, Current
    <2>2. Current(Versions)' = Current(Versions)
      BY <1>2, <1>3 DEF Current
    <2> QED
      BY <1>2, <2>1, <2>2 DEF Inv, CurrentInv
  <1> QED
    BY <1>1, <1>4, <1>5, <1>6, <1>7 DEF Inv

\* All of them hold always.
LEMMA InvHolds == Spec => []Inv
  <1>1. Inv /\ [Next]_vars => Inv'
    <2> SUFFICES ASSUME Inv, [Next]_vars PROVE Inv'
      OBVIOUS
    <2>1. CASE Tick \/ UNCHANGED vars
      BY <2>1, RestInv
    <2>2. ASSUME NEW w \in Workers, Step(w) PROVE Inv'
      BY <2>2, StepTypes, OneStep, DistinctStep, MatchStep, CurrentStep DEF Inv
    <2> QED
      BY <2>1, <2>2 DEF Next
  <1> QED
    BY <1>1, InitInv, PTL DEF Spec

\* When no two requests have changed the manifest at once, or made a snapshot in the
\* same millisecond, and nothing has failed, the manifest lists the snapshot files
\* there are and no others once nobody is at work (snapshot_version,
\* revert_csv_pipeline).
THEOREM OfferedVersionsAreThere == Spec => []OfferedIsThere
  <1>1. Inv => OfferedIsThere
    <2> SUFFICES ASSUME Inv, AtRest, ~raced, faults = 0, manifest # Missing
                 PROVE  NamesIn(manifest) = {n \in Names : files[n] # 0}
      BY DEF OfferedIsThere
    <2>1. manifest # Torn /\ NamesIn(Versions) = Present
      BY DEF Inv, MatchInv, AtRest, Unsettled
    <2>2. Versions = manifest
      BY <2>1 DEF Versions
    <2> QED
      BY <2>1, <2>2 DEF Present
  <1> QED
    BY <1>1, InvHolds, PTL

\* When no two requests have changed the manifest at once, its newest entry holds what
\* the CSV holds once nobody is at work, whatever the order of saves and reverts and of
\* their snapshots, and whatever failed before the last of these writes, unless a
\* snapshot took the name of an entry that had lost its file (save_csv_pipeline,
\* revert_csv_pipeline, snapshot_version).
THEOREM NewestVersionIsCurrent == Spec => []NewestIsCurrent
  <1>1. Inv => NewestIsCurrent
    <2> SUFFICES ASSUME Inv, AtRest, ~raced, ~reused, saved
                 PROVE  files[manifest[Len(manifest)].name] = live
      BY DEF NewestIsCurrent
    <2>1. Current(Versions)
      BY DEF Inv, CurrentInv, AtRest, Pending, Taking
    <2>2. Versions = manifest
      BY <2>1 DEF Versions, Current
    <2> QED
      BY <2>1, <2>2 DEF Current
  <1> QED
    BY <1>1, InvHolds, PTL
=============================================================================
