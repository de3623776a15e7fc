-------------------------- MODULE RuleStore_proofs --------------------------
(***************************************************************************)
(* Theorems about RuleStore, for every set of rules, CSVs and concurrent   *)
(* requests, any contents of the trash, and any number of requests and     *)
(* faults.                                                                 *)
(***************************************************************************)
EXTENDS RuleStore, FiniteSetTheorems, TLAPS

----------------------------------------------------------------------------
(* Types and control.                                                      *)

Removals == {"remove_rule", "remove_csv"}
Steps == Ops \cup {"idle", "write", "append", "map", "mapput", "unregister", "drop",
                   "replace", "forget", "reg", "regput", "list", "old", "rmdir", "move",
                   "check", "back", "register", "clear", "done"}
Locals == [op : Ops \cup {"none"}, row : Row, perm : BOOLEAN, map : SUBSET Row,
           reg : SUBSET Rules, rows : SUBSET Row, todo : SUBSET Csvs,
           ids : SUBSET Nat, id : Nat]

\* What can become of contents.
Fates == {"no", "created_over", "replaced", "removed", "purged", "left_in_trash",
          "rule_restored_over", "csv_restored_over"}

\* What a request does at step p, and with which locals l.
Fits(p, l) ==
    /\ p = "idle" <=> l.op = "none"
    /\ p \in Ops => l.op = p
    /\ p = "write" => l.op \in {"create_csv", "approved_csv"}
    /\ p = "append" => l.op = "approved_csv"
    /\ p \in {"map", "mapput"} => l.op \in {"create_csv", "approved_csv", "restore"}
    /\ p = "unregister" => l.op = "create_csv"
    /\ p = "drop" => l.op = "remove_rule"
    /\ p \in {"replace", "forget", "list", "old", "move"} => l.op \in Removals
    /\ p \in {"reg", "regput"} =>
          l.op \in {"create_rule", "create_csv", "restore"} \cup Removals
    /\ p \in {"check", "back", "register", "clear"} => l.op = "restore"
    /\ p = "rmdir" => l.op \in {"restore", "purge"} \cup Removals

\* From here to there it has rules_rmw_lock.
Holding(p, l) ==
    \/ p \in {"replace", "forget", "reg", "regput", "back", "register", "clear"}
    \/ p \in {"map", "mapput"} /\ l.op # "create_csv"
    \/ p = "rmdir" /\ l.op = "restore"

\* A deletion has found what it deletes.
Removing(p, l) ==
    /\ l.op \in Removals
    /\ \/ p \in {"replace", "forget", "list", "old", "rmdir", "move"}
       \/ p \in {"reg", "regput"} /\ l.perm

\* Its rows are those of one rule, or one row.
Removed(l) ==
    \E x \in l.rows : IF l.op = "remove_csv" THEN l.rows = {x}
                      ELSE \A y \in l.rows : y[1] = x[1]

\* A restore has read its entry of the trash.
Restoring(p, l) == l.op = "restore" /\ p \notin {"restore", "done"}

AtStep(w) ==
    LET p == pc[w]
        l == loc[w]
    IN
    /\ Fits(p, l)
    /\ Holding(p, l) => lock = w
    /\ lock = w => Holding(p, l) \/ p = "done"
    /\ Removing(p, l) => Removed(l)
    /\ l.ids \subseteq DOMAIN trash
    /\ l.op \in {"restore", "purge"} \/ p \in {"rmdir", "move"} => l.id \in DOMAIN trash
    /\ Restoring(p, l) => l.row \in l.rows
    /\ Restoring(p, l) \/ p = "move" =>
          l.rows = trash[l.id].rows /\ l.todo \subseteq CsvsIn(l.rows)

TrashTypes == trash \in Seq(Entry) /\ \A i \in DOMAIN trash : Bundle(trash[i])

\* Requests that are about to make a CSV, one each.
Creating == {w \in Workers : pc[w] \in {"create_csv", "approved_csv", "write"}}
FreshTypes ==
    /\ fresh \in Nat /\ asked \in 0..MaxRequests
    /\ IsFiniteSet(Creating) /\ fresh + Cardinality(Creating) <= First + asked

Types ==
    /\ registry \in (SUBSET Rules) \cup {Torn}
    /\ mapping \in SUBSET Row
    /\ live \in [Csvs -> Contents]
    /\ TrashTypes
    /\ lock \in Workers \cup {NoOne}
    /\ pc \in [Workers -> Steps]
    /\ loc \in [Workers -> Locals]
    /\ FreshTypes
    /\ faults \in Nat
    /\ destroyed \in [Contents -> Fates]

TypeInv == Types /\ \A w \in Workers : AtStep(w)

\* The constants, and the values made of them, are of their types.
LEMMA ConstantTypes ==
    /\ AnyRow \in Row /\ Idle \in Locals
    /\ First \in Nat /\ MaxRequests \in Nat /\ MaxFaults \in Nat
    /\ 0 \in Contents /\ Contents \subseteq Nat /\ NoFiles \in [Csvs -> Contents]
    /\ \A x \in Row : x[1] \in Rules /\ x[2] \in Csvs
    /\ \A r \in Rules, c \in Csvs : <<r, c>> \in Row
    /\ \A map \in SUBSET Row : CsvsIn(map) \in SUBSET Csvs
    /\ \A map \in SUBSET Row, r \in Rules : RowsOf(r, map) \in SUBSET Row
    /\ NoOne \notin Workers /\ Torn \notin SUBSET Rules
  <1>1. AnyRow \in Row
    BY RulesAssumption DEF AnyRow
  <1>2. \A x \in Row : x[1] \in Rules /\ x[2] \in Csvs
    BY DEF Row
  <1>3. \A map \in SUBSET Row : CsvsIn(map) \in SUBSET Csvs
    BY <1>2 DEF CsvsIn
  <1>4. Idle \in Locals
    BY <1>1 DEF Idle, Locals
  <1>5. /\ First \in Nat /\ MaxRequests \in Nat /\ MaxFaults \in Nat
        /\ NoOne \notin Workers /\ Torn \notin SUBSET Rules
    BY RulesAssumption
  <1>6. 0 \in Contents /\ Contents \subseteq Nat /\ NoFiles \in [Csvs -> Contents]
    BY <1>5 DEF Contents, NoFiles
  <1> QED
    BY <1>1, <1>2, <1>3, <1>4, <1>5, <1>6 DEF RowsOf, Row

\* Steps that only look at the disk.
Looks(w) ==
    \/ Begin(w) \/ CreateRule(w) \/ CreateCsv(w) \/ ApprovedCsv(w) \/ AppendRow(w)
    \/ Unregister(w) \/ RemoveRule(w) \/ DropRule(w) \/ DetachCsv(w) \/ Forget(w)
    \/ Done(w) \/ ListTrash(w) \/ PurgeNone(w) \/ ReadMetadata(w) \/ CheckConflict(w)
    \/ MovedBack(w) \/ Register(w) \/ Crash(w)

\* Steps that change the registry, the mapping or the CSVs, ...
Writes(w) ==
    \/ ClearRegistry(w) \/ PutRegistry(w) \/ ClearMapping(w) \/ PutMapping(w)
    \/ ReplaceMapping(w) \/ WriteCsv(w) \/ TrashFails(w) \/ MapFails(w)

\* ... and those that change the trash.
Trashes(w) ==
    \/ EmptyOld(w) \/ RmDir(w) \/ MkDir(w) \/ Move(w) \/ WriteMetadata(w)
    \/ Purge(w) \/ Clear(w) \/ MoveBack(w)

\* Every step is one of these.
LEMMA StepIs ==
    ASSUME NEW w \in Workers
    PROVE  Step(w) <=> Looks(w) \/ Writes(w) \/ Trashes(w)
  BY DEF Step, Looks, Writes, Trashes

\* A step of w leaves the other requests alone, and takes the lock if it is free.
OthersRest(w) ==
    /\ \A v \in Workers \ {w} : pc'[v] = pc[v] /\ loc'[v] = loc[v]
    /\ \/ lock' = lock
       \/ lock = NoOne /\ lock' = w
       \/ lock = w /\ lock' = NoOne

\* A step that looks at the disk.
LEMMA LooksRest ==
    ASSUME TypeInv, NEW w \in Workers, Looks(w)
    PROVE  OthersRest(w) /\ UNCHANGED <<files, fresh, destroyed>>
  <1>1. pc \in [Workers -> Steps] /\ loc \in [Workers -> Locals]
    BY DEF TypeInv, Types
  <1>2. CASE Begin(w) \/ CreateRule(w) \/ CreateCsv(w) \/ ApprovedCsv(w) \/ AppendRow(w)
    BY <1>1, <1>2 DEF Begin, CreateRule, CreateCsv, ApprovedCsv, AppendRow, OthersRest,
                      Goto, Set, Take, Asks
  <1>3. CASE Unregister(w) \/ RemoveRule(w) \/ DropRule(w) \/ DetachCsv(w) \/ Forget(w)
    BY <1>1, <1>3 DEF Unregister, RemoveRule, DropRule, DetachCsv, Forget, OthersRest,
                      Goto, Set, Take, Free
  <1>4. CASE Done(w) \/ ListTrash(w) \/ PurgeNone(w) \/ ReadMetadata(w) \/ Crash(w)
    BY <1>1, <1>4 DEF Done, ListTrash, PurgeNone, ReadMetadata, Crash, OthersRest,
                      Goto, Set, Return, Free
  <1>5. CASE CheckConflict(w) \/ MovedBack(w) \/ Register(w)
    BY <1>1, <1>5 DEF CheckConflict, MovedBack, Register, OthersRest, Goto, Set, Take
  <1> QED
    BY <1>2, <1>3, <1>4, <1>5 DEF Looks

\* A step that changes the registry, the mapping or the CSVs.
LEMMA WritesRest ==
    ASSUME TypeInv, NEW w \in Workers, Writes(w)
    PROVE  OthersRest(w) /\ UNCHANGED <<trash, loc, asked>>
  <1>1. pc \in [Workers -> Steps] /\ loc \in [Workers -> Locals]
    BY DEF TypeInv, Types
  <1> QED
    BY <1>1 DEF Writes, ClearRegistry, PutRegistry, ClearMapping, PutMapping,
                ReplaceMapping, WriteCsv, TrashFails, MapFails, OthersRest, Goto, Free

\* No directory of the trash is forgotten, and each stays what it is.
Grown ==
    /\ DOMAIN trash \subseteq DOMAIN trash'
    /\ \A i \in DOMAIN trash : /\ trash'[i].rows = trash[i].rows
                               /\ trash'[i].kind = trash[i].kind

\* A directory i changes, into e.
LEMMA EntryChanges ==
    ASSUME TrashTypes, NEW i \in DOMAIN trash, NEW e \in Entry,
           e.rows = trash[i].rows, e.kind = trash[i].kind,
           \A c \in Csvs : e.files[c] # 0 => e.there /\ c \in CsvsIn(e.rows),
           trash' = [trash EXCEPT ![i] = e]
    PROVE  TrashTypes' /\ Grown /\ DOMAIN trash' = DOMAIN trash
  <1>1. Bundle(e)
    BY DEF TrashTypes, Bundle
  <1> QED
    BY <1>1 DEF TrashTypes, Grown

\* What is in hand about it.
LEMMA InHand ==
    ASSUME TypeInv, NEW w \in Workers
    PROVE  /\ pc[w] \in Steps /\ loc[w] \in Locals /\ AtStep(w)
           /\ \A i \in DOMAIN trash :
                 /\ trash[i] \in Entry /\ trash[i].files \in [Csvs -> Contents]
                 /\ \A c \in Csvs : trash[i].files[c] # 0 =>
                       trash[i].there /\ c \in CsvsIn(trash[i].rows)
           /\ \A c \in Csvs : live[c] \in Contents
           /\ trash \in Seq(Entry) /\ TrashTypes
  <1>1. TrashTypes /\ pc[w] \in Steps /\ loc[w] \in Locals /\ live \in [Csvs -> Contents]
    BY DEF TypeInv, Types
  <1>2. \A i \in DOMAIN trash : trash[i] \in Entry
    BY <1>1 DEF TrashTypes
  <1> QED
    BY <1>1, <1>2 DEF TypeInv, TrashTypes, Entry, Bundle

\* The steps that change the trash.
LEMMA TrashesRest ==
    ASSUME TypeInv, NEW w \in Workers, Trashes(w)
    PROVE  /\ OthersRest(w) /\ TrashTypes' /\ Grown
           /\ UNCHANGED <<registry, mapping, lock, fresh, asked, faults>>
           /\ live' \in [Csvs -> Contents] /\ destroyed' \in [Contents -> Fates]
  <1>1. /\ pc \in [Workers -> Steps] /\ loc \in [Workers -> Locals] /\ TrashTypes
        /\ live \in [Csvs -> Contents] /\ destroyed \in [Contents -> Fates]
    BY DEF TypeInv, Types
  <1>2. /\ loc[w] \in Locals /\ AtStep(w) /\ trash \in Seq(Entry)
        /\ \A i \in DOMAIN trash :
              /\ trash[i] \in Entry /\ trash[i].files \in [Csvs -> Contents]
              /\ \A c \in Csvs : trash[i].files[c] # 0 =>
                    trash[i].there /\ c \in CsvsIn(trash[i].rows)
        /\ \A c \in Csvs : live[c] \in Contents
        /\ NoFiles \in [Csvs -> Contents] /\ 0 \in Contents
    BY InHand, ConstantTypes
  <1> DEFINE Whole(e) == \A c \in Csvs : e.files[c] # 0 => e.there /\ c \in CsvsIn(e.rows)
  <1>3. OthersRest(w) /\ UNCHANGED <<registry, mapping, lock, fresh, asked, faults>>
    BY <1>1 DEF Trashes, EmptyOld, RmDir, MkDir, Move, WriteMetadata, Purge, Clear,
                MoveBack, Empty, Goto, Set, OthersRest
  <1> SUFFICES /\ TrashTypes' /\ Grown
               /\ live' \in [Csvs -> Contents] /\ destroyed' \in [Contents -> Fates]
    BY <1>3
  <1>4. ASSUME NEW i \in DOMAIN trash, NEW from, NEW why \in Fates, Empty(w, i, from, why)
        PROVE  /\ TrashTypes' /\ Grown
               /\ live' \in [Csvs -> Contents] /\ destroyed' \in [Contents -> Fates]
    <2> DEFINE e == [trash[i] EXCEPT !.files = NoFiles, !.meta = FALSE]
    <2>1. trash' = [trash EXCEPT ![i] = e]
      BY <1>4 DEF Empty
    <2>2. e \in Entry /\ Whole(e) /\ e.rows = trash[i].rows /\ e.kind = trash[i].kind
      BY <1>2 DEF Entry, NoFiles
    <2>3. destroyed' \in [Contents -> Fates] /\ live' = live
      BY <1>1, <1>4 DEF Empty, Destroy
    <2> HIDE DEF e
    <2> QED
      BY <1>1, <2>1, <2>2, <2>3, EntryChanges
  <1>5. CASE EmptyOld(w) \/ Purge(w) \/ Clear(w)
    <2>1. /\ EmptyOld(w) => loc[w].ids \subseteq DOMAIN trash
          /\ Purge(w) \/ Clear(w) => loc[w].id \in DOMAIN trash
      BY <1>2 DEF AtStep, Fits, Purge, Clear, Empty, Goto, Ops
    <2>2. CASE EmptyOld(w)
      <3>1. PICK i \in loc[w].ids : Empty(w, i, "old", "replaced")
        BY <2>2 DEF EmptyOld
      <3> QED
        BY <1>4, <2>1, <2>2, <3>1 DEF Fates
    <2>3. CASE Purge(w)
      BY <1>4, <2>1, <2>3 DEF Purge, Fates
    <2>4. CASE Clear(w)
      BY <1>4, <2>1, <2>4 DEF Clear, Fates
    <2> QED
      BY <1>5, <2>2, <2>3, <2>4
  <1>6. CASE RmDir(w)
    <2> DEFINE i == loc[w].id
               e == [trash[i] EXCEPT !.there = trash[i].files # NoFiles \/ trash[i].meta]
    <2>1. trash' = [trash EXCEPT ![i] = e] /\ i \in DOMAIN trash /\ pc[w] = "rmdir"
          /\ live' = live /\ destroyed' = destroyed
      BY <1>2, <1>6 DEF RmDir, AtStep, Goto
    <2>2. /\ trash[i] \in Entry /\ trash[i].files \in [Csvs -> Contents]
          /\ Whole(trash[i]) /\ (trash[i].files # NoFiles \/ trash[i].meta) \in BOOLEAN
      BY <1>2, <2>1 DEF Entry
    <2>3. \A c \in Csvs : trash[i].files[c] # 0 => trash[i].files # NoFiles
      BY DEF NoFiles
    <2>4. e \in Entry /\ Whole(e) /\ e.rows = trash[i].rows /\ e.kind = trash[i].kind
      <3>1. /\ e.files = trash[i].files /\ e.rows = trash[i].rows
            /\ e.there = (trash[i].files # NoFiles \/ trash[i].meta)
        BY <2>2 DEF Entry
      <3> QED
        BY <2>2, <2>3, <3>1 DEF Entry
    <2> HIDE DEF e, i
    <2> QED
      BY <1>1, <2>1, <2>4, EntryChanges
  <1>7. CASE MkDir(w)
    <2> DEFINE l == loc[w]
               e == [there |-> TRUE, meta |-> FALSE, kind |-> Kind(l.op),
                     rows |-> l.rows, name |-> Name(l), files |-> NoFiles]
    <2>1. /\ trash' = Append(trash, e) /\ pc[w] = "old" /\ live' = live
          /\ destroyed' = destroyed
      BY <1>7 DEF MkDir, Goto
    <2>2. l.op \in Removals /\ Removed(l) /\ l.rows \in SUBSET Row /\ l.row \in Row
      BY <1>2, <2>1 DEF AtStep, Fits, Removing, Locals
    <2>3. e \in Entry
      BY <1>2, <2>2, ConstantTypes DEF Entry, Kind, Name
    <2>4. Bundle(e)
      BY <2>2 DEF Removed, Bundle, NoFiles, Kind, Removals
    <2>5. \A k \in DOMAIN trash' : trash'[k] = IF k \in DOMAIN trash THEN trash[k] ELSE e
      BY <1>2, <2>1
    <2>6. trash' \in Seq(Entry) /\ DOMAIN trash \subseteq DOMAIN trash'
      BY <1>2, <2>1, <2>3
    <2> HIDE DEF e
    <2> QED
      BY <1>1, <1>2, <2>1, <2>4, <2>5, <2>6 DEF TrashTypes, Grown
  <1>8. CASE Move(w)
    <2> DEFINE i == loc[w].id
    <2>1. PICK c \in loc[w].todo :
            /\ live[c] # 0 => trash[i].there
            /\ pc[w] = "move" /\ destroyed' = destroyed
            /\ IF live[c] # 0
               THEN /\ trash' = [trash EXCEPT ![i].files[c] = live[c]]
                    /\ live' = [live EXCEPT ![c] = 0]
               ELSE UNCHANGED <<trash, live>>
      BY <1>8 DEF Move, Goto
    <2>2. /\ i \in DOMAIN trash /\ loc[w].rows = trash[i].rows /\ c \in CsvsIn(loc[w].rows)
          /\ c \in Csvs
      BY <1>2, <2>1 DEF AtStep, Locals
    <2> DEFINE e == [trash[i] EXCEPT !.files[c] = live[c]]
    <2>3. live[c] # 0 => e \in Entry /\ Whole(e) /\ e.rows = trash[i].rows
                         /\ e.kind = trash[i].kind
      BY <1>2, <2>1, <2>2, ZenonT(30) DEF Entry
    <2>4. live[c] # 0 => trash' = [trash EXCEPT ![i] = e]
      BY <2>1
    <2>5. live' \in [Csvs -> Contents]
      BY <1>1, <1>2, <2>1, <2>2
    <2> HIDE DEF e, i
    <2>6. CASE live[c] # 0
      BY <1>1, <2>1, <2>2, <2>3, <2>4, <2>5, <2>6, EntryChanges
    <2>7. CASE live[c] = 0
      BY <1>1, <2>1, <2>5, <2>7 DEF TrashTypes, Grown
    <2> QED BY <2>6, <2>7
  <1>9. CASE WriteMetadata(w)
    <2> DEFINE i == loc[w].id
               e == [trash[i] EXCEPT !.meta = TRUE]
    <2>1. trash' = [trash EXCEPT ![i] = e] /\ i \in DOMAIN trash /\ pc[w] = "move"
          /\ live' = live /\ destroyed' = destroyed
      BY <1>2, <1>9 DEF WriteMetadata, AtStep, Goto
    <2>2. trash[i] \in Entry /\ Whole(trash[i])
      BY <1>2, <2>1
    <2>3. e \in Entry /\ Whole(e) /\ e.rows = trash[i].rows /\ e.kind = trash[i].kind
      BY <2>2 DEF Entry
    <2> HIDE DEF e, i
    <2> QED
      BY <1>1, <2>1, <2>3, EntryChanges
  <1>10. CASE MoveBack(w)
    <2> DEFINE i == loc[w].id
    <2>1. PICK c \in loc[w].todo :
            /\ pc[w] = "back"
            /\ IF trash[i].files[c] # 0
               THEN /\ live' = [live EXCEPT ![c] = trash[i].files[c]]
                    /\ trash' = [trash EXCEPT ![i].files[c] = 0]
                    /\ Destroy({live[c]}, IF trash[i].kind = "rule" THEN "rule_restored_over"
                                          ELSE "csv_restored_over")
               ELSE UNCHANGED <<live, trash, destroyed>>
      BY <1>10 DEF MoveBack, Goto
    <2>2. i \in DOMAIN trash /\ c \in Csvs
      BY <1>2, <2>1 DEF AtStep, Locals, Fits
    <2> DEFINE e == [trash[i] EXCEPT !.files[c] = 0]
    <2>3. e \in Entry /\ Whole(e) /\ e.rows = trash[i].rows /\ e.kind = trash[i].kind
      BY <1>2, <2>2, ZenonT(30) DEF Entry
    <2>4. live' \in [Csvs -> Contents] /\ destroyed' \in [Contents -> Fates]
      BY <1>1, <1>2, <2>1, <2>2, ZenonT(30) DEF Destroy, Fates
    <2>5. trash[i].files[c] # 0 => trash' = [trash EXCEPT ![i] = e]
      BY <2>1
    <2> HIDE DEF e, i
    <2>6. CASE trash[i].files[c] # 0
      BY <1>1, <2>2, <2>3, <2>4, <2>5, <2>6, EntryChanges
    <2>7. CASE trash[i].files[c] = 0
      BY <1>1, <2>1, <2>4, <2>7 DEF TrashTypes, Grown
    <2> QED BY <2>6, <2>7
  <1> QED
    BY <1>5, <1>6, <1>7, <1>8, <1>9, <1>10 DEF Trashes

\* Where a request goes when it has written one of the two files.
LEMMA AfterIs ==
    /\ \A op : AfterMap(op) = IF op = "create_csv" THEN "unregister"
                              ELSE IF op = "approved_csv" THEN "done"
                              ELSE IF op = "restore" THEN "register" ELSE "forget"
    /\ \A op, perm : AfterReg(op, perm) = IF op = "restore" THEN "clear"
                                          ELSE IF op \in Removals /\ perm THEN "list"
                                          ELSE "done"
  BY DEF AfterMap, AfterReg, Removals

\* A set gets smaller, or gets one member.
LEMMA OneMore ==
    ASSUME NEW S, IsFiniteSet(S), NEW T, NEW x
    PROVE  /\ T \subseteq S => IsFiniteSet(T) /\ Cardinality(T) <= Cardinality(S)
           /\ T \subseteq S \cup {x} => IsFiniteSet(T) /\ Cardinality(T) <= Cardinality(S) + 1
           /\ x \in S /\ T \subseteq S \ {x} => IsFiniteSet(T)
                                                /\ Cardinality(T) + 1 <= Cardinality(S)
           /\ Cardinality(S) \in Nat
  <1>1. Cardinality(S) \in Nat
    BY FS_CardinalityType
  <1>2. /\ IsFiniteSet(S \cup {x}) /\ IsFiniteSet(S \ {x})
        /\ Cardinality(S \cup {x}) = IF x \in S THEN Cardinality(S) ELSE Cardinality(S) + 1
        /\ Cardinality(S \ {x}) = IF x \in S THEN Cardinality(S) - 1 ELSE Cardinality(S)
    BY FS_AddElement, FS_RemoveElement
  <1>3. T \subseteq S => IsFiniteSet(T) /\ Cardinality(T) <= Cardinality(S)
    BY FS_Subset
  <1>4. T \subseteq S \cup {x} =>
           IsFiniteSet(T) /\ Cardinality(T) <= Cardinality(S \cup {x})
    BY <1>2, FS_Subset
  <1>5. T \subseteq S \ {x} => IsFiniteSet(T) /\ Cardinality(T) <= Cardinality(S \ {x})
    BY <1>2, FS_Subset
  <1>6. T \subseteq S \cup {x} \/ T \subseteq S \ {x} => Cardinality(T) \in Nat
    BY <1>4, <1>5, FS_CardinalityType
  <1> QED
    BY <1>1, <1>2, <1>3, <1>4, <1>5, <1>6

\* Only a request that begins comes to be about to make a CSV.
LEMMA CreatingIs ==
    ASSUME TypeInv, NEW w \in Workers, Step(w)
    PROVE  /\ Begin(w) => Creating' \subseteq Creating \cup {w}
           /\ WriteCsv(w) => Creating' \subseteq Creating \ {w} /\ w \in Creating
           /\ ~Begin(w) /\ ~WriteCsv(w) => Creating' \subseteq Creating
                                           /\ fresh' = fresh /\ asked' = asked
  <1> DEFINE Early == {"create_csv", "approved_csv", "write"}
  <1>1. pc \in [Workers -> Steps] /\ Fits(pc[w], loc[w])
    BY DEF TypeInv, Types, AtStep
  <1>2. OthersRest(w)
    BY LooksRest, WritesRest, TrashesRest, StepIs
  <1>3. WriteCsv(w) => pc'[w] \notin Early /\ pc[w] \in Early
    BY <1>1 DEF WriteCsv, Goto
  <1>4. ~Begin(w) /\ Looks(w) =>
           (pc'[w] \in Early => pc[w] \in Early) /\ fresh' = fresh /\ asked' = asked
    BY <1>1, AfterIs
       DEF Looks, CreateRule, CreateCsv, ApprovedCsv, AppendRow, Unregister, RemoveRule,
           DropRule, DetachCsv, Forget, Done, ListTrash, PurgeNone, ReadMetadata,
           CheckConflict, MovedBack, Register, Crash, Goto, Return
  <1>5. ~WriteCsv(w) /\ Writes(w) =>
           (pc'[w] \in Early => pc[w] \in Early) /\ fresh' = fresh /\ asked' = asked
    BY <1>1, AfterIs
       DEF Writes, ClearRegistry, PutRegistry, ClearMapping, PutMapping, ReplaceMapping,
           TrashFails, MapFails, Goto
  <1>6. Trashes(w) => pc'[w] \notin Early /\ fresh' = fresh /\ asked' = asked
    BY <1>1 DEF Trashes, EmptyOld, RmDir, MkDir, Move, WriteMetadata, Purge, Clear,
                MoveBack, Empty, Goto
  <1>7. ASSUME NEW v \in Workers, v # w PROVE pc'[v] = pc[v]
    BY <1>2, <1>7 DEF OthersRest
  <1>8. Creating' \subseteq Creating \cup {w} /\ (pc'[w] \notin Early => w \notin Creating')
    BY <1>7 DEF Creating
  <1>9. pc[w] \in Early <=> w \in Creating
    BY DEF Creating
  <1> QED
    BY <1>3, <1>4, <1>5, <1>6, <1>8, <1>9, StepIs

\* There are no more contents than were there and asked for.
LEMMA FreshStep ==
    ASSUME TypeInv, NEW w \in Workers, Step(w)
    PROVE  FreshTypes' /\ fresh \in Contents /\ fresh' \in Contents
  <1>1. FreshTypes /\ First \in Nat /\ MaxRequests \in Nat
    BY ConstantTypes DEF TypeInv, Types
  <1>2. Begin(w) => asked' = asked + 1 /\ asked' \in 0..MaxRequests /\ fresh' = fresh
    BY <1>1 DEF Begin, FreshTypes
  <1>3. WriteCsv(w) => fresh' = fresh + 1 /\ asked' = asked
    BY DEF WriteCsv
  <1>4. FreshTypes'
    <2>1. CASE Begin(w)
      <3>1. Creating' \subseteq Creating \cup {w} /\ IsFiniteSet(Creating)
        BY <1>1, <2>1, CreatingIs DEF FreshTypes
      <3>2. /\ IsFiniteSet(Creating') /\ Cardinality(Creating') <= Cardinality(Creating) + 1
            /\ Cardinality(Creating) \in Nat /\ Cardinality(Creating') \in Nat
        BY <3>1, OneMore, FS_CardinalityType
      <3> QED
        BY <1>1, <1>2, <2>1, <3>2 DEF FreshTypes
    <2>2. CASE WriteCsv(w)
      BY <1>1, <1>3, <2>2, CreatingIs, OneMore DEF FreshTypes
    <2>3. CASE ~Begin(w) /\ ~WriteCsv(w)
      <3>1. Creating' \subseteq Creating /\ IsFiniteSet(Creating)
            /\ fresh' = fresh /\ asked' = asked
        BY <1>1, <2>3, CreatingIs DEF FreshTypes
      <3>2. /\ IsFiniteSet(Creating') /\ Cardinality(Creating') <= Cardinality(Creating)
            /\ Cardinality(Creating) \in Nat /\ Cardinality(Creating') \in Nat
        BY <3>1, OneMore, FS_CardinalityType
      <3> QED
        BY <1>1, <3>1, <3>2 DEF FreshTypes
    <2> QED BY <2>1, <2>2, <2>3
  <1>5. Cardinality(Creating) \in Nat /\ Cardinality(Creating') \in Nat
    BY <1>1, <1>4, FS_CardinalityType DEF FreshTypes
  <1> QED
    BY <1>1, <1>4, <1>5 DEF FreshTypes, Contents

\* The requests that rest are where they were.
LEMMA OthersStay ==
    ASSUME TypeInv, NEW w \in Workers, OthersRest(w), Grown, NEW v \in Workers, v # w
    PROVE  AtStep(v)'
  <1>1. pc'[v] = pc[v] /\ loc'[v] = loc[v] /\ (lock' = v <=> lock = v)
    BY ConstantTypes DEF OthersRest
  <1>2. AtStep(v)
    BY DEF TypeInv
  <1>3. Restoring(pc[v], loc[v]) \/ pc[v] = "move" => loc[v].id \in DOMAIN trash
    BY <1>2 DEF AtStep, Restoring
  <1>4. loc[v].id \in DOMAIN trash =>
           loc[v].id \in DOMAIN trash' /\ trash'[loc[v].id].rows = trash[loc[v].id].rows
    BY DEF Grown
  <1>5. loc[v].ids \subseteq DOMAIN trash => loc[v].ids \subseteq DOMAIN trash'
    BY DEF Grown
  <1> QED
    BY <1>1, <1>2, <1>3, <1>4, <1>5 DEF AtStep

\* What a step that looks at the disk makes of its request.
LEMMA LooksTypes ==
    ASSUME TypeInv, NEW w \in Workers, Looks(w)
    PROVE  /\ pc' \in [Workers -> Steps] /\ loc' \in [Workers -> Locals]
           /\ lock' \in Workers \cup {NoOne} /\ faults' \in Nat
           /\ AtStep(w)'
  <1>1. /\ pc \in [Workers -> Steps] /\ loc \in [Workers -> Locals] /\ faults \in Nat
        /\ lock \in Workers \cup {NoOne} /\ mapping \in SUBSET Row
        /\ registry \in (SUBSET Rules) \cup {Torn} /\ trash' = trash
    BY LooksRest DEF TypeInv, Types, files
  <1>2. /\ pc[w] \in Steps /\ loc[w] \in Locals /\ AtStep(w) /\ w # NoOne
        /\ Known(registry) \in SUBSET Rules
        /\ loc[w].row \in Row /\ loc[w].row[1] \in Rules /\ loc[w].row[2] \in Csvs
    <2>1. pc[w] \in Steps /\ loc[w] \in Locals /\ AtStep(w) /\ w # NoOne
      BY InHand, ConstantTypes
    <2>2. loc[w].row \in Row
      BY <2>1 DEF Locals
    <2>3. loc[w].row[1] \in Rules /\ loc[w].row[2] \in Csvs
      BY <2>2 DEF Row
    <2> QED
      BY <1>1, <2>1, <2>2, <2>3 DEF Known
  <1> DOMAIN trash \subseteq Nat /\ Idle \in Locals /\ AnyRow \in Row
    BY InHand, ConstantTypes
  <1>3. /\ loc'[w] \in Locals /\ pc'[w] \in Steps
        /\ pc' = [pc EXCEPT ![w] = pc'[w]] /\ loc' = [loc EXCEPT ![w] = loc'[w]]
        /\ lock' \in {lock, w, NoOne} /\ faults' \in {faults, faults + 1} /\ AtStep(w)'
    <2>1. CASE Begin(w)
      <3>1. PICK q \in Asks :
              /\ q.op \in Does[w] /\ (q.id # 0 => q.id \in DOMAIN trash)
              /\ pc[w] = "idle" /\ pc' = [pc EXCEPT ![w] = q.op]
              /\ loc' = [loc EXCEPT ![w] = [Idle EXCEPT !.op = q.op, !.row = q.row,
                                                        !.perm = q.perm, !.id = q.id]]
        BY <2>1 DEF Begin, Goto
      <3>2. /\ q.op \in Ops /\ q.row \in Row /\ q.perm \in BOOLEAN /\ q.id \in Nat
            /\ q.op \in {"restore", "purge"} => q.id # 0
        <4>1. OfRule \subseteq Row
          BY ConstantTypes DEF OfRule
        <4>2. {FALSE} \in SUBSET BOOLEAN /\ BOOLEAN \in SUBSET BOOLEAN
          OBVIOUS
        <4>3. ASSUME NEW ops, NEW rows, NEW perms \in SUBSET BOOLEAN, NEW ids,
                     q \in Of(ops, rows, perms, ids)
              PROVE  q.op \in ops /\ q.row \in rows /\ q.perm \in BOOLEAN /\ q.id \in ids
          BY <4>3 DEF Of
        <4>4. \/ q \in Of({"restore", "purge"}, {AnyRow}, {FALSE}, 1..MaxRequests)
              \/ q \in Of({"create_rule"}, OfRule, {FALSE}, {0})
              \/ q \in Of({"create_csv", "approved_csv"}, Row, {FALSE}, {0})
              \/ q \in Of({"remove_rule"}, OfRule, BOOLEAN, {0})
              \/ q \in Of({"remove_csv"}, Row, BOOLEAN, {0})
          BY DEF Asks
        <4>5. CASE q \in Of({"restore", "purge"}, {AnyRow}, {FALSE}, 1..MaxRequests)
          <5>1. /\ q.op \in {"restore", "purge"} /\ q.row \in {AnyRow} /\ q.perm \in BOOLEAN
                /\ q.id \in 1..MaxRequests
            BY <4>2, <4>3, <4>5
          <5> QED
            BY <5>1, ConstantTypes DEF Ops
        <4>6. CASE q \in Of({"create_rule"}, OfRule, {FALSE}, {0})
          <5>1. q.op \in {"create_rule"} /\ q.row \in OfRule /\ q.perm \in BOOLEAN /\ q.id \in {0}
            BY <4>2, <4>3, <4>6
          <5> QED
            BY <4>1, <5>1 DEF Ops
        <4>7. CASE q \in Of({"create_csv", "approved_csv"}, Row, {FALSE}, {0})
          <5>1. q.op \in {"create_csv", "approved_csv"} /\ q.row \in Row /\ q.perm \in BOOLEAN /\ q.id \in {0}
            BY <4>2, <4>3, <4>7
          <5> QED
            BY <5>1 DEF Ops
        <4>8. CASE q \in Of({"remove_rule"}, OfRule, BOOLEAN, {0})
          <5>1. q.op \in {"remove_rule"} /\ q.row \in OfRule /\ q.perm \in BOOLEAN /\ q.id \in {0}
            BY <4>2, <4>3, <4>8
          <5> QED
            BY <4>1, <5>1 DEF Ops
        <4>9. CASE q \in Of({"remove_csv"}, Row, BOOLEAN, {0})
          <5>1. q.op \in {"remove_csv"} /\ q.row \in Row /\ q.perm \in BOOLEAN /\ q.id \in {0}
            BY <4>2, <4>3, <4>9
          <5> QED
            BY <5>1 DEF Ops
        <4> QED
          BY <4>4, <4>5, <4>6, <4>7, <4>8, <4>9
      <3>3. loc'[w] = [Idle EXCEPT !.op = q.op, !.row = q.row, !.perm = q.perm, !.id = q.id]
        BY <1>1, <3>1
      <3>4. loc'[w] \in Locals /\ loc'[w].op = q.op /\ loc'[w].ids = {} /\ loc'[w].id = q.id
        BY <3>2, <3>3, ConstantTypes, ZenonT(30) DEF Locals, Idle
      <3>5. pc'[w] = q.op /\ lock' = lock /\ faults' = faults
        BY <1>1, <2>1, <3>1 DEF Begin
      <3>6. lock # w
        BY <1>2, <3>1 DEF AtStep, Holding
      <3>7. ~Holding(q.op, loc'[w]) /\ ~Removing(q.op, loc'[w]) /\ ~Restoring(q.op, loc'[w])
            /\ Fits(q.op, loc'[w])
        BY <3>2, <3>4 DEF Holding, Removing, Restoring, Fits, Ops
      <3>8. AtStep(w)'
        BY <1>1, <3>1, <3>2, <3>4, <3>5, <3>6, <3>7 DEF AtStep, Ops
      <3> QED
        BY <1>1, <3>1, <3>2, <3>3, <3>4, <3>5, <3>8 DEF Steps
    <2>2. CASE CreateRule(w) \/ CreateCsv(w) \/ ApprovedCsv(w)
      <3>1. CASE CreateRule(w)
        BY <1>1, <1>2, <3>1
           DEF CreateRule, Goto, Set, Take, AtStep, Fits, Holding,
               Removing, Restoring, Locals, Steps, Ops, Removals
      <3>2. CASE CreateCsv(w)
        <4>1. mapping \cup {<<loc[w].row[1], loc[w].row[2]>>} \in SUBSET Row
          BY <1>1, <1>2 DEF Row
        <4> QED
          BY <1>1, <1>2, <3>2, <4>1
             DEF CreateCsv, Goto, Set, AtStep, Fits, Holding,
                 Removing, Restoring, Locals, Steps, Ops, Removals
      <3>3. CASE ApprovedCsv(w)
        BY <1>1, <1>2, <3>3
           DEF ApprovedCsv, Goto, AtStep, Fits, Holding,
               Removing, Restoring, Locals, Steps, Ops, Removals
      <3> QED
        BY <2>2, <3>1, <3>2, <3>3
    <2>3. CASE AppendRow(w) \/ Unregister(w) \/ RemoveRule(w)
      BY <1>1, <1>2, <2>3
         DEF AppendRow, Unregister, RemoveRule, Goto, Set, Take, AtStep, Fits, Holding,
             Removing, Restoring, Locals, Steps, Ops, Removals
    <2>4. CASE DropRule(w)
      BY <1>1, <1>2, <2>4
         DEF DropRule, RowsOf, Goto, Set, Take, AtStep, Fits, Holding,
             Removing, Removed, Restoring, Locals, Steps, Ops, Removals
    <2>5. CASE DetachCsv(w)
      BY <1>1, <1>2, <2>5
         DEF DetachCsv, Goto, Set, Take, AtStep, Fits, Holding,
             Removing, Removed, Restoring, Locals, Steps, Ops, Removals
    <2>6. CASE Forget(w)
      BY <1>1, <1>2, <2>6, AfterIs
         DEF Forget, Goto, Set, Free, AtStep, Fits, Holding,
             Removing, Removed, Restoring, Locals, Steps, Ops, Removals
    <2>7. CASE Done(w) \/ Crash(w)
      <3>1. /\ pc' = [pc EXCEPT ![w] = "idle"] /\ loc' = [loc EXCEPT ![w] = Idle]
            /\ lock' = (IF lock = w THEN NoOne ELSE lock)
            /\ faults' \in {faults, faults + 1}
        BY <2>7 DEF Done, Crash, Fault, Return, Free
      <3>2. pc'[w] = "idle" /\ loc'[w] = Idle /\ lock' # w
        BY <1>1, <1>2, <3>1
      <3>3. AtStep(w)'
        BY <3>2 DEF Idle, AtStep, Fits, Holding, Removing, Restoring, Ops, Removals
      <3> QED
        BY <1>1, <1>2, <3>1, <3>2, <3>3 DEF Steps
    <2>8. CASE ListTrash(w) \/ PurgeNone(w)
      BY <1>1, <1>2, <2>8
         DEF ListTrash, PurgeNone, Goto, Set, AtStep, Fits, Holding,
             Removing, Removed, Restoring, Locals, Steps, Ops, Removals
    <2>9. CASE ReadMetadata(w)
      <3> DEFINE e == trash[loc[w].id]
                 x == CHOOSE x \in e.rows : TRUE
      <3>1. pc[w] = "restore" /\ loc[w].op = "restore" /\ loc[w].id \in DOMAIN trash
        BY <1>2, <2>9 DEF ReadMetadata, AtStep, Fits, Ops
      <3>2. e \in Entry /\ Bundle(e)
        BY <3>1, InHand DEF TrashTypes
      <3>3. e.rows \in SUBSET Row /\ x \in e.rows /\ CsvsIn(e.rows) \in SUBSET Csvs
        BY <3>2, ConstantTypes DEF Entry, Bundle
      <3>4. \/ pc'[w] = "done" /\ loc' = loc
            \/ /\ pc'[w] = "check"
               /\ loc' = [loc EXCEPT ![w].rows = e.rows, ![w].todo = CsvsIn(e.rows),
                                     ![w].row = x]
        BY <1>1, <2>9 DEF ReadMetadata, Goto
      <3>5. lock' = lock /\ faults' = faults /\ pc' = [pc EXCEPT ![w] = pc'[w]]
        BY <1>1, <2>9 DEF ReadMetadata, Goto
      <3> HIDE DEF e, x
      <3>6. loc'[w] \in Locals /\ loc' = [loc EXCEPT ![w] = loc'[w]] /\ pc'[w] \in Steps
        BY <1>1, <1>2, <3>3, <3>4 DEF Locals, Steps
      <3>7. CASE loc' = loc /\ pc'[w] = "done"
        BY <1>1, <1>2, <3>1, <3>5, <3>6, <3>7
           DEF AtStep, Fits, Holding, Removing, Restoring, Ops, Removals
      <3>8. CASE /\ pc'[w] = "check"
                 /\ loc' = [loc EXCEPT ![w].rows = e.rows, ![w].todo = CsvsIn(e.rows),
                                       ![w].row = x]
        <4>1. /\ loc'[w].op = "restore" /\ loc'[w].rows = e.rows /\ loc'[w].row = x
              /\ loc'[w].todo = CsvsIn(e.rows) /\ loc'[w].id = loc[w].id
              /\ loc'[w].ids = loc[w].ids
          BY <1>1, <1>2, <3>1, <3>8 DEF Locals
        <4>2. e = trash'[loc'[w].id]
          BY <1>1, <4>1 DEF e
        <4> QED
          BY <1>1, <1>2, <3>1, <3>3, <3>5, <3>6, <3>8, <4>1, <4>2
             DEF AtStep, Fits, Holding, Removing, Restoring, Ops, Removals
      <3> QED
        BY <3>4, <3>7, <3>8
    <2>10. CASE CheckConflict(w)
      <3>1. /\ lock = NoOne /\ lock' = w /\ pc[w] = "check" /\ pc'[w] \in {"back", "done"}
            /\ pc' = [pc EXCEPT ![w] = pc'[w]] /\ loc' = [loc EXCEPT ![w].map = mapping]
            /\ faults' = faults
        BY <1>1, <2>10 DEF CheckConflict, Take, Goto, Set
      <3> QED
        BY <1>1, <1>2, <3>1
           DEF AtStep, Fits, Holding, Removing, Restoring, Locals, Steps, Ops, Removals
    <2>11. CASE MovedBack(w)
      <3> DEFINE map == IF trash[loc[w].id].kind = "csv" THEN mapping ELSE loc[w].map
      <3>1. /\ lock' = lock /\ faults' = faults /\ pc[w] = "back"
            /\ pc'[w] \in {"done", "register", "map"}
            /\ pc' = [pc EXCEPT ![w] = pc'[w]]
            /\ loc' = [loc EXCEPT ![w].map = map \cup loc[w].rows]
        BY <1>1, <2>11 DEF MovedBack, Goto, Set
      <3>2. map \cup loc[w].rows \in SUBSET Row
        BY <1>1, <1>2 DEF Locals
      <3> HIDE DEF map
      <3> QED
        BY <1>1, <1>2, <3>1, <3>2
           DEF AtStep, Fits, Holding, Removing, Restoring, Locals, Steps, Ops, Removals
    <2>12. CASE Register(w)
      BY <1>1, <1>2, <2>12
         DEF Register, Goto, Set, AtStep, Fits, Holding,
             Removing, Restoring, Locals, Steps, Ops, Removals
    <2> QED
      BY <2>1, <2>2, <2>3, <2>4, <2>5, <2>6, <2>7, <2>8, <2>9, <2>10, <2>11, <2>12 DEF Looks
  <1> QED
    BY <1>1, <1>3

\* What a step makes of its request that changes the registry, the mapping or the CSVs.
LEMMA WritesTypes ==
    ASSUME TypeInv, NEW w \in Workers, Writes(w)
    PROVE  /\ registry' \in (SUBSET Rules) \cup {Torn} /\ mapping' \in SUBSET Row
           /\ live' \in [Csvs -> Contents] /\ destroyed' \in [Contents -> Fates]
           /\ pc' \in [Workers -> Steps]
           /\ lock' \in Workers \cup {NoOne} /\ faults' \in Nat
           /\ AtStep(w)'
  <1>1. /\ pc \in [Workers -> Steps] /\ faults \in Nat /\ destroyed \in [Contents -> Fates]
        /\ lock \in Workers \cup {NoOne} /\ mapping \in SUBSET Row
        /\ registry \in (SUBSET Rules) \cup {Torn} /\ live \in [Csvs -> Contents]
        /\ trash' = trash /\ loc' = loc
    BY WritesRest DEF TypeInv, Types
  <1>2. /\ pc[w] \in Steps /\ loc[w] \in Locals /\ AtStep(w) /\ w # NoOne
        /\ loc[w].row[2] \in Csvs /\ 0 \in Contents
        /\ loc[w].reg \in SUBSET Rules /\ loc[w].map \in SUBSET Row
    <2>1. pc[w] \in Steps /\ loc[w] \in Locals /\ AtStep(w) /\ w # NoOne /\ 0 \in Contents
      BY InHand, ConstantTypes
    <2>2. loc[w].row \in Row /\ loc[w].reg \in SUBSET Rules /\ loc[w].map \in SUBSET Row
      BY <2>1 DEF Locals
    <2> QED
      BY <2>1, <2>2 DEF Row
  <1>3. fresh' \in Contents
    BY FreshStep, StepIs
  <1>4. ASSUME NEW ds, NEW why \in Fates, Destroy(ds, why)
        PROVE  destroyed' \in [Contents -> Fates]
    BY <1>1, <1>4 DEF Destroy
  <1>5. CASE ClearRegistry(w)
    BY <1>1, <1>2, <1>5
       DEF ClearRegistry, Goto, AtStep, Fits, Holding, Removing, Restoring, Steps, Ops
  <1>6. CASE PutRegistry(w)
    <2>1. /\ pc[w] = "regput" /\ registry' = loc[w].reg
          /\ pc' = [pc EXCEPT ![w] = AfterReg(loc[w].op, loc[w].perm)]
          /\ lock' = IF loc[w].op = "restore" THEN lock
                     ELSE IF lock = w THEN NoOne ELSE lock
          /\ UNCHANGED <<mapping, live, faults, destroyed>>
      BY <1>6, AfterIs DEF PutRegistry, Goto, Free
    <2> QED
      BY <1>1, <1>2, <2>1, AfterIs
         DEF AtStep, Fits, Holding, Removing, Restoring, Steps, Ops, Removals
  <1>7. CASE ClearMapping(w) \/ PutMapping(w)
    BY <1>1, <1>2, <1>7, AfterIs
       DEF ClearMapping, PutMapping, Goto, AtStep, Fits, Holding, Removing, Restoring,
           Steps, Ops, Removals
  <1>8. CASE ReplaceMapping(w)
    BY <1>1, <1>2, <1>8
       DEF ReplaceMapping, Goto, AtStep, Fits, Holding, Removing, Restoring,
           Steps, Ops, Removals
  <1>9. CASE WriteCsv(w)
    <2>1. Destroy({live[loc[w].row[2]]}, "created_over") /\ "created_over" \in Fates
      BY <1>9 DEF WriteCsv, Fates
    <2>2. live' \in [Csvs -> Contents]
      BY <1>1, <1>2, <1>3, <1>9 DEF WriteCsv
    <2>3. AtStep(w)'
      BY <1>1, <1>2, <1>9
         DEF WriteCsv, Goto, AtStep, Fits, Holding, Removing, Restoring, Ops, Removals
    <2> QED
      BY <1>1, <1>4, <1>9, <2>1, <2>2, <2>3 DEF WriteCsv, Goto, Steps
  <1>10. CASE TrashFails(w)
    <2>1. Destroy({live[c] : c \in CsvsIn(loc[w].rows)}, "removed") /\ "removed" \in Fates
      BY <1>10 DEF TrashFails, Fates
    <2>2. live' \in [Csvs -> Contents]
      BY <1>1, <1>2, <1>10 DEF TrashFails
    <2>3. AtStep(w)' /\ pc' \in [Workers -> Steps] /\ faults' \in Nat
      BY <1>1, <1>2, <1>10
         DEF TrashFails, Goto, AtStep, Fits, Holding, Removing, Restoring, Ops, Removals, Steps
    <2> QED
      BY <1>1, <1>4, <1>10, <2>1, <2>2, <2>3 DEF TrashFails
  <1>11. CASE MapFails(w)
    <2>1. live' \in [Csvs -> Contents] /\ destroyed' \in [Contents -> Fates]
      BY <1>1, <1>2, <1>4, <1>11 DEF MapFails, Fates
    <2>2. AtStep(w)' /\ pc' \in [Workers -> Steps] /\ faults' \in Nat
      BY <1>1, <1>2, <1>11
         DEF MapFails, Fault, Goto, AtStep, Fits, Holding, Removing, Restoring, Ops,
             Removals, Steps
    <2> QED
      BY <1>1, <1>11, <2>1, <2>2 DEF MapFails
  <1> QED
    BY <1>5, <1>6, <1>7, <1>8, <1>9, <1>10, <1>11 DEF Writes

\* And one that changes the trash.
LEMMA TrashesTypes ==
    ASSUME TypeInv, NEW w \in Workers, Trashes(w)
    PROVE  pc' \in [Workers -> Steps] /\ loc' \in [Workers -> Locals] /\ AtStep(w)'
  <1>1. /\ pc \in [Workers -> Steps] /\ loc \in [Workers -> Locals] /\ lock' = lock
        /\ Grown
    BY TrashesRest DEF TypeInv, Types
  <1>2. /\ pc[w] \in Steps /\ loc[w] \in Locals /\ AtStep(w)
        /\ loc[w].rows \in SUBSET Row /\ loc[w].ids \in SUBSET DOMAIN trash
        /\ trash \in Seq(Entry) /\ DOMAIN trash \subseteq Nat
    <2>1. pc[w] \in Steps /\ loc[w] \in Locals /\ AtStep(w) /\ trash \in Seq(Entry)
      BY InHand
    <2> QED
      BY <2>1 DEF Locals, AtStep
  <1>3. loc[w].id \in DOMAIN trash =>
           loc[w].id \in DOMAIN trash' /\ trash'[loc[w].id].rows = trash[loc[w].id].rows
    BY <1>1 DEF Grown
  <1>4. ASSUME NEW ids, ids \subseteq DOMAIN trash PROVE ids \subseteq DOMAIN trash'
    BY <1>1, <1>4 DEF Grown
  <1>5. CASE EmptyOld(w)
    <2>1. PICK i \in loc[w].ids :
            /\ pc[w] = "old" /\ pc' = [pc EXCEPT ![w] = "rmdir"]
            /\ loc' = [loc EXCEPT ![w].id = i]
      BY <1>5 DEF EmptyOld, Empty, Goto, Set
    <2>2. i \in DOMAIN trash /\ i \in DOMAIN trash' /\ i \in Nat
      BY <1>1, <1>2 DEF Grown
    <2> QED
      BY <1>1, <1>2, <1>4, <2>1, <2>2, ZenonT(30)
         DEF AtStep, Fits, Holding, Removing, Removed, Restoring, Locals, Steps, Ops, Removals
  <1>6. CASE RmDir(w)
    <2>1. /\ pc[w] = "rmdir" /\ pc' = [pc EXCEPT ![w] = pc'[w]]
          /\ pc'[w] = IF loc[w].op \in {"restore", "purge"} THEN "done" ELSE "old"
          /\ loc' = [loc EXCEPT ![w].ids = loc[w].ids \ {loc[w].id}]
      BY <1>1, <1>6 DEF RmDir, Goto, Set
    <2>2. loc[w].ids \ {loc[w].id} \subseteq DOMAIN trash'
      BY <1>2, <1>4
    <2>3. loc[w].op \in {"restore", "purge"} \cup Removals
      BY <1>2, <2>1 DEF AtStep, Fits
    <2>4. pc' \in [Workers -> Steps]
      BY <1>1, <2>1 DEF Steps
    <2>5. loc' \in [Workers -> Locals]
      BY <1>1, <1>2, <2>1 DEF Locals
    <2>6. /\ loc'[w].ids = loc[w].ids \ {loc[w].id} /\ loc'[w].op = loc[w].op
          /\ loc'[w].id = loc[w].id /\ loc'[w].rows = loc[w].rows
      BY <1>1, <1>2, <2>1 DEF Locals
    <2> QED
      BY <1>1, <1>2, <1>3, <2>1, <2>2, <2>3, <2>4, <2>5, <2>6
         DEF AtStep, Fits, Holding, Removing, Removed, Restoring, Ops, Removals
  <1>7. CASE MkDir(w)
    <2> DEFINE i == Len(trash')
    <2>1. /\ pc[w] = "old" /\ pc' = [pc EXCEPT ![w] = "move"]
          /\ loc' = [loc EXCEPT ![w].id = i, ![w].todo = CsvsIn(loc[w].rows)]
          /\ trash' = Append(trash, [there |-> TRUE, meta |-> FALSE, kind |-> Kind(loc[w].op),
                               rows |-> loc[w].rows, name |-> Name(loc[w]),
                               files |-> NoFiles])
      BY <1>7 DEF MkDir, Goto
    <2>2. i \in DOMAIN trash' /\ i \in Nat /\ trash'[i].rows = loc[w].rows
      BY <1>2, <2>1
    <2>3. CsvsIn(loc[w].rows) \in SUBSET Csvs
      BY <1>2, ConstantTypes
    <2> HIDE DEF i
    <2>4. /\ loc'[w].id = i /\ loc'[w].todo = CsvsIn(loc[w].rows) /\ pc'[w] = "move"
          /\ loc'[w].rows = loc[w].rows /\ loc'[w].ids = loc[w].ids /\ loc'[w].op = loc[w].op
      BY <1>1, <1>2, <2>1, <2>2, <2>3 DEF Locals
    <2>5. loc' \in [Workers -> Locals] /\ pc' \in [Workers -> Steps]
      BY <1>1, <1>2, <2>1, <2>2, <2>3 DEF Locals, Steps
    <2>6. loc[w].op \in Removals /\ Removed(loc[w])
      BY <1>2, <2>1 DEF AtStep, Fits, Removing
    <2>7. lock # w /\ loc[w].ids \subseteq DOMAIN trash'
      BY <1>2, <1>4, <2>1, <2>6 DEF AtStep, Holding, Removals
    <2>8. Fits(pc'[w], loc'[w]) /\ ~Holding(pc'[w], loc'[w]) /\ ~Restoring(pc'[w], loc'[w])
      BY <2>4, <2>6 DEF Fits, Holding, Restoring, Ops, Removals
    <2>9. Removed(loc'[w])
      BY <2>4, <2>6 DEF Removed
    <2>10. AtStep(w)'
      BY <1>1, <2>2, <2>4, <2>6, <2>7, <2>8, <2>9 DEF AtStep, Removals
    <2> QED
      BY <2>5, <2>10
  <1>8. CASE Move(w) \/ MoveBack(w)
    <2>1. PICK c \in loc[w].todo :
            /\ pc[w] \in {"move", "back"} /\ pc' = [pc EXCEPT ![w] = pc[w]]
            /\ loc' = [loc EXCEPT ![w].todo = loc[w].todo \ {c}]
      <3>1. CASE Move(w)
        BY <3>1 DEF Move, Goto, Set
      <3>2. CASE MoveBack(w)
        BY <3>2 DEF MoveBack, Goto, Set
      <3> QED
        BY <1>8, <3>1, <3>2
    <2> QED
      BY <1>1, <1>2, <1>3, <1>4, <2>1, ZenonT(30)
         DEF AtStep, Fits, Holding, Removing, Removed, Restoring, Locals, Steps, Ops, Removals
  <1>9. CASE WriteMetadata(w)
    BY <1>1, <1>2, <1>3, <1>4, <1>9
       DEF WriteMetadata, Goto, AtStep, Fits, Holding, Removing, Restoring, Steps, Ops, Removals
  <1>10. CASE Purge(w) \/ Clear(w)
    <2>1. /\ pc[w] \in {"purge", "clear"} /\ pc' = [pc EXCEPT ![w] = "rmdir"]
          /\ loc' = [loc EXCEPT ![w].id = loc[w].id]
      BY <1>10 DEF Purge, Clear, Empty, Goto, Set
    <2>2. loc' = loc
      BY <1>1, <1>2, <2>1 DEF Locals
    <2> QED
      BY <1>1, <1>2, <1>3, <1>4, <2>1, <2>2
         DEF AtStep, Fits, Holding, Removing, Restoring, Steps, Ops, Removals
  <1> QED
    BY <1>5, <1>6, <1>7, <1>8, <1>9, <1>10 DEF Trashes

\* Each step keeps the types.
LEMMA StepTypes ==
    ASSUME TypeInv, NEW w \in Workers, Step(w)
    PROVE  TypeInv'
  <1>1. Types /\ FreshTypes'
    BY FreshStep DEF TypeInv
  <1>2. CASE Looks(w)
    <2>1. OthersRest(w) /\ UNCHANGED <<registry, mapping, live, trash, destroyed>> /\ Grown
      BY <1>2, LooksRest DEF files, Grown
    <2>2. Types'
      BY <1>1, <1>2, <2>1, LooksTypes DEF Types, TrashTypes
    <2>3. \A v \in Workers : AtStep(v)'
      BY <1>2, <2>1, LooksTypes, OthersStay
    <2> QED
      BY <2>2, <2>3 DEF TypeInv
  <1>3. CASE Writes(w)
    <2>1. OthersRest(w) /\ UNCHANGED <<trash, loc>> /\ Grown
      BY <1>3, WritesRest DEF Grown
    <2>2. Types'
      BY <1>1, <1>3, <2>1, WritesTypes DEF Types, TrashTypes
    <2>3. \A v \in Workers : AtStep(v)'
      BY <1>3, <2>1, WritesTypes, OthersStay
    <2> QED
      BY <2>2, <2>3 DEF TypeInv
  <1>4. CASE Trashes(w)
    <2>1. OthersRest(w) /\ Grown
      BY <1>4, TrashesRest
    <2>2. Types'
      BY <1>1, <1>4, TrashesRest, TrashesTypes DEF Types
    <2>3. \A v \in Workers : AtStep(v)'
      BY <1>4, <2>1, TrashesTypes, OthersStay
    <2> QED
      BY <2>2, <2>3 DEF TypeInv
  <1> QED
    BY <1>2, <1>3, <1>4, StepIs

\* The types hold at the start.
LEMMA InitTypes == Init => TypeInv
  <1> SUFFICES ASSUME Init PROVE TypeInv
    OBVIOUS
  <1>1. \A w \in Workers : pc[w] = "idle" /\ loc[w] = Idle /\ lock # w
    BY ConstantTypes DEF Init
  <1>2. Creating = {} /\ FreshTypes
    <2>1. Creating = {}
      BY <1>1 DEF Creating
    <2>2. IsFiniteSet(Creating) /\ Cardinality(Creating) = 0
      BY <2>1, FS_EmptySet
    <2> QED
      BY <2>1, <2>2, ConstantTypes DEF Init, FreshTypes
  <1>3. TrashTypes
    BY RulesAssumption DEF Init, TrashTypes
  <1>4. live \in [Csvs -> Contents]
    <2>1. 0..First \subseteq Contents
      BY ConstantTypes DEF Contents
    <2>2. live \in [Csvs -> 0..First]
      BY RulesAssumption DEF Init
    <2> QED
      BY <2>1, <2>2
  <1>5. /\ registry \in (SUBSET Rules) \cup {Torn} /\ mapping \in SUBSET Row
        /\ lock \in Workers \cup {NoOne} /\ faults \in Nat
        /\ pc \in [Workers -> Steps] /\ loc \in [Workers -> Locals]
        /\ destroyed \in [Contents -> Fates]
    BY RulesAssumption, ConstantTypes DEF Init, Steps, Fates
  <1>6. ASSUME NEW w \in Workers PROVE AtStep(w)
    BY <1>1 DEF Idle, AtStep, Fits, Holding, Removing, Restoring, Ops, Removals
  <1> QED
    BY <1>2, <1>3, <1>4, <1>5, <1>6 DEF TypeInv, Types

\* Stuttering.
LEMMA StutterTypes ==
    ASSUME TypeInv, UNCHANGED vars
    PROVE  TypeInv'
  <1>1. UNCHANGED <<registry, mapping, live, trash, lock, pc, loc, fresh, asked, faults,
                    destroyed>>
    BY DEF vars, files
  <1>2. Types'
    BY <1>1 DEF TypeInv, Types, TrashTypes, FreshTypes, Creating
  <1>3. \A w \in Workers : AtStep(w)'
    BY <1>1 DEF TypeInv, AtStep
  <1> QED
    BY <1>2, <1>3 DEF TypeInv

\* The types hold always.
LEMMA TypeInvHolds == Spec => []TypeInv
  <1>1. TypeInv /\ [Next]_vars => TypeInv'
    BY StepTypes, StutterTypes DEF Next
  <1> QED
    BY <1>1, InitTypes, PTL DEF Spec

\* The registry is a set of rules, or truncated; every entry of the trash has its kind,
\* name and files (write_rules_registry, move_to_trash).
THEOREM TypeCorrect == Spec => []TypeOK
  <1>1. TypeInv => TypeOK
    <2> SUFFICES ASSUME TypeInv PROVE TypeOK
      OBVIOUS
    <2>1. Types /\ First \in Nat /\ MaxRequests \in Nat
      BY ConstantTypes DEF TypeInv
    <2>2. fresh \in Contents
      <3>1. Cardinality(Creating) \in Nat
        BY <2>1, FS_CardinalityType DEF Types, FreshTypes
      <3> QED
        BY <2>1, <3>1 DEF Types, FreshTypes, Contents
    <2> QED
      BY <2>1, <2>2 DEF Types, TrashTypes, TypeOK
  <1> QED
    BY <1>1, TypeInvHolds, PTL

----------------------------------------------------------------------------
(* Contents that are not lost.                                             *)

\* The entry that a deletion fills is its own, and has no metadata and none of the
\* files that are still to come.
Own(w) ==
    LET i == loc[w].id IN
    pc[w] = "move" =>
        /\ ~trash[i].meta
        /\ \A c \in loc[w].todo : trash[i].files[c] = 0
        /\ \A v \in Workers \ {w} :
              pc[v] = "move" \/ Restoring(pc[v], loc[v]) => loc[v].id # i

\* The files of an entry that is restored are those that have still to move.
Back(w) ==
    Restoring(pc[w], loc[w]) =>
        \A c \in Csvs : trash[loc[w].id].files[c] # 0 =>
            pc[w] \in {"check", "back"} /\ c \in loc[w].todo

\* Until requests meet, there is no file where a CSV is about to be created, or to come
\* back to.
Clearing(w) ==
    ~raced =>
        /\ pc[w] = "write" => live[loc[w].row[2]] = 0
        /\ pc[w] = "back" /\ trash[loc[w].id].kind = "csv" =>
              \A c \in loc[w].todo : live[c] = 0

KeepInv == \A w \in Workers : Own(w) /\ Back(w) /\ Clearing(w)

\* A step of w that puts a file or metadata into an entry is a deletion's, and the entry
\* the one it fills.
LEMMA Fills ==
    ASSUME TypeInv, NEW w \in Workers, Step(w), NEW i \in DOMAIN trash
    PROVE  /\ \A c \in Csvs :
                 \/ trash'[i].files[c] \in {trash[i].files[c], 0}
                 \/ pc[w] = "move" /\ i = loc[w].id /\ c \in loc[w].todo
           /\ trash'[i].meta => trash[i].meta \/ (pc[w] = "move" /\ i = loc[w].id)
  <1>1. /\ loc[w] \in Locals /\ trash \in Seq(Entry)
        /\ trash[i] \in Entry /\ trash[i].files \in [Csvs -> Contents]
    BY InHand
  <1>2. CASE Looks(w) \/ Writes(w)
    BY <1>2, LooksRest, WritesRest DEF files
  <1>4. CASE EmptyOld(w) \/ Purge(w) \/ Clear(w)
    <2>1. PICK j : trash' = [trash EXCEPT ![j].files = NoFiles, ![j].meta = FALSE]
      BY <1>4 DEF EmptyOld, Purge, Clear, Empty
    <2>2. trash'[i] = IF i = j THEN [trash[i] EXCEPT !.files = NoFiles, !.meta = FALSE]
                      ELSE trash[i]
      BY <1>1, <2>1
    <2>3. i = j => trash'[i].files = NoFiles /\ trash'[i].meta = FALSE
      BY <1>1, <2>2 DEF Entry
    <2> QED
      BY <2>2, <2>3 DEF NoFiles
  <1>5. CASE RmDir(w)
    <2>1. trash'[i] \in {trash[i], [trash[i] EXCEPT !.there =
                                      trash[i].files # NoFiles \/ trash[i].meta]}
      BY <1>1, <1>5 DEF RmDir
    <2>2. trash'[i].files = trash[i].files /\ trash'[i].meta = trash[i].meta
      BY <1>1, <2>1 DEF Entry
    <2> QED
      BY <2>2
  <1>6. CASE MkDir(w)
    <2>1. PICK e : trash' = Append(trash, e)
      BY <1>6 DEF MkDir
    <2>2. trash'[i] = trash[i]
      BY <1>1, <2>1
    <2> QED
      BY <2>2
  <1>7. CASE Move(w)
    <2>1. PICK c \in loc[w].todo :
            trash' \in {trash, [trash EXCEPT ![loc[w].id].files[c] = live[c]]}
      BY <1>7 DEF Move
    <2>2. pc[w] = "move"
      BY <1>7 DEF Move, Goto
    <2>3. trash'[i] \in {trash[i], [trash[i] EXCEPT !.files[c] = live[c]]}
          /\ (i # loc[w].id => trash'[i] = trash[i])
      BY <1>1, <2>1
    <2>4. /\ trash'[i].files \in {trash[i].files, [trash[i].files EXCEPT ![c] = live[c]]}
          /\ trash'[i].meta = trash[i].meta
      BY <1>1, <2>3 DEF Entry
    <2> QED
      BY <1>1, <2>2, <2>3, <2>4
  <1>8. CASE WriteMetadata(w)
    <2>1. pc[w] = "move" /\ trash'[i] = [trash[i] EXCEPT !.meta = trash'[i].meta]
          /\ (i # loc[w].id => trash'[i] = trash[i])
      BY <1>1, <1>8 DEF WriteMetadata, Goto, Entry
    <2> QED
      BY <1>1, <2>1 DEF Entry
  <1>9. CASE MoveBack(w)
    <2>1. PICK c \in loc[w].todo :
            trash' \in {trash, [trash EXCEPT ![loc[w].id].files[c] = 0]}
      BY <1>9 DEF MoveBack, Destroy
    <2>2. trash'[i] \in {trash[i], [trash[i] EXCEPT !.files[c] = 0]}
      BY <1>1, <2>1
    <2>3. /\ trash'[i].files \in {trash[i].files, [trash[i].files EXCEPT ![c] = 0]}
          /\ trash'[i].meta = trash[i].meta
      BY <1>1, <2>2 DEF Entry
    <2> QED
      BY <1>1, <2>3
  <1> QED
    BY <1>2, <1>4, <1>5, <1>6, <1>7, <1>8, <1>9, StepIs DEF Trashes

\* A CSV that a step brings about is written, or comes back from the trash.
LEMMA Brings ==
    ASSUME TypeInv, NEW w \in Workers, Step(w), NEW c \in Csvs, live'[c] # live[c],
           live'[c] # 0
    PROVE  pc[w] \in {"write", "back"} /\ lock' = lock
  <1>1. live \in [Csvs -> Contents]
    BY DEF TypeInv, Types
  <1>2. ~Looks(w)
    BY LooksRest DEF files
  <1>3. CASE Writes(w)
    BY <1>1, <1>3
       DEF Writes, ClearRegistry, PutRegistry, ClearMapping, PutMapping, ReplaceMapping,
           WriteCsv, TrashFails, MapFails, Goto, Destroy
  <1>4. CASE Move(w)
    BY <1>1, <1>4 DEF Move
  <1>5. CASE MoveBack(w)
    BY <1>5 DEF MoveBack, Goto
  <1>6. CASE EmptyOld(w) \/ RmDir(w) \/ MkDir(w) \/ WriteMetadata(w) \/ Purge(w) \/ Clear(w)
    BY <1>6 DEF EmptyOld, RmDir, MkDir, WriteMetadata, Purge, Clear, Empty
  <1> QED
    BY <1>2, <1>3, <1>4, <1>5, <1>6, StepIs DEF Trashes

\* A restore takes its entry when that has metadata; a deletion begins to fill a new one.
LEMMA Entered ==
    ASSUME TypeInv, NEW w \in Workers, Step(w)
    PROVE  /\ Restoring(pc'[w], loc'[w]) =>
                 /\ loc'[w].id = loc[w].id
                 /\ \/ Restoring(pc[w], loc[w])
                    \/ pc[w] = "restore" /\ trash[loc[w].id].meta
           /\ pc'[w] = "move" => \/ pc[w] = "move" /\ loc'[w].id = loc[w].id
                                 \/ pc[w] = "old" /\ loc'[w].id \notin DOMAIN trash
  <1>1. /\ pc \in [Workers -> Steps] /\ loc \in [Workers -> Locals] /\ loc[w] \in Locals
        /\ Fits(pc[w], loc[w]) /\ trash \in Seq(Entry)
    BY InHand DEF TypeInv, Types, AtStep
  <1>2. CASE Begin(w)
    <2>1. PICK q \in Asks : pc'[w] = q.op /\ loc'[w].op = q.op
      BY <1>1, <1>2 DEF Begin, Goto, Idle
    <2>2. q.op \in Ops
      BY <2>1 DEF Asks, Of, Ops
    <2> QED
      BY <2>1, <2>2 DEF Restoring, Ops
  <1>3. CASE CreateRule(w) \/ CreateCsv(w) \/ ApprovedCsv(w) \/ AppendRow(w) \/ Unregister(w)
    BY <1>1, <1>3 DEF CreateRule, CreateCsv, ApprovedCsv, AppendRow, Unregister, Goto, Set,
                      Restoring, Fits, Ops, Locals
  <1>4. CASE RemoveRule(w) \/ DropRule(w) \/ DetachCsv(w) \/ ListTrash(w) \/ PurgeNone(w)
    BY <1>1, <1>4 DEF RemoveRule, DropRule, DetachCsv, ListTrash, PurgeNone, Goto, Set,
                      Restoring, Fits, Ops, Removals, Locals
  <1>5. CASE Forget(w)
    BY <1>1, <1>5, AfterIs DEF Forget, Goto, Set, Restoring, Fits, Removals, Locals
  <1>6. CASE Done(w) \/ Crash(w)
    BY <1>1, <1>6 DEF Done, Crash, Return, Idle, Restoring
  <1>7. CASE ReadMetadata(w) \/ CheckConflict(w) \/ MovedBack(w) \/ Register(w)
    BY <1>1, <1>7 DEF ReadMetadata, CheckConflict, MovedBack, Register, Goto, Set,
                      Restoring, Fits, Locals
  <1>8. CASE ClearRegistry(w) \/ PutRegistry(w) \/ ClearMapping(w) \/ PutMapping(w)
                \/ ReplaceMapping(w)
    BY <1>1, <1>8, AfterIs DEF ClearRegistry, PutRegistry, ClearMapping, PutMapping,
                ReplaceMapping, Goto, Restoring, Removals
  <1>9. CASE WriteCsv(w) \/ TrashFails(w) \/ MapFails(w)
    BY <1>1, <1>9 DEF WriteCsv, TrashFails, MapFails, Goto, Restoring, Fits
  <1>10. CASE EmptyOld(w) \/ Purge(w) \/ Clear(w)
    <2>1. PICK i : /\ pc[w] \in {"old", "purge", "clear"} /\ pc'[w] = "rmdir"
                   /\ loc' = [loc EXCEPT ![w].id = i]
                   /\ pc[w] = "clear" => i = loc[w].id
      BY <1>1, <1>10 DEF EmptyOld, Purge, Clear, Empty, Goto, Set
    <2>2. loc'[w].id = i /\ loc'[w].op = loc[w].op
      BY <1>1, <2>1 DEF Locals
    <2> QED
      BY <1>1, <2>1, <2>2 DEF Restoring, Fits, Removals, Ops
  <1>11. CASE RmDir(w) \/ WriteMetadata(w) \/ Move(w) \/ MoveBack(w)
    <2>1. /\ pc[w] \in {"rmdir", "move", "back"}
          /\ pc'[w] \in {"done", "old", pc[w]}
          /\ pc'[w] = "old" => loc[w].op # "restore"
          /\ loc'[w].id = loc[w].id /\ loc'[w].op = loc[w].op
      <3>1. CASE RmDir(w)
        BY <1>1, <3>1 DEF RmDir, Goto, Set, Locals
      <3>2. CASE WriteMetadata(w)
        BY <1>1, <3>2 DEF WriteMetadata, Goto
      <3>3. CASE Move(w)
        BY <1>1, <3>3 DEF Move, Goto, Set, Locals
      <3>4. CASE MoveBack(w)
        BY <1>1, <3>4 DEF MoveBack, Goto, Set, Locals
      <3> QED BY <1>11, <3>1, <3>2, <3>3, <3>4
    <2> QED
      BY <2>1 DEF Restoring
  <1>12. CASE MkDir(w)
    <2>1. /\ loc'[w].id = Len(trash) + 1 /\ loc'[w].op = loc[w].op
          /\ pc[w] = "old" /\ pc'[w] = "move"
      BY <1>1, <1>12 DEF MkDir, Goto, Locals
    <2>2. Len(trash) + 1 \notin DOMAIN trash
      BY <1>1
    <2> QED
      BY <1>1, <2>1, <2>2 DEF Restoring, Fits, Removals
  <1> QED
    BY <1>2, <1>3, <1>4, <1>5, <1>6, <1>7, <1>8, <1>9, <1>10, <1>11, <1>12
       DEF Step

\* No step disturbs the entry of another request.
LEMMA OthersKeep ==
    ASSUME TypeInv, KeepInv, NEW w \in Workers, Step(w), NEW v \in Workers, v # w
    PROVE  /\ Own(v)' /\ Back(v)'
           /\ (raced' <=> raced \/ Meets(w)) => Clearing(v)'
  <1>1. /\ OthersRest(w) /\ pc'[v] = pc[v] /\ loc'[v] = loc[v]
        /\ \A i \in DOMAIN trash : i \in DOMAIN trash' /\ trash'[i].kind = trash[i].kind
    <2>1. OthersRest(w) /\ Grown
      BY LooksRest, WritesRest, TrashesRest, StepIs DEF files, Grown
    <2> QED
      BY <2>1 DEF OthersRest, Grown
  <1>2. AtStep(v) /\ AtStep(w) /\ loc[v] \in Locals /\ loc[w] \in Locals
        /\ v # NoOne /\ w # NoOne
    BY InHand, ConstantTypes
  <1>3. Restoring(pc[v], loc[v]) \/ pc[v] = "move" => loc[v].id \in DOMAIN trash
    BY <1>2 DEF AtStep, Restoring
  <1>4. Own(v) /\ Back(v) /\ Clearing(v) /\ Own(w)
    BY DEF KeepInv
  <1>5. ASSUME pc[v] = "move" PROVE Own(v)'
    <2> DEFINE i == loc[v].id
    <2>1. i \in DOMAIN trash
      BY <1>3, <1>5
    <2>2. ~(pc[w] = "move" /\ i = loc[w].id)
      BY <1>4, <1>5 DEF Own
    <2>3. ~trash'[i].meta /\ \A c \in loc[v].todo : trash'[i].files[c] = 0
      <3>1. loc[v].todo \subseteq Csvs
        BY <1>2 DEF Locals
      <3> QED
        BY <1>4, <1>5, <2>1, <2>2, <3>1, Fills DEF Own
    <2>4. ASSUME NEW u \in Workers \ {v},
                 pc'[u] = "move" \/ Restoring(pc'[u], loc'[u])
          PROVE  loc'[u].id # i
      <3>1. CASE u # w
        BY <1>1, <1>4, <1>5, <2>4, <3>1 DEF Own, OthersRest
      <3>2. CASE u = w
        BY <1>4, <1>5, <2>1, <2>4, <3>2, Entered DEF Own
      <3> QED BY <3>1, <3>2
    <2> QED
      BY <1>1, <2>3, <2>4 DEF Own
  <1>6. ASSUME Restoring(pc[v], loc[v]) PROVE Back(v)'
    <2> DEFINE i == loc[v].id
    <2>1. i \in DOMAIN trash
      BY <1>3, <1>6
    <2>2. ~(pc[w] = "move" /\ i = loc[w].id)
      BY <1>4, <1>6 DEF Own
    <2> QED
      BY <1>1, <1>4, <1>6, <2>1, <2>2, Fills DEF Back
  <1>7. ASSUME raced' <=> raced \/ Meets(w), ~raced' PROVE Clearing(v)'
    <2>1. ~raced /\ ~Meets(w)
      BY <1>7
    <2>2. ASSUME pc[v] = "write" PROVE live'[loc[v].row[2]] = 0
      <3>1. Exposed(v)
        BY <1>2, <2>2 DEF AtStep, Fits, Exposed
      <3>2. live' = live
        BY <2>1, <3>1 DEF Meets
      <3> QED
        BY <1>4, <2>1, <2>2, <3>2 DEF Clearing
    <2>3. ASSUME pc[v] = "back", trash[loc[v].id].kind = "csv", NEW c \in loc[v].todo
          PROVE  live'[c] = 0
      <3>1. lock = v /\ c \in Csvs
        BY <1>2, <2>3 DEF AtStep, Holding, Locals
      <3>2. live[c] = 0
        BY <1>4, <2>1, <2>3 DEF Clearing
      <3>3. SUFFICES ASSUME live'[c] # 0 PROVE FALSE
        OBVIOUS
      <3>4. pc[w] \in {"write", "back"} /\ lock' = v
        BY <3>1, <3>2, <3>3, Brings
      <3>5. pc[w] = "write" /\ Exposed(w)
        BY <1>2, <3>1, <3>4 DEF AtStep, Holding, Fits, Exposed
      <3> QED
        BY <1>2, <2>1, <3>4, <3>5 DEF Meets
    <2> QED
      BY <1>1, <1>2, <1>3, <2>2, <2>3 DEF Clearing, AtStep, Fits
  <1> QED
    BY <1>1, <1>5, <1>6, <1>7 DEF Own, Back, Clearing

\* Which steps lead where.
LEMMA Arrives ==
    ASSUME TypeInv, NEW w \in Workers, Step(w)
    PROVE  /\ pc'[w] = "move" => MkDir(w) \/ Move(w)
           /\ pc'[w] = "write" => CreateCsv(w) \/ ApprovedCsv(w)
           /\ pc'[w] = "back" => CheckConflict(w) \/ MoveBack(w)
           /\ pc'[w] = "check" => ReadMetadata(w)
           /\ pc[w] = "restore" => ReadMetadata(w) \/ Crash(w)
           /\ pc[w] \in {"check", "back"} =>
                 CheckConflict(w) \/ MoveBack(w) \/ MovedBack(w) \/ Crash(w)
           /\ pc[w] = "move" => Move(w) \/ WriteMetadata(w) \/ TrashFails(w) \/ Crash(w)
  <1>1. /\ pc \in [Workers -> Steps] /\ Fits(pc[w], loc[w])
    BY DEF TypeInv, Types, AtStep
  <1> DEFINE Elsewhere == pc'[w] \notin {"move", "write", "back", "check"}
         Unrelated == pc[w] \notin {"restore", "check", "back", "move"}
  <1>2. Begin(w) => Elsewhere /\ Unrelated
    <2> SUFFICES ASSUME Begin(w) PROVE Elsewhere /\ Unrelated
      OBVIOUS
    <2>1. PICK q \in Asks : pc[w] = "idle" /\ pc'[w] = q.op
      BY <1>1 DEF Begin, Goto
    <2>2. q.op \in Ops
      BY <2>1 DEF Asks, Of, Ops
    <2> QED
      BY <2>1, <2>2 DEF Ops
  <1>3. CreateRule(w) \/ AppendRow(w) \/ Unregister(w) \/ RemoveRule(w) \/ DropRule(w)
            \/ DetachCsv(w) \/ ListTrash(w) \/ PurgeNone(w)
        => Elsewhere /\ Unrelated
    BY <1>1 DEF CreateRule, AppendRow, Unregister, RemoveRule, DropRule, DetachCsv,
                ListTrash, PurgeNone, Goto
  <1>4. Register(w) \/ Forget(w) \/ Done(w) => Elsewhere /\ Unrelated
    BY <1>1, AfterIs DEF Register, Forget, Done, Goto, Return
  <1>11. MovedBack(w) => Elsewhere /\ pc[w] = "back"
    BY <1>1 DEF MovedBack, Goto
  <1>5. Crash(w) => Elsewhere
    BY <1>1 DEF Crash, Return
  <1>6. ClearRegistry(w) \/ PutRegistry(w) \/ ClearMapping(w) \/ PutMapping(w)
            \/ ReplaceMapping(w) => Elsewhere /\ Unrelated
    BY <1>1, AfterIs DEF ClearRegistry, PutRegistry, ClearMapping, PutMapping,
                         ReplaceMapping, Goto
  <1>7. /\ WriteCsv(w) \/ MapFails(w) => Elsewhere /\ Unrelated
        /\ TrashFails(w) \/ WriteMetadata(w) => Elsewhere /\ pc[w] = "move"
    BY <1>1 DEF WriteCsv, TrashFails, MapFails, WriteMetadata, Goto
  <1>8. EmptyOld(w) \/ RmDir(w) \/ Purge(w) \/ Clear(w) => Elsewhere /\ Unrelated
    BY <1>1 DEF EmptyOld, RmDir, Purge, Clear, Empty, Goto
  <1>9. /\ MkDir(w) => pc'[w] = "move" /\ Unrelated
        /\ Move(w) => pc'[w] = "move" /\ pc[w] = "move"
        /\ CreateCsv(w) \/ ApprovedCsv(w) => pc'[w] \in {"write", "done"} /\ Unrelated
    BY <1>1 DEF MkDir, Move, CreateCsv, ApprovedCsv, Goto
  <1>10. /\ CheckConflict(w) \/ MoveBack(w) => /\ pc'[w] \in {"back", "done"}
                                             /\ pc[w] \in {"check", "back"}
         /\ ReadMetadata(w) => pc'[w] \in {"check", "done"} /\ pc[w] = "restore"
    BY <1>1 DEF CheckConflict, MoveBack, ReadMetadata, Goto
  <1> QED
    BY <1>2, <1>3, <1>4, <1>5, <1>6, <1>7, <1>8, <1>9, <1>10, <1>11 DEF Step

\* Nor does a request disturb its own.
LEMMA OwnKeep ==
    ASSUME TypeInv, KeepInv, NEW w \in Workers, Step(w)
    PROVE  /\ Own(w)' /\ Back(w)'
           /\ ~raced => Clearing(w)'
  <1>1. /\ pc \in [Workers -> Steps] /\ loc \in [Workers -> Locals] /\ loc[w] \in Locals
        /\ AtStep(w) /\ AtStep(w)' /\ OthersRest(w) /\ trash \in Seq(Entry)
        /\ live \in [Csvs -> Contents]
        /\ \A v \in Workers : AtStep(v)
    BY InHand, StepTypes, LooksRest, WritesRest, TrashesRest, StepIs DEF TypeInv, Types
  <1>2. \A i \in DOMAIN trash :
           /\ trash[i] \in Entry /\ trash[i].files \in [Csvs -> Contents] /\ Bundle(trash[i])
           /\ \A c \in Csvs : trash[i].files[c] # 0 => c \in CsvsIn(trash[i].rows)
    BY InHand DEF TrashTypes
  <1>3. Own(w) /\ Back(w) /\ Clearing(w)
    BY DEF KeepInv
  <1>4. Own(w)'
    <2> SUFFICES ASSUME pc'[w] = "move" PROVE Own(w)'
      BY DEF Own
    <2>1. CASE MkDir(w)
      <3> DEFINE i == loc'[w].id
      <3>1. /\ i = Len(trash) + 1 /\ trash'[i].meta = FALSE /\ trash'[i].files = NoFiles
            /\ loc'[w].todo = CsvsIn(loc[w].rows)
        BY <1>1, <2>1 DEF MkDir, Locals
      <3>2. loc'[w].todo \subseteq Csvs
        BY <1>1, <3>1, ConstantTypes DEF Locals
      <3>3. ASSUME NEW v \in Workers \ {w},
                   pc'[v] = "move" \/ Restoring(pc'[v], loc'[v])
            PROVE  loc'[v].id # i
        <4>1. loc[v].id \in DOMAIN trash /\ loc'[v] = loc[v]
          BY <1>1, <3>3 DEF OthersRest, AtStep, Restoring
        <4>2. i \notin DOMAIN trash
          BY <1>1, <3>1
        <4> QED BY <4>1, <4>2
      <3> HIDE DEF i
      <3>4. /\ trash'[i].meta = FALSE
            /\ \A c \in loc'[w].todo : trash'[i].files[c] = 0
        BY <3>1, <3>2 DEF NoFiles
      <3> QED
        BY <3>3, <3>4 DEF Own, i
    <2>2. CASE Move(w)
      <3> DEFINE i == loc[w].id
      <3>1. PICK c \in loc[w].todo :
              /\ pc[w] = "move" /\ loc' = [loc EXCEPT ![w].todo = loc[w].todo \ {c}]
              /\ trash' \in {trash, [trash EXCEPT ![i].files[c] = live[c]]}
        BY <2>2 DEF Move, Goto, Set
      <3>2. loc'[w].id = i /\ loc'[w].todo = loc[w].todo \ {c} /\ loc[w].todo \subseteq Csvs
        BY <1>1, <3>1 DEF Locals
      <3>3. i \in DOMAIN trash
        BY <1>1, <3>1 DEF AtStep
      <3>4. ~trash'[i].meta /\ \A d \in loc'[w].todo : trash'[i].files[d] = 0
        <4>1. ~trash[i].meta /\ \A d \in loc[w].todo : trash[i].files[d] = 0
          BY <1>3, <3>1 DEF Own
        <4>2. /\ trash'[i].files \in {trash[i].files, [trash[i].files EXCEPT ![c] = live[c]]}
              /\ trash'[i].meta = trash[i].meta
          BY <1>1, <1>2, <3>1, <3>3 DEF Entry
        <4> QED
          BY <1>2, <3>2, <3>3, <4>1, <4>2
      <3>5. \A v \in Workers \ {w} :
               pc'[v] = "move" \/ Restoring(pc'[v], loc'[v]) => loc'[v].id # i
        BY <1>1, <1>3, <3>1 DEF Own, OthersRest
      <3> QED
        BY <3>2, <3>4, <3>5 DEF Own
    <2> QED
      BY <2>1, <2>2, Arrives
  <1>5. Back(w)'
    <2> DEFINE i == loc[w].id
    <2> SUFFICES ASSUME Restoring(pc'[w], loc'[w]), NEW c \in Csvs,
                        trash'[i].files[c] # 0
                 PROVE  pc'[w] \in {"check", "back"} /\ c \in loc'[w].todo
      BY Entered DEF Back
    <2>1. i \in DOMAIN trash
      <3>1. loc[w].op = "restore"
        BY <1>1, Entered DEF AtStep, Restoring, Fits, Ops
      <3> QED
        BY <1>1, <3>1 DEF AtStep
    <2>2. ~Crash(w)
      BY <1>1 DEF Crash, Return, Idle, Restoring
    <2>3. CASE pc[w] = "restore"
      <3>1. ReadMetadata(w)
        BY <2>2, <2>3, Arrives
      <3>2. /\ pc'[w] = "check" /\ trash' = trash /\ loc'[w].todo = CsvsIn(trash[i].rows)
        BY <1>1, <3>1 DEF ReadMetadata, files, Goto, Locals, Restoring
      <3> QED
        BY <1>2, <2>1, <3>2
    <2>4. CASE Restoring(pc[w], loc[w])
      <3>1. pc[w] # "move"
        BY <1>1, <2>4 DEF AtStep, Fits, Restoring, Removals
      <3>2. trash[i].files[c] # 0
        BY <2>1, <3>1, Fills
      <3>3. pc[w] \in {"check", "back"} /\ c \in loc[w].todo
        BY <1>3, <2>4, <3>2 DEF Back
      <3>4. CASE CheckConflict(w)
        BY <1>1, <3>3, <3>4 DEF CheckConflict, Goto, Set, Restoring, Locals
      <3>5. CASE MoveBack(w)
        <4>1. PICK d \in loc[w].todo :
                /\ pc[w] = "back" /\ pc' = [pc EXCEPT ![w] = "back"]
                /\ loc' = [loc EXCEPT ![w].todo = loc[w].todo \ {d}]
                /\ trash[i].files[d] # 0 => trash' = [trash EXCEPT ![i].files[d] = 0]
          BY <3>5 DEF MoveBack, Goto, Set
        <4>2. c # d
          BY <1>2, <2>1, <3>2, <4>1 DEF Entry
        <4>3. pc'[w] = "back" /\ loc'[w].todo = loc[w].todo \ {d}
          BY <1>1, <4>1 DEF Locals
        <4> QED
          BY <3>3, <4>2, <4>3
      <3>6. ~MovedBack(w)
        BY <3>3 DEF MovedBack
      <3> QED
        BY <2>2, <3>3, <3>4, <3>5, <3>6, Arrives
    <2> QED
      BY <2>3, <2>4, Entered
  <1>6. ASSUME ~raced PROVE Clearing(w)'
    <2>1. ASSUME pc'[w] = "write" PROVE live'[loc'[w].row[2]] = 0
      <3>1. CASE CreateCsv(w)
        <4>1. live[loc[w].row[2]] = 0 /\ live' = live
          BY <1>1, <2>1, <3>1 DEF CreateCsv, files, Goto
        <4>2. loc'[w].row = loc[w].row
          BY <1>1, <3>1 DEF CreateCsv, Set, Locals
        <4> QED
          BY <4>1, <4>2
      <3>2. CASE ApprovedCsv(w)
        BY <1>1, <2>1, <3>2 DEF ApprovedCsv, files, Goto
      <3> QED
        BY <2>1, <3>1, <3>2, Arrives
    <2>2. ASSUME pc'[w] = "back", trash'[loc'[w].id].kind = "csv", NEW c \in loc'[w].todo
          PROVE  live'[c] = 0
      <3> DEFINE i == loc[w].id
      <3>1. CASE CheckConflict(w)
        <4>1. /\ pc[w] = "check" /\ loc' = [loc EXCEPT ![w].map = mapping]
              /\ live' = live /\ trash' = trash /\ ~Exists(w)
          BY <1>1, <2>2, <3>1 DEF CheckConflict, files, Goto, Set
        <4>2. loc'[w].id = i /\ loc'[w].todo = loc[w].todo
          BY <1>1, <4>1 DEF Locals
        <4>3. /\ i \in DOMAIN trash /\ loc[w].row \in trash[i].rows
              /\ c \in CsvsIn(trash[i].rows)
          BY <1>1, <2>2, <4>1, <4>2 DEF AtStep, Restoring, Fits
        <4>4. trash[i].kind = "csv" /\ live[loc[w].row[2]] = 0
          BY <2>2, <4>1, <4>2 DEF Exists
        <4>5. c = loc[w].row[2]
          BY <1>2, <4>3, <4>4 DEF Bundle, CsvsIn
        <4> QED
          BY <4>1, <4>4, <4>5
      <3>2. CASE MoveBack(w)
        <4>1. PICK d \in loc[w].todo :
                /\ pc[w] = "back" /\ loc' = [loc EXCEPT ![w].todo = loc[w].todo \ {d}]
                /\ \/ live' = [live EXCEPT ![d] = trash[i].files[d]]
                   \/ live' = live
          BY <3>2 DEF MoveBack, Goto, Set
        <4>2. /\ loc'[w].id = i /\ loc'[w].todo = loc[w].todo \ {d}
              /\ loc[w].todo \subseteq Csvs
          BY <1>1, <4>1 DEF Locals
        <4>3. i \in DOMAIN trash
          BY <1>1, <4>1 DEF AtStep, Restoring, Fits
        <4>4. trash[i].kind = "csv"
          <5>1. Grown
            BY <3>2, TrashesRest DEF Trashes
          <5> QED
            BY <2>2, <4>2, <4>3, <5>1 DEF Grown
        <4>5. live[c] = 0 /\ c # d
          BY <1>3, <1>6, <2>2, <4>1, <4>2, <4>4 DEF Clearing
        <4> QED
          BY <1>1, <4>1, <4>2, <4>5
      <3> QED
        BY <2>2, <3>1, <3>2, Arrives
    <2> QED
      BY <2>1, <2>2 DEF Clearing
  <1> QED
    BY <1>4, <1>5, <1>6

\* The requests keep what they rely on, step by step.
LEMMA StepKeeps ==
    ASSUME TypeInv, KeepInv, NEW w \in Workers, Step(w), History(w)
    PROVE  KeepInv'
  <1>1. raced' <=> raced \/ Meets(w)
    BY DEF History
  <1>2. Own(w)' /\ Back(w)' /\ Clearing(w)'
    BY <1>1, OwnKeep DEF Clearing
  <1>3. ASSUME NEW v \in Workers, v # w
        PROVE  Own(v)' /\ Back(v)' /\ Clearing(v)'
    BY <1>1, <1>3, OthersKeep
  <1> QED
    BY <1>2, <1>3 DEF KeepInv

\* What is not lost of the contents: live, in the trash, or given up.
Kept(d) ==
    \/ \E c \in Csvs : live[c] = d
    \/ \E i \in DOMAIN trash :
          /\ d \in InTrash(i) /\ trash[i].there
          /\ trash[i].meta \/ Filling(i) \/ faults > 0
    \/ destroyed[d] \in {"purged", "replaced", "removed", "rule_restored_over"}

\* What a step gives up for good is purged, replaced, removed or a rule restored over it.
LEMMA GivenUp ==
    ASSUME TypeInv, KeepInv, ~raced, NEW w \in Workers, Step(w),
           NEW d \in Contents \ {0}
    PROVE  destroyed'[d] \in {destroyed[d], "purged", "replaced", "removed",
                              "rule_restored_over"}
  <1>1. /\ destroyed \in [Contents -> Fates] /\ loc[w] \in Locals
        /\ AtStep(w) /\ Back(w) /\ Clearing(w)
    BY InHand DEF TypeInv, Types, KeepInv
  <1>2. CASE Looks(w)
    BY <1>2, LooksRest
  <1>3. CASE WriteCsv(w)
    <2>1. live[loc[w].row[2]] = 0 /\ Destroy({live[loc[w].row[2]]}, "created_over")
      BY <1>1, <1>3 DEF WriteCsv, Goto, Clearing
    <2> QED
      BY <1>1, <2>1 DEF Destroy
  <1>4. CASE TrashFails(w) \/ MapFails(w)
    BY <1>1, <1>4 DEF TrashFails, MapFails, Destroy
  <1>5. CASE ClearRegistry(w) \/ PutRegistry(w) \/ ClearMapping(w) \/ PutMapping(w)
                \/ ReplaceMapping(w)
    BY <1>5 DEF ClearRegistry, PutRegistry, ClearMapping, PutMapping, ReplaceMapping
  <1>6. CASE EmptyOld(w) \/ Purge(w)
    BY <1>1, <1>6 DEF EmptyOld, Purge, Empty, Destroy
  <1>7. CASE Clear(w)
    <2>1. /\ pc[w] = "clear"
          /\ Destroy({trash[loc[w].id].files[c] : c \in Csvs}, "left_in_trash")
      BY <1>7 DEF Clear, Empty, Goto
    <2>2. \A c \in Csvs : trash[loc[w].id].files[c] = 0
      BY <1>1, <2>1 DEF Back, Restoring, AtStep, Fits
    <2> QED
      BY <1>1, <2>1, <2>2 DEF Destroy
  <1>8. CASE RmDir(w) \/ MkDir(w) \/ Move(w) \/ WriteMetadata(w)
    BY <1>8 DEF RmDir, MkDir, Move, WriteMetadata
  <1>9. CASE MoveBack(w)
    <2> DEFINE i == loc[w].id
    <2>1. PICK c \in loc[w].todo :
            /\ pc[w] = "back"
            /\ \/ destroyed' = destroyed
               \/ Destroy({live[c]}, IF trash[i].kind = "rule" THEN "rule_restored_over"
                                    ELSE "csv_restored_over")
      BY <1>9 DEF MoveBack, Goto
    <2>2. trash[i].kind \in {"csv", "rule"}
      <3>1. i \in DOMAIN trash
        BY <1>1, <2>1 DEF AtStep, Fits
      <3>2. trash[i] \in Entry
        BY <3>1, InHand
      <3> QED
        BY <3>2 DEF Entry
    <2>3. trash[i].kind = "csv" => live[c] = 0
      BY <1>1, <2>1 DEF Clearing
    <2> QED
      BY <1>1, <2>1, <2>2, <2>3 DEF Destroy
  <1> QED
    BY <1>2, <1>3, <1>4, <1>5, <1>6, <1>7, <1>8, <1>9, StepIs DEF Writes, Trashes

\* Faults are not forgotten.
LEMMA FaultsGrow ==
    ASSUME TypeInv, NEW w \in Workers, Step(w)
    PROVE  faults' \in {faults, faults + 1}
  <1>1. CASE Looks(w)
    <2>1. Begin(w) => faults' = faults
      BY DEF Begin
    <2>2. CreateRule(w) \/ CreateCsv(w) \/ ApprovedCsv(w) \/ AppendRow(w) \/ Unregister(w)
              \/ RemoveRule(w) \/ DropRule(w) \/ DetachCsv(w) => faults' = faults
      BY DEF CreateRule, CreateCsv, ApprovedCsv, AppendRow, Unregister, RemoveRule,
             DropRule, DetachCsv
    <2>3. Forget(w) \/ Done(w) \/ ListTrash(w) \/ PurgeNone(w) \/ ReadMetadata(w)
              \/ CheckConflict(w) \/ MovedBack(w) \/ Register(w) => faults' = faults
      BY DEF Forget, Done, ListTrash, PurgeNone, ReadMetadata, CheckConflict, MovedBack,
             Register
    <2>4. Crash(w) => faults' = faults + 1
      BY DEF Crash, Fault
    <2> QED
      BY <1>1, <2>1, <2>2, <2>3, <2>4 DEF Looks
  <1>2. CASE Writes(w)
    BY <1>2 DEF Writes, ClearRegistry, PutRegistry, ClearMapping, PutMapping,
                ReplaceMapping, WriteCsv, TrashFails, MapFails, Fault
  <1> QED
    BY <1>1, <1>2, TrashesRest, StepIs

\* A deletion that stops filling its entry has written the metadata, or has failed.
LEMMA FillingEnds ==
    ASSUME TypeInv, NEW w \in Workers, Step(w), NEW i \in DOMAIN trash,
           trash[i].there, Filling(i)
    PROVE  Filling(i)' \/ trash'[i].meta \/ faults' > 0
  <1>1. PICK v \in Workers : pc[v] = "move" /\ loc[v].id = i
    BY DEF Filling
  <1>2. /\ OthersRest(w) /\ faults \in Nat /\ trash[i] \in Entry /\ trash \in Seq(Entry)
        /\ pc \in [Workers -> Steps] /\ loc \in [Workers -> Locals]
    BY InHand, LooksRest, WritesRest, TrashesRest, StepIs DEF TypeInv, Types
  <1>3. CASE v # w
    BY <1>1, <1>2, <1>3 DEF OthersRest, Filling
  <1>4. CASE v = w
    <2>1. CASE Move(w)
      BY <1>1, <1>2, <1>4, <2>1 DEF Move, Goto, Set, Locals, Filling
    <2>2. CASE WriteMetadata(w)
      BY <1>1, <1>2, <1>4, <2>2 DEF WriteMetadata, Entry
    <2>3. CASE TrashFails(w) \/ Crash(w)
      BY <1>1, <1>2, <1>4, <2>3 DEF TrashFails, Crash, Fault
    <2> QED
      BY <1>1, <1>4, <2>1, <2>2, <2>3, Arrives
  <1> QED BY <1>3, <1>4

\* Where no requests have met, what is live stays, ...
LEMMA LiveKept ==
    ASSUME TypeInv, KeepInv, ~raced, NEW w \in Workers, Step(w),
           NEW d \in Contents \ {0}, NEW c \in Csvs, live[c] = d
    PROVE  Kept(d)'
  <1>1. /\ destroyed \in [Contents -> Fates] /\ loc[w] \in Locals /\ AtStep(w)
        /\ Clearing(w) /\ live \in [Csvs -> Contents]
    BY InHand DEF TypeInv, Types, KeepInv
  <1>2. live'[c] = d => Kept(d)'
    BY DEF Kept
  <1>3. CASE Looks(w)
    BY <1>2, <1>3, LooksRest DEF files
  <1>4. CASE WriteCsv(w)
    <2>1. live' = [live EXCEPT ![loc[w].row[2]] = fresh'] /\ live[loc[w].row[2]] = 0
      BY <1>1, <1>4 DEF WriteCsv, Goto, Clearing
    <2> QED
      BY <1>1, <1>2, <2>1
  <1>5. CASE TrashFails(w) \/ MapFails(w)
    <2>1. live'[c] = d \/ destroyed'[d] = "removed"
      BY <1>1, <1>5 DEF TrashFails, MapFails, Destroy
    <2> QED
      BY <1>2, <2>1 DEF Kept
  <1>6. CASE ClearRegistry(w) \/ PutRegistry(w) \/ ClearMapping(w) \/ PutMapping(w)
                \/ ReplaceMapping(w)
    BY <1>2, <1>6 DEF ClearRegistry, PutRegistry, ClearMapping, PutMapping, ReplaceMapping
  <1>7. CASE EmptyOld(w) \/ Purge(w) \/ Clear(w) \/ RmDir(w) \/ MkDir(w) \/ WriteMetadata(w)
    BY <1>2, <1>7 DEF EmptyOld, Purge, Clear, Empty, RmDir, MkDir, WriteMetadata
  <1>8. CASE Move(w)
    <2> PICK i : i = loc[w].id
      OBVIOUS
    <2>1. PICK e \in loc[w].todo :
            /\ live[e] # 0 => trash[i].there
            /\ pc[w] = "move" /\ pc'[w] = "move" /\ loc'[w].id = i
            /\ IF live[e] # 0
               THEN /\ trash' = [trash EXCEPT ![i].files[e] = live[e]]
                    /\ live' = [live EXCEPT ![e] = 0]
               ELSE UNCHANGED <<trash, live>>
      <3>1. pc \in [Workers -> Steps] /\ loc \in [Workers -> Locals]
        BY DEF TypeInv, Types
      <3> QED
        BY <1>1, <1>8, <3>1 DEF Move, Goto, Set, Locals
    <2>2. CASE e # c
      BY <1>1, <1>2, <2>1, <2>2
    <2>3. CASE e = c
      <3>1. i \in DOMAIN trash
        BY <1>1, <2>1 DEF AtStep
      <3>2. /\ trash[i] \in Entry /\ trash[i].files \in [Csvs -> Contents]
            /\ trash \in Seq(Entry)
        BY <3>1, InHand
      <3>3. trash'[i] = [trash[i] EXCEPT !.files[c] = d] /\ i \in DOMAIN trash'
        BY <2>1, <2>3, <3>1, <3>2
      <3>4. trash'[i].files[c] = d /\ trash'[i].there
        BY <2>1, <2>3, <3>2, <3>3 DEF Entry
      <3>5. Filling(i)'
        BY <2>1 DEF Filling
      <3>6. d \in InTrash(i)'
        BY <3>4 DEF InTrash
      <3> QED
        BY <3>3, <3>4, <3>5, <3>6 DEF Kept
    <2> QED BY <2>2, <2>3
  <1>9. CASE MoveBack(w)
    <2> DEFINE i == loc[w].id
    <2>1. PICK e \in loc[w].todo :
            /\ pc[w] = "back"
            /\ \/ live' = live
               \/ /\ live' = [live EXCEPT ![e] = trash[i].files[e]]
                  /\ Destroy({live[e]}, IF trash[i].kind = "rule" THEN "rule_restored_over"
                                        ELSE "csv_restored_over")
      BY <1>9 DEF MoveBack, Goto
    <2>2. trash[i].kind = "csv" => live[e] = 0
      BY <1>1, <2>1 DEF Clearing
    <2>3. trash[i].kind \in {"csv", "rule"}
      <3>1. i \in DOMAIN trash
        BY <1>1, <2>1 DEF AtStep, Fits
      <3>2. trash[i] \in Entry
        BY <3>1, InHand
      <3> QED
        BY <3>2 DEF Entry
    <2>4. live'[c] = d \/ destroyed'[d] = "rule_restored_over"
      BY <1>1, <2>1, <2>2, <2>3 DEF Destroy
    <2> QED
      BY <1>2, <2>4 DEF Kept
  <1> QED
    BY <1>3, <1>4, <1>5, <1>6, <1>7, <1>8, <1>9, StepIs DEF Writes, Trashes

\* ... and so does what is in the trash.
LEMMA TrashKept ==
    ASSUME TypeInv, KeepInv, ~raced, NEW w \in Workers, Step(w),
           NEW d \in Contents \ {0}, NEW i \in DOMAIN trash, NEW c \in Csvs,
           trash[i].files[c] = d, trash[i].there,
           trash[i].meta \/ Filling(i) \/ faults > 0
    PROVE  Kept(d)'
  <1>1. /\ destroyed \in [Contents -> Fates] /\ loc[w] \in Locals /\ AtStep(w)
        /\ Own(w) /\ Back(w) /\ live \in [Csvs -> Contents] /\ faults \in Nat
        /\ trash[i] \in Entry /\ trash[i].files \in [Csvs -> Contents] /\ trash \in Seq(Entry)
        /\ i \in DOMAIN trash' /\ faults' \in Nat
    BY InHand, LooksRest, TrashesRest, WritesRest, StepTypes, StepIs
       DEF TypeInv, Types, KeepInv, Grown, files
  <1>2. faults > 0 => faults' > 0
    BY <1>1, FaultsGrow
  <1>3. ASSUME trash'[i].files[c] = d, trash'[i].there, trash[i].meta => trash'[i].meta
        PROVE  Kept(d)'
    <2>1. d \in InTrash(i)'
      BY <1>3 DEF InTrash
    <2> QED
      BY <1>1, <1>2, <1>3, <2>1, FillingEnds DEF Kept
  <1>4. CASE Looks(w) \/ Writes(w)
    BY <1>3, <1>4, LooksRest, WritesRest DEF files
  <1>5. CASE EmptyOld(w) \/ Purge(w) \/ Clear(w)
    <2>1. PICK j, why :
            /\ why \in {"replaced", "purged", "left_in_trash"}
            /\ trash' = [trash EXCEPT ![j].files = NoFiles, ![j].meta = FALSE]
            /\ Destroy({trash[j].files[e] : e \in Csvs}, why)
            /\ why = "left_in_trash" => pc[w] = "clear" /\ j = loc[w].id
      <3>1. CASE EmptyOld(w)
        <4>1. PICK j \in loc[w].ids : Empty(w, j, "old", "replaced")
          BY <3>1 DEF EmptyOld
        <4> QED
          BY <4>1 DEF Empty
      <3>2. CASE Purge(w)
        BY <3>2 DEF Purge, Empty
      <3>3. CASE Clear(w)
        BY <3>3 DEF Clear, Empty, Goto
      <3> QED
        BY <1>5, <3>1, <3>2, <3>3
    <2>2. CASE i = j
      <3>1. why # "left_in_trash"
        BY <1>1, <2>1, <2>2 DEF Back, Restoring, AtStep, Fits
      <3>2. destroyed'[d] = why
        BY <1>1, <2>1, <2>2 DEF Destroy
      <3> QED
        BY <2>1, <3>1, <3>2 DEF Kept
    <2>3. CASE i # j
      BY <1>1, <1>3, <2>1, <2>3
    <2> QED BY <2>2, <2>3
  <1>6. CASE RmDir(w)
    <2>1. trash'[i] \in {trash[i], [trash[i] EXCEPT !.there =
                                      trash[i].files # NoFiles \/ trash[i].meta]}
      BY <1>1, <1>6 DEF RmDir
    <2>2. trash[i].files # NoFiles
      BY DEF NoFiles
    <2>3. trash'[i].files = trash[i].files /\ trash'[i].meta = trash[i].meta
          /\ trash'[i].there = TRUE
      BY <1>1, <2>1, <2>2 DEF Entry
    <2> QED
      BY <1>3, <2>3
  <1>7. CASE MkDir(w)
    <2>1. PICK e : trash' = Append(trash, e)
      BY <1>7 DEF MkDir
    <2>2. trash'[i] = trash[i]
      BY <1>1, <2>1
    <2> QED
      BY <1>3, <2>2
  <1>8. CASE Move(w)
    <2>1. PICK e \in loc[w].todo :
            /\ pc[w] = "move"
            /\ trash' \in {trash, [trash EXCEPT ![loc[w].id].files[e] = live[e]]}
      BY <1>8 DEF Move, Goto
    <2>2. i = loc[w].id => e # c
      BY <1>1, <2>1 DEF Own
    <2>3. /\ trash'[i].there = trash[i].there /\ trash'[i].meta = trash[i].meta
          /\ trash'[i].files[c] = d
      <3>1. trash'[i] \in {trash[i], [trash[i] EXCEPT !.files[e] = live[e]]}
            /\ (i # loc[w].id => trash'[i] = trash[i])
        BY <1>1, <2>1
      <3>2. /\ trash'[i].files \in {trash[i].files, [trash[i].files EXCEPT ![e] = live[e]]}
            /\ trash'[i].there = trash[i].there /\ trash'[i].meta = trash[i].meta
        BY <1>1, <3>1, ZenonT(30) DEF Entry
      <3> QED
        BY <1>1, <2>2, <3>1, <3>2
    <2> QED
      BY <1>3, <2>3
  <1>9. CASE WriteMetadata(w)
    <2>1. trash'[i] \in {trash[i], [trash[i] EXCEPT !.meta = TRUE]}
      BY <1>1, <1>9 DEF WriteMetadata
    <2>2. /\ trash'[i].there = trash[i].there /\ trash'[i].files = trash[i].files
          /\ trash[i].meta => trash'[i].meta
      BY <1>1, <2>1 DEF Entry
    <2> QED
      BY <1>3, <2>2
  <1>10. CASE MoveBack(w)
    <2> DEFINE j == loc[w].id
    <2>1. PICK e \in loc[w].todo :
            \/ trash' = trash
            \/ /\ trash' = [trash EXCEPT ![j].files[e] = 0]
               /\ live' = [live EXCEPT ![e] = trash[j].files[e]]
      BY <1>10 DEF MoveBack
    <2>2. CASE i = j /\ e = c
      <3>1. trash' = trash \/ live'[c] = d
        BY <1>1, <2>1, <2>2
      <3> QED
        BY <1>3, <3>1 DEF Kept
    <2>3. CASE ~(i = j /\ e = c)
      <3>1. trash'[i] \in {trash[i], [trash[i] EXCEPT !.files[e] = 0]}
            /\ (i # j => trash'[i] = trash[i])
        BY <1>1, <2>1
      <3>2. /\ trash'[i].files \in {trash[i].files, [trash[i].files EXCEPT ![e] = 0]}
            /\ trash'[i].there = trash[i].there /\ trash'[i].meta = trash[i].meta
        BY <1>1, <3>1, ZenonT(30) DEF Entry
      <3>3. trash'[i].files[c] = d
        BY <1>1, <2>3, <3>1, <3>2
      <3> QED
        BY <1>3, <3>2, <3>3
    <2> QED BY <2>2, <2>3
  <1> QED
    BY <1>4, <1>5, <1>6, <1>7, <1>8, <1>9, <1>10, StepIs DEF Trashes

\* So none is lost, ...
LEMMA StepLosesNone ==
    ASSUME TypeInv, KeepInv, NothingLost, NEW w \in Workers, Step(w), History(w)
    PROVE  NothingLost'
  <1> SUFFICES ASSUME ~raced', NEW d \in 1..fresh' PROVE Kept(d)'
    BY DEF NothingLost, Kept, InTrash, Filling
  <1>1. ~raced
    BY DEF History
  <1>2. d \in Contents \ {0} /\ fresh \in Nat
    <2>1. fresh' \in Contents /\ First \in Nat /\ MaxRequests \in Nat /\ fresh \in Nat
      BY FreshStep, ConstantTypes DEF TypeInv, Types, FreshTypes
    <2> QED
      BY <2>1 DEF Contents
  <1>3. CASE d \in 1..fresh
    <2>1. Kept(d)
      BY <1>1, <1>3 DEF NothingLost, Kept
    <2>2. destroyed[d] \in {"purged", "replaced", "removed", "rule_restored_over"} => Kept(d)'
      BY <1>1, <1>2, GivenUp DEF Kept
    <2>3. ASSUME NEW i \in DOMAIN trash, d \in InTrash(i), trash[i].there,
                 trash[i].meta \/ Filling(i) \/ faults > 0
          PROVE  Kept(d)'
      BY <1>1, <1>2, <2>3, TrashKept DEF InTrash
    <2> QED
      BY <1>1, <1>2, <2>1, <2>2, <2>3, LiveKept DEF Kept
  <1>4. CASE d \notin 1..fresh
    <2>1. WriteCsv(w)
      BY <1>4, CreatingIs, LooksRest DEF Looks
    <2>2. fresh' = fresh + 1 /\ live' = [live EXCEPT ![loc[w].row[2]] = fresh']
      BY <2>1 DEF WriteCsv
    <2>3. loc[w].row[2] \in Csvs /\ live \in [Csvs -> Contents]
      BY InHand, ConstantTypes DEF TypeInv, Types, Locals
    <2>4. d = fresh'
      BY <1>2, <1>4, <2>2
    <2> QED
      BY <2>2, <2>3, <2>4 DEF Kept
  <1> QED BY <1>3, <1>4

\* ... from the start.
LEMMA InitKeeps == Init => KeepInv /\ NothingLost
  <1> SUFFICES ASSUME Init PROVE KeepInv /\ NothingLost
    OBVIOUS
  <1>1. KeepInv
    BY DEF Init, KeepInv, Own, Back, Clearing, Restoring, Idle
  <1>2. ASSUME NEW d \in 1..fresh PROVE Kept(d)
    <2>1. CASE \E c \in Csvs : Live[c] = d
      BY <2>1 DEF Init, Kept
    <2>2. ASSUME NEW i \in DOMAIN Trashed, Trashed[i].meta, NEW c \in Csvs,
                 Trashed[i].files[c] = d
          PROVE  Kept(d)
      <3>1. trash = Trashed /\ d # 0 /\ trash[i].there
        BY <2>2, RulesAssumption DEF Init, Bundle
      <3> QED
        BY <2>2, <3>1 DEF Kept, InTrash
    <2> QED
      BY <2>1, <2>2, RulesAssumption DEF Init
  <1> QED
    BY <1>1, <1>2 DEF NothingLost, Kept

\* Where no creation without the lock meets another request, contents once written are
\* live, or in an entry of the trash that can be listed and restored, until they are
\* purged, replaced there, removed because the trash failed, or overwritten by the restore
\* of a rule; a fault at worst leaves an entry without metadata (move_to_trash,
\* restore_from_trash, purge_trash_item).
THEOREM ContentsAreKept == Spec => []NothingLost
  <1> DEFINE Inv == TypeInv /\ KeepInv /\ NothingLost
  <1>1. Init => Inv
    BY InitTypes, InitKeeps
  <1>2. Inv /\ [Next]_vars => Inv'
    <2> SUFFICES ASSUME Inv, [Next]_vars PROVE Inv'
      OBVIOUS
    <2>1. ASSUME NEW w \in Workers, Step(w), History(w) PROVE Inv'
      BY <2>1, StepTypes, StepKeeps, StepLosesNone
    <2>2. CASE UNCHANGED vars
      <3>1. KeepInv' /\ NothingLost'
        BY <2>2 DEF vars, files, KeepInv, Own, Back, Clearing, NothingLost, InTrash, Filling
      <3> QED
        BY <2>2, <3>1, StutterTypes
    <2> QED
      BY <2>1, <2>2 DEF Next
  <1> QED
    BY <1>1, <1>2, PTL DEF Spec

----------------------------------------------------------------------------
(* Registry and mapping change by whole operations.                        *)

\* What a request under the lock is to make of the registry and the mapping that it has
\* found, ...
NewRules(l) ==
    LET r == l.row[1] IN
    IF l.op \in {"create_rule", "restore"} THEN book.rules \cup {r}
    ELSE IF \/ l.op \in {"create_csv", "remove_rule"}
            \/ l.op = "remove_csv" /\ Cardinality(RowsOf(r, book.rows)) = 1
    THEN book.rules \ {r}
    ELSE book.rules
NewRows(l) ==
    IF l.op = "approved_csv" THEN book.rows \cup {l.row}
    ELSE IF l.op = "remove_rule" THEN book.rows \ RowsOf(l.row[1], book.rows)
    ELSE IF l.op = "remove_csv" THEN book.rows \ {l.row}
    ELSE IF l.op = "restore" THEN book.rows \cup l.rows
    ELSE book.rows

\* ... and what it has made sure of.
Due(l) ==
    LET r == l.row[1] IN
    /\ l.op = "create_rule" => r \notin book.rules /\ RowsOf(r, book.rows) = {}
    /\ l.op = "create_csv" => l.row \in book.rows
    /\ l.op = "remove_rule" => r \in book.rules \/ RowsOf(r, book.rows) # {}
    /\ l.op = "restore" =>
          /\ l.row \in l.rows /\ \A x \in l.rows : x[1] = r
          /\ l.rows = {l.row} \/ RowsOf(r, book.rows) = {}

Settled == registry = book.rules /\ mapping = book.rows

\* How far the request that has the lock has come.
Halfway(w) ==
    LET p == pc[w]
        l == loc[w]
    IN
    lock = w =>
        \/ p = "done" /\ Settled
        \/ /\ Due(l)
           /\ registry = IF p = "regput" THEN registry
                         ELSE IF p \in {"clear", "rmdir", "done"} THEN NewRules(l)
                         ELSE book.rules
           /\ mapping = IF p = "mapput" THEN mapping
                        ELSE IF p \in {"replace", "map", "back"} THEN book.rows
                        ELSE NewRows(l)
           /\ p \in {"replace", "map", "mapput"} => l.map = NewRows(l)
           /\ p = "back" => l.map = book.rows
           /\ p \in {"reg", "regput"} => l.reg = NewRules(l)
           /\ l.op = "remove_csv" /\ p \in {"replace", "forget"} =>
                 l.reg = IF Cardinality(RowsOf(l.row[1], book.rows)) = 1
                         THEN {l.row[1]} ELSE {}

\* A direct creation rewrites the mapping while nobody has the lock, ...
Direct(w) == loc[w].op = "create_csv" /\ pc[w] \in {"map", "mapput", "unregister"}
Creation(w) ==
    loc[w].op = "create_csv" =>
        /\ pc[w] \in {"write", "map"} => loc[w].map = mapping \cup {loc[w].row}
        /\ pc[w] = "mapput" =>
              /\ lock = NoOne /\ registry = book.rules
              /\ loc[w].map = book.rows \cup {loc[w].row}
        /\ pc[w] = "unregister" => loc[w].row \in mapping

\* ... one at a time.
Apart == \A v, w \in Workers : Direct(v) /\ Direct(w) => v = w

Resting ==
    lock = NoOne =>
        Settled \/ \E w \in Workers : loc[w].op = "create_csv" /\ pc[w] = "mapput"

Books == [rules : SUBSET Rules, rows : SUBSET Row]
BookInv ==
    /\ book \in Books
    /\ ~raced /\ faults = 0 =>
          Apart /\ Resting /\ \A w \in Workers : Creation(w) /\ Halfway(w)

\* What is due is an operation of the book, or changes nothing.
LEMMA BookStep ==
    ASSUME book \in Books, NEW l \in Locals, Due(l),
           book'.rules = NewRules(l), book'.rows = NewRows(l)
    PROVE  [Book!Next]_(Book!vars)
  <1> DEFINE r == l.row[1]
             c == l.row[2]
  <1>1. r \in Rules /\ c \in Csvs /\ l.row = <<r, c>>
    BY DEF Locals, Row
  <1>2. book.rules \subseteq Rules /\ book.rows \subseteq Row
    BY DEF Books
  <1>3. \A map : Book!RowsOf(r, map) = RowsOf(r, map)
    BY DEF Book!RowsOf, RowsOf
  <1>4. ASSUME Book!Register(r) \/ Book!Unregister(r) \/ Book!Drop(r) \/ Book!Attach(r, c)
               \/ Book!Detach(r, c) \/ \E cs \in SUBSET Csvs : Book!ComeBack(r, {r} \X cs)
        PROVE  Book!Next
    BY <1>1, <1>4 DEF Book!Next
  <1>5. CASE l.op = "create_rule"
    <2>1. Book!Register(r)
      BY <1>3, <1>5 DEF Due, NewRules, NewRows, Book!Register
    <2> QED BY <1>4, <2>1
  <1>6. CASE l.op = "create_csv"
    <2>1. Book!Unregister(r)
      BY <1>3, <1>6 DEF Due, NewRules, NewRows, Book!Unregister, RowsOf
    <2> QED BY <1>4, <2>1
  <1>7. CASE l.op = "approved_csv"
    <2>1. Book!Attach(r, c)
      BY <1>1, <1>7 DEF NewRules, NewRows, Book!Attach
    <2> QED BY <1>4, <2>1
  <1>8. CASE l.op = "remove_rule"
    <2>1. Book!Drop(r)
      BY <1>3, <1>8 DEF Due, NewRules, NewRows, Book!Drop
    <2> QED BY <1>4, <2>1
  <1>9. CASE l.op = "remove_csv"
    <2> DEFINE S == RowsOf(r, book.rows)
    <2>1. IsFiniteSet(S)
      BY <1>2, RulesAssumption, FS_Subset DEF RowsOf
    <2>2. Cardinality(S) = 1 <=> \E x : S = {x}
      BY <2>1, FS_Singleton
    <2>3. CASE l.row \in book.rows
      <3>1. l.row \in S
        BY <2>3 DEF RowsOf
      <3>2. Cardinality(S) = 1 <=> S = {l.row}
        BY <2>2, <3>1
      <3>3. Book!Detach(r, c)
        BY <1>1, <1>3, <1>9, <2>3, <3>2 DEF NewRules, NewRows, Book!Detach
      <3> QED BY <1>4, <3>3
    <2>4. CASE l.row \notin book.rows /\ Cardinality(S) = 1
      <3>1. S # {} /\ book.rows \ {l.row} = book.rows
        BY <2>2, <2>4
      <3>2. Book!Unregister(r)
        BY <1>3, <1>9, <2>4, <3>1 DEF NewRules, NewRows, Book!Unregister
      <3> QED BY <1>4, <3>2
    <2>5. CASE l.row \notin book.rows /\ Cardinality(S) # 1
      <3>1. book'.rules = book.rules /\ book'.rows = book.rows
        BY <1>9, <2>5 DEF NewRules, NewRows
      <3> QED
        BY <3>1 DEF Book!vars
    <2> QED BY <2>3, <2>4, <2>5
  <1>10. CASE l.op = "restore"
    <2> DEFINE cs == CsvsIn(l.rows)
    <2>1. l.rows = {r} \X cs /\ cs \in SUBSET Csvs
      <3>1. \A x \in l.rows : x \in Row /\ x[1] = r
        BY <1>10 DEF Due, Locals
      <3> QED
        BY <3>1 DEF CsvsIn, Row
    <2>2. Book!ComeBack(r, l.rows)
      BY <1>3, <1>10 DEF Due, NewRules, NewRows, Book!ComeBack
    <2>3. \E C \in SUBSET Csvs : Book!ComeBack(r, {r} \X C)
      BY <2>1, <2>2
    <2> QED BY <1>4, <2>3
  <1>11. CASE l.op \in {"purge", "none"}
    <2>1. book'.rules = book.rules /\ book'.rows = book.rows
      BY <1>11 DEF NewRules, NewRows
    <2> QED
      BY <2>1 DEF Book!vars
  <1> QED
    BY <1>5, <1>6, <1>7, <1>8, <1>9, <1>10, <1>11 DEF Locals, Ops

\* While requests have not met and nothing has failed, the book follows each completion.
LEMMA Unraced ==
    ASSUME TypeInv, NEW w \in Workers, Step(w), History(w), ~raced', faults' = 0
    PROVE  /\ ~raced /\ ~Meets(w) /\ faults = 0
           /\ ~Crash(w) /\ ~MapFails(w)
           /\ book' = IF Completes(w) THEN [rules |-> Known(registry'), rows |-> mapping']
                      ELSE book
  <1>1. faults \in Nat /\ faults' \in {faults, faults + 1}
    BY FaultsGrow DEF TypeInv, Types
  <1>2. Crash(w) \/ MapFails(w) => faults' = faults + 1
    BY DEF Crash, MapFails, Fault
  <1>3. ~(raced \/ Meets(w))
    BY DEF History
  <1>4. book' = IF Completes(w) THEN [rules |-> Known(registry'), rows |-> mapping']
                ELSE book
    BY DEF History
  <1> QED
    BY <1>1, <1>2, <1>3, <1>4

\* Who takes the lock.
LEMMA Takes ==
    ASSUME TypeInv, NEW w \in Workers, Step(w), lock # w, lock' = w
    PROVE  /\ lock = NoOne
           /\ \/ CreateRule(w) \/ AppendRow(w) \/ Unregister(w) \/ DropRule(w)
              \/ DetachCsv(w) \/ CheckConflict(w)
           /\ pc[w] \in {"create_rule", "append", "unregister", "drop", "remove_csv", "check"}
  <1>2. OthersRest(w) /\ w # NoOne
    BY LooksRest, WritesRest, TrashesRest, StepIs, ConstantTypes
  <1>3. lock = NoOne
    BY <1>2 DEF OthersRest
  <1>4. ~Trashes(w)
    BY TrashesRest
  <1>5. ~Writes(w)
    BY <1>2, <1>3 DEF Writes, ClearRegistry, PutRegistry, ClearMapping, PutMapping,
                ReplaceMapping, WriteCsv, TrashFails, MapFails, Free
  <1>1. Begin(w) => lock' = lock
    BY DEF Begin
  <1>6. ~Begin(w)
    BY <1>1
  <1>7. ~(CreateCsv(w) \/ ApprovedCsv(w) \/ RemoveRule(w) \/ Forget(w) \/ Done(w))
    BY <1>2, <1>3 DEF CreateCsv, ApprovedCsv, RemoveRule, Forget, Done, Free
  <1>8. ~(ListTrash(w) \/ PurgeNone(w) \/ ReadMetadata(w) \/ MovedBack(w) \/ Register(w)
             \/ Crash(w))
    BY <1>2, <1>3 DEF ListTrash, PurgeNone, ReadMetadata, MovedBack, Register, Crash, Free
  <1>9. \/ CreateRule(w) \/ AppendRow(w) \/ Unregister(w) \/ DropRule(w)
        \/ DetachCsv(w) \/ CheckConflict(w)
    BY <1>4, <1>5, <1>6, <1>7, <1>8, StepIs DEF Looks
  <1> QED
    BY <1>3, <1>9 DEF CreateRule, AppendRow, Unregister, DropRule, DetachCsv,
                      CheckConflict, Goto

\* Until requests meet, a step changes nothing behind the back of a creation, and nobody
\* has the lock that it does without.
LEMMA Unmet ==
    ASSUME TypeInv, NEW w \in Workers, Step(w), ~Meets(w), NEW v \in Workers, Exposed(v)
    PROVE  /\ v # w => UNCHANGED <<registry, mapping, live>>
           /\ pc[v] # "unregister" => lock' = NoOne
  <1>1. v # w => UNCHANGED <<registry, mapping, live>>
    BY DEF Meets
  <1>2. ASSUME pc[v] # "unregister" PROVE lock' = NoOne
    <2>1. lock' \in {NoOne, v} /\ lock # v
      BY <1>2 DEF Meets, Exposed, TypeInv, AtStep, Holding
    <2>2. OthersRest(w) /\ w # NoOne /\ v # NoOne
      BY LooksRest, WritesRest, TrashesRest, StepIs, ConstantTypes
    <2>3. v = w => lock' # w
      BY <1>2, <2>1, Takes DEF Exposed
    <2> QED
      BY <2>1, <2>2, <2>3 DEF OthersRest
  <1> QED BY <1>1, <1>2

\* Only these steps write the registry or the mapping.
LEMMA Rewrites ==
    ASSUME TypeInv, NEW w \in Workers, Step(w), ~(UNCHANGED <<registry, mapping>>)
    PROVE  /\ \/ ClearRegistry(w) \/ PutRegistry(w) \/ ReplaceMapping(w)
              \/ ClearMapping(w) \/ PutMapping(w)
           /\ lock = w \/ (loc[w].op = "create_csv" /\ pc[w] \in {"map", "mapput"})
  <1>1. ~Looks(w) /\ ~Trashes(w)
    BY LooksRest, TrashesRest DEF files
  <1>2. ~(WriteCsv(w) \/ TrashFails(w) \/ MapFails(w))
    BY DEF WriteCsv, TrashFails, MapFails
  <1>3. \/ ClearRegistry(w) \/ PutRegistry(w) \/ ReplaceMapping(w)
        \/ ClearMapping(w) \/ PutMapping(w)
    BY <1>1, <1>2, StepIs DEF Writes
  <1>4. pc[w] \in {"reg", "regput", "replace", "map", "mapput"}
    BY <1>3 DEF ClearRegistry, PutRegistry, ReplaceMapping, ClearMapping, PutMapping, Goto
  <1> QED
    BY <1>3, <1>4 DEF TypeInv, AtStep, Holding

\* Who leaves the two files complete.
LEMMA Completing ==
    ASSUME TypeInv, NEW w \in Workers, Step(w), Completes(w), ~Crash(w), ~MapFails(w)
    PROVE  \/ lock = w /\ lock' = NoOne /\ (Forget(w) \/ PutRegistry(w) \/ Done(w))
           \/ lock # w /\ loc[w].op = "create_csv" /\ pc[w] = "mapput" /\ PutMapping(w)
  <1>1. OthersRest(w) /\ w # NoOne /\ AtStep(w)
    BY LooksRest, WritesRest, TrashesRest, StepIs, ConstantTypes DEF TypeInv
  <1>2. CASE lock = w /\ lock' # w
    <2>1. lock' = NoOne
      BY <1>1, <1>2 DEF OthersRest
    <2>2. ~Trashes(w)
      BY <1>2, TrashesRest
    <2>3. Writes(w) => PutRegistry(w)
      BY <1>2 DEF Writes, ClearRegistry, ClearMapping, PutMapping,
                  ReplaceMapping, WriteCsv, TrashFails
    <2>4. Begin(w) => lock' = lock
      BY DEF Begin
    <2>5. ~(CreateRule(w) \/ CreateCsv(w) \/ ApprovedCsv(w) \/ AppendRow(w) \/ Unregister(w)
              \/ RemoveRule(w) \/ DropRule(w) \/ DetachCsv(w))
      BY <1>1, <1>2 DEF CreateRule, CreateCsv, ApprovedCsv, AppendRow, Unregister,
                        RemoveRule, DropRule, DetachCsv, Take
    <2>6. ~(ListTrash(w) \/ PurgeNone(w) \/ ReadMetadata(w) \/ CheckConflict(w)
              \/ MovedBack(w) \/ Register(w))
      BY <1>1, <1>2 DEF ListTrash, PurgeNone, ReadMetadata, CheckConflict, MovedBack,
                        Register, Take
    <2> QED
      BY <1>2, <2>1, <2>2, <2>3, <2>4, <2>5, <2>6, StepIs DEF Looks
  <1>3. CASE loc[w].op = "create_csv" /\ pc[w] = "mapput"
    <2>1. lock # w
      BY <1>1, <1>3 DEF AtStep, Holding
    <2>2. ~Trashes(w)
      BY <1>3 DEF Trashes, EmptyOld, RmDir, MkDir, Move, WriteMetadata, Purge, Clear,
                  MoveBack, Empty, Goto
    <2>3. Writes(w) => PutMapping(w)
      BY <1>3 DEF Writes, ClearRegistry, PutRegistry, ClearMapping, ReplaceMapping,
                  WriteCsv, TrashFails, Goto
    <2>4. Begin(w) => pc[w] = "idle"
      BY DEF Begin
    <2>5. ~(CreateRule(w) \/ CreateCsv(w) \/ ApprovedCsv(w) \/ AppendRow(w) \/ Unregister(w)
              \/ RemoveRule(w) \/ DropRule(w) \/ DetachCsv(w) \/ Forget(w) \/ Done(w))
      BY <1>3 DEF CreateRule, CreateCsv, ApprovedCsv, AppendRow, Unregister,
                  RemoveRule, DropRule, DetachCsv, Forget, Done, Goto
    <2>6. ~(ListTrash(w) \/ PurgeNone(w) \/ ReadMetadata(w) \/ CheckConflict(w)
              \/ MovedBack(w) \/ Register(w))
      BY <1>3 DEF ListTrash, PurgeNone, ReadMetadata, CheckConflict, MovedBack,
                  Register, Goto
    <2> QED
      BY <1>3, <2>1, <2>2, <2>3, <2>4, <2>5, <2>6, StepIs DEF Looks
  <1> QED
    BY <1>2, <1>3 DEF Completes

\* A direct creation comes to the mapping by way of its file.
LEMMA Directly ==
    ASSUME TypeInv, NEW w \in Workers, Step(w), Direct(w)'
    PROVE  Direct(w) \/ WriteCsv(w)
  <1>1. /\ pc \in [Workers -> Steps] /\ loc \in [Workers -> Locals] /\ loc[w] \in Locals
        /\ Fits(pc[w], loc[w])
    BY InHand DEF TypeInv, Types, AtStep
  <1> DEFINE On == pc'[w] \in {"map", "mapput", "unregister"}
  <1>2. On /\ loc'[w].op = "create_csv"
    BY DEF Direct
  <1>3. Begin(w) => ~On
    <2> SUFFICES ASSUME Begin(w) PROVE ~On
      OBVIOUS
    <2>1. PICK q \in Asks : pc'[w] = q.op
      BY <1>1 DEF Begin, Goto
    <2>2. q.op \in Ops
      BY <2>1 DEF Asks, Of, Ops
    <2> QED
      BY <2>1, <2>2 DEF Ops
  <1>4. CreateRule(w) \/ CreateCsv(w) \/ ApprovedCsv(w) \/ Unregister(w) \/ RemoveRule(w)
            \/ DropRule(w) \/ DetachCsv(w) => ~On
    BY <1>1 DEF CreateRule, CreateCsv, ApprovedCsv, Unregister, RemoveRule, DropRule,
                DetachCsv, Goto
  <1>5. ListTrash(w) \/ PurgeNone(w) \/ ReadMetadata(w) \/ CheckConflict(w) \/ Register(w)
            \/ Forget(w) \/ Done(w) \/ Crash(w) => ~On
    BY <1>1, AfterIs DEF ListTrash, PurgeNone, ReadMetadata, CheckConflict, Register, Forget,
                         Done, Crash, Goto, Return
  <1>6. AppendRow(w) \/ MovedBack(w) => loc'[w].op # "create_csv"
    BY <1>1 DEF AppendRow, MovedBack, Goto, Set, Fits, Locals
  <1>7. ClearRegistry(w) \/ PutRegistry(w) \/ ReplaceMapping(w) \/ TrashFails(w) \/ MapFails(w)
            => ~On
    BY <1>1, AfterIs DEF ClearRegistry, PutRegistry, ReplaceMapping, TrashFails, MapFails, Goto
  <1>8. ClearMapping(w) \/ PutMapping(w) => Direct(w)
    BY <1>2 DEF ClearMapping, PutMapping, Goto, Direct
  <1>9. ~Trashes(w)
    BY <1>1, <1>2 DEF Trashes, EmptyOld, RmDir, MkDir, Move, WriteMetadata, Purge, Clear,
                  MoveBack, Empty, Goto
  <1> QED
    BY <1>2, <1>3, <1>4, <1>5, <1>6, <1>7, <1>8, <1>9, StepIs DEF Looks, Writes

\* So they do one at a time.
LEMMA ApartStays ==
    ASSUME TypeInv, KeepInv, Apart, ~raced, NEW w \in Workers, Step(w), ~Meets(w)
    PROVE  Apart'
  <1>1. OthersRest(w)
    BY LooksRest, WritesRest, TrashesRest, StepIs
  <1>2. ASSUME NEW v \in Workers, v # w, Direct(v)', Direct(w)' PROVE FALSE
    <2>1. Direct(v)
      BY <1>1, <1>2 DEF OthersRest, Direct
    <2>2. WriteCsv(w)
      BY <1>2, <2>1, Directly DEF Apart
    <2>3. /\ live' = [live EXCEPT ![loc[w].row[2]] = fresh'] /\ fresh' = fresh + 1
          /\ live[loc[w].row[2]] = 0
      BY <2>2 DEF WriteCsv, Goto, KeepInv, Clearing
    <2>4. /\ live \in [Csvs -> Contents] /\ loc[w].row[2] \in Csvs /\ fresh \in Nat
      BY InHand, ConstantTypes DEF TypeInv, Types, FreshTypes, Locals
    <2>5. live' # live
      BY <2>3, <2>4
    <2> QED
      BY <1>2, <2>1, <2>5, Unmet DEF Direct, Exposed
  <1>3. ASSUME NEW u \in Workers, NEW v \in Workers, u # w, v # w, Direct(u)', Direct(v)'
        PROVE  u = v
    BY <1>1, <1>3 DEF OthersRest, Direct, Apart
  <1> QED
    BY <1>2, <1>3 DEF Apart

\* What a request knows of the two files stays true while others take their steps.
LEMMA OthersBooks ==
    ASSUME TypeInv, BookInv, NEW w \in Workers, Step(w), History(w), ~raced', faults' = 0,
           NEW v \in Workers, v # w
    PROVE  Creation(v)' /\ Halfway(v)'
  <1>1. /\ pc'[v] = pc[v] /\ loc'[v] = loc[v] /\ OthersRest(w) /\ w # NoOne /\ v # NoOne
    BY LooksRest, WritesRest, TrashesRest, StepIs, ConstantTypes DEF OthersRest
  <1>2. /\ ~raced /\ ~Meets(w) /\ faults = 0 /\ ~Crash(w) /\ ~MapFails(w)
        /\ ~Completes(w) => book' = book
    BY Unraced
  <1>3. Creation(v) /\ Halfway(v) /\ Creation(w) /\ Apart
    BY <1>2 DEF BookInv
  <1>4. Creation(v)'
    <2> SUFFICES ASSUME loc[v].op = "create_csv" PROVE Creation(v)'
      BY <1>1 DEF Creation
    <2>1. pc[v] \in {"write", "map", "mapput", "unregister"} => UNCHANGED <<registry, mapping>>
      BY <1>2, Unmet DEF Exposed
    <2>2. ASSUME pc[v] = "mapput" PROVE lock' = NoOne /\ book' = book
      <3>1. lock' = NoOne
        BY <1>2, <2>2, Unmet DEF Exposed
      <3>2. lock = NoOne
        BY <1>3, <2>2 DEF Creation
      <3>3. ~Completes(w)
        BY <1>1, <1>2, <1>3, <2>2, <3>2, Completing DEF Apart, Direct
      <3> QED
        BY <1>2, <3>1, <3>3
    <2> QED
      BY <1>1, <1>3, <2>1, <2>2 DEF Creation
  <1>5. ASSUME lock' = v PROVE Halfway(v)'
    <2>1. lock = v
      BY <1>1, <1>5 DEF OthersRest
    <2>2. ~(loc[w].op = "create_csv" /\ pc[w] \in {"map", "mapput"})
      BY <1>1, <1>2, <1>5, Unmet DEF Exposed
    <2>3. UNCHANGED <<registry, mapping>>
      BY <2>1, <2>2, Rewrites
    <2>4. book' = book
      BY <1>2, <2>1, <2>2, Completing
    <2> QED
      BY <1>1, <1>3, <2>1, <2>3, <2>4, ZenonT(30) DEF Halfway, Due, NewRules, NewRows, Settled
  <1> QED
    BY <1>4, <1>5 DEF Halfway

\* A direct creation goes on.
LEMMA GoesOn ==
    ASSUME TypeInv, NEW w \in Workers, Step(w), ~Crash(w), ~MapFails(w), Direct(w)
    PROVE  \/ ClearMapping(w) /\ pc[w] = "map" /\ pc'[w] = "mapput"
           \/ PutMapping(w) /\ pc[w] = "mapput" /\ pc'[w] = "unregister"
           \/ Unregister(w) /\ pc[w] = "unregister" /\ pc'[w] \notin {"map", "mapput", "unregister"}
  <1>1. pc \in [Workers -> Steps]
    BY DEF TypeInv, Types
  <1>2. pc[w] \in {"map", "mapput", "unregister"} /\ loc[w].op = "create_csv"
    BY DEF Direct
  <1>3. ~Trashes(w)
    BY <1>2 DEF Trashes, EmptyOld, RmDir, MkDir, Move, WriteMetadata, Purge, Clear,
                MoveBack, Empty, Goto
  <1>4. Writes(w) => ClearMapping(w) \/ PutMapping(w)
    BY <1>2 DEF Writes, ClearRegistry, PutRegistry, ReplaceMapping, WriteCsv, TrashFails, Goto
  <1>5. Begin(w) => pc[w] = "idle"
    BY DEF Begin
  <1>6. ~(CreateRule(w) \/ CreateCsv(w) \/ ApprovedCsv(w) \/ AppendRow(w)
            \/ RemoveRule(w) \/ DropRule(w) \/ DetachCsv(w) \/ Forget(w) \/ Done(w))
    BY <1>2 DEF CreateRule, CreateCsv, ApprovedCsv, AppendRow, RemoveRule, DropRule,
                DetachCsv, Forget, Done, Goto
  <1>7. ~(ListTrash(w) \/ PurgeNone(w) \/ ReadMetadata(w) \/ CheckConflict(w)
            \/ MovedBack(w) \/ Register(w))
    BY <1>2 DEF ListTrash, PurgeNone, ReadMetadata, CheckConflict, MovedBack, Register, Goto
  <1>8. ClearMapping(w) \/ PutMapping(w) \/ Unregister(w)
    BY <1>2, <1>3, <1>4, <1>5, <1>6, <1>7, StepIs DEF Looks
  <1> QED
    BY <1>1, <1>2, <1>8, AfterIs DEF ClearMapping, PutMapping, Unregister, Goto

\* When nobody has the lock and no creation has emptied the mapping, the files are as in
\* the book: so it is for each request that takes the lock.
LEMMA FindsSettled ==
    ASSUME TypeInv, BookInv, NEW w \in Workers, Step(w), ~Meets(w), ~raced, faults = 0,
           lock # w, lock' = w
    PROVE  Settled
  <1>1. lock = NoOne /\ pc[w] # "mapput" /\ w # NoOne
    BY Takes, ConstantTypes
  <1>2. ASSUME NEW v \in Workers, loc[v].op = "create_csv", pc[v] = "mapput" PROVE FALSE
    BY <1>1, <1>2, Unmet DEF Exposed
  <1> QED
    BY <1>1, <1>2 DEF BookInv, Resting

\* What a direct creation knows.
LEMMA OwnCreation ==
    ASSUME TypeInv, BookInv, NEW w \in Workers, Step(w), History(w), ~raced', faults' = 0
    PROVE  Creation(w)'
  <1>1. /\ pc \in [Workers -> Steps] /\ loc \in [Workers -> Locals] /\ loc[w] \in Locals
        /\ AtStep(w) /\ w # NoOne
    BY InHand, ConstantTypes DEF TypeInv, Types
  <1>2. /\ ~raced /\ ~Meets(w) /\ faults = 0 /\ ~Crash(w) /\ ~MapFails(w)
        /\ ~Completes(w) => book' = book
    BY Unraced
  <1>3. Creation(w) /\ Apart /\ Resting
    BY <1>2 DEF BookInv
  <1> SUFFICES ASSUME loc'[w].op = "create_csv" PROVE Creation(w)'
    BY DEF Creation
  <1>4. ASSUME pc'[w] = "write" PROVE loc'[w].map = mapping' \cup {loc'[w].row}
    <2>1. CreateCsv(w) \/ ApprovedCsv(w)
      BY <1>4, Arrives
    <2>2. ~ApprovedCsv(w)
      BY <1>1, <1>4 DEF ApprovedCsv, Goto, AtStep, Fits, Ops
    <2>3. /\ loc' = [loc EXCEPT ![w].map = mapping \cup {<<loc[w].row[1], loc[w].row[2]>>}]
          /\ mapping' = mapping
      BY <1>1, <1>4, <2>1, <2>2 DEF CreateCsv, files, Goto, Set
    <2>4. loc[w].row = <<loc[w].row[1], loc[w].row[2]>>
      BY <1>1 DEF Locals, Row
    <2>5. loc'[w].row = loc[w].row /\ loc'[w].map = mapping \cup {loc[w].row}
      BY <1>1, <2>3, <2>4 DEF Locals
    <2> QED
      BY <2>3, <2>5
  <1>5. CASE WriteCsv(w)
    <2>1. loc' = loc /\ mapping' = mapping /\ pc[w] = "write" /\ pc'[w] \in {"map", "append"}
      BY <1>1, <1>5 DEF WriteCsv, Goto
    <2> QED
      BY <1>3, <2>1 DEF Creation
  <1>6. CASE Direct(w)
    <2>1. CASE ClearMapping(w) /\ pc[w] = "map"
      <3>1. /\ pc'[w] = "mapput"
            /\ UNCHANGED <<registry, lock, loc>>
        BY <1>1, <2>1 DEF ClearMapping, Goto
      <3>2. lock' = NoOne
        BY <1>2, <1>6, <2>1, Unmet DEF Exposed, Direct
      <3>3. Settled
        BY <1>3, <1>6, <2>1, <3>1, <3>2 DEF Resting, Apart, Direct
      <3>4. book' = book
        BY <1>1, <1>2, <2>1, <3>1, <3>2 DEF Completes
      <3>5. loc[w].map = mapping \cup {loc[w].row}
        BY <1>3, <1>6, <2>1 DEF Creation, Direct
      <3> QED
        BY <3>1, <3>2, <3>3, <3>4, <3>5 DEF Creation, Settled
    <2>2. CASE PutMapping(w) /\ pc[w] = "mapput" /\ pc'[w] = "unregister"
      <3>1. mapping' = loc[w].map /\ loc' = loc
        BY <2>2 DEF PutMapping
      <3>2. loc[w].row \in loc[w].map
        BY <1>3, <1>6, <2>2 DEF Creation, Direct
      <3> QED
        BY <2>2, <3>1, <3>2 DEF Creation
    <2>3. CASE pc'[w] \notin {"map", "mapput", "unregister"}
      BY <1>4, <2>3 DEF Creation
    <2> QED
      BY <1>2, <1>6, <2>1, <2>2, <2>3, GoesOn
  <1>7. CASE ~Direct(w) /\ ~WriteCsv(w)
    BY <1>4, <1>7, Directly DEF Creation, Direct
  <1> QED BY <1>5, <1>6, <1>7

\* A request takes the lock and finds what is to be done.
LEMMA Gained ==
    ASSUME TypeInv, BookInv, NEW w \in Workers, Step(w), History(w), ~raced', faults' = 0,
           lock # w, lock' = w
    PROVE  Halfway(w)'
  <1> DEFINE l == loc[w]
             r == loc[w].row[1]
             R == book.rules
             M == book.rows
  <1>1. /\ pc \in [Workers -> Steps] /\ loc \in [Workers -> Locals] /\ loc[w] \in Locals
        /\ AtStep(w) /\ l.row \in Row /\ r \in Rules
        /\ book \in Books /\ R \in SUBSET Rules /\ M \in SUBSET Row
    <2>1. loc[w] \in Locals /\ AtStep(w) /\ book \in Books
      BY InHand DEF BookInv
    <2>2. l.row \in Row
      BY <2>1 DEF Locals
    <2> QED
      BY <2>1, <2>2 DEF TypeInv, Types, Books, Row
  <1>2. /\ ~raced /\ ~Meets(w) /\ faults = 0
        /\ ~Completes(w) => book' = book
    BY Unraced
  <1>3. registry = R /\ mapping = M /\ Known(registry) = R
    <2>1. Settled
      BY <1>2, FindsSettled
    <2> QED
      BY <1>1, <2>1, ConstantTypes DEF Settled, Known
  <1>4. book' = book
    BY <1>2, Takes DEF Completes
  <1>5. CASE CreateRule(w)
    <2>1. /\ pc[w] = "create_rule" /\ UNCHANGED <<registry, mapping>>
          /\ \/ pc'[w] = "done"
             \/ /\ pc'[w] = "reg" /\ r \notin R /\ RowsOf(r, M) = {}
                /\ loc' = [loc EXCEPT ![w].reg = R \cup {r}]
      BY <1>1, <1>3, <1>5 DEF CreateRule, files, Goto, Set
    <2>2. CASE pc'[w] = "done"
      BY <1>3, <1>4, <2>1, <2>2 DEF Halfway, Settled
    <2>3. CASE pc'[w] = "reg"
      <3>1. /\ loc'[w].op = "create_rule" /\ loc'[w].row = l.row /\ loc'[w].reg = R \cup {r}
        BY <1>1, <2>1, <2>3 DEF Locals, AtStep, Fits, Ops
      <3> QED
        BY <1>3, <1>4, <2>1, <2>3, <3>1 DEF Halfway, Due, NewRules, NewRows
    <2> QED BY <2>1, <2>2, <2>3
  <1>6. CASE AppendRow(w)
    <2>1. /\ pc[w] = "append" /\ pc'[w] = "map" /\ UNCHANGED <<registry, mapping>>
          /\ loc' = [loc EXCEPT ![w].map = M \cup {l.row}]
      BY <1>1, <1>3, <1>6 DEF AppendRow, files, Goto, Set
    <2>2. /\ loc'[w].op = "approved_csv" /\ loc'[w].row = l.row /\ loc'[w].map = M \cup {l.row}
      BY <1>1, <2>1 DEF Locals, AtStep, Fits
    <2> QED
      BY <1>3, <1>4, <2>1, <2>2 DEF Halfway, Due, NewRules, NewRows
  <1>7. CASE Unregister(w)
    <2>1. /\ pc[w] = "unregister" /\ UNCHANGED <<registry, mapping>>
          /\ \/ pc'[w] = "done"
             \/ /\ pc'[w] = "reg"
                /\ loc' = [loc EXCEPT ![w].reg = R \ {r}]
      BY <1>1, <1>3, <1>7 DEF Unregister, files, Goto, Set
    <2>2. CASE pc'[w] = "done"
      BY <1>3, <1>4, <2>1, <2>2 DEF Halfway, Settled
    <2>3. CASE pc'[w] = "reg"
      <3>1. l.op = "create_csv" /\ l.row \in M
        BY <1>1, <1>2, <1>3, <2>1 DEF AtStep, Fits, BookInv, Creation
      <3>2. /\ loc'[w].op = "create_csv" /\ loc'[w].row = l.row /\ loc'[w].reg = R \ {r}
        BY <1>1, <2>1, <2>3, <3>1 DEF Locals
      <3> QED
        BY <1>3, <1>4, <2>1, <2>3, <3>1, <3>2 DEF Halfway, Due, NewRules, NewRows
    <2> QED BY <2>1, <2>2, <2>3
  <1>8. CASE DropRule(w)
    <2>1. /\ pc[w] = "drop" /\ UNCHANGED <<registry, mapping>>
          /\ \/ pc'[w] = "done"
             \/ /\ pc'[w] = "reg" /\ RowsOf(r, M) = {} /\ r \in R
                /\ loc' = [loc EXCEPT ![w].reg = R \ {r}, ![w].perm = FALSE]
             \/ /\ pc'[w] = "replace" /\ RowsOf(r, M) # {}
                /\ loc' = [loc EXCEPT ![w].map = M \ RowsOf(r, M), ![w].rows = RowsOf(r, M)]
      BY <1>1, <1>3, <1>8 DEF DropRule, files, Goto
    <2>2. CASE pc'[w] = "done"
      BY <1>3, <1>4, <2>1, <2>2 DEF Halfway, Settled
    <2>3. CASE pc'[w] = "reg"
      <3>1. /\ loc'[w].op = "remove_rule" /\ loc'[w].row = l.row /\ loc'[w].reg = R \ {r}
        BY <1>1, <2>1, <2>3 DEF Locals, AtStep, Fits
      <3>2. M \ RowsOf(r, M) = M
        BY <2>1, <2>3
      <3> QED
        BY <1>3, <1>4, <2>1, <2>3, <3>1, <3>2 DEF Halfway, Due, NewRules, NewRows
    <2>4. CASE pc'[w] = "replace"
      <3>1. /\ loc'[w].op = "remove_rule" /\ loc'[w].row = l.row
            /\ loc'[w].map = M \ RowsOf(r, M)
        BY <1>1, <2>1, <2>4 DEF Locals, AtStep, Fits
      <3> QED
        BY <1>3, <1>4, <2>1, <2>4, <3>1 DEF Halfway, Due, NewRules, NewRows
    <2> QED BY <2>1, <2>2, <2>3, <2>4
  <1>9. CASE DetachCsv(w)
    <2> DEFINE out == IF Cardinality(RowsOf(r, M)) = 1 THEN {r} ELSE {}
    <2>1. /\ pc[w] = "remove_csv" /\ UNCHANGED <<registry, mapping>>
          /\ \/ pc'[w] = "done"
             \/ /\ pc'[w] = "replace"
                /\ loc' = [loc EXCEPT ![w].map = M \ {l.row}, ![w].rows = {l.row},
                                      ![w].reg = out]
      BY <1>1, <1>3, <1>9 DEF DetachCsv, files, Goto
    <2>2. CASE pc'[w] = "done"
      BY <1>3, <1>4, <2>1, <2>2 DEF Halfway, Settled
    <2>3. CASE pc'[w] = "replace"
      <3>1. /\ loc'[w].op = "remove_csv" /\ loc'[w].row = l.row
            /\ loc'[w].map = M \ {l.row} /\ loc'[w].reg = out
        BY <1>1, <2>1, <2>3 DEF Locals, AtStep, Fits, Ops
      <3> QED
        BY <1>3, <1>4, <2>1, <2>3, <3>1 DEF Halfway, Due, NewRules, NewRows
    <2> QED BY <2>1, <2>2, <2>3
  <1>10. CASE CheckConflict(w)
    <2>1. /\ pc[w] = "check" /\ UNCHANGED <<registry, mapping>>
          /\ pc'[w] = IF Exists(w) THEN "done" ELSE "back"
          /\ loc' = [loc EXCEPT ![w].map = M]
      BY <1>1, <1>3, <1>10 DEF CheckConflict, files, Goto, Set
    <2>2. CASE pc'[w] = "done"
      BY <1>3, <1>4, <2>1, <2>2 DEF Halfway, Settled
    <2>3. CASE pc'[w] = "back"
      <3>1. /\ loc'[w].op = "restore" /\ loc'[w].row = l.row /\ loc'[w].rows = l.rows
            /\ loc'[w].map = M
        BY <1>1, <2>1 DEF Locals, AtStep, Fits
      <3> DEFINE e == trash[l.id]
      <3>2. l.id \in DOMAIN trash /\ l.row \in l.rows /\ l.rows = e.rows
        BY <1>1, <2>1 DEF AtStep, Restoring, Fits
      <3>3. e \in Entry /\ Bundle(e)
        BY <3>2, InHand DEF TrashTypes
      <3>4. \A x \in l.rows : x[1] = r
        BY <3>2, <3>3 DEF Bundle
      <3>5. l.rows = {l.row} \/ RowsOf(r, M) = {}
        <4>1. CASE e.kind = "csv"
          BY <3>2, <3>3, <4>1 DEF Bundle
        <4>2. CASE e.kind # "csv"
          BY <1>3, <2>1, <2>3, <4>2 DEF Exists
        <4> QED BY <4>1, <4>2
      <3> HIDE DEF e
      <3> QED
        BY <1>3, <1>4, <2>1, <2>3, <3>1, <3>2, <3>4, <3>5 DEF Halfway, Due, NewRules, NewRows
    <2> QED BY <2>1, <2>2, <2>3
  <1> QED
    BY <1>5, <1>6, <1>7, <1>8, <1>9, <1>10, Takes

\* Which steps a request takes under the lock.
LEMMA UnderLock ==
    ASSUME TypeInv, NEW w \in Workers, Step(w), lock = w, ~Crash(w), ~MapFails(w)
    PROVE  \/ ReplaceMapping(w) \/ Forget(w) \/ ClearRegistry(w) \/ PutRegistry(w)
           \/ ClearMapping(w) \/ PutMapping(w) \/ MoveBack(w) \/ MovedBack(w) \/ Register(w)
           \/ Clear(w) \/ RmDir(w) \/ Done(w)
  <1>1. pc[w] \in {"replace", "forget", "reg", "regput", "back", "register", "clear", "map",
                   "mapput", "rmdir", "done"} /\ w # NoOne
    BY ConstantTypes DEF TypeInv, AtStep, Holding
  <1>2. Begin(w) => pc[w] = "idle"
    BY DEF Begin
  <1>3. ~(CreateRule(w) \/ CreateCsv(w) \/ ApprovedCsv(w) \/ AppendRow(w) \/ Unregister(w)
            \/ RemoveRule(w) \/ DropRule(w) \/ DetachCsv(w))
    BY <1>1 DEF CreateRule, CreateCsv, ApprovedCsv, AppendRow, Unregister, RemoveRule,
                DropRule, DetachCsv, Goto
  <1>4. ~(ListTrash(w) \/ PurgeNone(w) \/ ReadMetadata(w) \/ CheckConflict(w))
    BY <1>1 DEF ListTrash, PurgeNone, ReadMetadata, CheckConflict, Goto
  <1>5. ~(WriteCsv(w) \/ TrashFails(w))
    BY <1>1 DEF WriteCsv, TrashFails, Goto
  <1>6. ~(EmptyOld(w) \/ MkDir(w) \/ Move(w) \/ WriteMetadata(w) \/ Purge(w))
    BY <1>1 DEF EmptyOld, MkDir, Move, WriteMetadata, Purge, Empty, Goto
  <1> QED
    BY <1>1, <1>2, <1>3, <1>4, <1>5, <1>6 DEF Step

\* It brings the two files to what is due, ...
LEMMA Continued ==
    ASSUME TypeInv, BookInv, NEW w \in Workers, Step(w), History(w), ~raced', faults' = 0,
           lock = w, lock' = w
    PROVE  Halfway(w)'
  <1> DEFINE l == loc[w]
             r == loc[w].row[1]
             R == book.rules
             M == book.rows
  <1>1. /\ pc \in [Workers -> Steps] /\ loc \in [Workers -> Locals] /\ loc[w] \in Locals
        /\ AtStep(w) /\ w # NoOne /\ R \in SUBSET Rules
    BY InHand, ConstantTypes DEF TypeInv, Types, BookInv, Books
  <1>2. /\ ~raced /\ faults = 0 /\ ~Crash(w) /\ ~MapFails(w) /\ book' = book
    <2>1. ~Completes(w)
      BY <1>1, Unraced, Completing
    <2> QED
      BY <2>1, Unraced
  <1>3. Halfway(w)
    BY <1>2 DEF BookInv
  <1>4. \A S \in SUBSET Rules : Known(S) = S
    BY ConstantTypes DEF Known
  <1>5. CASE ReplaceMapping(w)
    <2>1. /\ pc[w] = "replace" /\ pc'[w] = "forget" /\ mapping' = l.map
          /\ UNCHANGED <<registry, loc>>
      BY <1>1, <1>5 DEF ReplaceMapping, Goto
    <2> QED
      BY <1>2, <1>3, <2>1 DEF Halfway, Due, NewRules, NewRows
  <1>6. CASE Forget(w)
    <2> DEFINE out == IF l.op = "remove_rule" THEN {r} ELSE l.reg
    <2>1. /\ pc[w] = "forget" /\ UNCHANGED <<registry, mapping>>
      BY <1>6 DEF Forget, files, Goto
    <2>2. /\ l.op \in Removals /\ registry = R /\ mapping = NewRows(l) /\ Due(l)
          /\ l.op = "remove_csv" => l.reg = IF Cardinality(RowsOf(r, M)) = 1 THEN {r} ELSE {}
      BY <1>1, <1>3, <2>1 DEF Halfway, AtStep, Fits
    <2>3. /\ pc'[w] = "reg" /\ out \cap R # {}
          /\ loc' = [loc EXCEPT ![w].reg = R \ out]
      BY <1>1, <1>4, <1>6, <2>2 DEF Forget, Goto, Set, Free
    <2>4. R \ out = NewRules(l)
      BY <2>2, <2>3 DEF NewRules, Removals
    <2>5. loc'[w].op = l.op /\ loc'[w].row = l.row /\ loc'[w].reg = NewRules(l)
      BY <1>1, <2>3, <2>4 DEF Locals
    <2> QED
      BY <1>2, <2>1, <2>2, <2>3, <2>5 DEF Halfway, Due, NewRules, NewRows, Removals
  <1>7. CASE ClearRegistry(w)
    <2>1. /\ pc[w] = "reg" /\ pc'[w] = "regput" /\ UNCHANGED <<mapping, loc>>
      BY <1>1, <1>7 DEF ClearRegistry, Goto
    <2> QED
      BY <1>2, <1>3, <2>1 DEF Halfway, Due, NewRules, NewRows
  <1>8. CASE PutRegistry(w)
    <2>1. /\ pc[w] = "regput" /\ pc'[w] = "clear" /\ UNCHANGED <<mapping, loc>>
          /\ registry' = l.reg
      BY <1>1, <1>8, AfterIs DEF PutRegistry, Goto, Free
    <2> QED
      BY <1>2, <1>3, <2>1 DEF Halfway, Due, NewRules, NewRows
  <1>9. CASE ClearMapping(w)
    <2>1. /\ pc[w] = "map" /\ pc'[w] = "mapput" /\ UNCHANGED <<registry, loc>>
      BY <1>1, <1>9 DEF ClearMapping, Goto
    <2> QED
      BY <1>2, <1>3, <2>1 DEF Halfway, Due, NewRules, NewRows
  <1>10. CASE PutMapping(w)
    <2>1. /\ pc[w] = "mapput" /\ UNCHANGED <<registry, loc>> /\ mapping' = l.map
          /\ l.op \in {"approved_csv", "restore"}
          /\ pc'[w] = IF l.op = "approved_csv" THEN "done" ELSE "register"
      BY <1>1, <1>10, AfterIs DEF PutMapping, Goto, AtStep, Fits, Holding
    <2>2. registry = R /\ l.map = NewRows(l) /\ Due(l)
      BY <1>3, <2>1 DEF Halfway
    <2>3. l.op = "approved_csv" => NewRules(l) = R
      BY DEF NewRules
    <2> QED
      BY <1>2, <2>1, <2>2, <2>3 DEF Halfway, Due, NewRules, NewRows
  <1>11. CASE MoveBack(w)
    <2>1. PICK c \in l.todo :
            /\ pc[w] = "back" /\ pc'[w] = "back" /\ UNCHANGED <<registry, mapping>>
            /\ loc' = [loc EXCEPT ![w].todo = l.todo \ {c}]
      BY <1>1, <1>11 DEF MoveBack, Goto, Set
    <2>2. /\ loc'[w].op = l.op /\ loc'[w].row = l.row /\ loc'[w].rows = l.rows
          /\ loc'[w].map = l.map /\ l.op = "restore"
      BY <1>1, <2>1 DEF Locals, AtStep, Fits
    <2> QED
      BY <1>2, <1>3, <2>1, <2>2 DEF Halfway, Due, NewRules, NewRows
  <1>12. CASE MovedBack(w)
    <2>1. /\ pc[w] = "back" /\ UNCHANGED <<registry, mapping>> /\ l.op = "restore"
          /\ registry = R /\ mapping = M /\ Due(l)
      BY <1>1, <1>3, <1>12 DEF MovedBack, files, Goto, Halfway, AtStep, Fits
    <2>2. /\ \/ pc'[w] \in {"done", "map"}
             \/ pc'[w] = "register" /\ l.rows \subseteq M
          /\ loc' = [loc EXCEPT ![w].map = M \cup l.rows]
      BY <1>1, <1>3, <1>12, <2>1 DEF MovedBack, Goto, Set, Halfway
    <2>3. /\ loc'[w].op = l.op /\ loc'[w].row = l.row /\ loc'[w].rows = l.rows
          /\ loc'[w].map = M \cup l.rows
      BY <1>1, <2>2 DEF Locals
    <2>4. CASE pc'[w] = "done"
      BY <1>2, <2>1, <2>4 DEF Halfway, Settled
    <2>5. CASE pc'[w] = "map"
      BY <1>2, <2>1, <2>3, <2>5 DEF Halfway, Due, NewRules, NewRows
    <2>6. CASE pc'[w] = "register" /\ l.rows \subseteq M
      <3>1. M \cup l.rows = M
        BY <2>6
      <3> QED
        BY <1>2, <2>1, <2>3, <2>6, <3>1 DEF Halfway, Due, NewRules, NewRows
    <2> QED BY <2>2, <2>4, <2>5, <2>6
  <1>13. CASE Register(w)
    <2>1. /\ pc[w] = "register" /\ UNCHANGED <<registry, mapping>> /\ l.op = "restore"
          /\ registry = R /\ mapping = NewRows(l) /\ Due(l)
      BY <1>1, <1>3, <1>13 DEF Register, files, Goto, Halfway, AtStep, Fits
    <2>2. /\ pc'[w] = IF r \in R THEN "clear" ELSE "reg"
          /\ loc' = [loc EXCEPT ![w].reg = R \cup {r}]
      BY <1>1, <1>4, <1>13, <2>1, ConstantTypes DEF Register, Goto, Set
    <2>3. /\ loc'[w].op = l.op /\ loc'[w].row = l.row /\ loc'[w].rows = l.rows
          /\ loc'[w].reg = R \cup {r}
      BY <1>1, <2>2 DEF Locals
    <2>4. NewRules(l) = R \cup {r} /\ (r \in R => R \cup {r} = R)
      BY <2>1 DEF NewRules
    <2> QED
      BY <1>2, <2>1, <2>2, <2>3, <2>4 DEF Halfway, Due, NewRules, NewRows
  <1>14. CASE Clear(w)
    <2>1. /\ pc[w] = "clear" /\ pc'[w] = "rmdir" /\ UNCHANGED <<registry, mapping>>
          /\ loc' = [loc EXCEPT ![w].id = l.id]
      BY <1>1, <1>14 DEF Clear, Empty, Goto, Set
    <2>2. /\ loc'[w].op = l.op /\ loc'[w].row = l.row /\ loc'[w].rows = l.rows
          /\ l.op = "restore"
      BY <1>1, <2>1 DEF Locals, AtStep, Fits
    <2> QED
      BY <1>2, <1>3, <2>1, <2>2 DEF Halfway, Due, NewRules, NewRows
  <1>15. CASE RmDir(w)
    <2>1. /\ pc[w] = "rmdir" /\ UNCHANGED <<registry, mapping>> /\ l.op = "restore"
          /\ pc'[w] = "done"
          /\ loc' = [loc EXCEPT ![w].ids = l.ids \ {l.id}]
      BY <1>1, <1>15 DEF RmDir, Goto, Set, AtStep, Holding
    <2>2. /\ loc'[w].op = l.op /\ loc'[w].row = l.row /\ loc'[w].rows = l.rows
      BY <1>1, <2>1 DEF Locals
    <2> QED
      BY <1>2, <1>3, <2>1, <2>2 DEF Halfway, Due, NewRules, NewRows
  <1>16. ~Done(w)
    BY <1>1 DEF Done, Free
  <1> QED
    BY <1>2, <1>5, <1>6, <1>7, <1>8, <1>9, <1>10, <1>11, <1>12, <1>13, <1>14, <1>15, <1>16,
       UnderLock

\* ... and lets go of the lock when they are.
LEMMA Released ==
    ASSUME TypeInv, BookInv, NEW w \in Workers, Step(w), ~raced, faults = 0,
           ~Crash(w), ~MapFails(w), lock = w, lock' # w
    PROVE  \/ registry' = book.rules /\ mapping' = book.rows
           \/ /\ Due(loc[w])
              /\ registry' = NewRules(loc[w]) /\ mapping' = NewRows(loc[w])
  <1> DEFINE l == loc[w]
             r == loc[w].row[1]
             R == book.rules
             M == book.rows
  <1>1. /\ loc[w] \in Locals /\ AtStep(w) /\ Halfway(w) /\ R \in SUBSET Rules
    BY InHand DEF BookInv, Books
  <1>2. Forget(w) \/ PutRegistry(w) \/ Done(w)
    BY Completing DEF Completes
  <1>3. CASE Forget(w)
    <2> DEFINE out == IF l.op = "remove_rule" THEN {r} ELSE l.reg
    <2>1. /\ pc[w] = "forget" /\ UNCHANGED <<registry, mapping>>
      BY <1>3 DEF Forget, files, Goto
    <2>2. /\ l.op \in Removals /\ registry = R /\ mapping = NewRows(l) /\ Due(l)
          /\ l.op = "remove_csv" => l.reg = IF Cardinality(RowsOf(r, M)) = 1 THEN {r} ELSE {}
      BY <1>1, <2>1 DEF Halfway, AtStep, Fits
    <2>3. out \cap Known(R) = {}
      BY <1>3, <2>2 DEF Forget
    <2>4. Known(R) = R
      BY <1>1, ConstantTypes DEF Known
    <2>5. NewRules(l) = R
      BY <2>2, <2>3, <2>4 DEF NewRules, Removals
    <2> QED
      BY <2>1, <2>2, <2>5
  <1>4. CASE PutRegistry(w)
    <2>1. /\ pc[w] = "regput" /\ UNCHANGED mapping /\ registry' = l.reg
      BY <1>4 DEF PutRegistry, Goto
    <2> QED
      BY <1>1, <2>1 DEF Halfway
  <1>5. CASE Done(w)
    <2>1. pc[w] = "done" /\ UNCHANGED <<registry, mapping>>
      BY <1>5 DEF Done, files
    <2> QED
      BY <1>1, <2>1 DEF Halfway, Settled
  <1> QED BY <1>2, <1>3, <1>4, <1>5

\* What is due is made of rules and rows.
LEMMA DueTypes ==
    ASSUME book \in Books, NEW l \in Locals
    PROVE  NewRules(l) \in SUBSET Rules /\ NewRows(l) \in SUBSET Row
  <1>1. l.row \in Row /\ l.row[1] \in Rules /\ l.rows \in SUBSET Row
    BY DEF Locals, Row
  <1>2. book.rules \in SUBSET Rules /\ book.rows \in SUBSET Row
    BY DEF Books
  <1> QED
    BY <1>1, <1>2 DEF NewRules, NewRows

\* The book is left as the two files are.
LEMMA Left ==
    ASSUME TypeInv, BookInv, NEW w \in Workers, Step(w), History(w), ~raced', faults' = 0,
           Completes(w)
    PROVE  /\ Settled' /\ book' \in Books
           /\ book'.rules = registry' /\ book'.rows = mapping'
           /\ \/ book'.rules = book.rules /\ book'.rows = book.rows
              \/ Due(loc[w]) /\ book'.rules = NewRules(loc[w]) /\ book'.rows = NewRows(loc[w])
              \/ book'.rules = book.rules /\ book'.rows = book.rows \cup {loc[w].row}
  <1>1. /\ ~raced /\ ~Meets(w) /\ faults = 0 /\ ~Crash(w) /\ ~MapFails(w)
        /\ book' = [rules |-> Known(registry'), rows |-> mapping']
    BY Unraced
  <1>2. /\ loc[w] \in Locals /\ loc[w].row \in Row /\ w # NoOne /\ book \in Books
        /\ book.rules \in SUBSET Rules /\ book.rows \in SUBSET Row
    <2>1. loc[w] \in Locals /\ w # NoOne /\ book \in Books
      BY InHand, ConstantTypes DEF BookInv
    <2> QED
      BY <2>1 DEF Locals, Books
  <1>3. \/ registry' = book.rules /\ mapping' = book.rows
        \/ Due(loc[w]) /\ registry' = NewRules(loc[w]) /\ mapping' = NewRows(loc[w])
        \/ registry' = book.rules /\ mapping' = book.rows \cup {loc[w].row}
    <2>1. CASE lock = w /\ lock' = NoOne
      BY <1>1, <1>2, <2>1, Released
    <2>2. CASE loc[w].op = "create_csv" /\ pc[w] = "mapput" /\ PutMapping(w)
      <3>1. registry = book.rules /\ loc[w].map = book.rows \cup {loc[w].row}
        BY <1>1, <2>2 DEF BookInv, Creation
      <3> QED
        BY <2>2, <3>1 DEF PutMapping
    <2> QED
      BY <1>1, <2>1, <2>2, Completing
  <1>4. registry' \in SUBSET Rules /\ mapping' \in SUBSET Row
    BY <1>2, <1>3, DueTypes
  <1>5. Known(registry') = registry'
    BY <1>4, ConstantTypes DEF Known
  <1>6. book'.rules = registry' /\ book'.rows = mapping' /\ book' \in Books
    BY <1>1, <1>4, <1>5 DEF Books
  <1> QED
    BY <1>3, <1>6 DEF Settled

\* While nobody has the lock the files are as in the book, but for a direct creation.
LEMMA Rests ==
    ASSUME TypeInv, BookInv, NEW w \in Workers, Step(w), History(w), ~raced', faults' = 0
    PROVE  Resting'
  <1> SUFFICES ASSUME lock' = NoOne PROVE Resting'
    BY DEF Resting
  <1>1. OthersRest(w) /\ w # NoOne /\ pc \in [Workers -> Steps]
    BY LooksRest, WritesRest, TrashesRest, StepIs, ConstantTypes DEF TypeInv, Types
  <1>2. /\ ~raced /\ ~Meets(w) /\ faults = 0 /\ ~Crash(w) /\ ~MapFails(w)
        /\ ~Completes(w) => book' = book
    BY Unraced
  <1>3. CASE Completes(w)
    BY <1>3, Left DEF Resting
  <1>4. CASE ~Completes(w)
    <2>1. lock = NoOne /\ ~(loc[w].op = "create_csv" /\ pc[w] = "mapput") /\ book' = book
      BY <1>1, <1>2, <1>4 DEF OthersRest, Completes
    <2>2. Settled \/ \E v \in Workers : loc[v].op = "create_csv" /\ pc[v] = "mapput"
      BY <1>2, <2>1 DEF BookInv, Resting
    <2>3. CASE loc[w].op = "create_csv" /\ pc[w] = "map"
      <3>1. ClearMapping(w) /\ pc'[w] = "mapput"
        BY <1>2, <2>3, GoesOn DEF Direct
      <3>2. loc'[w] = loc[w]
        BY <3>1 DEF ClearMapping
      <3> QED
        BY <2>3, <3>1, <3>2 DEF Resting
    <2>4. CASE ~(loc[w].op = "create_csv" /\ pc[w] = "map")
      <3>1. UNCHANGED <<registry, mapping>>
        BY <1>1, <2>1, <2>4, Rewrites
      <3>2. \A v \in Workers : loc[v].op = "create_csv" /\ pc[v] = "mapput"
                                  => loc'[v] = loc[v] /\ pc'[v] = pc[v]
        BY <1>1, <2>1 DEF OthersRest
      <3> QED
        BY <2>1, <2>2, <3>1, <3>2 DEF Resting, Settled
    <2> QED BY <2>3, <2>4
  <1> QED BY <1>3, <1>4

\* So the book is kept, ...
LEMMA StepBooks ==
    ASSUME TypeInv, KeepInv, BookInv, NEW w \in Workers, Step(w), History(w)
    PROVE  BookInv'
  <1>1. book' \in Books
    <2>1. CASE Completes(w) /\ ~raced' /\ faults' = 0
      BY <2>1, Left
    <2>2. CASE ~(Completes(w) /\ ~raced' /\ faults' = 0)
      BY <2>2 DEF History, BookInv
    <2> QED BY <2>1, <2>2
  <1>2. ASSUME ~raced', faults' = 0
        PROVE  Apart' /\ Resting' /\ \A v \in Workers : Creation(v)' /\ Halfway(v)'
    <2>1. ~raced /\ ~Meets(w) /\ faults = 0 /\ Apart
      BY <1>2, Unraced DEF BookInv
    <2>2. Apart'
      BY <2>1, ApartStays
    <2>3. Resting'
      BY <1>2, Rests
    <2>4. Creation(w)'
      BY <1>2, OwnCreation
    <2>5. ASSUME lock' = w PROVE Halfway(w)'
      BY <1>2, <2>5, Gained, Continued
    <2>6. ASSUME lock' # w PROVE Halfway(w)'
      BY <2>6 DEF Halfway
    <2>7. \A v \in Workers \ {w} : Creation(v)' /\ Halfway(v)'
      BY <1>2, OthersBooks
    <2> QED
      BY <2>2, <2>3, <2>4, <2>5, <2>6, <2>7
  <1> QED
    BY <1>1, <1>2 DEF BookInv

\* ... and every step is one of RuleBook, or none.
LEMMA StepIsSerial ==
    ASSUME TypeInv, BookInv, NEW w \in Workers, Step(w), History(w)
    PROVE  [Book!Next]_(Book!vars)
  <1>1. CASE ~(Completes(w) /\ ~raced' /\ faults' = 0)
    <2>1. book' = book
      BY <1>1 DEF History
    <2> QED
      BY <2>1 DEF Book!vars
  <1>2. CASE Completes(w) /\ ~raced' /\ faults' = 0
    <2>1. loc[w] \in Locals /\ loc[w].row \in Row /\ book \in Books
      <3>1. loc[w] \in Locals
        BY InHand
      <3> QED
        BY <3>1 DEF Locals, BookInv
    <2>2. \/ book'.rules = book.rules /\ book'.rows = book.rows
          \/ Due(loc[w]) /\ book'.rules = NewRules(loc[w]) /\ book'.rows = NewRows(loc[w])
          \/ book'.rules = book.rules /\ book'.rows = book.rows \cup {loc[w].row}
      BY <1>2, Left
    <2>3. CASE book'.rules = book.rules /\ book'.rows = book.rows
      BY <2>3 DEF Book!vars
    <2>4. CASE Due(loc[w]) /\ book'.rules = NewRules(loc[w]) /\ book'.rows = NewRows(loc[w])
      BY <2>1, <2>4, BookStep
    <2>5. CASE book'.rules = book.rules /\ book'.rows = book.rows \cup {loc[w].row}
      <3>1. PICK r \in Rules, c \in Csvs : loc[w].row = <<r, c>>
        BY <2>1 DEF Row
      <3>2. Book!Attach(r, c)
        BY <2>5, <3>1 DEF Book!Attach
      <3> QED
        BY <3>2 DEF Book!Next
    <2> QED BY <2>2, <2>3, <2>4, <2>5
  <1> QED BY <1>1, <1>2

\* At the start the book is what is on the disk.
LEMMA InitBooks == Init => BookInv /\ Book!Init
  <1> SUFFICES ASSUME Init PROVE BookInv /\ Book!Init
    OBVIOUS
  <1>1. book = [rules |-> Registered, rows |-> Mapped] /\ registry = Registered
        /\ mapping = Mapped
    BY DEF Init
  <1>2. Registered \in SUBSET Rules /\ Mapped \in SUBSET Row
    BY RulesAssumption
  <1>3. book \in Books /\ Settled /\ lock = NoOne
    BY <1>1, <1>2 DEF Books, Settled, Init
  <1>4. Book!Init
    BY <1>1, <1>2 DEF Book!Init, Book!Row, Row
  <1>5. \A w \in Workers : pc[w] = "idle" /\ loc[w].op = "none" /\ lock # w
    BY <1>3, ConstantTypes DEF Init, Idle
  <1> QED
    BY <1>3, <1>4, <1>5 DEF BookInv, Apart, Direct, Resting, Creation, Halfway

\* A step that changes nothing keeps the book.
LEMMA StutterBooks ==
    ASSUME BookInv, UNCHANGED vars
    PROVE  BookInv' /\ UNCHANGED Book!vars
  <1>1. /\ registry' = registry /\ mapping' = mapping /\ lock' = lock /\ pc' = pc /\ loc' = loc
        /\ faults' = faults /\ book' = book /\ raced' = raced
    BY DEF vars, files
  <1>2. UNCHANGED Book!vars
    BY <1>1 DEF Book!vars
  <1>3. BookInv'
    <2>1. \A w \in Workers : (Creation(w)' <=> Creation(w)) /\ (Direct(w)' <=> Direct(w))
      BY <1>1 DEF Creation, Direct
    <2>2. \A w \in Workers : Halfway(w)' <=> Halfway(w)
      BY <1>1 DEF Halfway, Due, NewRules, NewRows, Settled
    <2>3. (Apart' <=> Apart) /\ (Resting' <=> Resting)
      BY <1>1, <2>1 DEF Apart, Resting, Settled
    <2> QED
      BY <1>1, <2>1, <2>2, <2>3 DEF BookInv
  <1> QED BY <1>2, <1>3

\* Where no creation without the lock meets another request and until the first fault,
\* however many requests there are, the registry and the mapping change by whole operations
\* of RuleBook although each is truncated and rewritten in turn (rules_rmw_lock,
\* create_rule_pipeline, delete_rule_pipeline, delete_csv_pipeline, restore_from_trash).
THEOREM ChangesAreWhole == Spec => Serial
  <1> DEFINE Inv == TypeInv /\ KeepInv /\ BookInv
  <1>1. Init => Inv /\ Book!Init
    BY InitTypes, InitKeeps, InitBooks
  <1>2. Inv /\ [Next]_vars => Inv' /\ [Book!Next]_(Book!vars)
    <2> SUFFICES ASSUME Inv, [Next]_vars PROVE Inv' /\ [Book!Next]_(Book!vars)
      OBVIOUS
    <2>1. ASSUME NEW w \in Workers, Step(w), History(w)
          PROVE  Inv' /\ [Book!Next]_(Book!vars)
      BY <2>1, StepTypes, StepKeeps, StepBooks, StepIsSerial
    <2>2. CASE UNCHANGED vars
      <3>1. KeepInv'
        BY <2>2 DEF vars, files, KeepInv, Own, Back, Clearing
      <3> QED
        BY <2>2, <3>1, StutterTypes, StutterBooks
    <2> QED
      BY <2>1, <2>2 DEF Next
  <1> QED
    BY <1>1, <1>2, PTL DEF Spec, Serial, Book!Spec
=============================================================================
