----------------------------- MODULE RuleStore -----------------------------
(***************************************************************************)
(* Detection rules, the CSVs attached to them and the trash.               *)
(*                                                                         *)
(* A rule is known to the registry (_detection_rules.json), to the mapping *)
(* (rule_csv_map.csv), or to both.  The two files change under one lock,   *)
(* rules_rmw_lock, except that a direct creation of a CSV reads and        *)
(* rewrites the mapping without it.  CSV files come and go outside the     *)
(* lock: creation writes the file before the mapping row, and a deletion   *)
(* moves the files into a trash entry after it has let go of the lock, the *)
(* entry's metadata last.  A purge takes no lock.                          *)
(*                                                                         *)
(* The contents of a CSV are a number, new for each creation; 0 is no      *)
(* file.  Apps, version snapshots, approval and daily limits are left out. *)
(***************************************************************************)
EXTENDS Naturals, FiniteSets, Sequences

CONSTANTS
    Rules, Csvs,
    Workers,        \* requests served at the same time
    Does,           \* what each of them may ask for
    Mapped,         \* rows of the mapping at the start
    Registered,     \* rules in the registry at the start
    Live,           \* the CSV files at the start
    Trashed,        \* entries in the trash at the start
    First,          \* contents that exist at the start: 1..First
    MaxRules,       \* MAX_DETECTION_RULES
    MaxPerRule,     \* MAX_CSVS_PER_RULE
    TwoAdmins,      \* CSVs that a rule needs to need a second admin
    MaxRequests,    \* bound on the requests
    MaxFaults,      \* bound on the faults
    Torn,           \* a registry that has been truncated
    NoOne

Row == Rules \X Csvs
RowsOf(r, map) == {x \in map : x[1] = r}

Ops == {"create_rule", "create_csv", "approved_csv", "remove_rule",
        "remove_csv", "restore", "purge"}

Contents == 0..(First + MaxRequests)
NoFiles == [c \in Csvs |-> 0]
CsvsIn(map) == {x[2] : x \in map}

\* A directory in the trash, and what a deletion puts there: a CSV with its row, or a
\* rule with all its rows.
Entry == [there : BOOLEAN, meta : BOOLEAN, kind : {"csv", "rule"},
          rows : SUBSET Row, name : Rules \cup Csvs, files : [Csvs -> Contents]]
Bundle(e) ==
    /\ \E x \in e.rows : IF e.kind = "csv" THEN e.rows = {x}
                         ELSE \A y \in e.rows : y[1] = x[1]
    /\ \A c \in Csvs : e.files[c] # 0 => e.there /\ c \in CsvsIn(e.rows)

ASSUME RulesAssumption ==
    /\ IsFiniteSet(Row) /\ Row # {}
    /\ Does \in [Workers -> SUBSET Ops]
    /\ Mapped \subseteq Row /\ Registered \subseteq Rules
    /\ {First, MaxRules, MaxPerRule, TwoAdmins, MaxRequests, MaxFaults} \subseteq Nat
    /\ Live \in [Csvs -> 0..First]
    /\ Trashed \in Seq(Entry) /\ \A i \in DOMAIN Trashed : Bundle(Trashed[i])
    /\ \A d \in 1..First :
          \/ \E c \in Csvs : Live[c] = d
          \/ \E i \in DOMAIN Trashed :
                Trashed[i].meta /\ \E c \in Csvs : Trashed[i].files[c] = d
    /\ Torn \notin SUBSET Rules
    /\ NoOne \notin Workers

VARIABLES
    registry,   \* _detection_rules.json
    mapping,    \* rule_csv_map.csv
    live,       \* the CSV files
    trash,      \* every entry made in the trash directory, in order
    lock,       \* holder of rules_rmw_lock
    pc, loc,
    fresh,      \* contents made so far
    asked, faults,
    book,       \* history: registry and mapping when last left complete
    raced,      \* history: a request without the lock has met another
    destroyed,  \* history: contents deleted for good, and why
    gone        \* history: rules deleted, and not asked for since

files == <<registry, mapping, live, trash>>
vars == <<files, lock, pc, loc, fresh, asked, faults, book, raced, destroyed,
          gone>>

AnyRow == CHOOSE x \in Row : TRUE
Idle == [op |-> "none", row |-> AnyRow, perm |-> FALSE, map |-> {},
         reg |-> {}, rows |-> {}, todo |-> {}, ids |-> {}, id |-> 0]

\* Faulty: a damaged registry is taken for what it holds.
FaultyKnown(reg) == reg

\* read_rules_registry: a missing or damaged file is an empty registry.
Known(reg) == IF reg = Torn THEN {} ELSE reg

Init ==
    /\ registry = Registered
    /\ mapping = Mapped
    /\ live = Live
    /\ trash = Trashed
    /\ lock = NoOne
    /\ pc = [w \in Workers |-> "idle"]
    /\ loc = [w \in Workers |-> Idle]
    /\ fresh = First
    /\ asked = 0 /\ faults = 0
    /\ book = [rules |-> Registered, rows |-> Mapped]
    /\ raced = FALSE
    /\ destroyed = [d \in Contents |-> "no"]
    /\ gone = {}

Goto(w, from, to) == pc[w] = from /\ pc' = [pc EXCEPT ![w] = to]
Set(w, field, val) == loc' = [loc EXCEPT ![w][field] = val]
Return(w) == pc' = [pc EXCEPT ![w] = "idle"] /\ loc' = [loc EXCEPT ![w] = Idle]
Take(w) == lock = NoOne /\ lock' = w
Free(w) == lock' = IF lock = w THEN NoOne ELSE lock
Destroy(ds, why) ==
    destroyed' = [d \in Contents |-> IF d \in ds \ {0} THEN why ELSE destroyed[d]]

\* Where a request goes when it has written the mapping, and the registry.
AfterMap(op) == CASE op = "create_csv" -> "unregister"
                  [] op = "approved_csv" -> "done"
                  [] op = "restore" -> "register"
                  [] OTHER -> "forget"
AfterReg(op, perm) == CASE op = "restore" -> "clear"
                        [] op \in {"remove_rule", "remove_csv"} /\ perm -> "list"
                        [] OTHER -> "done"

----------------------------------------------------------------------------
(* Requests arrive.                                                        *)

Of(op, row, perm, id) == [op : op, row : row, perm : perm, id : id]
OfRule == {<<r, AnyRow[2]>> : r \in Rules}
Asks ==
    Of({"create_rule"}, OfRule, {FALSE}, {0})
    \cup Of({"create_csv", "approved_csv"}, Row, {FALSE}, {0})
    \cup Of({"remove_rule"}, OfRule, BOOLEAN, {0})
    \cup Of({"remove_csv"}, Row, BOOLEAN, {0})
    \cup Of({"restore", "purge"}, {AnyRow}, {FALSE}, 1..MaxRequests)

\* A trash entry is asked for when it is on the list of entries with metadata.
Begin(w) ==
    /\ pc[w] = "idle"
    /\ asked < MaxRequests /\ asked' = asked + 1
    /\ \E q \in Asks :
          /\ q.op \in Does[w]
          /\ q.id # 0 => q.id \in DOMAIN trash /\ trash[q.id].meta
          /\ Goto(w, "idle", q.op)
          /\ loc' = [loc EXCEPT ![w] =
                [Idle EXCEPT !.op = q.op, !.row = q.row, !.perm = q.perm, !.id = q.id]]
    /\ UNCHANGED <<files, lock, fresh, faults, destroyed>>

\* create_rule_pipeline
CreateRule(w) ==
    LET r == loc[w].row[1] IN
    /\ IF RowsOf(r, mapping) # {} \/ r \in Known(registry)
            \/ Cardinality(Known(registry)) >= MaxRules
       THEN Take(w) /\ Goto(w, "create_rule", "done") /\ UNCHANGED loc
       ELSE /\ Take(w) /\ Goto(w, "create_rule", "reg")
            /\ Set(w, "reg", Known(registry) \cup {r})
    /\ UNCHANGED <<files, fresh, asked, faults, destroyed>>

\* _create_csv: the file must not exist, nor the CSV be mapped, in a mapping that
\* is read without the lock and kept.
CreateCsv(w) ==
    LET r == loc[w].row[1]
        c == loc[w].row[2]
    IN
    /\ IF \/ live[c] # 0 \/ c \in CsvsIn(mapping)
          \/ Cardinality(RowsOf(r, mapping)) >= MaxPerRule
       THEN Goto(w, "create_csv", "done") /\ UNCHANGED loc
       ELSE /\ Goto(w, "create_csv", "write")
            /\ Set(w, "map", mapping \cup {<<r, c>>})
    /\ UNCHANGED <<files, lock, fresh, asked, faults, destroyed>>

\* _execute_replay_create_csv looks only for the file.
ApprovedCsv(w) ==
    /\ Goto(w, "approved_csv", IF live[loc[w].row[2]] # 0 THEN "done" ELSE "write")
    /\ UNCHANGED <<files, lock, loc, fresh, asked, faults, destroyed>>

\* write_csv
WriteCsv(w) ==
    LET c == loc[w].row[2] IN
    /\ Goto(w, "write", IF loc[w].op = "create_csv" THEN "map" ELSE "append")
    /\ fresh' = fresh + 1
    /\ live' = [live EXCEPT ![c] = fresh']
    /\ Destroy({live[c]}, "created_over")
    /\ UNCHANGED <<registry, mapping, trash, lock, loc, asked, faults>>

\* Faulty: the replay appends its row without the lock.
FaultyAppendRow(w) ==
    /\ Goto(w, "append", "map")
    /\ Set(w, "map", mapping \cup {loc[w].row})
    /\ UNCHANGED <<files, lock, fresh, asked, faults, destroyed>>

\* The replay appends its row to the mapping as it is under the lock.
AppendRow(w) ==
    /\ Take(w) /\ Goto(w, "append", "map")
    /\ Set(w, "map", mapping \cup {loc[w].row})
    /\ UNCHANGED <<files, fresh, asked, faults, destroyed>>

\* The rule of a new CSV needs no entry in the registry.
Unregister(w) ==
    LET r == loc[w].row[1] IN
    /\ Take(w)
    /\ IF r \in Known(registry)
       THEN Goto(w, "unregister", "reg") /\ Set(w, "reg", Known(registry) \ {r})
       ELSE Goto(w, "unregister", "done") /\ UNCHANGED loc
    /\ UNCHANGED <<files, fresh, asked, faults, destroyed>>

----------------------------------------------------------------------------
(* Deletions.                                                              *)

\* _action_remove_rule: an admin may not delete a rule with many CSVs alone.
RemoveRule(w) ==
    /\ Goto(w, "remove_rule",
            IF /\ loc[w].perm
               /\ Cardinality(RowsOf(loc[w].row[1], mapping)) >= TwoAdmins
            THEN "done" ELSE "drop")
    /\ UNCHANGED <<files, lock, loc, fresh, asked, faults, destroyed>>

\* delete_rule_pipeline, under the lock.
DropRule(w) ==
    LET r == loc[w].row[1]
        off == RowsOf(r, mapping)
    IN
    /\ Take(w)
    /\ IF off = {}
       THEN IF r \in Known(registry)
            THEN /\ Goto(w, "drop", "reg")
                 /\ loc' = [loc EXCEPT ![w].reg = Known(registry) \ {r},
                                       ![w].perm = FALSE]
            ELSE Goto(w, "drop", "done") /\ UNCHANGED loc
       ELSE /\ Goto(w, "drop", "replace")
            /\ loc' = [loc EXCEPT ![w].map = mapping \ off, ![w].rows = off]
    /\ UNCHANGED <<files, fresh, asked, faults, destroyed>>

\* delete_csv_pipeline, under the lock.  The client names the rule too.
DetachCsv(w) ==
    LET x == loc[w].row IN
    /\ Take(w)
    /\ IF x[2] \notin CsvsIn(mapping)
       THEN Goto(w, "remove_csv", "done") /\ UNCHANGED loc
       ELSE /\ Goto(w, "remove_csv", "replace")
            /\ loc' = [loc EXCEPT ![w].map = mapping \ {x}, ![w].rows = {x},
                   \* rule_also_removed
                   ![w].reg = IF Cardinality(RowsOf(x[1], mapping)) = 1
                              THEN {x[1]} ELSE {}]
    /\ UNCHANGED <<files, fresh, asked, faults, destroyed>>

\* _write_mapping_rows replaces the file at once.
ReplaceMapping(w) ==
    /\ Goto(w, "replace", "forget")
    /\ mapping' = loc[w].map
    /\ UNCHANGED <<registry, live, trash, lock, loc, fresh, asked, faults, destroyed>>

\* The rule leaves the registry, if it is there and has no CSV any more.
Forget(w) ==
    LET l == loc[w]
        out == IF l.op = "remove_rule" THEN {l.row[1]} ELSE l.reg
    IN
    /\ IF out \cap Known(registry) # {}
       THEN /\ Goto(w, "forget", "reg")
            /\ Set(w, "reg", Known(registry) \ out)
            /\ UNCHANGED lock
       ELSE /\ Goto(w, "forget", AfterReg(l.op, l.perm))
            /\ Free(w)
            /\ UNCHANGED loc
    /\ UNCHANGED <<files, fresh, asked, faults, destroyed>>

----------------------------------------------------------------------------
(* Writing the two files in place.                                         *)

\* write_rules_registry removes the file and renames another to its name; a
\* restore opens the file itself, which truncates it.
ClearRegistry(w) ==
    /\ Goto(w, "reg", "regput")
    /\ registry' = IF loc[w].op = "restore" THEN Torn ELSE {}
    /\ UNCHANGED <<mapping, live, trash, lock, loc, fresh, asked, faults, destroyed>>

PutRegistry(w) ==
    LET to == AfterReg(loc[w].op, loc[w].perm) IN
    /\ Goto(w, "regput", to)
    /\ registry' = loc[w].reg
    /\ IF to = "clear" THEN UNCHANGED lock ELSE Free(w)
    /\ UNCHANGED <<mapping, live, trash, loc, fresh, asked, faults, destroyed>>

\* open(MAPPING_FILE, "w"), then the rows.
ClearMapping(w) ==
    /\ Goto(w, "map", "mapput")
    /\ mapping' = {}
    /\ UNCHANGED <<registry, live, trash, lock, loc, fresh, asked, faults, destroyed>>

PutMapping(w) ==
    /\ Goto(w, "mapput", AfterMap(loc[w].op))
    /\ mapping' = loc[w].map
    /\ UNCHANGED <<registry, live, trash, lock, loc, fresh, asked, faults, destroyed>>

Done(w) ==
    /\ pc[w] = "done" /\ Return(w) /\ Free(w)
    /\ UNCHANGED <<files, fresh, asked, faults, destroyed>>

----------------------------------------------------------------------------
(* The trash.                                                              *)

Kind(op) == IF op = "remove_rule" THEN "rule" ELSE "csv"
Name(l) == IF l.op = "remove_rule" THEN l.row[1] ELSE l.row[2]

\* move_to_trash lists the entries of the same name and type and removes them.
ListTrash(w) ==
    /\ Goto(w, "list", "old")
    /\ Set(w, "ids", {i \in DOMAIN trash : /\ trash[i].there
                                          /\ trash[i].kind = Kind(loc[w].op)
                                          /\ trash[i].name = Name(loc[w])})
    /\ UNCHANGED <<files, lock, fresh, asked, faults, destroyed>>

\* rmtree removes what is in the directory, then the directory, if it is empty.
Empty(w, i, from, why) ==
    /\ Goto(w, from, "rmdir")
    /\ Set(w, "id", i)
    /\ trash' = [trash EXCEPT ![i].files = NoFiles, ![i].meta = FALSE]
    /\ Destroy({trash[i].files[c] : c \in Csvs}, why)
    /\ UNCHANGED <<registry, mapping, live, lock, fresh, asked, faults>>

EmptyOld(w) == \E i \in loc[w].ids : Empty(w, i, "old", "replaced")

RmDir(w) ==
    LET l == loc[w] IN
    /\ Goto(w, "rmdir", IF l.op \in {"restore", "purge"} THEN "done" ELSE "old")
    /\ trash' = [trash EXCEPT ![l.id].there =
                     trash[l.id].files # NoFiles \/ trash[l.id].meta]
    /\ Set(w, "ids", l.ids \ {l.id})
    /\ UNCHANGED <<registry, mapping, live, lock, fresh, asked, faults, destroyed>>

MkDir(w) ==
    LET l == loc[w] IN
    /\ l.ids = {}
    /\ Goto(w, "old", "move")
    /\ trash' = Append(trash, [there |-> TRUE, meta |-> FALSE, kind |-> Kind(l.op),
                               rows |-> l.rows, name |-> Name(l),
                               files |-> NoFiles])
    /\ loc' = [loc EXCEPT ![w].id = Len(trash'), ![w].todo = CsvsIn(l.rows)]
    /\ UNCHANGED <<registry, mapping, live, lock, fresh, asked, faults, destroyed>>

\* move_csv_to_trash, move_rule_to_trash
Move(w) ==
    LET i == loc[w].id IN
    \E c \in loc[w].todo :
        /\ live[c] # 0 => trash[i].there
        /\ Goto(w, "move", "move")
        /\ IF live[c] # 0
           THEN /\ trash' = [trash EXCEPT ![i].files[c] = live[c]]
                /\ live' = [live EXCEPT ![c] = 0]
           ELSE UNCHANGED <<trash, live>>
        /\ Set(w, "todo", loc[w].todo \ {c})
        /\ UNCHANGED <<registry, mapping, lock, fresh, asked, faults, destroyed>>

\* The metadata makes the entry one that can be listed and restored.
WriteMetadata(w) ==
    LET i == loc[w].id IN
    /\ Goto(w, "move", "done")
    /\ loc[w].todo = {} /\ trash[i].there
    /\ trash' = [trash EXCEPT ![i].meta = TRUE]
    /\ UNCHANGED <<registry, mapping, live, lock, loc, fresh, asked, faults, destroyed>>

\* When move_to_trash raises, the pipelines remove the CSVs that are still there.
TrashFails(w) ==
    LET cs == CsvsIn(loc[w].rows) IN
    /\ Goto(w, "move", "done")
    /\ \/ faults < MaxFaults /\ faults' = faults + 1
       \/ ~trash[loc[w].id].there /\ UNCHANGED faults
    /\ live' = [c \in Csvs |-> IF c \in cs THEN 0 ELSE live[c]]
    /\ Destroy({live[c] : c \in cs}, "removed")
    /\ UNCHANGED <<registry, mapping, trash, lock, loc, fresh, asked>>

Purge(w) ==
    /\ Empty(w, loc[w].id, "purge", "purged")
    /\ trash[loc[w].id].there

\* The entry is not there any more.
PurgeNone(w) ==
    /\ Goto(w, "purge", "done")
    /\ ~trash[loc[w].id].there
    /\ UNCHANGED <<files, lock, loc, fresh, asked, faults, destroyed>>

----------------------------------------------------------------------------
(* restore_from_trash                                                      *)

\* The metadata is read without the lock.
ReadMetadata(w) ==
    LET e == trash[loc[w].id] IN
    /\ pc[w] = "restore"
    /\ IF e.there /\ e.meta
       THEN /\ Goto(w, "restore", "check")
            /\ loc' = [loc EXCEPT ![w].rows = e.rows, ![w].todo = CsvsIn(e.rows),
                                  ![w].row = CHOOSE x \in e.rows : TRUE]
       ELSE Goto(w, "restore", "done") /\ UNCHANGED loc
    /\ UNCHANGED <<files, lock, fresh, asked, faults, destroyed>>

\* Faulty: only the name of a rule is looked for.
FaultyExists(w) ==
    LET r == loc[w].row[1] IN
    /\ trash[loc[w].id].kind = "rule"
    /\ registry = Torn \/ r \in registry \/ RowsOf(r, mapping) # {}

\* A CSV comes back unless a file of its name exists, a rule unless it exists.
Exists(w) ==
    LET e == trash[loc[w].id]
        r == loc[w].row[1]
    IN
    IF e.kind = "csv" THEN live[loc[w].row[2]] # 0
    ELSE registry = Torn \/ r \in registry \/ RowsOf(r, mapping) # {}

CheckConflict(w) ==
    /\ Take(w)
    /\ Goto(w, "check", IF Exists(w) THEN "done" ELSE "back")
    /\ Set(w, "map", mapping)
    /\ UNCHANGED <<files, fresh, asked, faults, destroyed>>

MoveBack(w) ==
    LET i == loc[w].id IN
    \E c \in loc[w].todo :
        /\ Goto(w, "back", "back")
        /\ IF trash[i].files[c] # 0
           THEN /\ live' = [live EXCEPT ![c] = trash[i].files[c]]
                /\ trash' = [trash EXCEPT ![i].files[c] = 0]
                /\ Destroy({live[c]}, IF trash[i].kind = "rule" THEN "rule_restored_over"
                                 ELSE "csv_restored_over")
           ELSE UNCHANGED <<live, trash, destroyed>>
        /\ Set(w, "todo", loc[w].todo \ {c})
        /\ UNCHANGED <<registry, mapping, lock, fresh, asked, faults>>

\* The versions are moved too, which raises if the directory is gone; then the
\* rows return to the mapping.  A rule's mapping was read when it was checked.
MovedBack(w) ==
    LET l == loc[w]
        e == trash[l.id]
        map == IF e.kind = "csv" THEN mapping ELSE l.map
    IN
    /\ l.todo = {}
    /\ Goto(w, "back", IF ~e.there THEN "done"
                       ELSE IF e.kind = "csv" /\ l.rows \subseteq map THEN "register"
                       ELSE "map")
    /\ Set(w, "map", map \cup l.rows)
    /\ UNCHANGED <<files, lock, fresh, asked, faults, destroyed>>

\* The rule is in the registry again.  A damaged registry raises.
Register(w) ==
    LET r == loc[w].row[1] IN
    /\ Goto(w, "register", IF registry = Torn THEN "done"
                           ELSE IF r \in registry THEN "clear" ELSE "reg")
    /\ Set(w, "reg", Known(registry) \cup {r})
    /\ UNCHANGED <<files, lock, fresh, asked, faults, destroyed>>

Clear(w) == Empty(w, loc[w].id, "clear", "left_in_trash")

----------------------------------------------------------------------------
(* Faults.                                                                 *)

Fault == faults < MaxFaults /\ faults' = faults + 1

\* An OSError while the mapping is written in place.  A direct creation removes its
\* file; an approved one is reported as a success; a restore fails.
MapFails(w) ==
    LET c == loc[w].row[2] IN
    /\ Fault
    /\ pc[w] \in {"map", "mapput"} /\ Goto(w, pc[w], "done")
    /\ IF loc[w].op = "create_csv"
       THEN live' = [live EXCEPT ![c] = 0] /\ Destroy({live[c]}, "removed")
       ELSE UNCHANGED <<live, destroyed>>
    /\ UNCHANGED <<registry, mapping, trash, lock, loc, fresh, asked>>

\* The process dies.  The lock dies with it.
Crash(w) ==
    /\ Fault
    /\ pc[w] # "idle"
    /\ Return(w) /\ Free(w)
    /\ UNCHANGED <<files, fresh, asked, destroyed>>

----------------------------------------------------------------------------
Step(w) ==
    \/ Begin(w)
    \/ CreateRule(w) \/ CreateCsv(w) \/ ApprovedCsv(w) \/ WriteCsv(w)
    \/ AppendRow(w) \/ Unregister(w)
    \/ RemoveRule(w) \/ DropRule(w) \/ DetachCsv(w) \/ ReplaceMapping(w)
    \/ Forget(w)
    \/ ClearRegistry(w) \/ PutRegistry(w) \/ ClearMapping(w) \/ PutMapping(w)
    \/ Done(w)
    \/ ListTrash(w) \/ EmptyOld(w) \/ RmDir(w) \/ MkDir(w) \/ Move(w)
    \/ WriteMetadata(w) \/ TrashFails(w) \/ Purge(w) \/ PurgeNone(w)
    \/ ReadMetadata(w) \/ CheckConflict(w) \/ MoveBack(w) \/ MovedBack(w)
    \/ Register(w) \/ Clear(w)
    \/ MapFails(w) \/ Crash(w)

\* Between its look at the disk and its last write, a creation relies on what no
\* lock protects.
Exposed(w) ==
    \/ loc[w].op = "create_csv" /\ pc[w] \in {"write", "map", "mapput", "unregister"}
    \/ loc[w].op = "approved_csv" /\ pc[w] = "write"

\* A step of w meets a creation: it changes the files behind its back, or the lock
\* is held while the creation has still to write its row.
Meets(w) ==
    \E v \in Workers :
        /\ Exposed(v)
        /\ \/ v # w /\ <<registry, mapping, live>>' # <<registry, mapping, live>>
           \/ pc[v] # "unregister" /\ lock' \notin {NoOne, v}

\* The two files are complete when the lock is released, and when a direct creation
\* has written its row.
Completes(w) ==
    \/ lock = w /\ lock' # w
    \/ loc[w].op = "create_csv" /\ pc[w] = "mapput"

\* Requests that bring a rule into being.
Makes(l, r) == l.op \in {"create_rule", "create_csv", "approved_csv", "restore"}
                  /\ (l.op = "restore" \/ l.row[1] = r)

History(w) ==
    /\ raced' = (raced \/ Meets(w))
    /\ book' = IF Completes(w) /\ ~raced' /\ faults' = 0
               THEN [rules |-> Known(registry'), rows |-> mapping'] ELSE book
    /\ gone' = (IF /\ loc[w].op = "remove_rule" /\ lock = w /\ lock' # w
                   /\ pc[w] \in {"forget", "regput"}
                THEN gone \cup {loc[w].row[1]} ELSE gone)
               \ {r \in Rules : \E v \in Workers : Makes(loc'[v], r)}

Next == \E w \in Workers : Step(w) /\ History(w)

Spec == Init /\ [][Next]_vars

----------------------------------------------------------------------------
\* The registry is a set of rules, or truncated; every entry of the trash has its kind,
\* name and files (write_rules_registry, move_to_trash).
TypeOK ==
    /\ registry \in (SUBSET Rules) \cup {Torn}
    /\ mapping \subseteq Row
    /\ live \in [Csvs -> Contents]
    /\ \A i \in DOMAIN trash : trash[i] \in Entry
    /\ lock \in Workers \cup {NoOne}
    /\ fresh \in Contents

\* What an entry holds; and an entry that a deletion is still filling.
InTrash(i) == {trash[i].files[c] : c \in Csvs} \ {0}
Filling(i) == \E w \in Workers : pc[w] = "move" /\ loc[w].id = i

\* Where no creation without the lock meets another request, contents once written are
\* live, or in an entry of the trash that can be listed and restored, until they are
\* purged, replaced there by a later deletion of the same name, removed because the
\* trash failed, or overwritten by the restore of a rule: not lost between two
\* deletions, restores and purges of the same CSV, nor in a crash, which at worst
\* leaves an entry without metadata (move_to_trash, restore_from_trash,
\* purge_trash_item).
NothingLost ==
    ~raced => \A d \in 1..fresh :
        \/ \E c \in Csvs : live[c] = d
        \/ \E i \in DOMAIN trash :
              /\ d \in InTrash(i) /\ trash[i].there
              /\ trash[i].meta \/ Filling(i) \/ faults > 0
        \/ destroyed[d] \in {"purged", "replaced", "removed",
                           "rule_restored_over"}

Book == INSTANCE RuleBook WITH rules <- book.rules, rows <- book.rows
\* Where no creation without the lock meets another request and until the first fault,
\* the registry and the mapping, each time they are left complete, have changed by one
\* whole operation of RuleBook: they are truncated and rewritten one after the other,
\* from copies read earlier, yet no request loses, revives or halves what another did
\* (rules_rmw_lock).
Serial == Book!Spec

----------------------------------------------------------------------------
(* A statement of the repository that the code does not keep.              *)

\* delete_rule_pipeline: "R6-F5 manifested as deleted rules silently reappearing
\* ... Holding one file_lock for the whole body closes that window."
DeletedRulesStayDeleted ==
    \A r \in gone : r \notin Known(registry) /\ RowsOf(r, mapping) = {}
=============================================================================
