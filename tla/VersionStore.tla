---------------------------- MODULE VersionStore ----------------------------
(***************************************************************************)
(* The version snapshots of one CSV.                                       *)
(*                                                                         *)
(* A save writes the CSV and then takes a snapshot of whatever the CSV     *)
(* holds: a copy of the file under a name made from the time, and an entry *)
(* in the manifest, which keeps the newest few.  A revert writes an old    *)
(* version, takes that version out of the manifest, and takes a snapshot.  *)
(* A load gives a CSV without a manifest its first version, and removes    *)
(* expired rows without a snapshot.  Listing the versions fills in a field *)
(* that old entries lack.                                                  *)
(*                                                                         *)
(* Only the snapshot holds the lock <csv>.lock, which is unlinked when it  *)
(* is released.  The manifest is truncated and written in place.           *)
(*                                                                         *)
(* Requests are numbered.  Each writes new contents to the CSV at most     *)
(* once, and makes the file of the lock at most once: the contents that    *)
(* request i writes are number i + 1, and the inode it makes is number i.  *)
(***************************************************************************)
EXTENDS Naturals, FiniteSets, Sequences

CONSTANTS
    Workers,        \* requests served at the same time
    MaxVersions,    \* MAX_VERSIONS
    PerSecond,      \* milliseconds in a second
    MaxTime,        \* bound on the milliseconds
    MaxRequests,    \* bound on the requests
    MaxFaults,      \* bound on the faults
    Missing,        \* no manifest
    Torn,           \* a manifest that has been truncated
    NoOne, NoFile

\* The file name has the second in it and, when that name is taken, the millisecond.
Times == 0..(PerSecond + MaxTime - 1)
Short(t) == <<t \div PerSecond, 0>>
Long(t) == <<t \div PerSecond, 1 + (t % PerSecond)>>
Names == {Short(t) : t \in Times} \cup {Long(t) : t \in Times}
Old == Short(0)
Contents == 0..(1 + MaxRequests)
Inodes == 1..MaxRequests
Entry == [name : Names, cols : BOOLEAN]

ASSUME VersionsAssumption ==
    /\ {MaxVersions, PerSecond, MaxTime} \subseteq Nat \ {0}
    /\ {MaxRequests, MaxFaults} \subseteq Nat
    /\ NoOne \notin Workers /\ NoFile \notin 1..MaxRequests
    /\ Missing # Torn /\ {Missing, Torn} \cap Seq(Entry) = {}

VARIABLES
    live,       \* contents of the CSV
    files,      \* contents of the snapshots, 0 for none
    manifest,   \* <csv>_versions.json
    lockfile,   \* the inode that <csv>.lock names
    held,       \* who has locked each inode
    clock,      \* milliseconds
    pc, loc,
    asked, faults,
    saved,     \* history: the CSV was last written by a save or a revert, and
                \* nothing has failed since
    raced,      \* history: two requests have changed the manifest at once, or made a
                \* snapshot in the same millisecond
    reused      \* history: a snapshot has taken a name that was listed, for want of
                \* its file

disk == <<live, files, manifest>>
locks == <<lockfile, held>>
history == <<saved, raced, reused>>
vars == <<disk, locks, clock, pc, loc, asked, faults, history>>

Steps == {"idle", "write", "load", "expire", "list", "read", "restore", "dropread",
          "drop", "rclear", "rput", "open", "flock", "copy", "entry", "trim",
          "clear", "put", "unlock", "unlink", "lclear", "lput", "done"}
Idle == [op |-> "none", req |-> 0, name |-> Old, data |-> 0, inode |-> 0,
         list |-> <<>>]

\* A CSV that has never been versioned, or one whose only entry is an old one.
Init ==
    /\ live = 1
    /\ \/ manifest = Missing /\ files = [n \in Names |-> 0]
       \/ /\ manifest = <<[name |-> Old, cols |-> FALSE]>>
          /\ files = [n \in Names |-> IF n = Old THEN 1 ELSE 0]
    /\ lockfile = NoFile
    /\ held = [i \in Inodes |-> NoOne]
    /\ clock = PerSecond
    /\ pc = [w \in Workers |-> "idle"]
    /\ loc = [w \in Workers |-> Idle]
    /\ asked = 0 /\ faults = 0
    /\ saved = FALSE /\ raced = FALSE /\ reused = FALSE

Goto(w, from, to) == pc[w] = from /\ pc' = [pc EXCEPT ![w] = to]

\* read_version_manifest: what cannot be parsed is as good as none.
Versions == IF manifest \in {Missing, Torn} THEN <<>> ELSE manifest
NamesIn(list) == {list[i].name : i \in DOMAIN list}

\* The entries of list that have another name than n, in their order.
Without(list, n) ==
    LET kept == {i \in DOMAIN list : list[i].name # n}
        Nth(j) == CHOOSE i \in kept : Cardinality({k \in kept : k <= i}) = j
    IN [j \in 1..Cardinality(kept) |-> list[Nth(j)]]

\* From its read of the manifest, or of the CSV it will list there, to its write.
Changing(v) == pc[v] \in {"copy", "entry", "trim", "clear", "put",
                          "drop", "rclear", "rput", "lclear", "lput"}
Enters(w) == raced' = (raced \/ \E v \in Workers \ {w} : Changing(v))

----------------------------------------------------------------------------
(* Requests                                                                *)

First == [save |-> "write", load |-> "load", list |-> "list", revert |-> "read"]
Begin(w) ==
    /\ asked < MaxRequests /\ asked' = asked + 1
    /\ \E op \in {"save", "load", "list", "revert"}, n \in {Old} \cup NamesIn(Versions) :
          /\ IF op = "revert" THEN n \in NamesIn(Versions) ELSE n = Old
          /\ Goto(w, "idle", First[op])
          /\ loc' = [loc EXCEPT ![w] = [Idle EXCEPT !.op = op, !.req = asked', !.name = n]]
    /\ UNCHANGED <<disk, locks, clock, faults, history>>

\* save_csv_pipeline
WriteCsv(w) ==
    /\ Goto(w, "write", "open")
    /\ live' = loc[w].req + 1
    /\ saved' = TRUE
    /\ UNCHANGED <<files, manifest, locks, clock, loc, asked, faults, raced, reused>>

\* _get_csv_content: a CSV that has no manifest gets its first version.
Load(w) ==
    /\ Goto(w, "load", IF manifest \in {Missing, Torn} THEN "open" ELSE "expire")
    /\ UNCHANGED <<disk, locks, clock, loc, asked, faults, history>>

\* Expired rows are removed, if there are any.
Expire(w) ==
    /\ Goto(w, "expire", "done")
    /\ \/ UNCHANGED <<live, saved>>
       \/ live' = loc[w].req + 1 /\ saved' = FALSE
    /\ UNCHANGED <<files, manifest, locks, clock, loc, asked, faults, raced, reused>>

\* revert_csv_pipeline: the version that was asked for, if it is still there.
ReadVersion(w) ==
    LET data == files[loc[w].name] IN
    /\ Goto(w, "read", IF data = 0 THEN "done" ELSE "restore")
    /\ loc' = [loc EXCEPT ![w].data = data]
    /\ UNCHANGED <<disk, locks, clock, asked, faults, history>>

Restore(w) ==
    /\ Goto(w, "restore", "dropread")
    /\ live' = loc[w].data
    /\ saved' = TRUE
    /\ UNCHANGED <<files, manifest, locks, clock, loc, asked, faults, raced, reused>>

\* The version that has been restored leaves the manifest, without the lock.
ReadToDrop(w) ==
    LET n == loc[w].name IN
    /\ Enters(w)
    /\ Goto(w, "dropread", IF n \in NamesIn(Versions) THEN "drop" ELSE "rclear")
    /\ loc' = [loc EXCEPT ![w].list = Without(Versions, n)]
    /\ UNCHANGED <<disk, locks, clock, asked, faults, saved, reused>>

\* Faulty: its file stays.
FaultyDropFile(w) ==
    /\ Goto(w, "drop", "rclear")
    /\ UNCHANGED <<disk, locks, clock, loc, asked, faults, history>>

DropFile(w) ==
    /\ Goto(w, "drop", "rclear")
    /\ files' = [files EXCEPT ![loc[w].name] = 0]
    /\ UNCHANGED <<live, manifest, locks, clock, loc, asked, faults, history>>

\* _get_versions: entries without a number of columns get one, and are written if the
\* snapshot of one could be read.
ListVersions(w) ==
    LET old == \E i \in DOMAIN Versions :
                  ~Versions[i].cols /\ files[Versions[i].name] # 0 IN
    /\ IF old THEN Enters(w) ELSE UNCHANGED raced
    /\ Goto(w, "list", IF old THEN "lclear" ELSE "done")
    /\ loc' = [loc EXCEPT ![w].list = [i \in DOMAIN Versions |-> [Versions[i] EXCEPT !.cols = TRUE]]]
    /\ UNCHANGED <<disk, locks, clock, asked, faults, saved, reused>>

----------------------------------------------------------------------------
(* _csv_file_lock                                                          *)

\* open(lock_path, "w")
OpenLock(w) ==
    /\ Goto(w, "open", "flock")
    /\ lockfile' = IF lockfile = NoFile THEN loc[w].req ELSE lockfile
    /\ loc' = [loc EXCEPT ![w].inode = lockfile']
    /\ UNCHANGED <<disk, held, clock, asked, faults, history>>

Flock(w) ==
    LET i == loc[w].inode IN
    /\ Goto(w, "flock", "copy")
    /\ held[i] = NoOne /\ held' = [held EXCEPT ![i] = w]
    /\ Enters(w)
    /\ loc' = [loc EXCEPT ![w].data = live]
    /\ UNCHANGED <<disk, lockfile, clock, asked, faults, saved, reused>>

Unlock(w) ==
    /\ Goto(w, "unlock", "unlink")
    /\ held' = [held EXCEPT ![loc[w].inode] = NoOne]
    /\ UNCHANGED <<disk, lockfile, clock, loc, asked, faults, history>>

Unlink(w) ==
    /\ Goto(w, "unlink", IF loc[w].op = "load" THEN "expire" ELSE "done")
    /\ lockfile' = NoFile
    /\ UNCHANGED <<disk, held, clock, loc, asked, faults, history>>

----------------------------------------------------------------------------
(* snapshot_version                                                        *)

\* Faulty: the name has no milliseconds.
FaultyNameAt(t) == Short(t)

NameAt(t) == IF files[Short(t)] = 0 THEN Short(t) ELSE Long(t)

\* Two snapshots in one millisecond share a name.
Copy(w) ==
    LET n == NameAt(clock) IN
    /\ Goto(w, "copy", "entry")
    /\ files' = [files EXCEPT ![n] = loc[w].data]
    /\ loc' = [loc EXCEPT ![w].name = n]
    /\ raced' = (raced \/ (files[n] # 0 /\ n[2] # 0))
    /\ reused' = (reused \/ (files[n] = 0 /\ n \in NamesIn(Versions)))
    /\ UNCHANGED <<live, manifest, locks, clock, asked, faults, saved>>

AddEntry(w) ==
    /\ Goto(w, "entry", "trim")
    /\ loc' = [loc EXCEPT ![w].list = Append(Versions, [name |-> loc[w].name, cols |-> TRUE])]
    /\ UNCHANGED <<disk, locks, clock, asked, faults, history>>

\* Only the last MaxVersions stay.
Trim(w) ==
    LET list == loc[w].list IN
    /\ Len(list) > MaxVersions
    /\ Goto(w, "trim", "trim")
    /\ files' = [files EXCEPT ![list[1].name] = 0]
    /\ loc' = [loc EXCEPT ![w].list = Tail(list)]
    /\ UNCHANGED <<live, manifest, locks, clock, asked, faults, history>>

\* Faulty: one too many stays.
FaultyTrimmed(w) ==
    /\ Len(loc[w].list) <= MaxVersions + 1
    /\ Goto(w, "trim", "clear")
    /\ UNCHANGED <<disk, locks, clock, loc, asked, faults, history>>

Trimmed(w) ==
    /\ Len(loc[w].list) <= MaxVersions
    /\ Goto(w, "trim", "clear")
    /\ UNCHANGED <<disk, locks, clock, loc, asked, faults, history>>

\* write_version_manifest
Write == [clear |-> "put", rclear |-> "rput", lclear |-> "lput"]
After == [put |-> "unlock", rput |-> "open", lput |-> "done"]

ClearManifest(w) ==
    /\ pc[w] \in DOMAIN Write /\ Goto(w, pc[w], Write[pc[w]])
    /\ manifest' = Torn
    /\ UNCHANGED <<live, files, locks, clock, loc, asked, faults, history>>

PutManifest(w) ==
    /\ pc[w] \in DOMAIN After /\ Goto(w, pc[w], After[pc[w]])
    /\ manifest' = loc[w].list
    /\ UNCHANGED <<live, files, locks, clock, loc, asked, faults, history>>

Done(w) ==
    /\ Goto(w, "done", "idle")
    /\ loc' = [loc EXCEPT ![w] = Idle]
    /\ UNCHANGED <<disk, locks, clock, asked, faults, history>>

----------------------------------------------------------------------------
(* Faults                                                                  *)

Fault ==
    /\ faults < MaxFaults /\ faults' = faults + 1
    /\ saved' = FALSE

\* An OSError while the copy or the manifest is written ends the snapshot, and not
\* the save or the revert; reverts and listings go on without their change.
Failed == [copy |-> "unlock", clear |-> "unlock", put |-> "unlock",
           rclear |-> "open", rput |-> "open", lclear |-> "done", lput |-> "done"]
WriteFails(w) ==
    /\ Fault
    /\ pc[w] \in DOMAIN Failed /\ Goto(w, pc[w], Failed[pc[w]])
    /\ UNCHANGED <<disk, locks, clock, loc, asked, raced, reused>>

\* The process dies.  Its lock goes, the file of the lock stays.
Crash(w) ==
    /\ Fault
    /\ pc[w] # "idle" /\ pc' = [pc EXCEPT ![w] = "idle"]
    /\ loc' = [loc EXCEPT ![w] = Idle]
    /\ held' = [i \in Inodes |-> IF held[i] = w THEN NoOne ELSE held[i]]
    /\ UNCHANGED <<disk, lockfile, clock, asked, raced, reused>>

Tick ==
    /\ clock + 1 \in Times /\ clock' = clock + 1
    /\ UNCHANGED <<disk, locks, pc, loc, asked, faults, history>>

Step(w) ==
    \/ Begin(w) \/ WriteCsv(w) \/ Load(w) \/ Expire(w)
    \/ ReadVersion(w) \/ Restore(w) \/ ReadToDrop(w) \/ DropFile(w)
    \/ ListVersions(w)
    \/ OpenLock(w) \/ Flock(w) \/ Unlock(w) \/ Unlink(w)
    \/ Copy(w) \/ AddEntry(w) \/ Trim(w) \/ Trimmed(w)
    \/ ClearManifest(w) \/ PutManifest(w) \/ Done(w)
    \/ WriteFails(w) \/ Crash(w)

Next == Tick \/ \E w \in Workers : Step(w)

Spec == Init /\ [][Next]_vars

----------------------------------------------------------------------------
\* The manifest is a list of at most MAX_VERSIONS entries, or missing, or being
\* written (snapshot_version, write_version_manifest).
TypeOK ==
    /\ live \in Contents /\ files \in [Names -> Contents]
    /\ manifest \notin {Missing, Torn} =>
          /\ \A i \in DOMAIN manifest : manifest[i] \in Entry
          /\ Len(manifest) <= MaxVersions
    /\ lockfile \in Inodes \cup {NoFile}
    /\ held \in [Inodes -> Workers \cup {NoOne}]
    /\ pc \in [Workers -> Steps] /\ asked \in 0..MaxRequests

AtRest == \A w \in Workers : pc[w] = "idle"

\* When no two requests have changed the manifest at once, or made a snapshot in the
\* same millisecond, and nothing has failed, the manifest lists the snapshot files
\* there are and no others, once nobody is at work: a version that is offered can be
\* restored, and one that is dropped leaves no file behind (snapshot_version,
\* revert_csv_pipeline).
OfferedIsThere ==
    AtRest /\ ~raced /\ faults = 0 /\ manifest # Missing =>
        NamesIn(manifest) = {n \in Names : files[n] # 0}

\* When no two requests have changed the manifest at once, its newest entry holds
\* what the CSV holds, once nobody is at work: whatever the order in which saves and
\* reverts wrote the CSV and took their snapshots, and whatever failed before the last
\* of these writes, unless rows have expired or something has failed since, or a
\* snapshot took the name of an entry that had lost its file to a crash.
NewestIsCurrent ==
    AtRest /\ ~raced /\ ~reused /\ saved =>
        files[manifest[Len(manifest)].name] = live
=============================================================================
