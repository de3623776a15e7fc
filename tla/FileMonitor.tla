----------------------------- MODULE FileMonitor -----------------------------
(***************************************************************************)
(* wl_fim.py, which splunkd starts every few seconds: it compares the      *)
(* app's own files with a signed baseline and alerts on each that differs. *)
(*                                                                         *)
(* The baseline is kept twice, in a file and in the KV store, and either   *)
(* copy may be lost, damaged, out of reach, signed with another key (the   *)
(* key is derived from instance.cfg, itself a watched file) or, after a    *)
(* failed write, out of date.  Alerts about a lasting condition are given  *)
(* once an hour.  Severities, deploy windows and lockdowns are left out.   *)
(*                                                                         *)
(* A file's contents are a generation and a length; only the log grows     *)
(* within a generation.  A file is hashed, and found to exist, in one      *)
(* read; the log is measured and then hashed, as often as the code does.   *)
(***************************************************************************)
EXTENDS Naturals

CONSTANTS
    Plain,          \* WATCH_CODE and WATCH_SENTINELS
    Globbed,        \* those of them that are watched because a pattern finds them
    InstanceCfg,    \* the one of them that the key is derived from
    Log,            \* WATCH_APPEND_ONLY, the log of recoveries
    Generations,    \* bound on the generations of a file
    MaxLength,      \* bound on the length of the log
    Outages,        \* how the KV store fails: "down" (refuses), "error" (a 5xx), "hangs"
    Losses,         \* what may happen to a baseline, and to access to it
    MaxChanges,     \* bound on the changes of files
    MaxFaults,      \* bound on the failures
    Missing,        \* no baseline
    Corrupt,        \* a baseline that cannot be parsed, or is not signed
    Unlisted        \* the entry of a file that is not in the baseline

Files == Plain \cup {Log}
Absent == <<0, 0>>
Possible(f) == {Absent} \cup ((1..Generations) \X (IF f = Log THEN 1..MaxLength ELSE {1}))
Contents == {Absent} \cup ((1..Generations) \X (1..MaxLength))

\* What is read of a file; generation 0 where a log was too short to be hashed.
Readings == Contents \cup ({0} \X (1..MaxLength))
Entries == Readings \cup {Unlisted}
Baseline == [key : Contents, body : [Files -> Entries]]

ASSUME MonitorAssumption ==
    /\ InstanceCfg \in Plain \ Globbed /\ Globbed \subseteq Plain /\ Log \notin Plain
    /\ {Generations, MaxLength} \subseteq Nat \ {0}
    /\ {MaxChanges, MaxFaults} \subseteq Nat
    /\ Outages \subseteq {"down", "error", "hangs"}
    /\ Losses \subseteq {"fs", "kv", "denied", "write", "crash"}
    /\ Missing # Corrupt /\ {Missing, Corrupt} \cap Baseline = {}
    /\ Unlisted \notin Readings

VARIABLES
    actual,     \* the watched files
    fs,         \* .fim_baseline.json
    denied,     \* it belongs to another user
    kv,         \* the record in the KV store
    kvStatus,   \* of the KV store: "up", or how it fails
    pc,
    scan,       \* the run of the script: what it has read and will write
    changes, faults,
    known,      \* history: each file as a copy of the baseline last took it
    unnamed,    \* history: files that a run met changed, and did not name
    spoke,      \* history: the run has alerted, now or for this within the hour
    silent,     \* history: a run met a change and ended without an alert
    cried,      \* history: a file was named that had not changed, or the copies of the
                \* baseline doubted with neither a failure nor a new key
    rekeyed     \* history: instance.cfg has been changed

stores == <<fs, denied, kv, kvStatus>>
history == <<known, unnamed, spoke, silent, cried, rekeyed>>
vars == <<actual, stores, pc, scan, changes, faults, history>>

Nothing == [f \in Files |-> Unlisted]

Idle == [cfg |-> Absent, key |-> Absent, status |-> "missing", seen |-> Absent,
         base |-> Nothing, new |-> Nothing,
         todo |-> {}, write |-> FALSE, both |-> TRUE, then |-> "end"]

Init ==
    /\ actual = [f \in Files |-> IF f = Log THEN Absent ELSE <<1, 1>>]
    /\ fs = Missing /\ kv = Missing
    /\ denied = FALSE /\ kvStatus = "up"
    /\ pc = "idle" /\ scan = Idle
    /\ changes = 0 /\ faults = 0
    /\ known = [f \in Files |-> {}]
    /\ unnamed = {}
    /\ spoke = FALSE /\ silent = FALSE /\ cried = FALSE /\ rekeyed = FALSE

Goto(from, to) == pc = from /\ pc' = to

\* _emit, of a condition of the baseline: given now, or within the last hour.
Report ==
    /\ spoke' = TRUE
    /\ cried' = (cried \/ (faults = 0 /\ ~rekeyed))

\* _read_fs_baseline, _read_kv_baseline
StatusOf(copy, key) ==
    CASE copy = Missing -> "missing"
      [] copy = Corrupt -> "corrupt"
      [] OTHER -> IF copy.key = key THEN "ok" ELSE "mismatch"
KvStatus == IF kvStatus = "up" THEN StatusOf(kv, scan.key) ELSE kvStatus

----------------------------------------------------------------------------
(* A run starts.                                                           *)

\* The patterns are expanded: a file they do not find is not watched in this run
\* (_expand_globs). instance.cfg is hashed before the key is derived from it.
Start ==
    /\ Goto("idle", "key")
    /\ scan' = [Idle EXCEPT !.cfg = actual[InstanceCfg],
                            !.todo = {f \in Files : f \in Globbed => actual[f] # Absent}]
    /\ spoke' = FALSE
    /\ UNCHANGED <<actual, stores, changes, faults, known, unnamed, silent, cried, rekeyed>>

DeriveKey ==
    /\ Goto("key", "fs")
    /\ scan' = [scan EXCEPT !.key = actual[InstanceCfg]]
    /\ UNCHANGED <<actual, stores, changes, faults, history>>

ReadFs ==
    LET status == IF denied THEN "denied" ELSE StatusOf(fs, scan.key) IN
    /\ Goto("fs", "kv")
    /\ scan' = [scan EXCEPT !.status = status,
                            !.base = IF status \in {"ok", "mismatch"} THEN fs.body ELSE @]
    /\ UNCHANGED <<actual, stores, changes, faults, history>>

----------------------------------------------------------------------------
(* The KV copy is read, and the baseline to go by is chosen.               *)

Quiet == UNCHANGED <<spoke, cried>>
Chosen == UNCHANGED <<actual, stores, changes, faults, known, unnamed, silent, rekeyed>>

\* The KV store has answered, or refused to.
Answered == pc = "kv" /\ kvStatus # "hangs"

\* The files are compared with body: at once, or after one copy has been restored.
Compare(body, first, resign) ==
    /\ Answered /\ pc' = first
    /\ scan' = [scan EXCEPT !.base = body, !.new = body,
                            !.both = FALSE, !.then = "compare", !.write = resign]

\* The files as they are become the baseline: they are read as in a comparison, with
\* a baseline that lists none of them (_snapshot).
Rebuild(then) ==
    /\ Answered /\ pc' = "compare"
    /\ scan' = [scan EXCEPT !.base = Nothing, !.new = Nothing, !.then = then, !.write = TRUE]

FirstRun ==
    /\ scan.status = "missing" /\ KvStatus = "missing"
    /\ Rebuild("initialized")
    /\ Quiet /\ Chosen

Agree ==
    /\ scan.status = "ok" /\ KvStatus = "ok"
    /\ scan.base = kv.body
    /\ Compare(scan.base, "compare", FALSE)
    /\ Quiet /\ Chosen

\* Where both copies list a file, the KV store's entry is taken.
Merged == [f \in Files |-> IF kv.body[f] # Unlisted THEN kv.body[f] ELSE scan.base[f]]

Diverge ==
    /\ scan.status = "ok" /\ KvStatus = "ok"
    /\ scan.base # kv.body
    /\ Compare(Merged, "compare", FALSE)
    /\ Report /\ Chosen

FsAlone ==
    /\ scan.status = "ok" /\ KvStatus \in {"missing", "down", "mismatch"}
    /\ Compare(scan.base, IF KvStatus = "down" THEN "compare" ELSE "kvput", FALSE)
    /\ IF KvStatus = "mismatch" THEN Report ELSE Quiet
    /\ Chosen

Denied ==
    /\ scan.status = "denied"
    /\ IF KvStatus = "ok" THEN Compare(kv.body, "compare", FALSE)
                          ELSE Answered /\ pc' = "end" /\ UNCHANGED scan
    /\ Report /\ Chosen


KvAlone ==
    /\ scan.status \in {"missing", "corrupt", "mismatch"} /\ KvStatus = "ok"
    /\ Compare(kv.body, "truncate", FALSE)
    /\ Report /\ Chosen

\* The signature is wrong in both, or in the only copy there is.
Unverified ==
    /\ scan.status = "mismatch" /\ KvStatus # "ok"
    /\ Compare(scan.base, "compare", TRUE)
    /\ Report /\ Chosen

Unusable ==
    /\ scan.status = "corrupt" /\ KvStatus # "ok"
    /\ Rebuild("end")
    /\ Report /\ Chosen

\* What is left over, which includes a good file beside a KV store that answers with
\* an error.
NoSource ==
    /\ \/ scan.status = "missing" /\ KvStatus \notin {"missing", "ok"}
       \/ scan.status = "ok" /\ KvStatus \in {"error", "corrupt"}
    /\ Rebuild("no source")
    /\ Quiet /\ Chosen

\* _kv_request waits for an answer without a timeout: a run that a hanging store keeps
\* waiting may wait for ever. A late answer is one to a request made late.
Hang ==
    /\ pc \in {"kv", "kvput"} /\ pc' = "stuck"
    /\ kvStatus = "hangs"
    /\ UNCHANGED <<actual, stores, scan, changes, faults, history>>

----------------------------------------------------------------------------
(* The comparison.                                                         *)

\* Faulty: a log may be changed as long as it does not shrink.
FaultyAlarming(f, prev, cur) ==
    /\ prev # Unlisted
    /\ IF f = Log THEN cur[2] < prev[2] ELSE cur # prev

\* Faulty: a log is hashed as a whole.
FaultyWholeFile(f, prev, cur) == prev # Unlisted /\ cur # prev /\ (f = Log => prev # Absent)

\* A file that is not in the baseline is taken as it is. The log may appear and grow; its
\* first bytes, as many as it had, stay the same, if they were hashed then.
Alarming(f, prev, cur) ==
    /\ prev # Unlisted
    /\ IF f # Log THEN cur # prev
       ELSE prev # Absent /\ (cur[2] < prev[2] \/ (prev[1] # 0 /\ cur[1] # prev[1]))

\* What one who knows a file may not find in it: anything but what it had, or a log that
\* is not what it was with more behind it. Known is what every copy of the baseline
\* lists and, of the log, what was hashed.
Altered(f, old, cur) ==
    IF f \in Plain THEN cur # old
    ELSE /\ old # Absent
         /\ \/ cur[2] < old[2]
            \/ old[1] # 0 /\ cur[1] # old[1]

Anomaly(f, cur) ==
    /\ known[f] # {}
    /\ \A old \in known[f] : old # Unlisted /\ Altered(f, old, cur)

\* The baseline gets entry for f, which was found to be cur.
Note(f, entry, cur) ==
    LET alarm == Alarming(f, scan.base[f], cur)
        anomaly == Anomaly(f, cur)
    IN
    /\ scan' = [scan EXCEPT !.todo = @ \ {f}, !.new[f] = entry, !.write = @ \/ alarm]
    /\ spoke' = (spoke \/ alarm)
    /\ cried' = (cried \/ (alarm /\ ~anomaly))
    /\ unnamed' = IF anomaly /\ ~alarm THEN unnamed \cup {f} ELSE unnamed
    /\ UNCHANGED <<actual, stores, changes, faults, known, silent, rekeyed>>

\* In a comparison instance.cfg is as it was hashed at the start.
CompareFile(f) ==
    LET cur == IF f = InstanceCfg /\ scan.then = "compare" THEN scan.cfg ELSE actual[f] IN
    /\ Goto("compare", "compare")
    /\ f \in scan.todo \cap Plain
    /\ Note(f, cur, cur)

\* The log comes after the other files (_append_only_state).
MeasureLog ==
    /\ scan.todo = {Log}
    /\ Goto("compare", "hash")
    /\ scan' = [scan EXCEPT !.seen = <<0, actual[Log][2]>>]
    /\ UNCHANGED <<actual, stores, changes, faults, history>>

\* Faulty: a log that was not there when it was measured is hashed.
FaultyPrefix(file, n) == IF file[2] < n THEN 0 ELSE file[1]

\* _hash_file_prefix, and no hash of a log that is not there
Prefix(file, n) == IF n = 0 \/ file[2] < n THEN 0 ELSE file[1]

HashLog ==
    /\ Goto("hash", "judge")
    /\ scan' = [scan EXCEPT !.seen = <<Prefix(actual[Log], @[2]), @[2]>>]
    /\ UNCHANGED <<actual, stores, changes, faults, history>>

\* It is hashed once more, as far as the baseline has it.
JudgeLog ==
    LET prev == scan.base[Log]
        cur == IF prev = Unlisted THEN scan.seen
               ELSE <<Prefix(actual[Log], prev[2]), scan.seen[2]>>
    IN
    /\ Goto("judge", "compare")
    /\ Note(Log, scan.seen, cur)

Compared ==
    /\ scan.todo = {}
    /\ Goto("compare", IF scan.new # scan.base \/ scan.write THEN "truncate" ELSE "end")
    /\ scan' = [scan EXCEPT !.both = TRUE, !.then = IF @ = "compare" THEN "end" ELSE @]
    /\ UNCHANGED <<actual, stores, changes, faults, history>>

----------------------------------------------------------------------------
(* The two copies are written.                                             *)

AfterFs == IF scan.both THEN "kvput" ELSE scan.then

\* After a failed write the other copy still has what it had.
Taken(first) ==
    /\ known' = [f \in Files |-> {scan.new[f]} \cup IF first THEN {} ELSE known[f]]
    /\ UNCHANGED <<unnamed, spoke, silent, cried, rekeyed>>

\* _write_fs_baseline
TruncateFs ==
    /\ ~denied
    /\ Goto("truncate", "put")
    /\ fs' = Corrupt
    /\ UNCHANGED <<actual, denied, kv, kvStatus, scan, changes, faults, history>>

PutFs ==
    /\ Goto("put", AfterFs)
    /\ fs' = [key |-> scan.key, body |-> scan.new]
    /\ Taken(scan.both)
    /\ UNCHANGED <<actual, denied, kv, kvStatus, scan, changes, faults>>

\* A failure is reported only where the file is being restored from the KV store.
FsFails ==
    /\ pc \in {"truncate", "put"} /\ pc' = AfterFs
    /\ \/ denied /\ pc = "truncate" /\ UNCHANGED faults
       \/ "write" \in Losses /\ faults < MaxFaults /\ faults' = faults + 1
    /\ IF scan.both THEN Quiet ELSE Report
    /\ UNCHANGED <<actual, stores, scan, changes, known, unnamed, silent, rekeyed>>

\* _write_kv_baseline
PutKv ==
    /\ Goto("kvput", scan.then)
    /\ kvStatus = "up"
    /\ kv' = [key |-> scan.key, body |-> scan.new]
    /\ Taken(FALSE)
    /\ UNCHANGED <<actual, fs, denied, kvStatus, scan, changes, faults>>

KvFails ==
    /\ Goto("kvput", scan.then)
    /\ \/ kvStatus \in {"down", "error"} /\ UNCHANGED faults
       \/ kvStatus = "up" /\ "write" \in Losses /\ faults < MaxFaults /\ faults' = faults + 1
    /\ UNCHANGED <<actual, stores, scan, changes, history>>

\* fim_baseline_initialized is an event of its own, fim_baseline_rebuilt_no_source a
\* condition.
Rebuilt ==
    /\ pc \in {"initialized", "no source"} /\ pc' = "end"
    /\ IF pc = "initialized" THEN spoke' = TRUE /\ UNCHANGED cried ELSE Report
    /\ UNCHANGED <<actual, stores, scan, changes, faults, known, unnamed, silent, rekeyed>>

End ==
    /\ Goto("end", "idle")
    /\ scan' = Idle
    /\ silent' = (silent \/ (unnamed # {} /\ ~spoke))
    /\ unnamed' = {}
    /\ UNCHANGED <<actual, stores, changes, faults, known, spoke, cried, rekeyed>>

----------------------------------------------------------------------------
(* The surroundings.                                                       *)

\* A watched file is written, removed or appended to.
Change(f) ==
    /\ changes < MaxChanges /\ changes' = changes + 1
    /\ \E c \in Possible(f) \ {actual[f]} : actual' = [actual EXCEPT ![f] = c]
    /\ rekeyed' = (rekeyed \/ f = InstanceCfg)
    /\ UNCHANGED <<stores, pc, scan, faults, known, unnamed, spoke, silent, cried>>

Fault(kind) == kind \in Losses /\ faults < MaxFaults /\ faults' = faults + 1
Outside == UNCHANGED <<actual, scan, changes, history>>

LoseFs ==
    /\ Fault("fs")
    /\ pc = "idle" /\ ~denied /\ fs' \in {Missing, Corrupt} \ {fs}
    /\ Outside /\ UNCHANGED <<pc, denied, kv, kvStatus>>

LoseKv ==
    /\ Fault("kv")
    /\ kv' \in {Missing, Corrupt} \ {kv}
    /\ Outside /\ UNCHANGED <<pc, fs, denied, kvStatus>>

\* The script is run once as root, which leaves the file to root; an operator
\* returns it.
Deny ==
    /\ Fault("denied")
    /\ pc = "idle" /\ ~denied /\ fs \notin {Missing, Corrupt}
    /\ denied' = TRUE
    /\ Outside /\ UNCHANGED <<pc, fs, kv, kvStatus>>

Allow ==
    /\ denied /\ denied' = FALSE
    /\ Outside /\ UNCHANGED <<pc, fs, kv, kvStatus, faults>>

KvGoes ==
    /\ faults < MaxFaults /\ faults' = faults + 1
    /\ kvStatus = "up" /\ kvStatus' \in Outages
    /\ Outside /\ UNCHANGED <<pc, fs, denied, kv>>

KvReturns ==
    /\ kvStatus # "up" /\ kvStatus' = "up"
    /\ Outside /\ UNCHANGED <<pc, fs, denied, kv, faults>>

\* The run is killed; what it has reported has been reported. A run that takes the
\* files as they are for want of any copy reports so only after it has written them:
\* NoSilentChange does not answer for one that is killed, or waits for ever, before.
Crash ==
    /\ Fault("crash")
    /\ pc # "idle" /\ pc' = "idle" /\ scan' = Idle
    /\ unnamed' = IF spoke \/ scan.then \in {"initialized", "no source"} THEN {} ELSE unnamed
    /\ UNCHANGED <<actual, stores, changes, known, spoke, silent, cried, rekeyed>>

Run ==
    \/ Start \/ DeriveKey \/ ReadFs
    \/ FirstRun \/ Agree \/ Diverge \/ FsAlone \/ Denied \/ KvAlone
    \/ Unverified \/ Unusable \/ NoSource \/ Hang
    \/ (\E f \in Plain : CompareFile(f)) \/ MeasureLog \/ HashLog \/ JudgeLog \/ Compared
    \/ TruncateFs \/ PutFs \/ FsFails \/ PutKv \/ KvFails \/ Rebuilt \/ End

Next ==
    \/ Run \/ Crash
    \/ \E f \in Files : Change(f)
    \/ LoseFs \/ LoseKv \/ Deny \/ Allow \/ KvGoes \/ KvReturns

Spec == Init /\ [][Next]_vars

\* splunkd starts the script again and again, but never beside a run of it, and a run
\* goes on: to its end, or to a request that the KV store does not answer, its one wait
\* that has no limit once it has its session key.
FairSpec == Spec /\ WF_vars(Run)

----------------------------------------------------------------------------
\* A copy of the baseline is missing or damaged, or lists each file with what was read of
\* it, or not at all (_write_fs_baseline, _write_kv_baseline).
TypeOK ==
    /\ actual \in [Files -> Contents]
    /\ fs \in {Missing, Corrupt} \cup Baseline
    /\ kv \in {Missing, Corrupt} \cup Baseline
    /\ scan.todo \subseteq Files

\* A run that compares a file altered since a run last met it, or a log that has lost or
\* changed what it had, does not end without an alert, or the condition of the baseline
\* that keeps it from comparing was reported within the hour: whichever copy was lost,
\* damaged, out of reach, out of date or signed with an old key, wherever the runs before
\* it died, and wherever the log changed between the three reads of it (main). There are
\* three exceptions. A file that a pattern finds is not compared while it is gone, so its
\* removal is never reported; a file that some copy of the baseline does not list is taken
\* as it is; and of a log that shrank while it was read no more is known than its length.
NoSilentChange == ~silent

\* Without failures nothing is reported that has not happened: no file is named that
\* no one has altered, the log may grow at any moment of a run, also between two reads of
\* it, and the copies of the baseline are in doubt only when the key has changed (main).
NoFalseAlarm == faults = 0 => ~cried

=============================================================================
