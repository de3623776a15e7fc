------------------------------ MODULE CsvStore ------------------------------
(***************************************************************************)
(* One CSV of Whitelist Manager and everything that writes it.             *)
(*                                                                         *)
(* A direct save and the replay of an approved save hold the advisory lock *)
(* <csv>.rmw.lock.  A load that removes expired rows, a revert and the     *)
(* hourly clean-up write the same file without it.  Every writer goes      *)
(* through the same temporary file, <csv>.tmp.  A client proves what it    *)
(* has seen with a token: the time stamp of the file in whole seconds, and *)
(* a content hash that each handler process caches under (stamp, size).    *)
(*                                                                         *)
(* The contents of the CSV are reduced to the set of edits it has in it.   *)
(* The approval queue is the abstract one, AtomicQueue, under its lock.    *)
(***************************************************************************)
EXTENDS AtomicQueue

CONSTANTS
    Workers,        \* clients, each with at most one request in progress, and
                    \* the clean-up script
    Does,           \* what each of them may ask for
    Processes,      \* handler processes
    Process,        \* the one that serves each worker
    Edits,          \* edits that analysts save directly
    EditsOf,        \* which of them each analyst makes
    Action,         \* how the approval of a request changes the CSV
    Expired,        \* rows whose expiration date has passed
    Original,       \* the CSV at the start, and the version to revert to
    Length,         \* file size by contents
    MaxClock,       \* bound on the seconds that pass
    MaxRequests,    \* bound on the requests that arrive
    Faults, MaxFaults,
    Blank,          \* a file that has just been truncated
    Torn,           \* part of one writer's contents and part of another's
    NoFile, NoOne, NoReq, NoView, NoHash

Ops == {"load", "keep", "save", "revert", "cleanup", "submit", "process",
        "other"}

Rows == SUBSET (Edits \cup Requests)
Contents == Rows \cup {Blank, Torn}
Files == [data : Contents, mtime : 0..MaxClock]
Hashes == [data : Contents, mtime : 0..MaxClock, size : Nat]

\* Bytes y written from the start of an open file that holds x.
Over(x, y) == IF Length[y] >= Length[x] THEN y ELSE Torn

\* remove_expired_rows, partition_expired
Kept(x) == IF x \in Rows THEN x \ Expired ELSE x
\* Rows x with one more edit.
Plus(x, e) == IF x \in Rows THEN x \cup {e} ELSE x

ASSUME CsvAssumption ==
    /\ Does \in [Workers -> SUBSET Ops]
    /\ Process \in [Workers -> Processes]
    /\ EditsOf \in [Workers -> SUBSET Edits]
    /\ Action \in [Requests -> {"merge", "replace", "revert"}]
    /\ AtStart = {}
    /\ Original \subseteq Edits
    /\ Length \in [Contents -> Nat]
    /\ Length[Blank] = 0
    /\ Edits \cap Requests = {}
    /\ {Blank, Torn} \cap Rows = {} /\ Blank # Torn
    /\ NoFile \notin Files
    /\ NoOne \notin Workers
    /\ NoReq \notin Requests
    /\ NoHash \notin Hashes
    /\ MaxClock \in Nat /\ MaxRequests \in Nat /\ MaxFaults \in Nat
    /\ Faults \subseteq {"crash", "write", "aftermath"}

----------------------------------------------------------------------------
VARIABLES
    live,       \* the CSV
    tmp,        \* <csv>.tmp, or NoFile
    fd,         \* where the file each worker has open is now
    registry,   \* contents recorded for this CSV in .csv_expected_hashes.json
    lock,       \* holder of <csv>.rmw.lock
    qlock,      \* holder of the approval queue's lock
    pc,         \* the next step of each worker
    loc,        \* the locals of the request it serves
    view,       \* what each client has on its screen, and its token
    payload,    \* rows stored with each submitted request
    cache,      \* _CSV_HASH_CACHE of each handler process
    clock,      \* seconds
    asked,      \* requests so far
    overlap,    \* history: a writer without the lock has overlapped another
    recent,     \* history: what the CSV has been since it got its time stamp
    faults

vars == <<queue, known, old, live, tmp, fd, registry, lock, qlock, pc, loc,
          view, payload, cache, clock, asked, overlap, recent, faults>>
disk == <<live, tmp, fd, overlap, recent>>
rest == <<payload, clock, asked, faults>>

Idle == [op |-> "none", req |-> NoReq, got |-> {}, put |-> {}, ok |-> "done", mtime |-> 0, size |-> 0]

Init ==
    /\ QInit
    /\ live = [data |-> Original, mtime |-> 0]
    /\ tmp = NoFile
    /\ fd = [w \in Workers |-> "none"]
    /\ registry = Original
    /\ lock = NoOne /\ qlock = NoOne
    /\ pc = [w \in Workers |-> "idle"]
    /\ loc = [w \in Workers |-> Idle]
    /\ view = [w \in Workers |-> NoView]
    /\ payload = [r \in Requests |-> {}]
    /\ cache = [p \in Processes |-> NoHash]
    /\ clock = 0 /\ asked = 0
    /\ overlap = FALSE /\ recent = {Original}
    /\ faults = 0

Step(w, from, to) == pc[w] = from /\ pc' = [pc EXCEPT ![w] = to]

\* The handler returns, and leaves the lock blocks it is in.
Return(w) ==
    /\ pc' = [pc EXCEPT ![w] = "idle"]
    /\ loc' = [loc EXCEPT ![w] = Idle]
    /\ lock' = IF lock = w THEN NoOne ELSE lock
    /\ qlock' = IF qlock = w THEN NoOne ELSE qlock

----------------------------------------------------------------------------
(* Requests arrive.                                                        *)

Start(w, o, r, put, to) ==
    /\ o \in Does[w]
    /\ asked < MaxRequests /\ asked' = asked + 1
    /\ Step(w, "idle", to)
    /\ loc' = [loc EXCEPT ![w] = [Idle EXCEPT !.op = o, !.req = r, !.put = put]]
    /\ UNCHANGED <<qvars, disk, registry, lock, qlock, view, cache, payload, clock,
                   faults>>

\* GET get_csv_content, the hourly clean-up, a save of another CSV, an admin's
\* approval of a request.
BeginLoad(w)       == Start(w, "load", NoReq, {}, "rows")
BeginCleanup(w)    == Start(w, "cleanup", NoReq, {}, "rows")
BeginOther(w)      == Start(w, "other", NoReq, {}, "digest")
BeginProcess(w, r) == r \in known /\ Start(w, "process", r, {}, "qwait")

\* What needs a CSV on the screen: "Keep editing" after a warning, a save of the
\* rows with an edit, a request for an edit, a revert.
BeginKeep(w)   == view[w] # NoView /\ Start(w, "keep", NoReq, {}, "token")
BeginRevert(w) == view[w] # NoView /\ Start(w, "revert", NoReq, Original, "gate")
BeginSave(w, e) ==
    /\ view[w] # NoView
    /\ e \in EditsOf[w]
    /\ Start(w, "save", NoReq, Plus(view[w].rows, e), "wait")
BeginSubmit(w, r) ==
    /\ view[w] # NoView
    /\ Analyst[r] = w /\ r \notin known
    /\ Start(w, "submit", r, Plus(view[w].rows, r), "qwait")

Begin(w) ==
    \/ BeginLoad(w) \/ BeginCleanup(w) \/ BeginOther(w) \/ BeginKeep(w)
    \/ BeginRevert(w)
    \/ \E e \in Edits : BeginSave(w, e)
    \/ \E r \in Requests : BeginSubmit(w, r) \/ BeginProcess(w, r)

----------------------------------------------------------------------------
(* The queue's lock: a submission, and the verdict on a request.           *)

AcquireQueue(w) ==
    /\ qlock = NoOne
    /\ Step(w, "qwait", IF loc[w].op = "submit" THEN "store" ELSE "verdict")
    /\ qlock' = w
    /\ UNCHANGED <<qvars, disk, registry, lock, loc, view, cache, rest>>

\* _submit_approval stores the rows of the client, whatever its token.
Store(w) ==
    /\ pc[w] = "store"
    /\ \/ Submit(loc[w].req, {}) /\ payload' = [payload EXCEPT ![loc[w].req] = loc[w].put]
       \/ ConflictError(queue, loc[w].req) /\ UNCHANGED <<qvars, payload>>
    /\ Return(w)
    /\ UNCHANGED <<disk, registry, view, cache, clock, asked, faults>>

\* _process_approval: refused (no longer pending, one's own, a daily limit), a
\* rejection or cancellation, an approval that can not be carried out (the rows
\* or the version have gone), and one that goes on to the CSV.
Verdict(w) ==
    /\ pc[w] = "verdict"
    /\ \/ Return(w) /\ UNCHANGED qvars
       \/ Resolve(loc[w].req, "rejected") /\ Return(w)
       \/ /\ queue[loc[w].req] = "pending"
          /\ Analyst[loc[w].req] # w
          /\ \/ Step(w, "verdict", "mark") /\ loc' = [loc EXCEPT ![w].ok = "failed"]
             \/ /\ Step(w, "verdict", IF Action[loc[w].req] = "revert" THEN "open" ELSE "rows")
                /\ loc' = [loc EXCEPT ![w].put = Original]
          /\ UNCHANGED <<qvars, lock, qlock>>
    /\ UNCHANGED <<disk, registry, view, cache, rest>>

\* Mark the request and write the queue back.
Mark(w) ==
    /\ pc[w] = "mark"
    /\ Resolve(loc[w].req, IF loc[w].ok = "failed" THEN "failed" ELSE "approved")
    /\ Return(w)
    /\ UNCHANGED <<disk, registry, view, cache, rest>>

----------------------------------------------------------------------------
(* The CSV's lock.                                                         *)

\* Faulty: the lock excludes nobody.
AcquireShared(w) ==
    /\ Step(w, "wait", IF loc[w].op = "save" THEN "check" ELSE "diff")
    /\ lock' = w
    /\ UNCHANGED <<qvars, disk, registry, qlock, loc, view, cache, rest>>

\* file_lock(lock_target + ".rmw.lock", timeout=10)
Acquire(w) ==
    /\ lock = NoOne
    /\ Step(w, "wait", IF loc[w].op = "save" THEN "check" ELSE "diff")
    /\ lock' = w
    /\ UNCHANGED <<qvars, disk, registry, qlock, loc, view, cache, rest>>

\* The timeout of either lock is an exception: HTTP 500, and a request that was
\* being approved stays pending.
LockTimeout(w) ==
    /\ \/ pc[w] = "wait" /\ lock # NoOne
       \/ pc[w] = "qwait" /\ qlock # NoOne
    /\ Return(w)
    /\ UNCHANGED <<qvars, disk, registry, view, cache, rest>>

----------------------------------------------------------------------------
(* Reads, and what is decided on them.                                     *)

\* read_csv, outside any lock of the CSV.  A replay computes the rows it will
\* save: the request's change to these rows (which fails when it is there
\* already), or the stored rows as they are.
ReadRows(w) ==
    /\ pc[w] = "rows"
    /\ LET x == live.data
           r == loc[w].req
       IN IF loc[w].op = "process"
          THEN IF Action[r] = "merge" /\ Plus(x, r) = x
               THEN Step(w, "rows", "mark") /\ loc' = [loc EXCEPT ![w].ok = "failed"]
               ELSE /\ Step(w, "rows", "wait")
                    /\ loc' = [loc EXCEPT ![w].put =
                                   IF Action[r] = "merge" THEN Plus(x, r) ELSE payload[r]]
          ELSE /\ loc' = [loc EXCEPT ![w] = [@ EXCEPT !.got = x, !.put = Kept(x)]]
               /\ Step(w, "rows", IF Kept(x) # x THEN "open"
                                  ELSE IF loc[w].op = "load" THEN "token" ELSE "end")
    /\ UNCHANGED <<qvars, disk, registry, lock, qlock, view, cache, rest>>

\* The clean-up is over.
End(w) ==
    /\ pc[w] = "end"
    /\ Return(w)
    /\ UNCHANGED <<qvars, disk, registry, view, cache, rest>>

\* os.stat, without the lock but in a save and what answers it: the time stamp and the size
\* by which the hash of the contents is looked up in the next step.
Stat(w) ==
    /\ \/ Step(w, "token", "answer") \/ Step(w, "stat", "compare") \/ Step(w, "reply", "replied")
    /\ loc' = [loc EXCEPT ![w].mtime = live.mtime, ![w].size = Length[live.data]]
    /\ UNCHANGED <<qvars, disk, registry, lock, qlock, view, cache, rest>>

\* _get_csv_content_hash(path, mtime, size): of the file as it is by now, if it is not cached
\* under the time stamp and size of before.
Hash(w) ==
    LET c == cache[Process[w]] IN
    IF c # NoHash /\ c.mtime = loc[w].mtime /\ c.size = loc[w].size THEN c.data ELSE live.data
Hashed(w) ==
    cache' = [cache EXCEPT ![Process[w]] =
                [data |-> Hash(w), mtime |-> loc[w].mtime, size |-> loc[w].size]]

Checked(w) == IF loc[w].op = "save" THEN "diff" ELSE "open"

\* Faulty: the time stamp alone decides.
CheckStamp(w) ==
    /\ pc[w] = "check"
    /\ IF live.mtime # view[w].mtime
       THEN view' = [view EXCEPT ![w].mtime = live.mtime] /\ Return(w)
       ELSE Step(w, "check", Checked(w)) /\ UNCHANGED <<loc, lock, qlock, view>>
    /\ UNCHANGED <<qvars, disk, registry, cache, rest>>

\* Optimistic locking: time stamp, then content hash.  A client that is
\* refused is given the value it should have sent, and keeps it.
Check(w) ==
    /\ pc[w] = "check"
    /\ IF live.mtime # view[w].mtime
       THEN view' = [view EXCEPT ![w].mtime = live.mtime] /\ Return(w)
       ELSE Step(w, "check", "stat") /\ UNCHANGED <<loc, lock, qlock, view>>
    /\ UNCHANGED <<qvars, disk, registry, cache, rest>>

Compare(w) ==
    /\ pc[w] = "compare"
    /\ Hashed(w)
    /\ IF Hash(w) # view[w].hash
       THEN view' = [view EXCEPT ![w].hash = Hash(w)] /\ Return(w)
       ELSE Step(w, "compare", Checked(w)) /\ UNCHANGED <<loc, lock, qlock, view>>
    /\ UNCHANGED <<qvars, disk, registry, rest>>

\* The checks of the contents a save is given, before all others (which contents, is in
\* Replay).  A direct save that is refused is over.  A replay is marked failed; but a cell that
\* is not in ASCII is refused with status 200, and only inline edits are looked at for an error.
Refuse(w) ==
    /\ lock = w
    /\ \/ pc[w] = "check" /\ Return(w)
       \/ /\ loc[w].op = "process" /\ Step(w, "diff", "mark")
          /\ \E ok \in {"failed", "unnoticed"} : loc' = [loc EXCEPT ![w].ok = ok]
          /\ lock' = NoOne /\ qlock' = qlock
    /\ UNCHANGED <<qvars, disk, registry, view, cache, rest>>

\* The rows under the lock: no change, or on to the gate.  A replay has no gate.
Diff(w) ==
    /\ Step(w, "diff", IF live.data = loc[w].put THEN "digest"
                       ELSE IF loc[w].op = "save" THEN "gate" ELSE "open")
    /\ UNCHANGED <<qvars, disk, registry, lock, qlock, loc, view, cache, rest>>

\* Faulty: the requests pending are not looked at.
GateOpen(w) ==
    /\ Step(w, "gate", IF loc[w].op = "save" THEN "open" ELSE "check")
    /\ UNCHANGED <<qvars, disk, registry, lock, qlock, loc, view, cache, rest>>

\* _get_pending_for_csv, without the queue's lock.  Limits and approval
\* thresholds may refuse the change as well.
Gate(w) ==
    /\ pc[w] = "gate"
    /\ \/ Return(w)
       \/ /\ Pending(queue) = {}
          /\ Step(w, "gate", IF loc[w].op = "save" THEN "open" ELSE "check")
          /\ UNCHANGED <<lock, qlock, loc>>
    /\ UNCHANGED <<qvars, disk, registry, view, cache, rest>>

----------------------------------------------------------------------------
(* write_csv: open <csv>.tmp, write, rename; then the expected hash.       *)

\* A worker is in the middle of a read-modify-write of the CSV.
Busy(v) == lock = v \/ pc[v] \in {"check", "stat", "compare", "open", "flush", "rename"}
\* A writer that does not take the lock.
Unlocked(v) ==
    \/ loc[v].op \in {"load", "cleanup", "revert"}
    \/ loc[v].op = "process" /\ Action[loc[v].req] = "revert"

Touch(w) ==
    overlap' = (overlap \/ \E v \in Workers \ {w} :
                                Busy(v) /\ (Unlocked(v) \/ Unlocked(w)))

\* open(temp_path, "w") truncates a file that is there, whoever has it open.
OpenTmp(w) ==
    /\ Step(w, "open", "flush")
    /\ tmp' = [data |-> Blank, mtime |-> clock]
    /\ fd' = [fd EXCEPT ![w] = "tmp"]
    /\ Touch(w)
    /\ UNCHANGED <<qvars, live, recent, registry, lock, qlock, loc, view, cache, rest>>

\* The bytes reach the file this worker has open, wherever it is by now.
Put(w, y) ==
    /\ live' = IF fd[w] = "live" THEN [data |-> Over(live.data, y), mtime |-> clock]
               ELSE live
    /\ tmp' = IF fd[w] = "tmp" THEN [data |-> Over(tmp.data, y), mtime |-> clock]
              ELSE tmp

\* What the CSV is now has replaced what it was, in the same second or a later one.
Stamped == recent' = {live'.data} \cup (IF live'.mtime = live.mtime THEN recent ELSE {})

Flush(w) ==
    /\ Step(w, "flush", "rename")
    /\ Put(w, loc[w].put) /\ Stamped
    /\ fd' = [fd EXCEPT ![w] = "none"]
    /\ Touch(w)
    /\ UNCHANGED <<qvars, registry, lock, qlock, loc, view, cache, rest>>

\* An exception in write_csv: a load goes on with the rows it has read, a
\* replay is marked failed, anything else is over.
GiveUp(w) ==
    IF loc[w].op \in {"load", "process"}
    THEN /\ pc' = [pc EXCEPT ![w] = IF loc[w].op = "load" THEN "token" ELSE "mark"]
         /\ loc' = [loc EXCEPT ![w].put = loc[w].got, ![w].ok = "failed"]
         /\ lock' = IF lock = w THEN NoOne ELSE lock
         /\ UNCHANGED qlock
    ELSE Return(w)

\* Where the files are after the directory entry of <csv>.tmp has gone to d.
Moved(w, d) ==
    [v \in Workers |->
        IF v = w THEN "none" ELSE IF fd[v] = "tmp" THEN d
        ELSE IF fd[v] = "live" /\ d = "live" THEN "gone" ELSE fd[v]]

\* os.replace(temp_path, filepath): what is called <csv>.tmp now becomes the CSV.
Rename(w) ==
    /\ pc[w] = "rename"
    /\ Touch(w)
    /\ IF tmp = NoFile
       THEN GiveUp(w) /\ UNCHANGED <<live, tmp, fd, recent>>
       ELSE /\ Step(w, "rename", "digest")
            /\ live' = tmp /\ Stamped
            /\ tmp' = NoFile
            /\ fd' = Moved(w, "live")
            /\ UNCHANGED <<loc, lock, qlock>>
    /\ UNCHANGED <<qvars, registry, view, cache, rest>>

\* The disk is full: half of the bytes are in the file, and it is removed by name.
WriteFails(w) ==
    /\ "write" \in Faults /\ faults < MaxFaults
    /\ faults' = faults + 1
    /\ pc[w] = "flush"
    /\ live' = IF fd[w] = "live" THEN [data |-> Torn, mtime |-> clock] ELSE live
    /\ Stamped
    /\ tmp' = NoFile
    /\ fd' = Moved(w, "gone")
    /\ Touch(w)
    /\ GiveUp(w)
    /\ UNCHANGED <<qvars, registry, view, cache, payload, clock, asked>>

\* update_csv_expected_hash hashes the file and writes the registry.  The save of
\* another CSV writes back the entry it has read.
Digest(w) ==
    /\ Step(w, "digest", "record")
    /\ loc' = [loc EXCEPT ![w].got = IF loc[w].op = "other" THEN registry ELSE live.data]
    /\ UNCHANGED <<qvars, disk, registry, lock, qlock, view, cache, rest>>

Record(w) ==
    /\ pc[w] = "record"
    /\ registry' = loc[w].got
    /\ loc' = [loc EXCEPT ![w].got = {}]
    /\ Step(w, "record", IF loc[w].op = "load" THEN "token"
                         ELSE IF loc[w].op \in {"cleanup", "other"} THEN "end" ELSE "reply")
    /\ UNCHANGED <<qvars, disk, lock, qlock, view, cache, rest>>

\* Faulty: an answer from before there were content hashes.
StampOnly(rows, w) == [rows |-> rows, mtime |-> loc[w].mtime]

\* What a client needs for its next save: the rows, the time stamp, and the hash.
Token(rows, w) == [rows |-> rows, mtime |-> loc[w].mtime, hash |-> Hash(w)]

\* The answer to a save, still under the lock, to a revert (the client then
\* loads again), and to the replay of either.
Reply(w) ==
    /\ pc[w] = "replied"
    /\ Hashed(w)
    /\ IF loc[w].op = "process"
       THEN /\ Step(w, "replied", "mark")
            /\ lock' = IF lock = w THEN NoOne ELSE lock
            /\ UNCHANGED <<loc, qlock, view>>
       ELSE /\ view' = [view EXCEPT ![w] = IF loc[w].op = "revert" THEN NoView
                                           ELSE Token(loc[w].put, w)]
            /\ Return(w)
    /\ UNCHANGED <<qvars, disk, registry, rest>>

\* Something fails after the CSV has been replaced: an audit event, a counter.
Aftermath(w) ==
    /\ "aftermath" \in Faults /\ faults < MaxFaults
    /\ faults' = faults + 1
    /\ pc[w] = "reply"
    /\ GiveUp(w)
    /\ UNCHANGED <<qvars, disk, registry, view, cache, payload, clock, asked>>

\* The end of a load, or of the poll behind "Keep editing".
Answer(w) ==
    /\ pc[w] = "answer"
    /\ Hashed(w)
    /\ view' = [view EXCEPT ![w] = Token(IF loc[w].op = "load" THEN loc[w].put
                                         ELSE @.rows, w)]
    /\ Return(w)
    /\ UNCHANGED <<qvars, disk, registry, rest>>

----------------------------------------------------------------------------
Tick ==
    /\ clock < MaxClock
    /\ clock' = clock + 1
    /\ UNCHANGED <<qvars, disk, registry, lock, qlock, pc, loc, view, payload, cache,
                   asked, faults>>

\* splunkd is killed; files and the clients' screens survive.
Crash ==
    /\ "crash" \in Faults /\ faults < MaxFaults
    /\ faults' = faults + 1
    /\ \E w \in Workers : pc[w] # "idle"
    /\ pc' = [w \in Workers |-> "idle"]
    /\ loc' = [w \in Workers |-> Idle]
    /\ fd' = [w \in Workers |-> "none"]
    /\ cache' = [p \in Processes |-> NoHash]
    /\ lock' = NoOne /\ qlock' = NoOne
    /\ UNCHANGED <<qvars, live, tmp, registry, view, payload, clock, asked,
                   overlap, recent>>

Next ==
    \/ \E w \in Workers :
          \/ Begin(w) \/ AcquireQueue(w) \/ Store(w) \/ Verdict(w) \/ Mark(w)
          \/ Acquire(w) \/ LockTimeout(w) \/ ReadRows(w) \/ End(w) \/ Stat(w) \/ Check(w)
          \/ Compare(w) \/ Refuse(w) \/ Diff(w) \/ Gate(w) \/ OpenTmp(w) \/ Flush(w) \/ Rename(w)
          \/ WriteFails(w) \/ Digest(w) \/ Record(w) \/ Reply(w) \/ Aftermath(w)
          \/ Answer(w)
    \/ Tick
    \/ Crash

Spec == Init /\ [][Next]_vars

----------------------------------------------------------------------------
(* Properties.                                                             *)

Steps == {"idle", "rows", "token", "end", "qwait", "store", "verdict", "wait",
          "check", "stat", "compare", "diff", "gate", "open", "flush", "rename", "digest",
          "record", "reply", "replied", "answer", "mark"}

\* Every variable has its type.
TypeOK ==
    /\ queue \in Queues /\ known \subseteq Requests /\ old = {}
    /\ live \in Files
    /\ tmp \in Files \cup {NoFile}
    /\ fd \in [Workers -> {"none", "tmp", "live", "gone"}]
    /\ registry \in Contents
    /\ lock \in Workers \cup {NoOne}
    /\ qlock \in Workers \cup {NoOne}
    /\ pc \in [Workers -> Steps]
    /\ loc \in [Workers -> [op : Ops \cup {"none"}, req : Requests \cup {NoReq},
                            got : Contents, put : Contents,
                            ok : {"done", "failed", "unnoticed"},
                            mtime : 0..MaxClock, size : Nat]]
    /\ view \in [Workers -> [rows : Contents, mtime : 0..MaxClock, hash : Contents]
                            \cup {NoView}]
    /\ payload \in [Requests -> Contents]
    /\ cache \in [Processes -> Hashes \cup {NoHash}]
    /\ clock \in 0..MaxClock
    /\ asked \in 0..MaxRequests
    /\ overlap \in BOOLEAN /\ recent \subseteq Contents
    /\ faults \in 0..MaxFaults

\* A worker replaces the CSV with what it has prepared.
Replaces(w) == pc[w] = "rename" /\ pc'[w] = "digest"

\* The CSV is always the whole content of one writer, whatever crashes and failed
\* writes leave behind in <csv>.tmp, unless a writer without the lock has
\* overlapped another: the lock, where it is taken, is enough.
WholeFile == ~overlap => live.data \in Rows

\* A save or a revert replaces the contents its client's token names, or what has come
\* after them within the second in which they were written: stamp and hash of a token
\* are not taken together, nor are those the hash cache keeps, but what they say of the
\* second is right.  That is all the optimistic check gives, and it takes the lock to give it.
ReplacesWhatTokenNames ==
    [][\A w \in Workers :
         Replaces(w) /\ loc[w].op \in {"save", "revert"} /\ ~overlap' =>
            live.mtime = view[w].mtime /\ view[w].hash \in recent]_vars

\* When a request is marked approved, its change is in the CSV: nobody has saved
\* over it between the end of the replay and the mark, because the request is
\* still pending and closes the gate.  Rows that have expired may be cleaned up.  Except
\* that nothing has been saved if the save has refused a cell that is not in ASCII.
ApprovedIsInForce ==
    [][\A r \in Requests :
         queue[r] = "pending" /\ queue'[r] = "approved" /\ ~overlap =>
            IF Action[r] = "revert" THEN Kept(live.data) = Kept(Original)
            ELSE \/ r \in live.data \cup Expired
                 \/ \E w \in Workers : pc[w] = "mark" /\ loc[w].req = r /\ loc[w].ok = "unnoticed"]_vars

----------------------------------------------------------------------------
(* A statement of the repository that the code does not keep.              *)

\* The user guide: "If two analysts load the same CSV and one saves first, the
\* second analyst's save will be rejected ... They must reload the CSV".
SecondSaveRejected ==
    [][\A w \in Workers :
         Replaces(w) /\ loc[w].op = "save" => live.data = view[w].rows]_vars
=============================================================================
