--------------------------- MODULE ApprovalQueue ---------------------------
(***************************************************************************)
(* The approval queue of Whitelist Manager at the granularity of its file  *)
(* operations.                                                             *)
(*                                                                         *)
(* The queue is a JSON file, _approval_queue.json, with a sidecar file     *)
(* .approval_queue.sig that records the digest of the queue's bytes.  Both *)
(* are replaced atomically, one after the other.  A reader reads the queue *)
(* first and the signature second, without any lock; when the two disagree *)
(* it is given an EMPTY queue.  Read-modify-write cycles are serialised by *)
(* an advisory lock on a third file (_approval_queue_lock).                *)
(*                                                                         *)
(* A worker is one request thread of the persistent REST handler.  Its     *)
(* program counter names the file operation it performs next, and "mem" is *)
(* the queue it holds in memory.  Executing the approved action itself (a  *)
(* CSV save, a rule deletion) is an oracle here: it succeeds, fails or     *)
(* raises.                                                                 *)
(***************************************************************************)
EXTENDS RequestQueue

CONSTANTS
    Workers,                \* request threads that serve POST and GET actions
    Jobs,                   \* what clients ask of the handler, a set of JobType
    Start,                  \* the files at the start: "fresh", "unsigned", "signed"
    AtStart,                \* requests pending at the start
    MAX_PENDING_REQUESTS,   \* the cap on pending requests
    Faults,                 \* the kinds of fault that may occur
    MaxFaults,              \* how many of them
    NoOne, NoFile, NoSig, NoJob

Ops == {"submit", "submitDual", "cancelRequest", "process", "processDual",
        "remove", "poll"}

Submissions == {"submit", "submitDual"}

JobType == [op : Ops, req : Requests, user : Users,
            decision : {"approve", "reject", "cancel"}]

\* The queue the program starts with.
QueueAtStart ==
    [r \in Requests |-> IF r \in AtStart THEN "pending" ELSE "absent"]

ASSUME JobAssumption ==
    /\ Jobs \subseteq JobType

ASSUME StartAssumption ==
    /\ Start \in {"fresh", "unsigned", "signed"}
    /\ AtStart \subseteq Requests
    /\ Start = "fresh" => AtStart = {}
    /\ \A r, s \in AtStart : r # s => ~SameTarget(r, s)

ASSUME BoundAssumption ==
    /\ MAX_PENDING_REQUESTS \in Nat
    /\ MaxFaults \in Nat
    /\ Faults \subseteq {"crash", "queueWrite", "sigWrite", "aftermath"}

ASSUME NullAssumption ==
    /\ NoOne \notin Workers
    /\ NoFile \notin Queues
    /\ NoSig \notin Queues \cup {NoFile}
    /\ NoJob \notin JobType

----------------------------------------------------------------------------
VARIABLES
    queueFile,  \* the bytes of _approval_queue.json, or NoFile
    sigFile,    \* the queue bytes .approval_queue.sig vouches for, or NoSig
    lock,       \* holder of _approval_queue.json.rmw.lock
    pc,         \* the next file operation of each worker
    job,        \* the request each worker serves
    mem,        \* the queue each worker holds in memory
    aged,       \* requests submitted more than APPROVAL_EXPIRY_DAYS ago
    issued,     \* request ids handed out
    stored,     \* history: ids that were ever in the queue file
    acked,      \* history: ids whose submitter was told "submitted"
    executed,   \* history: how often the action of a request was carried out
    faults      \* faults so far

files   == <<queueFile, sigFile>>
history == <<issued, stored, acked, executed>>
vars == <<queueFile, sigFile, lock, pc, job, mem, aged, issued, stored, acked,
          executed, faults>>

\* Steps of a request that hold the read-modify-write lock.
Locked == {"readQueue", "readSig", "bootstrap", "expireQueue", "expireSig",
           "decide", "exec", "writeQueue", "writeSig", "conflicts",
           "dropQueue", "dropSig", "release"}
Steps == Locked \cup {"idle", "peekQueue", "peekSig", "peekBootstrap", "early",
                      "wait", "execDual"}

\* A file that does not exist is an empty queue.
Parsed(content) == IF content = NoFile THEN Empty ELSE content

\* A fresh installation has neither file; one upgraded from a version without
\* signatures has an unsigned queue; any other has both.
Init ==
    /\ queueFile = IF Start = "fresh" THEN NoFile ELSE QueueAtStart
    /\ sigFile = IF Start = "signed" THEN QueueAtStart ELSE NoSig
    /\ lock = NoOne
    /\ pc = [w \in Workers |-> "idle"]
    /\ job = [w \in Workers |-> NoJob]
    /\ mem = [w \in Workers |-> Empty]
    /\ aged = {}
    /\ issued = AtStart
    /\ stored = AtStart
    /\ acked = {}
    /\ executed = [r \in Requests |-> 0]
    /\ faults = 0

Goto(w, step) == pc' = [pc EXCEPT ![w] = step]
Hold(w, q)    == mem' = [mem EXCEPT ![w] = q]

\* The handler returns: the locals of the request are gone.
Return(w) ==
    /\ Goto(w, "idle")
    /\ job' = [job EXCEPT ![w] = NoJob]
    /\ Hold(w, Empty)

----------------------------------------------------------------------------
(* Arrival of a request, and the lock.                                     *)
(* Definitions marked "Faulty:" are not part of the specification.  Each   *)
(* is the definition that follows it with one plausible mistake, kept to   *)
(* see that the properties notice it.                                      *)

\* A client asks for j.  An id is issued once; the other operations name a
\* request that has been on the queue.
Begin(w, j) ==
    /\ pc[w] = "idle"
    /\ j.op \in Submissions =>
          /\ j.req \notin issued
          /\ j.user = Analyst[j.req]
          /\ (j.op = "submitDual") <=> (Kind[j.req] = "dual")
    /\ j.op = "remove" => Kind[j.req] \in Removals
    /\ j.op \in {"cancelRequest", "process", "processDual"} => j.req \in stored
    /\ issued' = IF j.op \in Submissions THEN issued \cup {j.req} ELSE issued
    /\ job' = [job EXCEPT ![w] = j]
    /\ Goto(w, IF j.op \in {"submit", "poll"} THEN "peekQueue" ELSE "wait")
    /\ UNCHANGED <<files, lock, mem, aged, stored, acked, executed, faults>>

\* Faulty: the lock excludes nobody.
AcquireShared(w) ==
    /\ pc[w] = "wait"
    /\ lock' = w
    /\ Goto(w, "readQueue")
    /\ UNCHANGED <<files, job, mem, aged, history, faults>>

\* file_lock(rmw_lock_path, timeout=10) succeeds.
Acquire(w) ==
    /\ pc[w] = "wait"
    /\ lock = NoOne
    /\ lock' = w
    /\ Goto(w, "readQueue")
    /\ UNCHANGED <<files, job, mem, aged, history, faults>>

\* Faulty: a blocking flock that never gives up.
NoTimeout(w) == FALSE /\ UNCHANGED vars

\* Ten seconds pass and somebody else still holds it: HTTP 500.
LockTimeout(w) ==
    /\ pc[w] = "wait"
    /\ lock # NoOne
    /\ Return(w)
    /\ UNCHANGED <<files, lock, aged, history, faults>>

\* Leaving the "with _approval_queue_lock()" block.
Unlock(w) == lock' = NoOne /\ Return(w)

----------------------------------------------------------------------------
(* _read_approval_queue: the bytes, then the signature, then perhaps the   *)
(* bootstrap of a missing signature.  The handler's wrapper drops the      *)
(* error, so a mismatch is an empty queue to every caller.                 *)

ReadQueue(w) ==
    /\ pc[w] \in {"peekQueue", "readQueue"}
    /\ Hold(w, queueFile)
    /\ Goto(w, IF pc[w] = "peekQueue" THEN "peekSig" ELSE "readSig")
    /\ UNCHANGED <<files, lock, job, aged, history, faults>>

\* Where a read goes on: a poll is over once it has read, and so is a peek.
AfterRead(w) ==
    IF pc[w] \in {"peekSig", "peekBootstrap"} THEN "early"
    ELSE IF job[w].op \in {"cancelRequest", "process"} THEN "expireQueue"
    ELSE "decide"

\* _expire_pending_approvals filters what it has read before it writes it
\* back; every other caller keeps what it has read.
AfterReadQueue(w, q) ==
    IF AfterRead(w) = "expireQueue" THEN ExpirePending(q, aged) ELSE q

VerifySig(w) ==
    /\ pc[w] \in {"peekSig", "readSig"}
    /\ IF sigFile = NoSig /\ mem[w] # NoFile
       THEN /\ Goto(w, IF pc[w] = "peekSig" THEN "peekBootstrap"
                                            ELSE "bootstrap")
            /\ UNCHANGED mem
       ELSE /\ Goto(w, AfterRead(w))
            /\ Hold(w, AfterReadQueue(w,
                         IF sigFile = mem[w] THEN mem[w] ELSE Empty))
    /\ UNCHANGED <<files, lock, job, aged, history, faults>>

\* First read after the upgrade: sign the bytes that were read.
BootstrapSig(w) ==
    /\ pc[w] \in {"peekBootstrap", "bootstrap"}
    /\ sigFile' = mem[w]
    /\ Goto(w, AfterRead(w))
    /\ Hold(w, AfterReadQueue(w, mem[w]))
    /\ UNCHANGED <<queueFile, lock, job, aged, history, faults>>

\* The signature cannot be written; the read goes on regardless.
BootstrapFails(w) ==
    /\ pc[w] \in {"peekBootstrap", "bootstrap"}
    /\ "sigWrite" \in Faults
    /\ faults < MaxFaults
    /\ faults' = faults + 1
    /\ Goto(w, AfterRead(w))
    /\ Hold(w, AfterReadQueue(w, mem[w]))
    /\ UNCHANGED <<files, lock, job, aged, history>>

----------------------------------------------------------------------------
(* _write_approval_queue: replace the queue, then its signature.           *)

Writing == {"expireQueue", "writeQueue", "dropQueue"}
Signing == {"expireSig", "writeSig", "dropSig"}

\* Where the handler goes on after a write; every caller ignores the result.
\* An approved removal goes on to cancel the requests it conflicts with.
AfterWrite(w) ==
    IF pc[w] \in {"expireQueue", "expireSig"} THEN "decide"
    ELSE IF /\ pc[w] \in {"writeQueue", "writeSig"}
            /\ job[w].op = "process"
            /\ Kind[job[w].req] \in Removals
            /\ mem[w][job[w].req] = "approved"
         THEN "conflicts"
    ELSE "release"

\* Faulty: the signature is not refreshed.
SigStepSkipped(w) == AfterWrite(w)

SigStep(w) ==
    IF pc[w] = "expireQueue" THEN "expireSig"
    ELSE IF pc[w] = "writeQueue" THEN "writeSig"
    ELSE "dropSig"

ReplaceQueue(w) ==
    /\ pc[w] \in Writing
    /\ queueFile' = mem[w]
    /\ stored' = stored \cup {r \in Requests : mem[w][r] # "absent"}
    /\ Goto(w, SigStep(w))
    /\ UNCHANGED <<sigFile, lock, job, mem, aged, issued, acked, executed,
                   faults>>

ReplaceSig(w) ==
    /\ pc[w] \in Signing
    /\ sigFile' = mem[w]
    /\ Goto(w, AfterWrite(w))
    /\ UNCHANGED <<queueFile, lock, job, mem, aged, history, faults>>

\* The temporary file cannot be written or renamed (disk full).  Nothing is
\* replaced and the handler logs it and carries on.
WriteFails(w) ==
    /\ \/ "queueWrite" \in Faults /\ pc[w] \in Writing
       \/ "sigWrite" \in Faults /\ pc[w] \in Signing
    /\ faults < MaxFaults
    /\ faults' = faults + 1
    /\ Goto(w, AfterWrite(w))
    /\ UNCHANGED <<files, lock, job, mem, aged, history>>

----------------------------------------------------------------------------
(* What each operation decides, between its read and its write.            *)

\* _submit_approval before the lock: conflict and cap, on an unlocked read.
\* The daily limit or the validation of the payload may refuse it as well.
\* A poll (get_pending_for_csv, the gate of a save) ends here.
EarlyCheck(w) ==
    /\ pc[w] = "early"
    /\ LET q == ExpirePending(mem[w], aged) IN
       \/ Return(w)
       \/ /\ job[w].op = "submit"
          /\ ~ConflictError(q, job[w].req)
          /\ Cardinality(Pending(q)) < MAX_PENDING_REQUESTS
          /\ Goto(w, "wait") /\ Hold(w, Empty) /\ UNCHANGED job
    /\ UNCHANGED <<files, lock, aged, history, faults>>

\* Faulty: q is never written.
SaveNothing(w, q) ==
    /\ Hold(w, q)
    /\ Goto(w, "release")
    /\ UNCHANGED <<lock, job>>

\* Write q back and then release the lock.
Save(w, q) ==
    /\ Hold(w, q)
    /\ Goto(w, "writeQueue")
    /\ UNCHANGED <<lock, job>>

\* Faulty: the check before the lock is taken for good.
DecideSubmitUnchecked(w) ==
    /\ pc[w] = "decide"
    /\ job[w].op = "submit"
    /\ Save(w, [ExpirePending(mem[w], aged) EXCEPT ![job[w].req] = "pending"])
    /\ UNCHANGED <<files, aged, history, faults>>

\* _submit_approval, the authoritative check under the lock.
DecideSubmit(w) ==
    /\ pc[w] = "decide"
    /\ job[w].op = "submit"
    /\ LET q == ExpirePending(mem[w], aged)
           r == job[w].req
       IN  IF ConflictError(q, r) THEN Unlock(w)
           ELSE Save(w, [q EXCEPT ![r] = "pending"])
    /\ UNCHANGED <<files, aged, history, faults>>

\* _submit_dual_approval: no expiry, no conflict check, no cap.
DecideSubmitDual(w) ==
    /\ pc[w] = "decide"
    /\ job[w].op = "submitDual"
    /\ Save(w, [mem[w] EXCEPT ![job[w].req] = "pending"])
    /\ UNCHANGED <<files, aged, history, faults>>

\* Faulty: the status of the request is not looked at.
DecideCancelAny(w) ==
    /\ pc[w] = "decide"
    /\ job[w].op = "cancelRequest"
    /\ Save(w, [mem[w] EXCEPT ![job[w].req] = "cancelled"])
    /\ UNCHANGED <<files, aged, history, faults>>

\* _cancel_request: only a pending request, only by its requester.
DecideCancel(w) ==
    /\ pc[w] = "decide"
    /\ job[w].op = "cancelRequest"
    /\ LET r == job[w].req IN
       IF mem[w][r] = "pending" /\ Analyst[r] = job[w].user
       THEN Save(w, [mem[w] EXCEPT ![r] = "cancelled"])
       ELSE Unlock(w)
    /\ UNCHANGED <<files, aged, history, faults>>

\* _process_approval_inner up to the execution of an approved action.  To
\* approve a dual-admin entry here dies on its missing "csv_file" field.
DecideProcess(w) ==
    /\ pc[w] = "decide"
    /\ job[w].op = "process"
    /\ LET r == job[w].req IN
       IF mem[w][r] # "pending" THEN Unlock(w)
       ELSE IF job[w].decision # "approve"
       THEN Save(w, [mem[w] EXCEPT
                       ![r] = IF job[w].decision = "reject" THEN "rejected"
                              ELSE "cancelled"])
       ELSE IF Analyst[r] = job[w].user \/ Kind[r] = "dual" THEN Unlock(w)
       ELSE Goto(w, "exec") /\ UNCHANGED <<lock, job, mem>>
    /\ UNCHANGED <<files, aged, history, faults>>

\* The approved action runs with the queue lock held, before the request is
\* marked.  A failure marks it failed; an exception leaves it pending.  A save
\* that changes nothing, or refuses a cell, answers 200 and counts as done.
ExecApproved(w) ==
    /\ pc[w] = "exec"
    /\ \/ /\ executed' = [executed EXCEPT ![job[w].req] = @ + 1]
          /\ Save(w, [mem[w] EXCEPT ![job[w].req] = "approved"])
       \/ /\ \/ Save(w, [mem[w] EXCEPT ![job[w].req] = "failed"])
             \/ /\ Kind[job[w].req] = "edit"
                /\ Save(w, [mem[w] EXCEPT ![job[w].req] = "approved"])
             \/ Unlock(w)
          /\ UNCHANGED executed
    /\ UNCHANGED <<files, aged, issued, stored, acked, faults>>

\* The CSV has been replaced when something after it fails: a snapshot, an
\* audit event (the request is marked failed), or the daily counters, the
\* reply (an exception, and the request stays pending).
ExecBotched(w) ==
    /\ pc[w] = "exec"
    /\ "aftermath" \in Faults
    /\ faults < MaxFaults
    /\ faults' = faults + 1
    /\ executed' = [executed EXCEPT ![job[w].req] = @ + 1]
    /\ \/ Save(w, [mem[w] EXCEPT ![job[w].req] = "failed"])
       \/ Unlock(w)
    /\ UNCHANGED <<files, aged, issued, stored, acked>>

\* _process_dual_approval under the lock: no expiry; a precondition that no
\* longer holds fails the request, otherwise it is approved before it runs.
DecideProcessDual(w) ==
    /\ pc[w] = "decide"
    /\ job[w].op = "processDual"
    /\ LET r == job[w].req IN
       IF \/ mem[w][r] # "pending"
          \/ Kind[r] # "dual"
          \/ Analyst[r] = job[w].user
          \/ job[w].decision = "cancel"
       THEN Unlock(w)
       ELSE \E s \in IF job[w].decision = "reject" THEN {"rejected"}
                     ELSE {"approved", "failed"} :
               Save(w, [mem[w] EXCEPT ![r] = s])
    /\ UNCHANGED <<files, aged, history, faults>>

\* The end of _action_remove_csv or _action_remove_rule: the rule or CSV is
\* gone and the requests pending for it are cancelled.
DecideRemove(w) ==
    /\ \/ pc[w] = "decide" /\ job[w].op = "remove"
       \/ pc[w] = "conflicts"
    /\ LET r == job[w].req IN
       IF CheckConflicts(mem[w], r) = {} THEN Unlock(w)
       ELSE /\ Hold(w, CancelConflicts(mem[w], r))
            /\ Goto(w, "dropQueue")
            /\ UNCHANGED <<lock, job>>
    /\ UNCHANGED <<files, aged, history, faults>>

\* Faulty: a dual-admin request is carried out whatever was decided.
ReleaseAndRun(w) ==
    /\ pc[w] = "release"
    /\ IF job[w].op = "processDual"
       THEN lock' = NoOne /\ Goto(w, "execDual") /\ UNCHANGED <<job, mem>>
       ELSE Unlock(w)
    /\ acked' = IF job[w].op \in Submissions
                THEN acked \cup {job[w].req} ELSE acked
    /\ UNCHANGED <<files, aged, issued, stored, executed, faults>>

\* The lock is released and the client answered; an approved dual-admin
\* action has yet to run.
Release(w) ==
    /\ pc[w] = "release"
    /\ IF job[w].op = "processDual" /\ mem[w][job[w].req] = "approved"
       THEN lock' = NoOne /\ Goto(w, "execDual") /\ UNCHANGED <<job, mem>>
       ELSE Unlock(w)
    /\ acked' = IF job[w].op \in Submissions
                THEN acked \cup {job[w].req} ELSE acked
    /\ UNCHANGED <<files, aged, issued, stored, executed, faults>>

\* The pipeline of an approved dual-admin action, outside the queue lock;
\* when it fails the request stays approved.
ExecDual(w) ==
    /\ pc[w] = "execDual"
    /\ \/ executed' = [executed EXCEPT ![job[w].req] = @ + 1]
       \/ UNCHANGED executed
    /\ Return(w)
    /\ UNCHANGED <<files, lock, aged, issued, stored, acked, faults>>

----------------------------------------------------------------------------
(* The environment.                                                        *)

\* Thirty days pass since r was submitted.
Age(r) ==
    /\ r \in stored \ aged
    /\ aged' = aged \cup {r}
    /\ UNCHANGED <<files, lock, pc, job, mem, history, faults>>

\* splunkd is killed: every request dies and the kernel drops the flocks.
Crash ==
    /\ "crash" \in Faults
    /\ faults < MaxFaults
    /\ faults' = faults + 1
    /\ \E w \in Workers : pc[w] # "idle"
    /\ pc' = [w \in Workers |-> "idle"]
    /\ job' = [w \in Workers |-> NoJob]
    /\ mem' = [w \in Workers |-> Empty]
    /\ lock' = NoOne
    /\ UNCHANGED <<files, aged, history>>

Step(w) ==
    \/ Acquire(w) \/ LockTimeout(w)
    \/ ReadQueue(w) \/ VerifySig(w) \/ BootstrapSig(w)
    \/ ReplaceQueue(w) \/ ReplaceSig(w)
    \/ EarlyCheck(w)
    \/ DecideSubmit(w) \/ DecideSubmitDual(w) \/ DecideCancel(w)
    \/ DecideProcess(w) \/ ExecApproved(w)
    \/ DecideProcessDual(w) \/ ExecDual(w)
    \/ DecideRemove(w)
    \/ Release(w)

Next ==
    \/ \E w \in Workers :
          \/ Step(w)
          \/ WriteFails(w) \/ BootstrapFails(w) \/ ExecBotched(w)
          \/ \E j \in Jobs : Begin(w, j)
    \/ \E r \in Requests : Age(r)
    \/ Crash

Spec == Init /\ [][Next]_vars

\* A request thread that can go on does: the operating system schedules it
\* and every lock wait is bounded by its timeout.
FairSpec == Spec /\ \A w \in Workers : WF_vars(Step(w))

----------------------------------------------------------------------------
(* Properties.                                                             *)

\* The queue a client would read if the signature were right.
Queue == Parsed(queueFile)

\* Every variable has its type.
TypeOK ==
    /\ queueFile \in Queues \cup {NoFile}
    /\ sigFile \in Queues \cup {NoSig}
    /\ lock \in Workers \cup {NoOne}
    /\ pc \in [Workers -> Steps]
    /\ job \in [Workers -> Jobs \cup {NoJob}]
    /\ mem \in [Workers -> Queues \cup {NoFile}]
    /\ aged \subseteq Requests
    /\ issued \subseteq Requests
    /\ stored \subseteq Requests
    /\ acked \subseteq Requests
    /\ executed \in [Requests -> Nat]
    /\ faults \in 0..MaxFaults

\* However submissions, decisions, crashes and write failures interleave, two
\* requests for one CSV (or two rule operations on one rule) are never pending
\* together: the conflict check that _submit_approval repeats under the lock
\* is made against the queue that its write replaces.
OnePendingPerTarget ==
    \A r, s \in Pending(Queue) : r # s => ~SameTarget(r, s)

\* A request that has been resolved, or has left the queue, never comes back
\* as pending and never changes its resolution, whatever stale queue a worker
\* may have held in memory.  So "This request has already been ..." is a
\* verdict for good.
ResolvedIsFinal ==
    [][\A r \in stored :
         Queue[r] # "pending" => Queue'[r] \in {Queue[r], "absent"}]_vars

\* Once the queue has been signed, and without crashes or failing writes, a
\* worker that decides under the lock decides on what the queue file holds: it
\* is never shown the empty queue that stands for a bad signature, although
\* readers that take no lock are.
DecidesOnQueue ==
    \A w \in Workers :
        pc[w] = "decide" /\ faults = 0 /\ Start = "signed" => mem[w] = Queue

\* A signature is only ever written for the bytes that are in the queue file
\* at that moment.  (Not so while a signature is missing: see the statement on
\* the bootstrap in the header of wl_approval.)
SignsWhatIsThere == [][sigFile' # sigFile => sigFile' = queueFile']_vars

\* The submitter is told "submitted" only of a request that reached the file.
AckedIsStored == acked \subseteq stored

\* No action is carried out twice for one request.
ExecutedOnce == \A r \in Requests : executed[r] <= 1

\* What was refused, withdrawn or marked failed has not been carried out and is
\* not about to be, by any worker that decided on an older copy of the queue or
\* still has to carry out a dual-admin action after it gave the lock back.
RefusedIsNotDone ==
    \A r \in Requests : Queue[r] \in {"rejected", "cancelled", "failed"} =>
        /\ executed[r] = 0
        /\ \A w \in Workers : pc[w] \in {"exec", "execDual"} => job[w].req # r

\* Every request a client makes is answered: no step leaves the lock behind
\* for the others to time out on forever, and no handler stops half way.
Answered == \A w \in Workers : pc[w] # "idle" ~> pc[w] = "idle"

\* Without faults, and once signed, the files and the lock together are one
\* atomic queue.
Atomic == INSTANCE AtomicQueue WITH queue <- Queue, known <- stored, old <- aged
ImplementsAtomicQueue == Atomic!QSpec

=============================================================================
