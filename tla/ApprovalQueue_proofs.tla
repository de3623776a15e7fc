------------------------ MODULE ApprovalQueue_proofs ------------------------
(***************************************************************************)
(* Theorems about ApprovalQueue, for every set of workers, requests and    *)
(* jobs, every state of the files at the start and every kind and number   *)
(* of faults.                                                              *)
(***************************************************************************)
EXTENDS ApprovalQueue, TLAPS

----------------------------------------------------------------------------
(* Operators on queues.                                                    *)

\* Expiry, and the cancellations after a removal, only take entries away.
LEMMA ExpireType ==
    ASSUME NEW q \in Queues, NEW X
    PROVE  /\ ExpirePending(q, X) \in Queues
           /\ \A r \in Requests : ExpirePending(q, X)[r] \in {q[r], "absent"}
    BY DEF ExpirePending, Queues

\* Removing the competitors of a request leaves a queue.
LEMMA CancelType ==
    ASSUME NEW q \in Queues, NEW r \in Requests
    PROVE  /\ CancelConflicts(q, r) \in Queues
           /\ \A s \in Requests : CancelConflicts(q, r)[s] \in {q[s], "absent"}
    BY DEF CancelConflicts, Queues

\* The queues there are at the start, and a queue with one status changed.
LEMMA QueueTypes ==
    /\ Empty \in Queues
    /\ QueueAtStart \in Queues
    /\ \A q \in Queues, r \in Requests, s \in Status : [q EXCEPT ![r] = s] \in Queues
    BY DEF Empty, QueueAtStart, Queues, Status

\* What a file of queue type is parsed into.
LEMMA ParsedType ==
    ASSUME NEW f \in Queues \cup {NoFile}
    PROVE  Parsed(f) \in Queues /\ (f # NoFile => Parsed(f) = f)
    BY QueueTypes DEF Parsed

----------------------------------------------------------------------------
(* Types and control.                                                      *)

\* Only between the reading of the queue file and the check of its signature
\* can the bytes in hand be those of a file that does not exist.
HandTyped == \A w \in Workers : pc[w] \notin {"peekSig", "readSig"} => mem[w] \in Queues

\* A worker that is not idle serves a job, and its op limits where it can be.
JobAtStep ==
    \A w \in Workers :
        /\ pc[w] # "idle" => job[w] \in Jobs
        /\ pc[w] \in {"peekQueue", "peekSig", "peekBootstrap", "early"}
              => job[w].op \in {"submit", "poll"}
        /\ pc[w] \in {"expireQueue", "expireSig"}
              => job[w].op \in {"cancelRequest", "process"}
        /\ pc[w] = "exec" => job[w].op = "process"
        /\ pc[w] = "conflicts" => job[w].op = "process"
        /\ pc[w] # "idle" /\ job[w].op = "submitDual" => Kind[job[w].req] = "dual"

\* The holder of the lock is the one worker that is inside the critical section.
LockHeld == \A w \in Workers : pc[w] \in Locked <=> lock = w

TypeInv == TypeOK /\ HandTyped /\ JobAtStep /\ LockHeld

\* The types hold at the start, ...
LEMMA TypeInvInit == Init => TypeInv
  <1> SUFFICES ASSUME Init PROVE TypeInv
    OBVIOUS
  <1>1. TypeOK
    BY QueueTypes, StartAssumption, BoundAssumption
       DEF Init, TypeOK, Steps, Locked
  <1>2. HandTyped /\ JobAtStep
    BY QueueTypes DEF Init, HandTyped, JobAtStep
  <1>3. LockHeld
    BY NullAssumption DEF Init, LockHeld, Locked
  <1> QED BY <1>1, <1>2, <1>3 DEF TypeInv

\* Every decision that is saved is a queue.
LEMMA ResolvedType ==
    ASSUME NEW w \in Workers, mem[w] \in Queues, job[w] \in Jobs, NEW s \in Status
    PROVE  /\ job[w].req \in Requests
           /\ [mem[w] EXCEPT ![job[w].req] = s] \in Queues
    BY QueueTypes, JobAssumption DEF JobType

\* How a worker goes on after a read and after a write.
LEMMA NextSteps ==
    ASSUME NEW w \in Workers
    PROVE  /\ AfterRead(w) \in {"early", "expireQueue", "decide"}
           /\ AfterWrite(w) \in {"decide", "conflicts", "release"}
           /\ SigStep(w) \in Signing
    BY DEF AfterRead, AfterWrite, SigStep, Signing

\* A decision either saves a queue or gives the lock back.
Rest == <<queueFile, sigFile, aged, issued, stored>>

\* ... are kept by a decision that saves a queue ...
LEMMA SaveTyped ==
    ASSUME TypeInv, NEW w \in Workers, pc[w] \in {"decide", "exec"},
           NEW q \in Queues, Save(w, q), UNCHANGED Rest, UNCHANGED acked,
           executed' \in [Requests -> Nat], faults' \in 0..MaxFaults
    PROVE  TypeInv'
    BY DEF TypeInv, HandTyped, JobAtStep, LockHeld, TypeOK, Steps, Locked,
           Save, Rest, Goto, Hold

\* ... and by one that saves nothing, ...
LEMMA UnlockTyped ==
    ASSUME TypeInv, NEW w \in Workers, pc[w] \in Locked, Unlock(w), UNCHANGED Rest,
           acked' \subseteq Requests, executed' \in [Requests -> Nat],
           faults' \in 0..MaxFaults
    PROVE  TypeInv'
    BY QueueTypes, NullAssumption
       DEF TypeInv, HandTyped, JobAtStep, LockHeld, TypeOK, Steps, Locked,
           Unlock, Return, Rest, Goto, Hold

\* ... and by every step.
LEMMA TypeInvStep == TypeInv /\ [Next]_vars => TypeInv'
  <1> SUFFICES ASSUME TypeInv, [Next]_vars PROVE TypeInv'
    OBVIOUS
  <1> USE DEF TypeInv, HandTyped, JobAtStep, LockHeld, files, history,
              TypeOK, Steps, Locked
  <1>1. ASSUME NEW w \in Workers, NEW j \in Jobs, Begin(w, j) PROVE TypeInv'
    <2>1. issued' \subseteq Requests
      BY <1>1, JobAssumption DEF Begin, JobType
    <2>2. j.op = "submitDual" => Kind[j.req] = "dual"
      BY <1>1 DEF Begin, Submissions
    <2> QED
      BY <1>1, <2>1, <2>2 DEF Begin, Goto, Submissions
  <1>2. ASSUME NEW w \in Workers, Acquire(w) PROVE TypeInv'
    BY <1>2, NullAssumption DEF Acquire, Goto
  <1>3. ASSUME NEW w \in Workers, LockTimeout(w) PROVE TypeInv'
    BY <1>3, QueueTypes DEF LockTimeout, Return, Goto, Hold
  <1>4. ASSUME NEW w \in Workers, ReadQueue(w) PROVE TypeInv'
    BY <1>4 DEF ReadQueue, Goto, Hold
  <1>5. ASSUME NEW w \in Workers, VerifySig(w) PROVE TypeInv'
    <2>1. CASE sigFile = NoSig /\ mem[w] # NoFile
      BY <1>5, <2>1 DEF VerifySig, Goto
    <2>2. CASE ~(sigFile = NoSig /\ mem[w] # NoFile)
      <3> DEFINE q == IF sigFile = mem[w] THEN mem[w] ELSE Empty
      <3>1. q \in Queues
        BY <2>2, QueueTypes, NullAssumption
      <3>2. AfterReadQueue(w, q) \in Queues
        BY <3>1, ExpireType DEF AfterReadQueue
      <3>3. Goto(w, AfterRead(w)) /\ Hold(w, AfterReadQueue(w, q))
        BY <1>5, <2>2 DEF VerifySig
      <3> QED
        BY <1>5, <3>2, <3>3 DEF VerifySig, Goto, Hold, AfterRead
    <2> QED BY <2>1, <2>2
  <1>6. ASSUME NEW w \in Workers, BootstrapSig(w) \/ BootstrapFails(w) PROVE TypeInv'
    <2>1. AfterReadQueue(w, mem[w]) \in Queues
      BY <1>6, ExpireType DEF AfterReadQueue, BootstrapSig, BootstrapFails
    <2>2. faults' \in 0..MaxFaults
      BY <1>6, BoundAssumption DEF BootstrapSig, BootstrapFails
    <2> QED
      BY <1>6, <2>1, <2>2 DEF BootstrapSig, BootstrapFails, Goto, Hold, AfterRead
  <1>7. ASSUME NEW w \in Workers, ReplaceQueue(w) PROVE TypeInv'
    BY <1>7 DEF ReplaceQueue, Writing, SigStep, Goto
  <1>8. ASSUME NEW w \in Workers, ReplaceSig(w) PROVE TypeInv'
    BY <1>8 DEF ReplaceSig, Signing, AfterWrite, Goto
  <1>9. ASSUME NEW w \in Workers, WriteFails(w) PROVE TypeInv'
    BY <1>9, BoundAssumption DEF WriteFails, Writing, Signing, AfterWrite, Goto
  <1>10. ASSUME NEW w \in Workers, EarlyCheck(w) PROVE TypeInv'
    BY <1>10, QueueTypes DEF EarlyCheck, Return, Goto, Hold
  <1>11. ASSUME NEW w \in Workers, DecideSubmit(w) PROVE TypeInv'
    <2>1. ExpirePending(mem[w], aged) \in Queues
      BY <1>11, ExpireType DEF DecideSubmit
    <2>2. [ExpirePending(mem[w], aged) EXCEPT ![job[w].req] = "pending"] \in Queues
      BY <1>11, <2>1, QueueTypes, JobAssumption DEF DecideSubmit, JobType, Status
    <2> QED
      BY <1>11, <2>2, SaveTyped, UnlockTyped DEF DecideSubmit, Rest
  <1>12. ASSUME NEW w \in Workers, DecideSubmitDual(w) PROVE TypeInv'
    BY <1>12, ResolvedType, SaveTyped DEF DecideSubmitDual, Status, Rest
  <1>13. ASSUME NEW w \in Workers, DecideCancel(w) PROVE TypeInv'
    <2>1. [mem[w] EXCEPT ![job[w].req] = "cancelled"] \in Queues
      BY <1>13, ResolvedType DEF DecideCancel, Status
    <2> QED
      BY <1>13, <2>1, SaveTyped, UnlockTyped DEF DecideCancel, Rest
  <1>14. ASSUME NEW w \in Workers, DecideProcess(w) PROVE TypeInv'
    <2>1. \A s \in Status : [mem[w] EXCEPT ![job[w].req] = s] \in Queues
      BY <1>14, ResolvedType DEF DecideProcess
    <2>2. CASE Unlock(w)
      BY <1>14, <2>2, UnlockTyped DEF DecideProcess, Rest
    <2>3. CASE \E s \in Status : Save(w, [mem[w] EXCEPT ![job[w].req] = s])
      BY <1>14, <2>1, <2>3, SaveTyped DEF DecideProcess, Rest
    <2>4. CASE Goto(w, "exec") /\ UNCHANGED <<lock, job, mem>>
      BY <1>14, <2>4 DEF DecideProcess, Goto
    <2> QED
      BY <1>14, <2>2, <2>3, <2>4 DEF DecideProcess, Status
  <1>15. ASSUME NEW w \in Workers, ExecApproved(w) \/ ExecBotched(w) PROVE TypeInv'
    <2>1. \A s \in Status : [mem[w] EXCEPT ![job[w].req] = s] \in Queues
      BY <1>15, ResolvedType DEF ExecApproved, ExecBotched
    <2>2. executed' \in [Requests -> Nat] /\ faults' \in 0..MaxFaults
      BY <1>15, BoundAssumption DEF ExecApproved, ExecBotched
    <2>3. CASE Unlock(w)
      BY <1>15, <2>2, <2>3, UnlockTyped DEF ExecApproved, ExecBotched, Rest
    <2>4. CASE \E s \in Status : Save(w, [mem[w] EXCEPT ![job[w].req] = s])
      BY <1>15, <2>1, <2>2, <2>4, SaveTyped DEF ExecApproved, ExecBotched, Rest
    <2> QED
      BY <1>15, <2>3, <2>4 DEF ExecApproved, ExecBotched, Status
  <1>16. ASSUME NEW w \in Workers, DecideProcessDual(w) PROVE TypeInv'
    <2>1. \A s \in Status : [mem[w] EXCEPT ![job[w].req] = s] \in Queues
      BY <1>16, ResolvedType DEF DecideProcessDual
    <2>2. CASE Unlock(w)
      BY <1>16, <2>2, UnlockTyped DEF DecideProcessDual, Rest
    <2>3. CASE \E s \in Status : Save(w, [mem[w] EXCEPT ![job[w].req] = s])
      BY <1>16, <2>1, <2>3, SaveTyped DEF DecideProcessDual, Rest
    <2> QED
      BY <1>16, <2>2, <2>3 DEF DecideProcessDual, Status
  <1>17. ASSUME NEW w \in Workers, DecideRemove(w) PROVE TypeInv'
    <2>1. mem[w] \in Queues /\ job[w].req \in Requests
      BY <1>17, JobAssumption DEF DecideRemove, JobType
    <2>2. CancelConflicts(mem[w], job[w].req) \in Queues
      BY <2>1, CancelType
    <2>3. CASE Unlock(w)
      BY <1>17, <2>3, UnlockTyped DEF DecideRemove, Rest
    <2>4. CASE ~Unlock(w)
      BY <1>17, <2>2, <2>4 DEF DecideRemove, Goto, Hold
    <2> QED
      BY <2>3, <2>4
  <1>18. ASSUME NEW w \in Workers, Release(w) PROVE TypeInv'
    <2>1. acked' \subseteq Requests
      BY <1>18, JobAssumption DEF Release, JobType
    <2>2. CASE Unlock(w)
      BY <1>18, <2>1, <2>2, UnlockTyped DEF Release, Rest
    <2>3. CASE ~Unlock(w)
      BY <1>18, <2>1, <2>3, NullAssumption DEF Release, Goto
    <2> QED
      BY <2>2, <2>3
  <1>19. ASSUME NEW w \in Workers, ExecDual(w) PROVE TypeInv'
    BY <1>19, QueueTypes DEF ExecDual, Return, Goto, Hold
  <1>20. ASSUME NEW r \in Requests, Age(r) PROVE TypeInv'
    BY <1>20 DEF Age
  <1>21. ASSUME Crash PROVE TypeInv'
    BY <1>21, QueueTypes, NullAssumption, BoundAssumption DEF Crash
  <1>22. ASSUME UNCHANGED vars PROVE TypeInv'
    BY <1>22 DEF vars
  <1> QED
    BY <1>1, <1>2, <1>3, <1>4, <1>5, <1>6, <1>7, <1>8, <1>9, <1>10, <1>11,
       <1>12, <1>13, <1>14, <1>15, <1>16, <1>17, <1>18, <1>19, <1>20, <1>21,
       <1>22 DEF Next, Step

\* Types, for any number of workers, requests and faults; and the lock is held
\* by exactly the worker whose next step is in the critical section.
THEOREM TypeCorrect == Spec => []TypeOK
  <1>1. TypeInv => TypeOK
    BY DEF TypeInv
  <1> QED
    BY <1>1, TypeInvInit, TypeInvStep, PTL DEF Spec

----------------------------------------------------------------------------
(* Conflicting requests.                                                   *)

ConflictFree(q) == \A r, s \in Pending(q) : r # s => ~SameTarget(r, s)

\* The queue file and every queue held in memory are free of conflicts.  The
\* lock plays no part: a submission is checked against the very queue that it
\* is added to, and every other decision only takes pending requests away.
NoConflicts ==
    /\ ConflictFree(Queue)
    /\ \A w \in Workers : ConflictFree(Parsed(mem[w]))

\* To take pending requests away never makes a conflict.
LEMMA FewerPending ==
    ASSUME NEW p, NEW q, Pending(p) \subseteq Pending(q), ConflictFree(q)
    PROVE  ConflictFree(p)
    BY DEF ConflictFree

\* Expiry makes nothing pending.
LEMMA ExpirePendingPending ==
    ASSUME NEW q \in Queues, NEW X
    PROVE  Pending(ExpirePending(q, X)) \subseteq Pending(q)
    BY DEF Pending, ExpirePending

\* A request that conflicts with nothing pending can be added.
LEMMA AddPending ==
    ASSUME NEW q \in Queues, NEW r \in Requests, ConflictFree(q),
           \A s \in Pending(q) : ~SameTarget(r, s)
    PROVE  ConflictFree([q EXCEPT ![r] = "pending"])
    BY DEF ConflictFree, Pending, SameTarget, Queues

\* The empty queue has no conflicts.
LEMMA EmptyIsFree == ConflictFree(Empty)
    BY DEF ConflictFree, Pending, Empty

\* Nothing conflicts at the start.
LEMMA NoConflictsInit == Init => NoConflicts
  <1> SUFFICES ASSUME Init PROVE NoConflicts
    OBVIOUS
  <1>1. ConflictFree(QueueAtStart)
    BY StartAssumption DEF ConflictFree, Pending, QueueAtStart
  <1>2. ConflictFree(Queue)
    BY <1>1, EmptyIsFree DEF Init, Queue, Parsed
  <1>3. Parsed(Empty) = Empty
    BY DEF Parsed
  <1> QED
    BY <1>2, <1>3, EmptyIsFree DEF Init, NoConflicts

\* A step that leaves the queue file alone and, in the memory of worker w,
\* leaves a queue without conflicts.
LEMMA OneHand ==
    ASSUME TypeInv, NoConflicts, NEW w \in Workers, UNCHANGED queueFile,
           NEW q, ConflictFree(Parsed(q)), Hold(w, q)
    PROVE  NoConflicts'
    BY DEF NoConflicts, Hold, Queue, TypeInv, TypeOK

\* A queue is parsed into itself.
LEMMA QueueInHand ==
    ASSUME NEW q \in Queues
    PROVE  Parsed(q) = q
    BY NullAssumption DEF Parsed

\* No step makes two pending requests conflict, in the file or in hand.
LEMMA NoConflictsStep == TypeInv /\ NoConflicts /\ [Next]_vars => NoConflicts'
  <1> SUFFICES ASSUME TypeInv, NoConflicts, [Next]_vars PROVE NoConflicts'
    OBVIOUS
  <1> USE DEF files
  <1>a. ConflictFree(Parsed(Empty))
    BY QueueTypes, QueueInHand, EmptyIsFree
  <1>b. ASSUME NEW w \in Workers, UNCHANGED queueFile, Return(w) \/ Unlock(w)
        PROVE  NoConflicts'
    BY <1>a, <1>b, OneHand DEF Return, Unlock
  <1>c. ASSUME UNCHANGED <<queueFile, mem>> PROVE NoConflicts'
    BY <1>c DEF NoConflicts, Queue
  <1>d. ASSUME NEW w \in Workers, pc[w] \in {"decide", "exec", "conflicts"}
        PROVE  /\ mem[w] \in Queues
               /\ ConflictFree(mem[w])
               /\ job[w].req \in Requests
    BY <1>d, QueueInHand, JobAssumption
       DEF TypeInv, HandTyped, JobAtStep, NoConflicts, JobType
  <1>e. ASSUME NEW w \in Workers, pc[w] \in {"decide", "exec"}, UNCHANGED queueFile,
               NEW s \in Status \ {"pending"},
               Save(w, [mem[w] EXCEPT ![job[w].req] = s])
        PROVE  NoConflicts'
    <2> DEFINE q == [mem[w] EXCEPT ![job[w].req] = s]
    <2>1. q \in Queues /\ Pending(q) \subseteq Pending(mem[w])
      BY <1>d, <1>e, QueueTypes DEF Pending, Queues
    <2>2. ConflictFree(q)
      BY <1>d, <1>e, <2>1, FewerPending
    <2> QED
      BY <1>e, <2>1, <2>2, QueueInHand, OneHand DEF Save
  <1>1. ASSUME NEW w \in Workers, NEW j \in Jobs, Begin(w, j) PROVE NoConflicts'
    BY <1>1, <1>c DEF Begin
  <1>2. ASSUME NEW w \in Workers, Acquire(w) PROVE NoConflicts'
    BY <1>2, <1>c DEF Acquire
  <1>3. ASSUME NEW w \in Workers, LockTimeout(w) PROVE NoConflicts'
    BY <1>3, <1>b DEF LockTimeout
  <1>4. ASSUME NEW w \in Workers, ReadQueue(w) PROVE NoConflicts'
    BY <1>4, OneHand DEF ReadQueue, NoConflicts, Queue
  <1>5. ASSUME NEW w \in Workers, VerifySig(w) PROVE NoConflicts'
    <2> DEFINE q == IF sigFile = mem[w] THEN mem[w] ELSE Empty
    <2>1. CASE UNCHANGED mem
      BY <1>5, <2>1, <1>c DEF VerifySig
    <2>2. CASE Hold(w, AfterReadQueue(w, q)) /\ ~(sigFile = NoSig /\ mem[w] # NoFile)
      <3>1. q \in Queues /\ ConflictFree(q)
        BY <2>2, QueueTypes, NullAssumption, QueueInHand, EmptyIsFree
           DEF TypeInv, TypeOK, NoConflicts
      <3>2. AfterReadQueue(w, q) \in Queues /\ ConflictFree(AfterReadQueue(w, q))
        BY <3>1, ExpireType, ExpirePendingPending, FewerPending DEF AfterReadQueue
      <3> QED
        BY <1>5, <2>2, <3>2, QueueInHand, OneHand DEF VerifySig
    <2> QED
      BY <1>5, <2>1, <2>2 DEF VerifySig
  <1>6. ASSUME NEW w \in Workers, BootstrapSig(w) \/ BootstrapFails(w)
        PROVE  NoConflicts'
    <2>1. mem[w] \in Queues /\ ConflictFree(mem[w])
      BY <1>6, QueueInHand
         DEF BootstrapSig, BootstrapFails, TypeInv, HandTyped, NoConflicts
    <2>2. /\ AfterReadQueue(w, mem[w]) \in Queues
          /\ ConflictFree(AfterReadQueue(w, mem[w]))
      BY <2>1, ExpireType, ExpirePendingPending, FewerPending DEF AfterReadQueue
    <2> QED
      BY <1>6, <2>2, QueueInHand, OneHand DEF BootstrapSig, BootstrapFails
  <1>7. ASSUME NEW w \in Workers, ReplaceQueue(w) PROVE NoConflicts'
    BY <1>7 DEF ReplaceQueue, NoConflicts, Queue
  <1>8. ASSUME NEW w \in Workers, ReplaceSig(w) \/ WriteFails(w) PROVE NoConflicts'
    BY <1>8, <1>c DEF ReplaceSig, WriteFails
  <1>9. ASSUME NEW w \in Workers, EarlyCheck(w) PROVE NoConflicts'
    BY <1>9, <1>a, <1>b, OneHand DEF EarlyCheck
  <1>10. ASSUME NEW w \in Workers, DecideSubmit(w) PROVE NoConflicts'
    <2> DEFINE q == ExpirePending(mem[w], aged)
               n == [q EXCEPT ![job[w].req] = "pending"]
    <2>1. q \in Queues /\ ConflictFree(q) /\ job[w].req \in Requests
      BY <1>10, <1>d, ExpireType, ExpirePendingPending, FewerPending DEF DecideSubmit
    <2>2. CASE Unlock(w)
      BY <1>10, <2>2, <1>b DEF DecideSubmit
    <2>3. CASE ~ConflictError(q, job[w].req) /\ Save(w, n)
      BY <1>10, <2>1, <2>3, AddPending, QueueTypes, QueueInHand, OneHand
         DEF DecideSubmit, Save, Status, ConflictError, SameTarget
    <2> QED
      BY <1>10, <2>2, <2>3 DEF DecideSubmit
  <1>11. ASSUME NEW w \in Workers, DecideSubmitDual(w) PROVE NoConflicts'
    <2> DEFINE n == [mem[w] EXCEPT ![job[w].req] = "pending"]
    <2>1. Kind[job[w].req] = "dual"
      BY <1>11 DEF DecideSubmitDual, TypeInv, JobAtStep
    <2>2. \A s \in Pending(mem[w]) : ~SameTarget(job[w].req, s)
      BY <2>1 DEF Conflicts, SameTarget
    <2>3. n \in Queues /\ ConflictFree(n)
      BY <1>11, <1>d, <2>2, AddPending, QueueTypes DEF DecideSubmitDual, Status
    <2> QED
      BY <1>11, <2>3, QueueInHand, OneHand DEF DecideSubmitDual, Save
  <1>12. ASSUME NEW w \in Workers, DecideCancel(w) PROVE NoConflicts'
    BY <1>12, <1>b, <1>e DEF DecideCancel, Status
  <1>13. ASSUME NEW w \in Workers, DecideProcess(w) PROVE NoConflicts'
    BY <1>13, <1>b, <1>c, <1>e DEF DecideProcess, Status
  <1>14. ASSUME NEW w \in Workers, ExecApproved(w) \/ ExecBotched(w)
         PROVE  NoConflicts'
    BY <1>14, <1>b, <1>e DEF ExecApproved, ExecBotched, Status
  <1>15. ASSUME NEW w \in Workers, DecideProcessDual(w) PROVE NoConflicts'
    BY <1>15, <1>b, <1>e DEF DecideProcessDual, Status
  <1>16. ASSUME NEW w \in Workers, DecideRemove(w) PROVE NoConflicts'
    <2> DEFINE q == CancelConflicts(mem[w], job[w].req)
    <2>1. mem[w] \in Queues /\ ConflictFree(mem[w]) /\ job[w].req \in Requests
      BY <1>16, <1>d DEF DecideRemove
    <2>2. Pending(q) \subseteq Pending(mem[w])
      BY DEF Pending, CancelConflicts
    <2>3. q \in Queues /\ ConflictFree(q)
      BY <2>1, <2>2, CancelType, FewerPending
    <2> QED
      BY <1>16, <1>b, <2>3, QueueInHand, OneHand DEF DecideRemove
  <1>17. ASSUME NEW w \in Workers, Release(w) PROVE NoConflicts'
    BY <1>17, <1>b, <1>c DEF Release
  <1>18. ASSUME NEW w \in Workers, ExecDual(w) PROVE NoConflicts'
    BY <1>18, <1>b DEF ExecDual
  <1>19. ASSUME NEW r \in Requests, Age(r) PROVE NoConflicts'
    BY <1>19, <1>c DEF Age
  <1>20. ASSUME Crash PROVE NoConflicts'
    BY <1>20, <1>a DEF Crash, NoConflicts, Queue
  <1>21. ASSUME UNCHANGED vars PROVE NoConflicts'
    BY <1>21, <1>c DEF vars
  <1> QED
    BY <1>1, <1>2, <1>3, <1>4, <1>5, <1>6, <1>7, <1>8, <1>9, <1>10, <1>11,
       <1>12, <1>13, <1>14, <1>15, <1>16, <1>17, <1>18, <1>19, <1>20, <1>21
       DEF Next, Step

\* Two conflicting requests are never pending together, whatever the number of
\* workers, the files at the start and the faults.
THEOREM ConflictsExcluded == Spec => []OnePendingPerTarget
  <1>1. NoConflicts => OnePendingPerTarget
    BY DEF NoConflicts, ConflictFree, OnePendingPerTarget
  <1> QED
    BY <1>1, TypeInvInit, TypeInvStep, NoConflictsInit, NoConflictsStep, PTL
       DEF Spec

----------------------------------------------------------------------------
(* Resolutions are final.                                                  *)

Submitting(w) == pc[w] # "idle" /\ job[w].op \in Submissions

\* A submission that has not replaced the queue file yet.
Unsaved == {"peekQueue", "peekSig", "peekBootstrap", "early", "wait",
            "readQueue", "readSig", "bootstrap", "decide", "writeQueue"}

\* A request is new to the queue file exactly once, because its id is issued to
\* one submission.
NewOnce ==
    /\ stored \subseteq issued
    /\ \A r \in Requests : Queue[r] # "absent" => r \in stored
    /\ \A w \in Workers :
          /\ Submitting(w) => job[w].req \in issued
          /\ Submitting(w) /\ pc[w] \in Unsaved => job[w].req \notin stored
          /\ \A r \in Requests : Parsed(mem[w])[r] # "absent"
                => r \in stored \/ (Submitting(w) /\ job[w].req = r)
    /\ \A v, w \in Workers :
          v # w /\ Submitting(v) /\ Submitting(w) => job[v].req # job[w].req

\* From the check of the signature to the release of the lock, the queue in
\* hand agrees with the queue file on every request that is resolved there, or
\* has lost it.
Derived == Locked \ {"readQueue", "readSig", "bootstrap"}

InHand ==
    \A w \in Workers :
        /\ pc[w] \in {"readSig", "bootstrap"} \cup Signing => mem[w] = queueFile
        /\ pc[w] = "exec" => mem[w][job[w].req] = "pending"
        /\ pc[w] \in Derived =>
              \A r \in stored :
                  Queue[r] # "pending" => mem[w][r] \in {Queue[r], "absent"}

FinalInv == TypeInv /\ NewOnce /\ InHand

\* What the queue holds at the start is stored.
LEMMA FinalInvInit == Init => NewOnce /\ InHand
  <1> SUFFICES ASSUME Init PROVE NewOnce /\ InHand
    OBVIOUS
  <1>1. \A r \in Requests : Parsed(Empty)[r] = "absent"
    BY DEF Empty, Parsed
  <1>2. \A r \in Requests : Queue[r] # "absent" => r \in stored
    BY <1>1, QueueTypes, QueueInHand DEF Init, Queue, QueueAtStart, Parsed, Empty
  <1> QED
    BY <1>1, <1>2 DEF Init, NewOnce, InHand, Submitting, Signing, Derived, Locked

\* A step of worker w leaves the other workers alone.
OthersRest(w) ==
    \A v \in Workers \ {w} : pc'[v] = pc[v] /\ job'[v] = job[v] /\ mem'[v] = mem[v]

\* Every step is one worker's.
LEMMA OneMoves ==
    ASSUME TypeInv, NEW w \in Workers,
           \/ Step(w) \/ WriteFails(w) \/ BootstrapFails(w) \/ ExecBotched(w)
           \/ \E j \in Jobs : Begin(w, j)
    PROVE  OthersRest(w)
  <1> USE DEF OthersRest, TypeInv, TypeOK, Goto, Hold, Return, Unlock, Save
  <1>1. CASE \/ Acquire(w) \/ LockTimeout(w) \/ ReadQueue(w) \/ VerifySig(w)
             \/ BootstrapSig(w) \/ ReplaceQueue(w) \/ ReplaceSig(w)
             \/ WriteFails(w) \/ BootstrapFails(w) \/ \E j \in Jobs : Begin(w, j)
    BY <1>1 DEF Acquire, LockTimeout, ReadQueue, VerifySig, BootstrapSig,
                ReplaceQueue, ReplaceSig, WriteFails, BootstrapFails, Begin
  <1>2. CASE EarlyCheck(w) \/ Release(w) \/ ExecDual(w) \/ DecideRemove(w)
    BY <1>2 DEF EarlyCheck, Release, ExecDual, DecideRemove
  <1>3. CASE DecideSubmit(w) \/ DecideSubmitDual(w) \/ DecideCancel(w)
    BY <1>3 DEF DecideSubmit, DecideSubmitDual, DecideCancel
  <1>4. CASE DecideProcess(w) \/ ExecApproved(w) \/ ExecBotched(w) \/ DecideProcessDual(w)
    BY <1>4 DEF DecideProcess, ExecApproved, ExecBotched, DecideProcessDual
  <1> QED
    BY <1>1, <1>2, <1>3, <1>4 DEF Step

\* What was stored, and the request that w itself submits.
Own(w, r) == r \in stored \/ (Submitting(w) /\ job[w].req = r)

\* A step of w that touches no file and issues no id keeps NewOnce, if w
\* returns or goes on with nothing in hand but what was stored or is its own.
LEMMA NewOnceLocal ==
    ASSUME TypeInv, NewOnce, NEW w \in Workers, OthersRest(w),
           UNCHANGED <<queueFile, stored, issued>>,
           \/ pc'[w] = "idle" /\ mem'[w] = Empty
           \/ /\ pc[w] # "idle" /\ pc'[w] # "idle" /\ job'[w] = job[w]
              /\ Submitting(w) /\ pc'[w] \in Unsaved => pc[w] \in Unsaved
              /\ \A r \in Requests : Parsed(mem'[w])[r] # "absent" => Own(w, r)
    PROVE  NewOnce'
  <1>1. \A r \in Requests : Parsed(Empty)[r] = "absent"
    BY DEF Empty, Parsed
  <1>2. ASSUME NEW v \in Workers PROVE Submitting(v)' => Submitting(v) /\ job'[v] = job[v]
    BY DEF Submitting, OthersRest
  <1>3. ASSUME NEW v \in Workers, NEW r \in Requests, Parsed(mem[v])'[r] # "absent"
        PROVE  r \in stored \/ (Submitting(v)' /\ job'[v].req = r)
    <2>1. CASE v # w
      BY <1>3, <2>1 DEF OthersRest, NewOnce, Submitting, Parsed
    <2>2. CASE v = w
      BY <1>1, <1>3, <2>2 DEF Own, Submitting, Parsed
    <2> QED BY <2>1, <2>2
  <1>4. ASSUME NEW v \in Workers, Submitting(v)', pc'[v] \in Unsaved
        PROVE  pc[v] \in Unsaved
    BY <1>4 DEF OthersRest, Submitting
  <1> QED
    BY <1>2, <1>3, <1>4 DEF NewOnce, Queue

\* The same for InHand.
LEMMA InHandLocal ==
    ASSUME TypeInv, InHand, NEW w \in Workers, OthersRest(w),
           UNCHANGED <<queueFile, stored>>,
           pc'[w] \in {"readSig", "bootstrap"} \cup Signing => mem'[w] = queueFile,
           pc'[w] = "exec" => mem'[w][job'[w].req] = "pending",
           pc'[w] \in Derived =>
              \A r \in stored :
                  Queue[r] # "pending" => mem'[w][r] \in {Queue[r], "absent"}
    PROVE  InHand'
  <1>1. ASSUME NEW v \in Workers \ {w}
        PROVE  pc'[v] = pc[v] /\ job'[v] = job[v] /\ mem'[v] = mem[v]
    BY DEF OthersRest
  <1> QED
    BY <1>1 DEF InHand, Queue

\* What is in the queue or in hand was stored, or is being submitted.
LEMMA FinalInvStep == FinalInv /\ [Next]_vars => NewOnce' /\ InHand'
  <1> SUFFICES ASSUME TypeInv, NewOnce, InHand, [Next]_vars
               PROVE  NewOnce' /\ InHand'
    BY DEF FinalInv
  <1> USE DEF files, history
  <1> DEFINE Same == UNCHANGED <<queueFile, stored, issued>>
             Agrees(q) == \A r \in stored :
                             Queue[r] # "pending" => q[r] \in {Queue[r], "absent"}
             Owned(w, q) == \A r \in Requests : q[r] # "absent" => Own(w, r)
  \* The worker returns.
  <1>a. ASSUME NEW w \in Workers, OthersRest(w), Same, Return(w) \/ Unlock(w)
        PROVE  NewOnce' /\ InHand'
    <2>1. pc'[w] = "idle" /\ mem'[w] = Empty
      BY <1>a DEF Return, Unlock, Goto, Hold, TypeInv, TypeOK
    <2> QED
      BY <1>a, <2>1, NewOnceLocal, InHandLocal DEF Derived, Locked, Signing
  \* What it has in hand when it decides.
  <1>b. ASSUME NEW w \in Workers, pc[w] \in {"decide", "exec", "conflicts"}
        PROVE  /\ mem[w] \in Queues /\ Parsed(mem[w]) = mem[w]
               /\ job[w] \in Jobs /\ job[w].req \in Requests
               /\ Agrees(mem[w]) /\ Owned(w, mem[w])
    <2>1. mem[w] \in Queues /\ Parsed(mem[w]) = mem[w]
      BY <1>b, QueueInHand DEF TypeInv, HandTyped
    <2>2. job[w] \in Jobs /\ job[w].req \in Requests
      BY <1>b, JobAssumption DEF TypeInv, JobAtStep, JobType
    <2>3. pc[w] \in Derived
      BY <1>b DEF Derived, Locked
    <2> QED
      BY <2>1, <2>2, <2>3 DEF InHand, NewOnce, Own
  \* It saves a queue.
  <1>c. ASSUME NEW w \in Workers, OthersRest(w), Same, pc[w] \in {"decide", "exec"},
               NEW q \in Queues, Save(w, q), Agrees(q), Owned(w, q)
        PROVE  NewOnce' /\ InHand'
    <2>1. pc'[w] = "writeQueue" /\ mem'[w] = q /\ job'[w] = job[w]
      BY <1>c DEF Save, Goto, Hold, TypeInv, TypeOK
    <2>2. Parsed(q) = q
      BY QueueInHand
    <2>3. Submitting(w) => pc[w] \in Unsaved
      BY <1>c DEF Submitting, Submissions, TypeInv, JobAtStep, Unsaved
    <2>4. NewOnce'
      BY <1>c, <2>1, <2>2, <2>3, NewOnceLocal
    <2>5. InHand'
      BY <1>c, <2>1, InHandLocal DEF Signing
    <2> QED BY <2>4, <2>5
  \* It resolves the request it was asked about, which was pending.
  <1>d. ASSUME NEW w \in Workers, OthersRest(w), Same, pc[w] \in {"decide", "exec"},
               mem[w][job[w].req] = "pending",
               NEW s \in Status \ {"pending"},
               Save(w, [mem[w] EXCEPT ![job[w].req] = s])
        PROVE  NewOnce' /\ InHand'
    <2> DEFINE q == [mem[w] EXCEPT ![job[w].req] = s]
    <2>1. q \in Queues
      BY <1>b, <1>d, ResolvedType
    <2>2. Agrees(q) /\ Owned(w, q)
      BY <1>b, <1>d DEF Queues
    <2> QED
      BY <1>c, <1>d, <2>1, <2>2
  <1>1. ASSUME NEW w \in Workers, NEW j \in Jobs, Begin(w, j)
        PROVE  NewOnce' /\ InHand'
    <2>1. OthersRest(w)
      BY <1>1, OneMoves
    <2>2. /\ pc'[w] \in {"peekQueue", "wait"} /\ job'[w] = j /\ mem'[w] = mem[w]
          /\ pc[w] = "idle" /\ queueFile' = queueFile /\ stored' = stored
      BY <1>1 DEF Begin, Goto, TypeInv, TypeOK
    <2>3. j.op \in Submissions => j.req \notin issued /\ issued' = issued \cup {j.req}
      BY <1>1 DEF Begin
    <2>4. issued \subseteq issued'
      BY <1>1 DEF Begin
    <2>5. \A v \in Workers \ {w} : Submitting(v)' <=> Submitting(v)
      BY <2>1 DEF OthersRest, Submitting
    <2>6. Submitting(w)' <=> j.op \in Submissions
      BY <2>2 DEF Submitting
    <2>7. \A r \in Requests : Parsed(mem[w])[r] # "absent" => r \in stored
      BY <2>2 DEF NewOnce, Submitting
    <2>8. NewOnce'
      <3>1. stored' \subseteq issued'
        BY <2>2, <2>4 DEF NewOnce
      <3>2. ASSUME NEW v \in Workers
            PROVE  /\ Submitting(v)' => job'[v].req \in issued'
                   /\ Submitting(v)' /\ pc'[v] \in Unsaved => job'[v].req \notin stored'
        BY <2>1, <2>2, <2>3, <2>4, <2>5, <2>6 DEF NewOnce, OthersRest
      <3>3. ASSUME NEW v \in Workers, NEW r \in Requests, Parsed(mem'[v])[r] # "absent"
            PROVE  r \in stored' \/ (Submitting(v)' /\ job'[v].req = r)
        BY <2>1, <2>2, <2>5, <2>7, <3>3 DEF NewOnce, OthersRest
      <3>4. ASSUME NEW u \in Workers, NEW v \in Workers, u # v,
                   Submitting(u)', Submitting(v)'
            PROVE  job'[u].req # job'[v].req
        BY <2>1, <2>2, <2>3, <2>5, <2>6, <3>4 DEF NewOnce, OthersRest
      <3> QED
        BY <2>2, <3>1, <3>2, <3>3, <3>4 DEF NewOnce, Queue, Parsed
    <2>9. InHand'
      BY <2>1, <2>2, InHandLocal DEF Derived, Locked, Signing
    <2> QED BY <2>8, <2>9
  <1>2. ASSUME NEW w \in Workers, Acquire(w) PROVE NewOnce' /\ InHand'
    <2>1. OthersRest(w)
      BY <1>2, OneMoves DEF Step
    <2>2. /\ pc[w] = "wait" /\ pc'[w] = "readQueue" /\ job'[w] = job[w]
          /\ mem'[w] = mem[w] /\ Same
      BY <1>2 DEF Acquire, Goto, TypeInv, TypeOK
    <2>3. Owned(w, Parsed(mem[w]))
      BY <2>2 DEF NewOnce, Own
    <2> QED
      BY <2>1, <2>2, <2>3, NewOnceLocal, InHandLocal DEF Unsaved, Derived, Signing
  <1>3. ASSUME NEW w \in Workers, LockTimeout(w) PROVE NewOnce' /\ InHand'
    BY <1>3, <1>a, OneMoves DEF Step, LockTimeout
  <1>4. ASSUME NEW w \in Workers, ReadQueue(w) PROVE NewOnce' /\ InHand'
    <2>1. OthersRest(w)
      BY <1>4, OneMoves DEF Step
    <2>2. /\ \/ pc[w] = "peekQueue" /\ pc'[w] = "peekSig"
             \/ pc[w] = "readQueue" /\ pc'[w] = "readSig"
          /\ job'[w] = job[w] /\ mem'[w] = queueFile /\ Same
      BY <1>4 DEF ReadQueue, Goto, Hold, TypeInv, TypeOK
    <2>3. Owned(w, Parsed(mem'[w]))
      BY <2>2 DEF NewOnce, Queue, Own
    <2> QED
      BY <2>1, <2>2, <2>3, NewOnceLocal, InHandLocal
         DEF Unsaved, Derived, Locked, Signing
  \* A read ends, with a queue q that is empty or the one that was read.
  <1>e. ASSUME NEW w \in Workers, OthersRest(w), Same,
               pc[w] \in {"peekSig", "peekBootstrap", "readSig", "bootstrap"},
               NEW q \in Queues, q \in {mem[w], Empty},
               Goto(w, AfterRead(w)), Hold(w, AfterReadQueue(w, q)), UNCHANGED job
        PROVE  NewOnce' /\ InHand'
    <2> DEFINE p == AfterReadQueue(w, q)
    <2>1. p \in Queues /\ \A r \in Requests : p[r] \in {q[r], "absent"}
      BY <1>e, ExpireType DEF AfterReadQueue
    <2>2. pc'[w] = AfterRead(w) /\ mem'[w] = p /\ Parsed(p) = p
      BY <1>e, <2>1, QueueInHand DEF Goto, Hold, TypeInv, TypeOK
    <2>3. \A r \in Requests : Empty[r] = "absent"
      BY DEF Empty
    <2>4. Owned(w, q)
      BY <1>e, <2>3, QueueInHand DEF NewOnce, Own
    <2>5. Owned(w, p)
      BY <2>1, <2>4
    <2>6. /\ AfterRead(w) \in {"early", "expireQueue", "decide"}
          /\ AfterRead(w) = "early" <=> pc[w] \in {"peekSig", "peekBootstrap"}
      BY <1>e DEF AfterRead
    <2>7. NewOnce'
      BY <1>e, <2>2, <2>5, <2>6, NewOnceLocal DEF Unsaved
    <2>8. ASSUME pc[w] \in {"readSig", "bootstrap"} PROVE Agrees(p)
      <3>1. mem[w] = queueFile
        BY <2>8 DEF InHand
      <3>2. q = mem[w] => q = Queue
        BY <3>1, QueueInHand DEF Queue
      <3>3. Agrees(q)
        BY <1>e, <2>3, <3>2 DEF TypeInv, TypeOK
      <3> QED
        BY <2>1, <3>3 DEF TypeInv, TypeOK
    <2>9. InHand'
      BY <1>e, <2>2, <2>6, <2>8, InHandLocal DEF Derived, Locked, Signing
    <2> QED BY <2>7, <2>9
  <1>5. ASSUME NEW w \in Workers, VerifySig(w) PROVE NewOnce' /\ InHand'
    <2> DEFINE q == IF sigFile = mem[w] THEN mem[w] ELSE Empty
    <2>1. OthersRest(w) /\ Same
      BY <1>5, OneMoves DEF Step, VerifySig
    <2>2. CASE sigFile = NoSig /\ mem[w] # NoFile
      <3>1. /\ \/ pc[w] = "peekSig" /\ pc'[w] = "peekBootstrap"
               \/ pc[w] = "readSig" /\ pc'[w] = "bootstrap"
            /\ job'[w] = job[w] /\ mem'[w] = mem[w]
        BY <1>5, <2>2 DEF VerifySig, Goto, TypeInv, TypeOK
      <3>2. Owned(w, Parsed(mem'[w]))
        BY <3>1 DEF NewOnce, Own
      <3>3. pc'[w] = "bootstrap" => mem'[w] = queueFile
        BY <3>1 DEF InHand
      <3> QED
        BY <2>1, <3>1, <3>2, <3>3, NewOnceLocal, InHandLocal
           DEF Unsaved, Derived, Locked, Signing
    <2>3. CASE ~(sigFile = NoSig /\ mem[w] # NoFile)
      <3>1. q \in Queues
        BY <2>3, QueueTypes, NullAssumption DEF TypeInv, TypeOK
      <3> QED
        BY <1>5, <1>e, <2>1, <2>3, <3>1 DEF VerifySig
    <2> QED BY <2>2, <2>3
  <1>6. ASSUME NEW w \in Workers, BootstrapSig(w) \/ BootstrapFails(w)
        PROVE  NewOnce' /\ InHand'
    <2>1. OthersRest(w) /\ Same
      BY <1>6, OneMoves DEF Step, BootstrapSig, BootstrapFails
    <2>2. mem[w] \in Queues
      BY <1>6 DEF BootstrapSig, BootstrapFails, TypeInv, HandTyped
    <2> QED
      BY <1>6, <1>e, <2>1, <2>2 DEF BootstrapSig, BootstrapFails
  <1>7. ASSUME NEW w \in Workers, ReplaceQueue(w) PROVE NewOnce' /\ InHand'
    <2>1. OthersRest(w) /\ lock = w /\ mem[w] \in Queues
      BY <1>7, OneMoves
         DEF Step, ReplaceQueue, TypeInv, LockHeld, HandTyped, Writing, Locked
    <2>2. /\ pc'[w] \in Signing /\ pc[w] # "idle" /\ job'[w] = job[w]
          /\ mem'[w] = mem[w] /\ queueFile' = mem[w] /\ issued' = issued
          /\ stored' = stored \cup {r \in Requests : mem[w][r] # "absent"}
      BY <1>7, NextSteps DEF ReplaceQueue, Writing, Goto, TypeInv, TypeOK
    <2>3. Queue' = mem[w]
      BY <2>1, <2>2, QueueInHand DEF Queue
    <2>4. \A r \in Requests : mem[w][r] # "absent" => Own(w, r)
      BY <2>1, QueueInHand DEF NewOnce, Own
    <2>5. \A v \in Workers : Submitting(v)' <=> Submitting(v)
      BY <2>1, <2>2 DEF OthersRest, Submitting, Signing
    <2>6. NewOnce'
      <3>1. stored' \subseteq issued'
        BY <2>2, <2>4 DEF NewOnce, Own
      <3>2. \A r \in Requests : Queue'[r] # "absent" => r \in stored'
        BY <2>2, <2>3
      <3>3. ASSUME NEW v \in Workers, Submitting(v)
            PROVE  /\ job'[v].req \in issued'
                   /\ pc'[v] \in Unsaved => job'[v].req \notin stored'
        BY <2>1, <2>2, <2>4, <3>3 DEF NewOnce, Own, OthersRest, Unsaved, Signing
      <3>4. ASSUME NEW v \in Workers, NEW r \in Requests, Parsed(mem'[v])[r] # "absent"
            PROVE  r \in stored' \/ (Submitting(v) /\ job'[v].req = r)
        BY <2>1, <2>2, <3>4 DEF NewOnce, OthersRest
      <3>5. ASSUME NEW u \in Workers, NEW v \in Workers, u # v,
                   Submitting(u), Submitting(v)
            PROVE  job'[u].req # job'[v].req
        BY <2>1, <2>2, <3>5 DEF NewOnce, OthersRest
      <3> QED
        BY <2>5, <3>1, <3>2, <3>3, <3>4, <3>5 DEF NewOnce, Parsed
    <2>7. InHand'
      <3>1. ASSUME NEW v \in Workers \ {w}
            PROVE  pc'[v] \notin Locked
        BY <2>1 DEF OthersRest, TypeInv, LockHeld
      <3>2. ASSUME NEW v \in Workers
            PROVE  /\ pc'[v] \in {"readSig", "bootstrap"} \cup Signing
                         => mem'[v] = queueFile'
                   /\ pc'[v] # "exec"
                   /\ pc'[v] \in Derived => mem'[v] = Queue'
        BY <2>2, <2>3, <3>1 DEF Locked, Signing, Derived
      <3> QED
        BY <3>2 DEF InHand
    <2> QED BY <2>6, <2>7
  <1>8. ASSUME NEW w \in Workers, ReplaceSig(w) \/ WriteFails(w)
        PROVE  NewOnce' /\ InHand'
    <2>1. OthersRest(w) /\ Same
      BY <1>8, OneMoves DEF Step, ReplaceSig, WriteFails
    <2>2. /\ pc[w] \in Writing \cup Signing /\ pc'[w] = AfterWrite(w)
          /\ job'[w] = job[w] /\ mem'[w] = mem[w]
      BY <1>8 DEF ReplaceSig, WriteFails, Goto, TypeInv, TypeOK
    <2>3. mem[w] \in Queues /\ Owned(w, Parsed(mem'[w]))
      BY <2>2 DEF NewOnce, Own, Writing, Signing, TypeInv, HandTyped
    <2>4. Agrees(mem[w])
      BY <2>2 DEF InHand, Derived, Locked, Writing, Signing
    <2>5. Submitting(w) /\ AfterWrite(w) \in Unsaved => pc[w] \in Unsaved
      BY <2>2 DEF Submitting, Submissions, AfterWrite, Unsaved, Writing, Signing,
                  TypeInv, JobAtStep
    <2>6. NewOnce'
      BY <2>1, <2>2, <2>3, <2>5, NextSteps, NewOnceLocal DEF Writing, Signing
    <2>7. InHand'
      BY <2>1, <2>2, <2>4, NextSteps, InHandLocal DEF Signing
    <2> QED BY <2>6, <2>7
  <1>9. ASSUME NEW w \in Workers, EarlyCheck(w) PROVE NewOnce' /\ InHand'
    <2>1. OthersRest(w) /\ Same
      BY <1>9, OneMoves DEF Step, EarlyCheck
    <2>2. CASE Return(w)
      BY <1>a, <2>1, <2>2
    <2>3. CASE ~Return(w)
      <3>1. pc[w] = "early" /\ pc'[w] = "wait" /\ job'[w] = job[w] /\ mem'[w] = Empty
        BY <1>9, <2>3 DEF EarlyCheck, Goto, Hold, TypeInv, TypeOK
      <3>2. \A r \in Requests : Parsed(Empty)[r] = "absent"
        BY DEF Empty, Parsed
      <3> QED
        BY <2>1, <3>1, <3>2, NewOnceLocal, InHandLocal
           DEF Unsaved, Derived, Locked, Signing
    <2> QED BY <2>2, <2>3
  <1>10. ASSUME NEW w \in Workers, DecideSubmit(w) PROVE NewOnce' /\ InHand'
    <2> DEFINE q == ExpirePending(mem[w], aged)
               n == [q EXCEPT ![job[w].req] = "pending"]
    <2>1. OthersRest(w) /\ Same
      BY <1>10, OneMoves DEF Step, DecideSubmit
    <2>2. CASE Unlock(w)
      BY <1>a, <2>1, <2>2
    <2>3. CASE Save(w, n)
      <3>1. pc[w] = "decide" /\ Submitting(w) /\ job[w].req \notin stored
        BY <1>10 DEF DecideSubmit, Submitting, Submissions, NewOnce, Unsaved
      <3>2. q \in Queues /\ \A r \in Requests : q[r] \in {mem[w][r], "absent"}
        BY <1>b, <3>1, ExpireType
      <3>3. n \in Queues
        BY <1>b, <3>1, <3>2, QueueTypes DEF Status
      <3>4. Agrees(n) /\ Owned(w, n)
        BY <1>b, <3>1, <3>2 DEF Queues, Own, TypeInv, TypeOK
      <3> QED
        BY <1>c, <2>1, <2>3, <3>1, <3>3, <3>4
    <2> QED
      BY <1>10, <2>2, <2>3 DEF DecideSubmit
  <1>11. ASSUME NEW w \in Workers, DecideSubmitDual(w) PROVE NewOnce' /\ InHand'
    <2> DEFINE n == [mem[w] EXCEPT ![job[w].req] = "pending"]
    <2>1. OthersRest(w) /\ Same
      BY <1>11, OneMoves DEF Step, DecideSubmitDual
    <2>2. pc[w] = "decide" /\ Submitting(w) /\ job[w].req \notin stored
      BY <1>11 DEF DecideSubmitDual, Submitting, Submissions, NewOnce, Unsaved
    <2>3. n \in Queues
      BY <1>b, <2>2, QueueTypes DEF Status
    <2>4. Agrees(n) /\ Owned(w, n)
      BY <1>b, <2>2 DEF Queues, Own, TypeInv, TypeOK
    <2> QED
      BY <1>11, <1>c, <2>1, <2>2, <2>3, <2>4 DEF DecideSubmitDual
  <1>12. ASSUME NEW w \in Workers, DecideCancel(w) PROVE NewOnce' /\ InHand'
    <2>1. OthersRest(w) /\ Same
      BY <1>12, OneMoves DEF Step, DecideCancel
    <2> QED
      BY <1>12, <1>a, <1>d, <2>1 DEF DecideCancel, Status
  <1>13. ASSUME NEW w \in Workers, DecideProcess(w) PROVE NewOnce' /\ InHand'
    <2>1. OthersRest(w) /\ Same
      BY <1>13, OneMoves DEF Step, DecideProcess
    <2>2. CASE Unlock(w)
      BY <1>a, <2>1, <2>2
    <2>3. CASE \E s \in Status \ {"pending"} :
                  Save(w, [mem[w] EXCEPT ![job[w].req] = s])
      <3>1. pc[w] = "decide" /\ mem[w][job[w].req] = "pending"
        BY <1>13, <2>3 DEF DecideProcess, Unlock, Return, Save, Goto, TypeInv, TypeOK
      <3> QED
        BY <1>d, <2>1, <2>3, <3>1
    <2>4. CASE Goto(w, "exec") /\ UNCHANGED <<lock, job, mem>>
      <3>1. /\ pc[w] = "decide" /\ pc'[w] = "exec" /\ mem'[w] = mem[w]
            /\ job'[w] = job[w]
        BY <1>13, <2>4 DEF DecideProcess, Goto, TypeInv, TypeOK
      <3>2. mem[w][job[w].req] = "pending"
        BY <1>13, <2>4 DEF DecideProcess, Unlock, Return, Goto, TypeInv, TypeOK
      <3> QED
        BY <1>b, <2>1, <3>1, <3>2, NewOnceLocal, InHandLocal DEF Unsaved, Signing
    <2> QED
      BY <1>13, <2>2, <2>3, <2>4 DEF DecideProcess, Status
  <1>14. ASSUME NEW w \in Workers, ExecApproved(w) \/ ExecBotched(w)
         PROVE  NewOnce' /\ InHand'
    <2>1. OthersRest(w) /\ Same
      BY <1>14, OneMoves DEF Step, ExecApproved, ExecBotched
    <2>2. pc[w] = "exec" /\ mem[w][job[w].req] = "pending"
      BY <1>14 DEF ExecApproved, ExecBotched, InHand
    <2> QED
      BY <1>14, <1>a, <1>d, <2>1, <2>2 DEF ExecApproved, ExecBotched, Status
  <1>15. ASSUME NEW w \in Workers, DecideProcessDual(w) PROVE NewOnce' /\ InHand'
    <2>1. OthersRest(w) /\ Same
      BY <1>15, OneMoves DEF Step, DecideProcessDual
    <2> QED
      BY <1>15, <1>a, <1>d, <2>1 DEF DecideProcessDual, Status
  <1>16. ASSUME NEW w \in Workers, DecideRemove(w) PROVE NewOnce' /\ InHand'
    <2> DEFINE q == CancelConflicts(mem[w], job[w].req)
    <2>1. OthersRest(w) /\ Same
      BY <1>16, OneMoves DEF Step, DecideRemove
    <2>2. CASE Unlock(w)
      BY <1>a, <2>1, <2>2
    <2>3. CASE ~Unlock(w)
      <3>1. /\ pc[w] \in {"decide", "conflicts"} /\ pc'[w] = "dropQueue"
            /\ mem'[w] = q /\ job'[w] = job[w]
        BY <1>16, <2>3 DEF DecideRemove, Goto, Hold, TypeInv, TypeOK
      <3>2. q \in Queues /\ \A r \in Requests : q[r] \in {mem[w][r], "absent"}
        BY <1>b, <3>1, CancelType
      <3>3. Agrees(q) /\ Owned(w, q) /\ Parsed(q) = q
        BY <1>b, <3>1, <3>2, QueueInHand DEF TypeInv, TypeOK
      <3> QED
        BY <2>1, <3>1, <3>3, NewOnceLocal, InHandLocal DEF Unsaved, Signing
    <2> QED BY <2>2, <2>3
  <1>17. ASSUME NEW w \in Workers, Release(w) PROVE NewOnce' /\ InHand'
    <2>1. OthersRest(w) /\ Same
      BY <1>17, OneMoves DEF Step, Release
    <2>2. CASE Unlock(w)
      BY <1>a, <2>1, <2>2
    <2>3. CASE ~Unlock(w)
      <3>1. pc[w] = "release" /\ pc'[w] = "execDual" /\ job'[w] = job[w] /\ mem'[w] = mem[w]
        BY <1>17, <2>3 DEF Release, Goto, TypeInv, TypeOK
      <3>2. Owned(w, Parsed(mem'[w]))
        BY <3>1 DEF NewOnce, Own
      <3> QED
        BY <2>1, <3>1, <3>2, NewOnceLocal, InHandLocal
           DEF Unsaved, Derived, Locked, Signing
    <2> QED BY <2>2, <2>3
  <1>18. ASSUME NEW w \in Workers, ExecDual(w) PROVE NewOnce' /\ InHand'
    BY <1>18, <1>a, OneMoves DEF Step, ExecDual
  <1>19. ASSUME UNCHANGED <<queueFile, pc, job, mem, issued, stored>>
         PROVE  NewOnce' /\ InHand'
    BY <1>19 DEF NewOnce, InHand, Submitting, Queue, Parsed
  <1>20. ASSUME Crash PROVE NewOnce' /\ InHand'
    <2>1. \A r \in Requests : Parsed(Empty)[r] = "absent"
      BY DEF Empty, Parsed
    <2>2. \A w \in Workers : pc'[w] = "idle" /\ mem'[w] = Empty
      BY <1>20 DEF Crash
    <2>3. Same
      BY <1>20 DEF Crash
    <2>4. NewOnce'
      BY <2>1, <2>2, <2>3 DEF NewOnce, Submitting, Queue, Parsed
    <2>5. InHand'
      BY <2>2 DEF InHand, Derived, Locked, Signing
    <2> QED BY <2>4, <2>5
  <1> QED
    BY <1>1, <1>2, <1>3, <1>4, <1>5, <1>6, <1>7, <1>8, <1>9, <1>10, <1>11,
       <1>12, <1>13, <1>14, <1>15, <1>16, <1>17, <1>18, <1>19, <1>20
       DEF Next, Step, Age, vars

\* A resolution is final, and a request that has left the queue stays away,
\* whatever the number of workers and faults.
THEOREM ResolutionsAreFinal == Spec => ResolvedIsFinal
  <1>1. FinalInv /\ [Next]_vars =>
          \A r \in stored : Queue[r] # "pending" => Queue'[r] \in {Queue[r], "absent"}
    <2> SUFFICES ASSUME FinalInv, [Next]_vars, NEW r \in stored, Queue[r] # "pending"
                 PROVE  Queue'[r] \in {Queue[r], "absent"}
      OBVIOUS
    <2>1. CASE queueFile' = queueFile
      BY <2>1 DEF Queue
    <2>2. CASE \E w \in Workers : ReplaceQueue(w)
      <3> PICK w \in Workers : ReplaceQueue(w)
        BY <2>2
      <3>1. pc[w] \in Derived /\ mem[w] \in Queues /\ queueFile' = mem[w]
        BY DEF ReplaceQueue, Writing, Derived, Locked, FinalInv, TypeInv, HandTyped
      <3>2. Queue' = mem[w]
        BY <3>1, QueueInHand DEF Queue
      <3> QED
        BY <3>1, <3>2 DEF FinalInv, InHand
    <2>3. (\E w \in Workers : ReplaceQueue(w)) \/ queueFile' = queueFile
      BY DEF Next, Step, vars, files, Acquire, LockTimeout, ReadQueue, VerifySig,
             BootstrapSig, BootstrapFails, ReplaceSig, WriteFails, Begin, EarlyCheck, Release,
             ExecDual, DecideRemove, DecideSubmit, DecideSubmitDual, DecideCancel,
             DecideProcess, ExecApproved, ExecBotched, DecideProcessDual, Age, Crash
    <2> QED BY <2>1, <2>2, <2>3
  <1>2. FinalInv /\ [Next]_vars => FinalInv'
    BY TypeInvStep, FinalInvStep DEF FinalInv
  <1>3. Init => FinalInv
    BY TypeInvInit, FinalInvInit DEF FinalInv
  <1>4. FinalInv /\ [Next]_vars =>
          [\A r \in stored :
             Queue[r] # "pending" => Queue'[r] \in {Queue[r], "absent"}]_vars
    BY <1>1
  <1> QED
    BY <1>2, <1>3, <1>4, PTL DEF Spec, ResolvedIsFinal

----------------------------------------------------------------------------
(* The signature.                                                          *)

\* A signed queue stays signed, and nobody finds it unsigned.
SignedInv ==
    Start = "signed" =>
        /\ sigFile \in Queues /\ queueFile \in Queues
        /\ \A w \in Workers : pc[w] \notin {"peekBootstrap", "bootstrap"}

\* The queue was signed, and since then no write failed and nothing crashed.
Steady == Start = "signed" /\ (faults = 0 \/ Faults \subseteq {"aftermath"})

\* While that is so the signature is that of the queue file unless the holder of
\* the lock is about to replace it, and decisions are taken on the queue file.
FreshSig ==
    Steady =>
        /\ sigFile = queueFile \/ \E w \in Workers : pc[w] \in Signing
        /\ \A w \in Workers :
              pc[w] \in {"decide", "exec", "conflicts"} => mem[w] = queueFile

SigInv == FinalInv /\ SignedInv /\ FreshSig

\* A queue that starts signed has its own signature.
LEMMA SigInvInit == Init => SignedInv /\ FreshSig
    BY QueueTypes DEF Init, SignedInv, FreshSig, Steady

\* A signature is that of the queue, unless a write of it is under way.
LEMMA SigInvStep == SigInv /\ [Next]_vars => SignedInv' /\ FreshSig'
  <1> SUFFICES ASSUME FinalInv, SignedInv, FreshSig, [Next]_vars, Start = "signed"
               PROVE  SignedInv' /\ FreshSig'
    BY DEF SigInv, SignedInv, FreshSig, Steady
  <1> USE DEF files, history
  \* A step of w that touches no file.
  <1>a. ASSUME NEW w \in Workers, OthersRest(w), UNCHANGED <<queueFile, sigFile, faults>>,
               pc'[w] \notin {"peekBootstrap", "bootstrap"}, pc[w] \notin Signing,
               \/ pc'[w] \notin {"decide", "exec", "conflicts"}
               \/ Steady => mem'[w] = queueFile
        PROVE  SignedInv' /\ FreshSig'
    BY <1>a DEF SignedInv, FreshSig, OthersRest, Steady
  <1>b. ASSUME NEW w \in Workers, OthersRest(w), UNCHANGED <<queueFile, sigFile, faults>>,
               Return(w) \/ Unlock(w), pc[w] \notin Signing
        PROVE  SignedInv' /\ FreshSig'
    BY <1>a, <1>b DEF Return, Unlock, Goto, FinalInv, TypeInv, TypeOK
  <1>1. ASSUME NEW w \in Workers, NEW j \in Jobs, Begin(w, j)
        PROVE  SignedInv' /\ FreshSig'
    BY <1>1, <1>a, OneMoves DEF Begin, Goto, Signing, FinalInv, TypeInv, TypeOK
  <1>2. ASSUME NEW w \in Workers, Acquire(w) \/ ReadQueue(w)
        PROVE  SignedInv' /\ FreshSig'
    BY <1>2, <1>a, OneMoves
       DEF Step, Acquire, ReadQueue, Goto, Signing, FinalInv, TypeInv, TypeOK
  <1>3. ASSUME NEW w \in Workers, LockTimeout(w) \/ ExecDual(w)
        PROVE  SignedInv' /\ FreshSig'
    BY <1>3, <1>b, OneMoves DEF Step, LockTimeout, ExecDual, Signing, FinalInv
  <1>4. ASSUME NEW w \in Workers, VerifySig(w) PROVE SignedInv' /\ FreshSig'
    <2>1. OthersRest(w) /\ UNCHANGED <<queueFile, sigFile, faults>>
      BY <1>4, OneMoves DEF Step, VerifySig, FinalInv
    <2>2. sigFile # NoSig
      BY NullAssumption DEF SignedInv
    <2>3. /\ pc'[w] = AfterRead(w)
          /\ mem'[w] = AfterReadQueue(w, IF sigFile = mem[w] THEN mem[w] ELSE Empty)
      BY <1>4, <2>2 DEF VerifySig, Goto, Hold, FinalInv, TypeInv, TypeOK
    <2>4. ASSUME Steady, AfterRead(w) = "decide" PROVE mem'[w] = queueFile
      <3>1. pc[w] = "readSig"
        BY <1>4, <2>4 DEF VerifySig, AfterRead
      <3>2. mem[w] = queueFile
        BY <3>1 DEF FinalInv, InHand
      <3>3. \A v \in Workers : pc[v] \notin Signing
        BY <3>1 DEF FinalInv, TypeInv, LockHeld, Locked, Signing
      <3> QED
        BY <2>3, <2>4, <3>2, <3>3 DEF FreshSig, AfterReadQueue
    <2> QED
      BY <1>4, <1>a, <2>1, <2>3, <2>4, NextSteps DEF VerifySig, Signing
  <1>5. ASSUME NEW w \in Workers, BootstrapSig(w) \/ BootstrapFails(w) PROVE FALSE
    BY <1>5 DEF BootstrapSig, BootstrapFails, SignedInv
  <1>6. ASSUME NEW w \in Workers, ReplaceQueue(w) PROVE SignedInv' /\ FreshSig'
    <2>1. OthersRest(w) /\ lock = w /\ mem[w] \in Queues
      BY <1>6, OneMoves DEF Step, ReplaceQueue, FinalInv, TypeInv, LockHeld,
                            HandTyped, Writing, Locked
    <2>2. /\ pc'[w] \in Signing /\ queueFile' = mem[w] /\ sigFile' = sigFile
      BY <1>6, NextSteps DEF ReplaceQueue, Goto, FinalInv, TypeInv, TypeOK
    <2>3. \A v \in Workers \ {w} : pc'[v] = pc[v] /\ pc[v] \notin Locked
      BY <2>1 DEF OthersRest, FinalInv, TypeInv, LockHeld
    <2> QED
      BY <2>1, <2>2, <2>3 DEF SignedInv, FreshSig, Locked, Signing
  <1>7. ASSUME NEW w \in Workers, ReplaceSig(w) PROVE SignedInv' /\ FreshSig'
    <2>1. OthersRest(w) /\ mem[w] = queueFile
      BY <1>7, OneMoves DEF Step, ReplaceSig, FinalInv, InHand
    <2>2. /\ pc'[w] = AfterWrite(w) /\ mem'[w] = mem[w]
          /\ queueFile' = queueFile /\ sigFile' = mem[w] /\ faults' = faults
      BY <1>7 DEF ReplaceSig, Goto, FinalInv, TypeInv, TypeOK
    <2> QED
      BY <2>1, <2>2, NextSteps DEF SignedInv, FreshSig, OthersRest, Steady
  <1>8. ASSUME NEW w \in Workers, WriteFails(w) PROVE SignedInv' /\ FreshSig'
    <2>1. OthersRest(w) /\ ~Steady'
      BY <1>8, OneMoves DEF WriteFails, Steady, FinalInv, TypeInv, TypeOK
    <2>2. pc'[w] = AfterWrite(w) /\ UNCHANGED <<queueFile, sigFile>>
      BY <1>8 DEF WriteFails, Goto, FinalInv, TypeInv, TypeOK
    <2> QED
      BY <2>1, <2>2, NextSteps DEF SignedInv, FreshSig, OthersRest
  <1>9. ASSUME NEW w \in Workers, EarlyCheck(w) \/ Release(w)
        PROVE  SignedInv' /\ FreshSig'
    BY <1>9, <1>a, <1>b, OneMoves DEF Step, EarlyCheck, Release, Goto, Signing,
                                      FinalInv, TypeInv, TypeOK
  <1>10. ASSUME NEW w \in Workers,
               DecideSubmit(w) \/ DecideSubmitDual(w) \/ DecideCancel(w) \/ DecideRemove(w)
         PROVE SignedInv' /\ FreshSig'
    BY <1>10, <1>a, <1>b, OneMoves
       DEF Step, DecideSubmit, DecideSubmitDual, DecideCancel, DecideRemove, Save,
           Goto, Signing, FinalInv, TypeInv, TypeOK
  <1>11. ASSUME NEW w \in Workers,
                DecideProcess(w) \/ ExecApproved(w) \/ DecideProcessDual(w)
         PROVE  SignedInv' /\ FreshSig'
    <2>1. OthersRest(w) /\ UNCHANGED <<queueFile, sigFile, faults>>
      BY <1>11, OneMoves
         DEF Step, DecideProcess, ExecApproved, DecideProcessDual, FinalInv
    <2>2. /\ pc[w] \in {"decide", "exec"}
          /\ \/ Unlock(w)
             \/ Goto(w, "writeQueue")
             \/ Goto(w, "exec") /\ UNCHANGED mem
      BY <1>11 DEF DecideProcess, ExecApproved, DecideProcessDual, Save
    <2> QED
      BY <2>1, <2>2, <1>a, <1>b
         DEF Goto, Signing, FreshSig, FinalInv, TypeInv, TypeOK
  <1>12. ASSUME UNCHANGED <<files, pc, mem, faults>> PROVE SignedInv' /\ FreshSig'
    BY <1>12 DEF SignedInv, FreshSig, Steady
  <1>13. ASSUME Crash PROVE SignedInv' /\ FreshSig'
    <2>1. ~Steady'
      BY <1>13 DEF Crash, Steady, FinalInv, TypeInv, TypeOK
    <2> QED
      BY <1>13, <2>1 DEF Crash, SignedInv, FreshSig
  <1>14. ASSUME NEW w \in Workers, ExecBotched(w) PROVE SignedInv' /\ FreshSig'
    <2>1. OthersRest(w)
      BY <1>14, OneMoves DEF FinalInv
    <2>2. Steady' => Steady
      BY <1>14 DEF ExecBotched, Steady, FinalInv, TypeInv, TypeOK
    <2>3. /\ pc[w] = "exec" /\ pc'[w] \in {"writeQueue", "idle"}
          /\ UNCHANGED <<queueFile, sigFile>>
      BY <1>14 DEF ExecBotched, Save, Unlock, Return, Goto, FinalInv, TypeInv, TypeOK
    <2> QED
      BY <2>1, <2>2, <2>3 DEF SignedInv, FreshSig, OthersRest, Signing
  <1> QED
    BY <1>1, <1>2, <1>3, <1>4, <1>5, <1>6, <1>7, <1>8, <1>9, <1>10, <1>11,
       <1>12, <1>13, <1>14 DEF Next, Step, Age, vars

\* Signatures fit at all times.
LEMMA SigInvAlways == Spec => []SigInv
  <1>1. Init => SigInv
    BY TypeInvInit, FinalInvInit, SigInvInit DEF SigInv, FinalInv
  <1>2. SigInv /\ [Next]_vars => SigInv'
    BY TypeInvStep, FinalInvStep, SigInvStep DEF SigInv, FinalInv
  <1> QED
    BY <1>1, <1>2, PTL DEF Spec

\* Once the queue is signed, with any number of workers and before the first
\* fault, a decision under the lock is taken on what the queue file holds.
THEOREM DecisionsOnQueue == Spec => []DecidesOnQueue
  <1>1. SigInv => DecidesOnQueue
    <2> SUFFICES ASSUME SigInv, NEW w \in Workers, pc[w] = "decide", faults = 0,
                        Start = "signed"
                 PROVE  mem[w] = Queue
      BY DEF DecidesOnQueue
    <2>1. mem[w] = queueFile /\ queueFile \in Queues
      BY DEF SigInv, SignedInv, FreshSig, Steady
    <2> QED
      BY <2>1, QueueInHand DEF Queue
  <1> QED
    BY <1>1, SigInvAlways, PTL

\* Once the queue is signed, and whatever the faults, a signature is only
\* written for the bytes that are in the queue file.
THEOREM SignaturesMatch ==
    ASSUME Start = "signed"
    PROVE  Spec => SignsWhatIsThere
  <1>1. SigInv /\ [Next]_vars => (sigFile' # sigFile => sigFile' = queueFile')
    <2> SUFFICES ASSUME SigInv, [Next]_vars, sigFile' # sigFile
                 PROVE  sigFile' = queueFile'
      OBVIOUS
    <2>1. \E w \in Workers : BootstrapSig(w) \/ ReplaceSig(w)
      BY DEF Next, Step, vars, files, Acquire, LockTimeout, ReadQueue, VerifySig,
             BootstrapFails, ReplaceQueue, WriteFails, Begin, EarlyCheck, Release, ExecDual,
             DecideRemove, DecideSubmit, DecideSubmitDual, DecideCancel,
             DecideProcess, ExecApproved, ExecBotched, DecideProcessDual, Age, Crash
    <2>2. PICK w \in Workers : ReplaceSig(w)
      BY <2>1 DEF BootstrapSig, SigInv, SignedInv
    <2> QED
      BY <2>2 DEF ReplaceSig, SigInv, FinalInv, InHand
  <1>2. SigInv /\ [Next]_vars => [sigFile' # sigFile => sigFile' = queueFile']_vars
    BY <1>1
  <1> QED
    BY <1>2, SigInvAlways, PTL DEF Spec, SignsWhatIsThere

----------------------------------------------------------------------------
(* Who serves what.                                                        *)

\* What worker w does.
Acts(w) ==
    \/ Step(w) \/ WriteFails(w) \/ BootstrapFails(w) \/ ExecBotched(w)
    \/ \E j \in Jobs : Begin(w, j)

\* A verdict is on a request that was stored; only removals cancel what they conflict
\* with; only dual-admin approvals are carried out without the lock.
Assigned ==
    \A w \in Workers :
        /\ pc[w] # "idle" /\ job[w].op \in {"cancelRequest", "process", "processDual"} =>
              job[w].req \in stored
        /\ pc[w] # "idle" /\ job[w].op = "remove" => Kind[job[w].req] \in Removals
        /\ pc[w] \in {"conflicts", "dropQueue", "dropSig"} =>
              job[w].op \in {"remove", "process"} /\ Kind[job[w].req] \in Removals
        /\ pc[w] = "execDual" => job[w].op = "processDual"

\* A worker keeps its job until it returns, and ids stay stored.
LEMMA KeepsJob ==
    ASSUME TypeInv, NEW w \in Workers, Acts(w)
    PROVE  /\ \/ pc'[w] = "idle"
              \/ \E j \in Jobs : Begin(w, j)
              \/ pc[w] # "idle" /\ job'[w] = job[w]
           /\ stored \subseteq stored'
  <1> USE DEF TypeInv, TypeOK, Goto, Hold, Return, Unlock, Save, history
  <1>1. CASE \/ Acquire(w) \/ LockTimeout(w) \/ ReadQueue(w) \/ VerifySig(w)
             \/ BootstrapSig(w) \/ ReplaceQueue(w) \/ ReplaceSig(w)
             \/ WriteFails(w) \/ BootstrapFails(w)
    BY <1>1 DEF Acquire, LockTimeout, ReadQueue, VerifySig, BootstrapSig,
                ReplaceQueue, ReplaceSig, WriteFails, BootstrapFails, Writing, Signing
  <1>2. CASE EarlyCheck(w) \/ Release(w) \/ ExecDual(w) \/ DecideRemove(w)
    BY <1>2 DEF EarlyCheck, Release, ExecDual, DecideRemove
  <1>3. CASE DecideSubmit(w) \/ DecideSubmitDual(w) \/ DecideCancel(w)
    BY <1>3 DEF DecideSubmit, DecideSubmitDual, DecideCancel
  <1>4. CASE DecideProcess(w) \/ ExecApproved(w) \/ ExecBotched(w) \/ DecideProcessDual(w)
    BY <1>4 DEF DecideProcess, ExecApproved, ExecBotched, DecideProcessDual
  <1>5. CASE \E j \in Jobs : Begin(w, j)
    BY <1>5 DEF Begin
  <1> QED
    BY <1>1, <1>2, <1>3, <1>4, <1>5 DEF Step, Acts

\* How a worker gets to the steps that only some jobs have.
LEMMA Entrances ==
    ASSUME TypeInv, NEW w \in Workers, Acts(w)
    PROVE  /\ pc'[w] = "conflicts" =>
                 job[w].op = "process" /\ Kind[job[w].req] \in Removals
           /\ pc'[w] = "dropQueue" =>
                 \/ pc[w] = "conflicts"
                 \/ pc[w] = "decide" /\ job[w].op = "remove"
           /\ pc'[w] = "dropSig" => pc[w] = "dropQueue"
           /\ pc'[w] = "execDual" => Release(w) /\ job[w].op = "processDual"
           /\ pc'[w] = "writeQueue" =>
                 pc[w] \in {"decide", "exec"} /\ job[w].op \notin {"remove", "poll"}
           /\ pc'[w] = "writeSig" => pc[w] = "writeQueue" /\ ReplaceQueue(w)
           /\ pc'[w] = "release" => pc[w] \in {"writeQueue", "writeSig", "dropQueue", "dropSig"}
           /\ pc'[w] = "exec" => DecideProcess(w)
  <1> DEFINE New == pc'[w] \in {"conflicts", "dropQueue", "dropSig", "execDual",
                                "writeQueue", "writeSig", "release", "exec"}
  <1> USE DEF TypeInv, TypeOK, Goto, Hold, Return, Unlock, Save
  <1>1. CASE \/ Acquire(w) \/ LockTimeout(w) \/ ReadQueue(w) \/ VerifySig(w)
             \/ BootstrapSig(w) \/ BootstrapFails(w)
             \/ EarlyCheck(w) \/ ExecDual(w) \/ \E j \in Jobs : Begin(w, j)
    <2>1. ~New
      BY <1>1, NextSteps
         DEF Acquire, LockTimeout, ReadQueue, VerifySig, BootstrapSig, AfterRead,
             BootstrapFails, EarlyCheck, ExecDual, Begin
    <2> QED BY <2>1
  <1>2. CASE ReplaceQueue(w)
    BY <1>2 DEF ReplaceQueue, Writing, SigStep
  <1>3. CASE ReplaceSig(w) \/ WriteFails(w)
    <2>1. pc[w] \in Writing \cup Signing /\ pc'[w] = AfterWrite(w)
      BY <1>3 DEF ReplaceSig, WriteFails
    <2> QED
      BY <2>1 DEF AfterWrite, Writing, Signing
  <1>4. CASE DecideRemove(w)
    BY <1>4 DEF DecideRemove
  <1>5. CASE Release(w)
    BY <1>5 DEF Release
  <1>6. CASE DecideSubmit(w) \/ DecideSubmitDual(w) \/ DecideCancel(w)
    BY <1>6 DEF DecideSubmit, DecideSubmitDual, DecideCancel
  <1>7. CASE DecideProcess(w) \/ DecideProcessDual(w)
    BY <1>7 DEF DecideProcess, DecideProcessDual
  <1>8. CASE ExecApproved(w) \/ ExecBotched(w)
    <2>1. pc[w] = "exec" /\ (pc'[w] = "writeQueue" \/ pc'[w] = "idle")
      BY <1>8 DEF ExecApproved, ExecBotched
    <2> QED BY <2>1 DEF JobAtStep
  <1> QED
    BY <1>1, <1>2, <1>3, <1>4, <1>5, <1>6, <1>7, <1>8 DEF Step, Acts

\* A request id belongs to one submission.
LEMMA AssignedStep == TypeInv /\ Assigned /\ [Next]_vars => Assigned'
  <1> SUFFICES ASSUME TypeInv, Assigned, [Next]_vars PROVE Assigned'
    OBVIOUS
  <1>1. ASSUME NEW w \in Workers, Acts(w) PROVE Assigned'
    <2> DEFINE Fit(v) ==
          /\ pc[v] # "idle" /\ job[v].op \in {"cancelRequest", "process", "processDual"} =>
                job[v].req \in stored
          /\ pc[v] # "idle" /\ job[v].op = "remove" => Kind[job[v].req] \in Removals
          /\ pc[v] \in {"conflicts", "dropQueue", "dropSig"} =>
                job[v].op \in {"remove", "process"} /\ Kind[job[v].req] \in Removals
          /\ pc[v] = "execDual" => job[v].op = "processDual"
    <2>1. stored \subseteq stored'
      BY <1>1, KeepsJob
    <2>2. ASSUME NEW v \in Workers \ {w} PROVE Fit(v)'
      <3>1. pc'[v] = pc[v] /\ job'[v] = job[v]
        BY <1>1, OneMoves DEF Acts, OthersRest
      <3> QED
        BY <2>1, <3>1 DEF Assigned
    <2>3. Fit(w)'
      <3>1. CASE pc'[w] = "idle"
        BY <3>1
      <3>2. ASSUME NEW j \in Jobs, Begin(w, j) PROVE Fit(w)'
        <4>1. pc'[w] \in {"peekQueue", "wait"} /\ job'[w] = j
          BY <3>2 DEF Begin, Goto, TypeInv, TypeOK
        <4> QED
          BY <3>2, <4>1, <2>1 DEF Begin
      <3>3. CASE pc[w] # "idle" /\ job'[w] = job[w]
        BY <1>1, <2>1, <3>3, Entrances DEF Assigned
      <3> QED
        BY <1>1, <3>1, <3>2, <3>3, KeepsJob
    <2> QED
      BY <2>2, <2>3 DEF Assigned
  <1>2. ASSUME NEW r \in Requests, Age(r) PROVE Assigned'
    BY <1>2 DEF Age, Assigned, history
  <1>3. CASE Crash
    BY <1>3 DEF Crash, Assigned
  <1>4. CASE UNCHANGED vars
    BY <1>4 DEF vars, Assigned
  <1> QED
    BY <1>1, <1>2, <1>3, <1>4 DEF Next, Acts

\* All that holds of every behaviour so far.
BaseInv == SigInv /\ Assigned

\* Types, control, signatures and ids are right at all times.
LEMMA BaseInvAlways == Spec => []BaseInv
  <1>1. Init => Assigned
    BY DEF Init, Assigned
  <1>2. SigInv /\ Assigned /\ [Next]_vars => Assigned'
    BY AssignedStep DEF SigInv, FinalInv
  <1> QED
    BY <1>1, <1>2, SigInvAlways, PTL DEF Spec, BaseInv

----------------------------------------------------------------------------
(* Submissions.                                                            *)

\* A submission that has got to its write has its request in hand, and one that has
\* written the queue file has it stored.
Delivers ==
    \A w \in Workers : Submitting(w) =>
        /\ pc[w] = "writeQueue" => mem[w][job[w].req] # "absent"
        /\ pc[w] \in {"writeSig", "release"} => job[w].req \in stored

\* A submission that is acknowledged is stored.
LEMMA DeliversStep ==
    ASSUME "queueWrite" \notin Faults, BaseInv, Delivers, AckedIsStored, [Next]_vars
    PROVE  Delivers' /\ AckedIsStored'
  <1> USE DEF BaseInv, SigInv, FinalInv
  <1>1. ASSUME NEW w \in Workers, Acts(w) PROVE Delivers' /\ AckedIsStored'
    <2> DEFINE Fit(v) == Submitting(v) =>
                 /\ pc[v] = "writeQueue" => mem[v][job[v].req] # "absent"
                 /\ pc[v] \in {"writeSig", "release"} => job[v].req \in stored
    <2>1. stored \subseteq stored'
      BY <1>1, KeepsJob
    <2>2. ASSUME NEW v \in Workers \ {w} PROVE Fit(v)'
      <3>1. pc'[v] = pc[v] /\ job'[v] = job[v] /\ mem'[v] = mem[v]
        BY <1>1, OneMoves DEF Acts, OthersRest
      <3> QED
        BY <2>1, <3>1 DEF Delivers, Submitting
    <2>3. Fit(w)'
      <3>1. CASE pc'[w] \notin {"writeQueue", "writeSig", "release"}
        BY <3>1 DEF Submitting
      <3> SUFFICES ASSUME pc'[w] \in {"writeQueue", "writeSig", "release"},
                          job'[w].op \in Submissions
                   PROVE  /\ pc'[w] = "writeQueue" => mem'[w][job'[w].req] # "absent"
                          /\ pc'[w] \in {"writeSig", "release"} => job'[w].req \in stored'
        BY <3>1 DEF Submitting
      <3>2. pc[w] # "idle" /\ job'[w] = job[w] /\ Submitting(w)
        <4>1. \A j \in Jobs : ~Begin(w, j)
          BY DEF Begin, Goto, TypeInv, TypeOK
        <4> QED
          BY <1>1, <4>1, KeepsJob DEF Submitting
      <3>3. job[w].req \in Requests
        BY <3>2, JobAssumption DEF TypeInv, JobAtStep, JobType
      <3>4. CASE pc'[w] = "writeQueue"
        <4>1. pc[w] = "decide"
          BY <1>1, <3>2, <3>4, Entrances DEF TypeInv, JobAtStep, Submissions
        <4>2. DecideSubmit(w) \/ DecideSubmitDual(w)
          BY <1>1, <3>2, <3>4, <4>1, NextSteps
             DEF Acts, Step, Submissions, Begin, WriteFails, BootstrapFails, ExecBotched,
                 Acquire, LockTimeout, ReadQueue, VerifySig, BootstrapSig, ReplaceQueue,
                 ReplaceSig, EarlyCheck, DecideCancel, DecideProcess, ExecApproved,
                 DecideProcessDual, ExecDual, DecideRemove, Release, Writing, Signing
        <4>3. mem[w] \in Queues /\ ExpirePending(mem[w], aged) \in Queues
          BY <4>1, ExpireType DEF TypeInv, HandTyped
        <4>4. \E q \in Queues : mem' = [mem EXCEPT ![w] = [q EXCEPT ![job[w].req] = "pending"]]
          <5>1. CASE DecideSubmitDual(w)
            BY <4>3, <5>1 DEF DecideSubmitDual, Save, Hold
          <5>2. CASE DecideSubmit(w) /\ ~Unlock(w)
            BY <4>3, <5>2 DEF DecideSubmit, Save, Hold
          <5>3. ~Unlock(w)
            BY <3>4 DEF Unlock, Return, Goto, TypeInv, TypeOK
          <5> QED BY <4>2, <5>1, <5>2, <5>3
        <4>5. mem'[w][job[w].req] = "pending"
          BY <3>3, <4>4 DEF TypeInv, TypeOK, Queues
        <4> QED
          BY <3>2, <3>4, <4>5
      <3>5. CASE pc'[w] = "writeSig"
        <4>1. pc[w] = "writeQueue" /\ ReplaceQueue(w)
          BY <1>1, <3>5, Entrances
        <4>2. mem[w][job[w].req] # "absent"
          BY <3>2, <4>1 DEF Delivers
        <4> QED
          BY <3>2, <3>3, <3>5, <4>1, <4>2 DEF ReplaceQueue
      <3>6. CASE pc'[w] = "release"
        <4>1. pc[w] \in {"writeQueue", "writeSig", "dropQueue", "dropSig"}
          BY <1>1, <3>6, Entrances
        <4>2. pc[w] \in {"writeQueue", "writeSig"}
          BY <3>2, <4>1 DEF Assigned, Submitting, Submissions
        <4>3. pc[w] # "writeQueue"
          <5> SUFFICES ASSUME pc[w] = "writeQueue" PROVE FALSE
            OBVIOUS
          <5>1. ReplaceQueue(w) \/ WriteFails(w)
            BY <1>1
               DEF Acts, Step, Begin, BootstrapFails, ExecBotched, DecideSubmit,
                   DecideSubmitDual, Acquire, LockTimeout, ReadQueue, VerifySig, BootstrapSig,
                   ReplaceSig, EarlyCheck, DecideCancel, DecideProcess, ExecApproved, Signing,
                   DecideProcessDual, ExecDual, DecideRemove, Release
          <5>2. ~WriteFails(w)
            BY DEF WriteFails, Signing
          <5>3. pc'[w] \in Signing
            BY <5>1, <5>2, NextSteps DEF ReplaceQueue, Goto, TypeInv, TypeOK
          <5> QED
            BY <3>6, <5>3 DEF Signing
        <4> QED
          BY <2>1, <3>2, <3>6, <4>2, <4>3 DEF Delivers
      <3> QED
        BY <3>4, <3>5, <3>6
    <2>4. AckedIsStored'
      <3>1. CASE acked' = acked
        BY <2>1, <3>1 DEF AckedIsStored
      <3>2. CASE Release(w)
        <4>1. /\ acked' = IF job[w].op \in Submissions
                          THEN acked \cup {job[w].req} ELSE acked
              /\ pc[w] = "release"
          BY <3>2 DEF Release
        <4>2. job[w].op \in Submissions => job[w].req \in stored
          BY <4>1 DEF Delivers, Submitting
        <4> QED
          BY <2>1, <4>1, <4>2 DEF AckedIsStored
      <3>3. acked' = acked \/ Release(w)
        BY <1>1
           DEF Acts, Step, Begin, WriteFails, BootstrapFails, ExecBotched, history,
               DecideSubmit, DecideSubmitDual,
               Acquire, LockTimeout, ReadQueue, VerifySig, BootstrapSig, ReplaceQueue,
               ReplaceSig, EarlyCheck, DecideCancel, DecideProcess, ExecApproved,
               DecideProcessDual, ExecDual, DecideRemove
      <3> QED BY <3>1, <3>2, <3>3
    <2> QED
      BY <2>2, <2>3, <2>4 DEF Delivers
  <1>2. ASSUME NEW r \in Requests, Age(r) PROVE Delivers' /\ AckedIsStored'
    BY <1>2 DEF Age, Delivers, Submitting, AckedIsStored, history
  <1>3. CASE Crash
    BY <1>3 DEF Crash, Delivers, Submitting, AckedIsStored, history
  <1>4. CASE UNCHANGED vars
    BY <1>4 DEF vars, Delivers, Submitting, AckedIsStored
  <1> QED
    BY <1>1, <1>2, <1>3, <1>4 DEF Next, Acts

\* Whatever crashes, bad signatures, failing signatures and stale reads there are, the
\* submitter is told "submitted" only of a request that reached the file; it takes a
\* queue file that can not be written to break this (_submit_approval ignores that).
THEOREM SubmittedIsStored ==
    ASSUME "queueWrite" \notin Faults
    PROVE  Spec => []AckedIsStored
  <1>1. Init => Delivers /\ AckedIsStored
    BY DEF Init, Delivers, Submitting, AckedIsStored
  <1>2. BaseInv /\ Delivers /\ AckedIsStored /\ [Next]_vars => Delivers' /\ AckedIsStored'
    BY DeliversStep
  <1> QED
    BY <1>1, <1>2, BaseInvAlways, PTL DEF Spec

----------------------------------------------------------------------------
(* What is carried out.                                                    *)

\* Worker w is about to write that r has been approved, and may have carried it out.
Marking(w, r) ==
    /\ pc[w] = "writeQueue" /\ job[w].op = "process" /\ job[w].req = r
    /\ mem[w][r] = "approved"

\* Worker w has approved the dual-admin request r and has yet to carry it out.
Owing(w, r) ==
    /\ job[w].req = r
    /\ \/ pc[w] = "execDual"
       \/ /\ pc[w] \in {"writeQueue", "writeSig", "release"} /\ job[w].op = "processDual"
          /\ mem[w][r] = "approved"

\* What has been carried out is approved or gone from the queue, or is about to be; what
\* one worker is about to carry out nobody has, and nobody else is.
Done ==
    \A r \in Requests :
        /\ executed[r] \in {0, 1}
        /\ executed[r] = 1 => /\ r \in stored
                              /\ \/ Queue[r] \in {"approved", "absent"}
                                 \/ \E w \in Workers : Marking(w, r)
        /\ \A w \in Workers : Owing(w, r) =>
              /\ executed[r] = 0 /\ r \in stored
              /\ IF pc[w] = "writeQueue" THEN Queue[r] = "pending"
                 ELSE Queue[r] \in {"approved", "absent"}
              /\ \A v \in Workers \ {w} : ~Owing(v, r)

\* The holder of the lock decides on requests that are pending in the file, and that
\* nobody has carried out or is about to.
LEMMA Untouched ==
    ASSUME BaseInv, Done, NEW w \in Workers, pc[w] \in {"decide", "exec"},
           job[w].op \in {"process", "processDual"}, mem[w][job[w].req] = "pending"
    PROVE  LET r == job[w].req IN
           /\ r \in Requests /\ r \in stored /\ Queue[r] = "pending" /\ executed[r] = 0
           /\ \A v \in Workers : ~Owing(v, r)
  <1> DEFINE r == job[w].req
  <1> USE DEF BaseInv, SigInv, FinalInv
  <1>1. r \in Requests /\ r \in stored
    BY DEF Assigned, TypeInv, TypeOK
  <1>2. Queue[r] = "pending"
    BY <1>1 DEF InHand, Derived, Locked
  <1>3. \A v \in Workers : pc[v] # "writeQueue"
    BY DEF TypeInv, LockHeld, Locked
  <1>4. executed[r] = 0
    BY <1>1, <1>2, <1>3 DEF Done, Marking
  <1>5. \A v \in Workers : ~Owing(v, r)
    BY <1>1, <1>2, <1>3 DEF Done
  <1> QED
    BY <1>1, <1>2, <1>4, <1>5

\* A step of w that carries nothing out and leaves the files alone.
LEMMA DoneLocal ==
    ASSUME Done, NEW w \in Workers, OthersRest(w), UNCHANGED <<queueFile, executed>>,
           stored \subseteq stored', pc[w] # "writeQueue",
           \A r \in Requests : Owing(w, r)' => Owing(w, r) /\ pc'[w] # "writeQueue"
    PROVE  Done'
  <1>1. Queue' = Queue
    BY DEF Queue
  <1>2. ASSUME NEW v \in Workers \ {w}, NEW r \in Requests
        PROVE  /\ Owing(v, r)' <=> Owing(v, r)
               /\ Marking(v, r)' <=> Marking(v, r)
               /\ pc'[v] = pc[v]
    BY DEF OthersRest, Owing, Marking
  <1>3. \A r \in Requests : ~Marking(w, r)
    BY DEF Marking
  <1> SUFFICES ASSUME NEW r \in Requests
               PROVE  /\ executed'[r] \in {0, 1}
                      /\ executed'[r] = 1 =>
                            /\ r \in stored'
                            /\ \/ Queue'[r] \in {"approved", "absent"}
                               \/ \E v \in Workers : Marking(v, r)'
                      /\ \A v \in Workers : Owing(v, r)' =>
                            /\ executed'[r] = 0 /\ r \in stored'
                            /\ IF pc'[v] = "writeQueue" THEN Queue'[r] = "pending"
                               ELSE Queue'[r] \in {"approved", "absent"}
                            /\ \A u \in Workers \ {v} : ~Owing(u, r)'
    BY DEF Done
  <1>4. executed'[r] = 1 => \/ Queue'[r] \in {"approved", "absent"}
                            \/ \E v \in Workers : Marking(v, r)'
    BY <1>1, <1>2, <1>3 DEF Done
  <1>5. ASSUME NEW v \in Workers, Owing(v, r)'
        PROVE  /\ executed'[r] = 0 /\ r \in stored'
               /\ IF pc'[v] = "writeQueue" THEN Queue'[r] = "pending"
                  ELSE Queue'[r] \in {"approved", "absent"}
               /\ \A u \in Workers \ {v} : ~Owing(u, r)'
    <2>1. Owing(v, r) /\ (pc'[v] = "writeQueue" <=> pc[v] = "writeQueue")
      BY <1>2, <1>5
    <2>2. \A u \in Workers \ {v} : ~Owing(u, r)
      BY <2>1 DEF Done
    <2>3. \A u \in Workers \ {v} : ~Owing(u, r)'
      BY <1>2, <2>2
    <2> QED
      BY <1>1, <2>1, <2>3 DEF Done
  <1> QED
    BY <1>4, <1>5 DEF Done

\* What is executed is executed by one decision, which then marks it.
LEMMA DoneStep ==
    ASSUME Faults \subseteq {"sigWrite"}, BaseInv, Done, [Next]_vars
    PROVE  Done'
  <1> USE DEF BaseInv, SigInv, FinalInv, history, files
  <1>1. ASSUME NEW w \in Workers, Acts(w) PROVE OthersRest(w) /\ stored \subseteq stored'
    BY <1>1, OneMoves, KeepsJob DEF Acts
  <1>2. ASSUME NEW w \in Workers, Acts(w), UNCHANGED <<queueFile, executed>>,
               pc[w] # "writeQueue",
               pc'[w] \notin {"writeQueue", "writeSig", "release", "execDual"}
        PROVE  Done'
    BY <1>1, <1>2, DoneLocal DEF Owing
  <1>3. ASSUME NEW w \in Workers, Acts(w), UNCHANGED <<queueFile, executed>>,
               pc[w] \in {"decide", "exec"}, job[w].op # "processDual"
        PROVE  Done'
    <2>1. job'[w].op # "processDual" \/ pc'[w] = "idle"
      <3>1. \A j \in Jobs : ~Begin(w, j)
        BY <1>3 DEF Begin
      <3> QED
        BY <1>3, <3>1, KeepsJob
    <2>2. pc'[w] # "execDual"
      BY <1>3, Entrances
    <2> QED
      BY <1>1, <1>3, <2>1, <2>2, DoneLocal DEF Owing
  <1>4. ASSUME NEW w \in Workers, \E j \in Jobs : Begin(w, j) PROVE Done'
    BY <1>2, <1>4 DEF Acts, Begin, Goto, TypeInv, TypeOK
  <1>5. ASSUME NEW w \in Workers,
               \/ Acquire(w) \/ LockTimeout(w) \/ ReadQueue(w) \/ VerifySig(w)
               \/ BootstrapSig(w) \/ BootstrapFails(w) \/ EarlyCheck(w)
        PROVE  Done'
    BY <1>2, <1>5, NextSteps
       DEF Acts, Step, Acquire, LockTimeout, ReadQueue, VerifySig, BootstrapSig,
           BootstrapFails, EarlyCheck, Return, Goto, AfterRead, TypeInv, TypeOK
  <1>6. ASSUME NEW w \in Workers,
               DecideSubmit(w) \/ DecideSubmitDual(w) \/ DecideCancel(w) \/ DecideProcess(w)
        PROVE  Done'
    BY <1>3, <1>6
       DEF Acts, Step, DecideSubmit, DecideSubmitDual, DecideCancel, DecideProcess
  <1>7. ASSUME NEW w \in Workers, DecideRemove(w) PROVE Done'
    <2>1. pc'[w] \in {"idle", "dropQueue"} /\ pc[w] \in {"decide", "conflicts"}
      BY <1>7 DEF DecideRemove, Unlock, Return, Goto, TypeInv, TypeOK
    <2> QED
      BY <1>2, <1>7, <2>1 DEF Acts, Step, DecideRemove
  <1>8. ASSUME NEW w \in Workers, ReplaceSig(w) \/ WriteFails(w) PROVE Done'
    <2>1. /\ pc[w] \in Signing /\ pc'[w] = AfterWrite(w) /\ job'[w] = job[w]
          /\ mem'[w] = mem[w] /\ UNCHANGED <<queueFile, executed>> /\ Acts(w)
      BY <1>8 DEF ReplaceSig, WriteFails, Goto, Acts, Step, TypeInv, TypeOK
    <2>2. pc'[w] = "release" => pc[w] = "writeSig" \/ job[w].op # "processDual"
      BY <2>1 DEF Assigned, Signing, AfterWrite
    <2>3. \A r \in Requests : Owing(w, r)' => Owing(w, r) /\ pc'[w] # "writeQueue"
      BY <2>1, <2>2, NextSteps DEF Owing
    <2> QED
      BY <1>1, <2>1, <2>3, DoneLocal DEF Signing
  <1>9. ASSUME NEW w \in Workers, Release(w) PROVE Done'
    <2>1. pc[w] = "release" /\ UNCHANGED <<queueFile, executed>> /\ Acts(w)
      BY <1>9 DEF Release, Acts, Step
    <2>2. CASE Unlock(w)
      BY <1>2, <2>1, <2>2 DEF Unlock, Return, Goto, TypeInv, TypeOK
    <2>3. CASE ~Unlock(w)
      <3>1. /\ job[w].op = "processDual" /\ mem[w][job[w].req] = "approved"
            /\ pc'[w] = "execDual" /\ job'[w] = job[w] /\ mem'[w] = mem[w]
        BY <1>9, <2>3 DEF Release, Goto, TypeInv, TypeOK
      <3>2. \A r \in Requests : Owing(w, r)' => Owing(w, r) /\ pc'[w] # "writeQueue"
        BY <2>1, <3>1 DEF Owing
      <3> QED
        BY <1>1, <2>1, <3>2, DoneLocal
    <2> QED BY <2>2, <2>3
  <1>10. ASSUME NEW w \in Workers, ReplaceQueue(w) PROVE Done'
    <2>1. /\ pc[w] \in Writing /\ queueFile' = mem[w] /\ executed' = executed
          /\ pc'[w] = SigStep(w) /\ job'[w] = job[w] /\ mem'[w] = mem[w]
          /\ Acts(w) /\ OthersRest(w) /\ stored \subseteq stored'
      BY <1>1, <1>10 DEF ReplaceQueue, Goto, Acts, Step, TypeInv, TypeOK
    <2>2. Queue' = mem[w]
      BY <2>1, QueueInHand DEF Queue, TypeInv, HandTyped, Writing
    <2>3. \A r \in stored : Queue[r] # "pending" => Queue'[r] \in {Queue[r], "absent"}
      BY <2>1, <2>2 DEF InHand, Derived, Locked, Writing
    <2>4. \A v \in Workers \ {w} : pc[v] \notin Locked
      BY <2>1 DEF TypeInv, LockHeld, Writing, Locked
    <2> SUFFICES ASSUME NEW r \in Requests
                 PROVE  /\ executed'[r] \in {0, 1}
                        /\ executed'[r] = 1 => /\ r \in stored'
                                               /\ Queue'[r] \in {"approved", "absent"}
                        /\ \A v \in Workers : Owing(v, r)' =>
                              /\ executed'[r] = 0 /\ r \in stored'
                              /\ pc'[v] # "writeQueue"
                              /\ Queue'[r] \in {"approved", "absent"}
                              /\ \A u \in Workers \ {v} : ~Owing(u, r)'
      BY DEF Done
    <2>5. executed'[r] \in {0, 1}
      BY <2>1 DEF Done
    <2>6. executed'[r] = 1 => r \in stored' /\ Queue'[r] \in {"approved", "absent"}
      <3>1. \A v \in Workers : Marking(v, r) => Queue'[r] = "approved"
        BY <2>2, <2>4 DEF Marking, Locked
      <3> QED
        BY <2>1, <2>3, <3>1 DEF Done
    <2>7. \A v \in Workers : Owing(v, r)' => Owing(v, r) /\ pc'[v] # "writeQueue"
      <3>1. Owing(w, r)' => Owing(w, r) /\ pc'[w] # "writeQueue"
        BY <2>1 DEF Owing, SigStep, Writing
      <3>2. \A v \in Workers \ {w} : Owing(v, r)' => Owing(v, r) /\ pc'[v] # "writeQueue"
        BY <2>1, <2>4 DEF Owing, OthersRest, Locked
      <3> QED BY <3>1, <3>2
    <2>8. ASSUME NEW v \in Workers, Owing(v, r)'
          PROVE  /\ executed'[r] = 0 /\ r \in stored'
                 /\ Queue'[r] \in {"approved", "absent"}
                 /\ \A u \in Workers \ {v} : ~Owing(u, r)'
      <3>1. Owing(v, r)
        BY <2>7, <2>8
      <3>2. executed'[r] = 0 /\ r \in stored /\ \A u \in Workers \ {v} : ~Owing(u, r)
        BY <2>1, <3>1 DEF Done
      <3>3. Queue'[r] \in {"approved", "absent"}
        <4>1. CASE pc[v] = "writeQueue"
          <5>1. v = w /\ job[w].op = "processDual" /\ mem[w][r] = "approved"
            BY <2>4, <3>1, <4>1 DEF Owing, Locked
          <5> QED BY <2>2, <5>1
        <4>2. CASE pc[v] # "writeQueue"
          BY <2>3, <3>1, <3>2, <4>2 DEF Done
        <4> QED BY <4>1, <4>2
      <3> QED
        BY <2>1, <2>7, <3>2, <3>3
    <2> QED
      BY <2>5, <2>6, <2>7, <2>8
  <1>11. ASSUME NEW w \in Workers, ExecApproved(w) PROVE Done'
    <2> DEFINE r == job[w].req
    <2>1. pc[w] = "exec" /\ job[w].op = "process" /\ mem[w][r] = "pending"
          /\ Acts(w) /\ OthersRest(w) /\ stored \subseteq stored' /\ queueFile' = queueFile
      BY <1>1, <1>11 DEF ExecApproved, Acts, Step, TypeInv, JobAtStep, InHand
    <2>2. CASE executed' = executed
      BY <1>3, <2>1, <2>2
    <2>3. CASE executed' # executed
      <3>1. /\ executed' = [executed EXCEPT ![r] = @ + 1]
            /\ pc'[w] = "writeQueue" /\ job'[w] = job[w]
            /\ mem'[w] = [mem[w] EXCEPT ![r] = "approved"]
        BY <1>11, <2>3 DEF ExecApproved, Save, Goto, Hold, TypeInv, TypeOK
      <3>2. /\ r \in Requests /\ r \in stored /\ Queue[r] = "pending" /\ executed[r] = 0
            /\ \A v \in Workers : ~Owing(v, r)
        BY <2>1, Untouched
      <3>3. \A s \in Requests : executed'[s] = IF s = r THEN 1 ELSE executed[s]
        BY <3>1, <3>2 DEF TypeInv, TypeOK
      <3>4. mem[w] \in Queues
        BY <2>1 DEF TypeInv, HandTyped
      <3>5. Queue' = Queue
        BY <2>1 DEF Queue
      <3>6. ASSUME NEW v \in Workers, NEW s \in Requests
            PROVE  /\ Marking(v, s) => Marking(v, s)'
                   /\ Owing(v, s)' => Owing(v, s) /\ pc'[v] = pc[v]
        <4>1. CASE v = w
          BY <2>1, <3>1, <4>1 DEF Marking, Owing
        <4>2. CASE v # w
          BY <2>1, <4>2 DEF OthersRest, Marking, Owing
        <4> QED BY <4>1, <4>2
      <3>7. ASSUME NEW s \in Requests
            PROVE  /\ executed'[s] \in {0, 1}
                   /\ executed'[s] = 1 => /\ s \in stored'
                                          /\ \/ Queue'[s] \in {"approved", "absent"}
                                             \/ \E v \in Workers : Marking(v, s)'
        <4>1. /\ executed[s] \in {0, 1}
              /\ executed[s] = 1 => /\ s \in stored
                                    /\ \/ Queue[s] \in {"approved", "absent"}
                                       \/ \E v \in Workers : Marking(v, s)
          BY DEF Done
        <4>2. (\E v \in Workers : Marking(v, s)) => (\E v \in Workers : Marking(v, s)')
          BY <3>6
        <4>3. s \in stored => s \in stored'
          BY <2>1
        <4>4. CASE s = r
          <5>1. Marking(w, s)'
            BY <2>1, <3>1, <3>2, <3>4, <4>4 DEF Marking, Queues
          <5> QED BY <3>2, <3>3, <4>3, <4>4, <5>1
        <4>5. CASE s # r
          <5>1. executed'[s] = executed[s]
            BY <3>3, <4>5
          <5> QED BY <3>5, <4>1, <4>2, <4>3, <5>1
        <4> QED
          BY <4>4, <4>5
      <3>8. ASSUME NEW s \in Requests, NEW v \in Workers, Owing(v, s)'
            PROVE  /\ executed'[s] = 0 /\ s \in stored'
                   /\ IF pc'[v] = "writeQueue" THEN Queue'[s] = "pending"
                      ELSE Queue'[s] \in {"approved", "absent"}
                   /\ \A u \in Workers \ {v} : ~Owing(u, s)'
        <4>1. Owing(v, s) /\ pc'[v] = pc[v] /\ s # r
          BY <3>2, <3>6, <3>8
        <4>2. \A u \in Workers \ {v} : ~Owing(u, s)
          BY <4>1 DEF Done
        <4> QED
          BY <2>1, <3>3, <3>5, <3>6, <4>1, <4>2 DEF Done
      <3> QED
        BY <3>7, <3>8 DEF Done
    <2> QED BY <2>2, <2>3
  <1>12. ASSUME NEW w \in Workers, DecideProcessDual(w) PROVE Done'
    <2> DEFINE r == job[w].req
    <2>1. /\ pc[w] = "decide" /\ job[w].op = "processDual" /\ Acts(w) /\ OthersRest(w)
          /\ stored' = stored /\ UNCHANGED <<queueFile, executed>>
      BY <1>1, <1>12 DEF DecideProcessDual, Acts, Step
    <2>2. CASE Unlock(w)
      BY <1>2, <2>1, <2>2 DEF Unlock, Return, Goto, TypeInv, TypeOK
    <2>3. CASE ~Unlock(w)
      <3>1. /\ mem[w][r] = "pending" /\ pc'[w] = "writeQueue" /\ job'[w] = job[w]
        BY <1>12, <2>3 DEF DecideProcessDual, Save, Goto, TypeInv, TypeOK
      <3>2. /\ r \in Requests /\ r \in stored /\ Queue[r] = "pending" /\ executed[r] = 0
            /\ \A v \in Workers : ~Owing(v, r)
        BY <2>1, <3>1, Untouched
      <3>3. Queue' = Queue
        BY <2>1 DEF Queue
      <3>4. ASSUME NEW v \in Workers, NEW s \in Requests
            PROVE  /\ Marking(v, s) => Marking(v, s)'
                   /\ Owing(v, s)' => \/ Owing(v, s) /\ pc'[v] = pc[v] /\ v # w
                                      \/ v = w /\ s = r
        <4>1. CASE v = w
          BY <2>1, <3>1, <4>1 DEF Marking, Owing
        <4>2. CASE v # w
          BY <2>1, <4>2 DEF OthersRest, Marking, Owing
        <4> QED BY <4>1, <4>2
      <3>5. ASSUME NEW s \in Requests
            PROVE  /\ executed'[s] \in {0, 1}
                   /\ executed'[s] = 1 => /\ s \in stored'
                                          /\ \/ Queue'[s] \in {"approved", "absent"}
                                             \/ \E v \in Workers : Marking(v, s)'
        <4>1. executed'[s] = executed[s] /\ stored' = stored
          BY <2>1
        <4>2. /\ executed[s] \in {0, 1}
              /\ executed[s] = 1 => /\ s \in stored
                                    /\ \/ Queue[s] \in {"approved", "absent"}
                                       \/ \E v \in Workers : Marking(v, s)
          BY DEF Done
        <4>3. (\E v \in Workers : Marking(v, s)) => (\E v \in Workers : Marking(v, s)')
          BY <3>4
        <4> QED
          BY <3>3, <4>1, <4>2, <4>3
      <3>6. ASSUME NEW s \in Requests, NEW v \in Workers, Owing(v, s)'
            PROVE  /\ executed'[s] = 0 /\ s \in stored'
                   /\ IF pc'[v] = "writeQueue" THEN Queue'[s] = "pending"
                      ELSE Queue'[s] \in {"approved", "absent"}
                   /\ \A u \in Workers \ {v} : ~Owing(u, s)'
        <4>1. CASE v = w /\ s = r
          BY <2>1, <3>1, <3>2, <3>3, <3>4, <4>1
        <4>2. CASE ~(v = w /\ s = r)
          <5>1. Owing(v, s) /\ pc'[v] = pc[v] /\ s # r
            BY <3>2, <3>4, <3>6, <4>2
          <5>2. \A u \in Workers \ {v} : ~Owing(u, s)
            BY <5>1 DEF Done
          <5> QED
            BY <2>1, <3>3, <3>4, <5>1, <5>2 DEF Done
        <4> QED BY <4>1, <4>2
      <3> QED
        BY <3>5, <3>6 DEF Done
    <2> QED BY <2>2, <2>3
  <1>13. ASSUME NEW w \in Workers, ExecDual(w) PROVE Done'
    <2> DEFINE r == job[w].req
    <2>1. /\ pc[w] = "execDual" /\ pc'[w] = "idle" /\ Acts(w) /\ OthersRest(w)
          /\ UNCHANGED <<queueFile, stored>>
      BY <1>1, <1>13 DEF ExecDual, Return, Goto, Acts, Step, TypeInv, TypeOK
    <2>2. CASE executed' = executed
      BY <1>2, <2>1, <2>2
    <2>3. CASE executed' = [executed EXCEPT ![r] = @ + 1]
      <3>1. r \in Requests
        BY <2>1, JobAssumption DEF TypeInv, JobAtStep, JobType
      <3>2. Owing(w, r)
        BY <2>1 DEF Owing
      <3>3. /\ executed[r] = 0 /\ r \in stored /\ Queue[r] \in {"approved", "absent"}
            /\ \A v \in Workers \ {w} : ~Owing(v, r)
        BY <2>1, <3>1, <3>2 DEF Done
      <3>4. \A s \in Requests : executed'[s] = IF s = r THEN 1 ELSE executed[s]
        BY <2>3, <3>1, <3>3 DEF TypeInv, TypeOK
      <3>5. Queue' = Queue
        BY <2>1 DEF Queue
      <3>6. ASSUME NEW v \in Workers, NEW s \in Requests
            PROVE  /\ Marking(v, s) => Marking(v, s)'
                   /\ Owing(v, s)' => Owing(v, s) /\ pc'[v] = pc[v] /\ v # w
        <4>1. CASE v = w
          BY <2>1, <4>1 DEF Marking, Owing
        <4>2. CASE v # w
          BY <2>1, <4>2 DEF OthersRest, Marking, Owing
        <4> QED BY <4>1, <4>2
      <3>7. ASSUME NEW s \in Requests
            PROVE  /\ executed'[s] \in {0, 1}
                   /\ executed'[s] = 1 => /\ s \in stored'
                                          /\ \/ Queue'[s] \in {"approved", "absent"}
                                             \/ \E v \in Workers : Marking(v, s)'
        BY <2>1, <3>3, <3>4, <3>5, <3>6 DEF Done
      <3>8. ASSUME NEW s \in Requests, NEW v \in Workers, Owing(v, s)'
            PROVE  /\ executed'[s] = 0 /\ s \in stored'
                   /\ IF pc'[v] = "writeQueue" THEN Queue'[s] = "pending"
                      ELSE Queue'[s] \in {"approved", "absent"}
                   /\ \A u \in Workers \ {v} : ~Owing(u, s)'
        <4>1. Owing(v, s) /\ pc'[v] = pc[v] /\ s # r
          BY <3>3, <3>6, <3>8
        <4>2. \A u \in Workers \ {v} : ~Owing(u, s)
          BY <4>1 DEF Done
        <4> QED
          BY <2>1, <3>4, <3>5, <3>6, <4>1, <4>2 DEF Done
      <3> QED
        BY <3>7, <3>8 DEF Done
    <2> QED BY <1>13, <2>2, <2>3 DEF ExecDual
  <1>14. ASSUME NEW w \in Workers, ExecBotched(w) PROVE FALSE
    BY <1>14 DEF ExecBotched
  <1>15. Crash => FALSE
    BY DEF Crash
  <1>16. CASE UNCHANGED <<queueFile, pc, job, mem, stored, executed>>
    BY <1>16 DEF Done, Queue, Owing, Marking
  <1> QED
    BY <1>4, <1>5, <1>6, <1>7, <1>8, <1>9, <1>10, <1>11, <1>12, <1>13, <1>14, <1>15, <1>16
       DEF Next, Step, Age, vars

\* So it is at all times, where only the writing of signatures may fail.
LEMMA DoneAlways ==
    ASSUME Faults \subseteq {"sigWrite"}
    PROVE  Spec => [](BaseInv /\ Done)
  <1>1. Init => Done
    <2> SUFFICES ASSUME Init PROVE Done
      OBVIOUS
    <2>1. /\ \A r \in Requests : executed[r] = 0
          /\ \A w \in Workers : pc[w] = "idle"
      BY DEF Init
    <2> QED
      BY <2>1 DEF Done, Owing
  <1>2. BaseInv /\ Done /\ [Next]_vars => Done'
    BY DoneStep
  <1> QED
    BY <1>1, <1>2, BaseInvAlways, PTL DEF Spec

\* No action is carried out twice for one request, as long as handlers are not killed and
\* the queue file can be written; signatures may be missing, stale or impossible to write
\* (_process_approval_inner, _process_dual_approval).
THEOREM CarriedOutOnce ==
    ASSUME Faults \subseteq {"sigWrite"}
    PROVE  Spec => []ExecutedOnce
  <1>1. Done => ExecutedOnce
    BY DEF Done, ExecutedOnce
  <1> QED
    BY <1>1, DoneAlways, PTL

\* Under the same conditions, what is rejected, cancelled or marked failed has not been
\* carried out and nobody is about to.
THEOREM RefusedStaysUndone ==
    ASSUME Faults \subseteq {"sigWrite"}
    PROVE  Spec => []RefusedIsNotDone
  <1>1. BaseInv /\ Done => RefusedIsNotDone
    <2> SUFFICES ASSUME BaseInv, Done, NEW r \in Requests,
                        Queue[r] \in {"rejected", "cancelled", "failed"}
                 PROVE  /\ executed[r] = 0
                        /\ \A w \in Workers : pc[w] \in {"exec", "execDual"} => job[w].req # r
      BY DEF RefusedIsNotDone
    <2> USE DEF BaseInv, SigInv, FinalInv
    <2>1. executed[r] = 0
      <3>1. ASSUME NEW w \in Workers, Marking(w, r), r \in stored PROVE FALSE
        BY <3>1 DEF Marking, InHand, Derived, Locked
      <3> QED
        BY <3>1 DEF Done
    <2>2. ASSUME NEW w \in Workers, pc[w] = "exec", job[w].req = r PROVE FALSE
      <3>1. job[w].op = "process"
        BY <2>2 DEF TypeInv, JobAtStep
      <3>2. r \in stored /\ mem[w][r] = "pending"
        BY <2>2, <3>1 DEF Assigned, InHand
      <3> QED
        BY <2>2, <3>2 DEF InHand, Derived, Locked
    <2>3. ASSUME NEW w \in Workers, pc[w] = "execDual", job[w].req = r PROVE FALSE
      BY <2>3 DEF Done, Owing
    <2> QED
      BY <2>1, <2>2, <2>3
  <1> QED
    BY <1>1, DoneAlways, PTL
----------------------------------------------------------------------------
(* The files and the lock together are one atomic queue.                   *)

\* What the holder of the lock is about to write is the queue in the file with one
\* change that the promised queue allows; nobody else writes meanwhile.
WritesChange(w) ==
    LET r == job[w].req IN
    /\ pc[w] = "expireQueue" => \E X \in SUBSET aged : mem[w] = ExpirePending(Queue, X)
    /\ pc[w] = "dropQueue" => mem[w] = CancelConflicts(Queue, r)
    /\ pc[w] = "writeQueue" =>
          IF job[w].op = "submit"
          THEN \E X \in SUBSET aged :
                  LET q == ExpirePending(Queue, X) IN
                  ~ConflictError(q, r) /\ mem[w] = [q EXCEPT ![r] = "pending"]
          ELSE IF job[w].op = "submitDual"
          THEN mem[w] = [Queue EXCEPT ![r] = "pending"]
          ELSE /\ Queue[r] = "pending"
               /\ \E s \in Status \ {"pending"} : mem[w] = [Queue EXCEPT ![r] = s]

WritesChanges == \A w \in Workers : WritesChange(w)

\* While nothing fails, decisions are taken on the queue in the file.
LEMMA OnTheQueue ==
    ASSUME BaseInv, Steady, NEW w \in Workers, pc[w] \in {"decide", "exec", "conflicts"}
    PROVE  mem[w] = Queue /\ Queue \in Queues
  <1>1. mem[w] = queueFile /\ queueFile \in Queues
    BY DEF BaseInv, SigInv, SignedInv, FreshSig, Steady
  <1> QED
    BY <1>1, QueueInHand DEF Queue

\* The step of a worker that comes to a write.
LEMMA ComesToWrite ==
    ASSUME BaseInv, Steady, NEW w \in Workers, Acts(w), pc'[w] \in Writing, ~(pc[w] \in Writing)
    PROVE  WritesChange(w)'
  <1> DEFINE r == job[w].req
  <1> USE DEF BaseInv, SigInv, FinalInv
  <1>0. job'[w] = job[w] /\ pc[w] # "idle"
    <2>1. \A j \in Jobs : ~Begin(w, j)
      BY DEF Begin, Goto, Writing, TypeInv, TypeOK
    <2> QED
      BY <2>1, KeepsJob DEF Writing
  <1>q. aged' = aged /\ Queue' = Queue
    <2>1. ~ReplaceQueue(w)
      BY DEF ReplaceQueue
    <2>2. queueFile' = queueFile /\ aged' = aged
      BY <2>1 DEF Acts, Step, Begin, WriteFails, BootstrapFails, ExecBotched, history, files,
               DecideSubmit, DecideSubmitDual,
               Acquire, LockTimeout, ReadQueue, VerifySig, BootstrapSig,
               ReplaceSig, EarlyCheck, DecideCancel, DecideProcess, ExecApproved,
               DecideProcessDual, ExecDual, DecideRemove, Release
    <2> QED
      BY <2>2 DEF Queue
  <1>1. CASE pc'[w] = "expireQueue"
    <2>1. VerifySig(w)
      BY <1>1, NextSteps
         DEF Acts, Step, Begin, WriteFails, BootstrapFails, ExecBotched, AfterWrite,
             DecideSubmit, DecideSubmitDual, Acquire, LockTimeout, ReadQueue, BootstrapSig,
             ReplaceQueue, ReplaceSig, EarlyCheck, DecideCancel, DecideProcess, ExecApproved,
             DecideProcessDual, ExecDual, DecideRemove, Release, Goto, Return, Save, Unlock,
             SignedInv, Steady, TypeInv, TypeOK, Signing
    <2>2. sigFile # NoSig /\ queueFile \in Queues
      BY NullAssumption DEF SignedInv, Steady
    <2>3. /\ AfterRead(w) = "expireQueue"
          /\ mem'[w] = AfterReadQueue(w, IF sigFile = mem[w] THEN mem[w] ELSE Empty)
      BY <1>1, <2>1, <2>2 DEF VerifySig, Goto, Hold, TypeInv, TypeOK
    <2>4. pc[w] = "readSig" /\ mem[w] = queueFile
      BY <2>1, <2>3 DEF VerifySig, AfterRead, InHand
    <2>5. sigFile = queueFile
      BY <2>4 DEF FreshSig, TypeInv, LockHeld, Locked, Signing
    <2>6. mem'[w] = ExpirePending(Queue', aged')
      BY <1>q, <2>2, <2>3, <2>4, <2>5, QueueInHand DEF AfterReadQueue, Queue
    <2> QED
      BY <1>1, <2>6 DEF WritesChange
  <1>2. CASE pc'[w] = "dropQueue"
    <2>1. DecideRemove(w)
      BY <1>2, NextSteps
         DEF Acts, Step, Begin, WriteFails, BootstrapFails, ExecBotched, VerifySig,
             DecideSubmit, DecideSubmitDual, Acquire, LockTimeout, ReadQueue, BootstrapSig,
             ReplaceQueue, ReplaceSig, EarlyCheck, DecideCancel, DecideProcess, ExecApproved,
             DecideProcessDual, ExecDual, Release, Goto, Return, Save, Unlock,
             TypeInv, TypeOK, Signing
    <2>2. mem'[w] = CancelConflicts(mem[w], r) /\ pc[w] \in {"decide", "conflicts"}
      BY <1>2, <2>1 DEF DecideRemove, Goto, Return, Hold, Unlock, TypeInv, TypeOK
    <2>3. mem[w] = Queue
      BY <2>2, OnTheQueue
    <2>4. CancelConflicts(mem[w], r) = CancelConflicts(Queue', job'[w].req)
      BY <1>0, <1>q, <2>3
    <2> QED
      BY <1>2, <2>2, <2>4 DEF WritesChange
  <1>3. CASE pc'[w] = "writeQueue"
    <2>1. /\ pc[w] \in {"decide", "exec"} /\ job[w].op \notin {"remove", "poll"}
          /\ mem[w] = Queue
      BY <1>3, Entrances, OnTheQueue
    <2>2. ~Unlock(w)
      BY <1>3 DEF Unlock, Return, Goto, TypeInv, TypeOK
    <2>3. CASE job[w].op = "submit"
      <3>1. DecideSubmit(w)
        BY <1>3, <2>1, <2>3
           DEF Acts, Step, Begin, WriteFails, BootstrapFails, ExecBotched, VerifySig,
               DecideSubmitDual, Acquire, LockTimeout, ReadQueue, BootstrapSig,
               ReplaceQueue, ReplaceSig, EarlyCheck, DecideCancel, DecideProcess, ExecApproved,
               DecideProcessDual, ExecDual, DecideRemove, Release, JobAtStep, TypeInv,
               Writing, Signing
      <3>2. /\ ~ConflictError(ExpirePending(Queue, aged), r)
            /\ mem'[w] = [ExpirePending(Queue, aged) EXCEPT ![r] = "pending"]
        BY <2>1, <2>2, <3>1 DEF DecideSubmit, Save, Hold, TypeInv, TypeOK
      <3>3. \E X \in SUBSET aged' :
               /\ ~ConflictError(ExpirePending(Queue', X), job'[w].req)
               /\ mem'[w] = [ExpirePending(Queue', X) EXCEPT ![job'[w].req] = "pending"]
        BY <1>0, <1>q, <3>2
      <3> QED
        BY <1>0, <1>3, <2>3, <3>3 DEF WritesChange
    <2>4. CASE job[w].op = "submitDual"
      <3>1. DecideSubmitDual(w)
        BY <1>3, <2>1, <2>4
           DEF Acts, Step, Begin, WriteFails, BootstrapFails, ExecBotched, VerifySig,
               DecideSubmit, Acquire, LockTimeout, ReadQueue, BootstrapSig,
               ReplaceQueue, ReplaceSig, EarlyCheck, DecideCancel, DecideProcess, ExecApproved,
               DecideProcessDual, ExecDual, DecideRemove, Release, JobAtStep, TypeInv,
               Writing, Signing
      <3>2. mem'[w] = [Queue' EXCEPT ![job'[w].req] = "pending"]
        BY <1>0, <1>q, <2>1, <3>1 DEF DecideSubmitDual, Save, Hold, TypeInv, TypeOK
      <3> QED
        BY <1>0, <1>3, <2>4, <3>2 DEF WritesChange
    <2>5. CASE job[w].op \notin Submissions
      <3>1. \/ DecideCancel(w) \/ DecideProcess(w) \/ DecideProcessDual(w)
            \/ ExecApproved(w) \/ ExecBotched(w)
        BY <1>3, <2>1, <2>5
           DEF Acts, Step, Begin, WriteFails, BootstrapFails, VerifySig, Submissions,
               DecideSubmit, DecideSubmitDual, Acquire, LockTimeout, ReadQueue, BootstrapSig,
               ReplaceQueue, ReplaceSig, EarlyCheck, ExecDual, DecideRemove, Release,
               Writing, Signing
      <3>2. /\ mem[w][r] = "pending"
            /\ \E t \in Status \ {"pending"} : Save(w, [mem[w] EXCEPT ![r] = t])
        <4>1. CASE DecideCancel(w) \/ DecideProcess(w)
          <5>1. ~Goto(w, "exec")
            BY <1>3 DEF Goto, TypeInv, TypeOK
          <5> QED
            BY <2>2, <4>1, <5>1 DEF DecideCancel, DecideProcess, Status
        <4>2. CASE DecideProcessDual(w)
          BY <2>2, <4>2 DEF DecideProcessDual, Status
        <4>3. CASE ExecApproved(w) \/ ExecBotched(w)
          <5>1. mem[w][r] = "pending"
            BY <4>3 DEF ExecApproved, ExecBotched, InHand
          <5> QED
            BY <2>2, <4>3, <5>1 DEF ExecApproved, ExecBotched, Status
        <4> QED BY <3>1, <4>1, <4>2, <4>3
      <3>3. /\ Queue'[job'[w].req] = "pending"
            /\ \E t \in Status \ {"pending"} : mem'[w] = [Queue' EXCEPT ![job'[w].req] = t]
        BY <1>0, <1>q, <2>1, <3>2 DEF Save, Hold, TypeInv, TypeOK
      <3> QED
        BY <1>0, <1>3, <2>5, <3>3 DEF WritesChange, Submissions
    <2> QED
      BY <2>3, <2>4, <2>5 DEF Submissions
  <1> QED
    BY <1>1, <1>2, <1>3 DEF Writing

\* What is about to be written is one change of what is in the file.
LEMMA WritesChangesStep ==
    ASSUME BaseInv, WritesChanges, [Next]_vars, Steady
    PROVE  WritesChanges'
  <1> USE DEF BaseInv, SigInv, FinalInv
  <1>1. ASSUME NEW v \in Workers, pc'[v] = pc[v], job'[v] = job[v], mem'[v] = mem[v],
               Queue' = Queue, aged \subseteq aged'
        PROVE  WritesChange(v)'
    BY <1>1 DEF WritesChanges, WritesChange
  <1>2. ASSUME NEW w \in Workers, Acts(w) PROVE WritesChanges'
    <2>1. OthersRest(w)
      BY <1>2, OneMoves DEF Acts
    <2>2. aged' = aged /\ (queueFile' = queueFile \/ ReplaceQueue(w))
      BY <1>2 DEF Acts, Step, Begin, WriteFails, BootstrapFails, ExecBotched, history, files,
               DecideSubmit, DecideSubmitDual, ReplaceQueue,
               Acquire, LockTimeout, ReadQueue, VerifySig, BootstrapSig,
               ReplaceSig, EarlyCheck, DecideCancel, DecideProcess, ExecApproved,
               DecideProcessDual, ExecDual, DecideRemove, Release
    <2>3. ASSUME NEW v \in Workers \ {w} PROVE WritesChange(v)'
      <3>1. CASE pc'[v] \notin Writing
        BY <3>1 DEF WritesChange, Writing
      <3>2. CASE pc'[v] \in Writing
        <4>1. pc[v] \in Locked
          BY <2>1, <3>2 DEF OthersRest, Writing, Locked
        <4>2. ~ReplaceQueue(w)
          BY <4>1 DEF ReplaceQueue, Writing, Locked, TypeInv, LockHeld
        <4>3. Queue' = Queue
          BY <2>2, <4>2 DEF Queue
        <4> QED
          BY <1>1, <2>1, <2>2, <4>3 DEF OthersRest
      <3> QED BY <3>1, <3>2
    <2>4. WritesChange(w)'
      <3>1. CASE pc'[w] \notin Writing
        BY <3>1 DEF WritesChange, Writing
      <3>2. CASE pc'[w] \in Writing
        <4>1. pc[w] \notin Writing
          <5> SUFFICES ASSUME pc[w] \in Writing PROVE FALSE
            OBVIOUS
          <5>1. ReplaceQueue(w) \/ WriteFails(w)
            BY <1>2
               DEF Acts, Step, Begin, BootstrapFails, ExecBotched, DecideSubmit,
                   DecideSubmitDual, Acquire, LockTimeout, ReadQueue, VerifySig, BootstrapSig,
                   ReplaceSig, EarlyCheck, DecideCancel, DecideProcess, ExecApproved, Signing,
                   DecideProcessDual, ExecDual, DecideRemove, Release, Writing
          <5>2. pc'[w] \in {SigStep(w), AfterWrite(w)}
            BY <5>1 DEF ReplaceQueue, WriteFails, Goto, TypeInv, TypeOK
          <5> QED
            BY <3>2, <5>2, NextSteps DEF Writing, Signing
        <4> QED
          BY <1>2, <3>2, <4>1, ComesToWrite DEF BaseInv
      <3> QED BY <3>1, <3>2
    <2> QED
      BY <2>3, <2>4 DEF WritesChanges
  <1>3. ASSUME NEW r \in Requests, Age(r) PROVE WritesChanges'
    BY <1>3, <1>1 DEF Age, WritesChanges, Queue, files
  <1>4. CASE Crash
    BY <1>4 DEF Crash, WritesChanges, WritesChange
  <1>5. CASE UNCHANGED vars
    BY <1>5, <1>1 DEF vars, WritesChanges, Queue
  <1> QED
    BY <1>2, <1>3, <1>4, <1>5 DEF Next, Acts

\* A step that replaces the queue file is one change of the promised queue.
LEMMA ReplaceIsAtomic ==
    ASSUME BaseInv, WritesChanges, NEW w \in Workers, ReplaceQueue(w)
    PROVE  Atomic!QNext
  <1> DEFINE r == job[w].req
  <1> USE DEF BaseInv, SigInv, FinalInv
  <1>1. /\ pc[w] \in Writing /\ mem[w] \in Queues /\ queueFile' = mem[w] /\ aged' = aged
        /\ stored' = stored \cup {s \in Requests : mem[w][s] # "absent"}
    BY DEF ReplaceQueue, Writing, TypeInv, HandTyped
  <1>2. Queue' = mem[w]
    BY <1>1, QueueInHand DEF Queue
  <1>3. r \in Requests /\ Queue \in Queues /\ aged \subseteq Requests
    BY <1>1, JobAssumption, ParsedType
       DEF TypeInv, TypeOK, JobAtStep, JobType, Writing, Queue
  <1>4. \A s \in Requests : Queue[s] # "absent" => s \in stored
    BY DEF NewOnce
  <1>5. CASE pc[w] = "expireQueue"
    <2>1. PICK X \in SUBSET aged : mem[w] = ExpirePending(Queue, X)
      BY <1>5 DEF WritesChanges, WritesChange
    <2>2. stored' = stored
      BY <1>1, <1>3, <1>4, <2>1, ExpireType
    <2>3. Atomic!Sweep(X)
      BY <1>1, <1>2, <2>1, <2>2
         DEF Atomic!Sweep, Atomic!ExpirePending, ExpirePending
    <2> QED
      BY <2>3 DEF Atomic!QNext
  <1>6. CASE pc[w] = "dropQueue"
    <2>1. mem[w] = CancelConflicts(Queue, r) /\ Kind[r] \in Removals
      BY <1>6 DEF WritesChanges, WritesChange, Assigned
    <2>2. stored' = stored
      BY <1>1, <1>3, <1>4, <2>1, CancelType
    <2>3. Atomic!Cancel(r)
      BY <1>1, <1>2, <2>1, <2>2
         DEF Atomic!Cancel, Atomic!CancelConflicts, CancelConflicts, Atomic!CheckConflicts,
             CheckConflicts, Atomic!Pending, Pending, Atomic!Removals, Removals
    <2> QED
      BY <1>3, <2>3 DEF Atomic!QNext
  <1>7. CASE pc[w] = "writeQueue" /\ job[w].op = "submit"
    <2>1. PICK X \in SUBSET aged :
             /\ ~ConflictError(ExpirePending(Queue, X), r)
             /\ mem[w] = [ExpirePending(Queue, X) EXCEPT ![r] = "pending"]
      BY <1>7 DEF WritesChanges, WritesChange
    <2>2. r \notin stored
      BY <1>7 DEF NewOnce, Submitting, Submissions, Unsaved
    <2>3. /\ ExpirePending(Queue, X) \in Queues
          /\ \A s \in Requests : ExpirePending(Queue, X)[s] \in {Queue[s], "absent"}
      BY <1>3, ExpireType
    <2>4. \A s \in Requests : mem[w][s] = IF s = r THEN "pending"
                                          ELSE ExpirePending(Queue, X)[s]
      BY <2>1, <2>3 DEF Queues
    <2>5. stored' = stored \cup {r}
      BY <1>1, <1>3, <1>4, <2>3, <2>4
    <2>6. Atomic!Submit(r, X)
      BY <1>1, <1>2, <2>1, <2>2, <2>5
         DEF Atomic!Submit, Atomic!ExpirePending, ExpirePending, Atomic!ConflictError,
             ConflictError, Atomic!Conflicts, Conflicts, Atomic!Pending, Pending,
             Atomic!RuleOnly, RuleOnly
    <2> QED
      BY <1>3, <2>6 DEF Atomic!QNext
  <1>8. CASE pc[w] = "writeQueue" /\ job[w].op = "submitDual"
    <2>1. mem[w] = [Queue EXCEPT ![r] = "pending"] /\ Kind[r] = "dual"
      BY <1>8 DEF WritesChanges, WritesChange, TypeInv, JobAtStep
    <2>2. r \notin stored
      BY <1>8 DEF NewOnce, Submitting, Submissions, Unsaved
    <2>3. \A s \in Requests : mem[w][s] = IF s = r THEN "pending" ELSE Queue[s]
      BY <1>3, <2>1 DEF Queues
    <2>4. stored' = stored \cup {r}
      BY <1>1, <1>3, <1>4, <2>3
    <2>5. Atomic!ExpirePending(Queue, {}) = Queue
      BY <1>3 DEF Atomic!ExpirePending, Queues
    <2>6. Atomic!Submit(r, {})
      BY <1>1, <1>2, <2>1, <2>2, <2>4, <2>5 DEF Atomic!Submit
    <2> QED
      BY <1>3, <2>6 DEF Atomic!QNext
  <1>9. CASE pc[w] = "writeQueue" /\ job[w].op \notin Submissions
    <2>1. Queue[r] = "pending"
      BY <1>9 DEF WritesChanges, WritesChange, Submissions
    <2>2. PICK t \in Status \ {"pending"} : mem[w] = [Queue EXCEPT ![r] = t]
      BY <1>9 DEF WritesChanges, WritesChange, Submissions
    <2>3. \A s \in Requests : mem[w][s] # "absent" => s \in stored
      BY <1>3, <1>4, <2>1, <2>2 DEF Queues
    <2>4. stored' = stored
      BY <1>1, <2>3
    <2>5. Atomic!Resolve(r, t)
      BY <1>1, <1>2, <2>1, <2>2, <2>4 DEF Atomic!Resolve, Atomic!Status, Status
    <2> QED
      BY <1>3, <2>5 DEF Atomic!QNext, Atomic!Status, Status
  <1> QED
    BY <1>1, <1>5, <1>6, <1>7, <1>8, <1>9 DEF Writing, Submissions

\* Every step is a step of the promised queue or changes nothing of it.
LEMMA StepsAreAtomic ==
    ASSUME BaseInv, WritesChanges, [Next]_vars
    PROVE  [Atomic!QNext]_(Atomic!qvars)
  <1>1. CASE \E w \in Workers : ReplaceQueue(w)
    BY <1>1, ReplaceIsAtomic
  <1>2. ASSUME NEW r \in Requests, Age(r) PROVE Atomic!QNext
    <2>1. Atomic!GrowOld(r)
      BY <1>2 DEF Age, Atomic!GrowOld, Queue, files, history
    <2> QED
      BY <2>1 DEF Atomic!QNext
  <1>3. CASE /\ ~\E w \in Workers : ReplaceQueue(w)
             /\ ~\E r \in Requests : Age(r)
    <2>1. UNCHANGED <<queueFile, stored, aged>>
      BY <1>3
         DEF Next, Step, vars, files, history, Acquire, LockTimeout, ReadQueue, VerifySig,
             BootstrapSig, BootstrapFails, ReplaceSig, WriteFails, Begin, EarlyCheck, Release,
             ExecDual, DecideRemove, DecideSubmit, DecideSubmitDual, DecideCancel,
             DecideProcess, ExecApproved, ExecBotched, DecideProcessDual, Crash
    <2> QED
      BY <2>1 DEF Atomic!qvars, Queue
  <1> QED
    BY <1>1, <1>2, <1>3

\* Once the queue is signed, and unless a write fails or splunkd crashes, the two files,
\* the lock and the workers are together the atomic queue of AtomicQueue: whatever the
\* interleaving, each replacement of the file is one submission, one resolution, one
\* sweep or one cancellation, decided on the queue that it replaces.
THEOREM QueueIsAtomic ==
    ASSUME Start = "signed", Faults \subseteq {"aftermath"}
    PROVE  Spec => ImplementsAtomicQueue
  <1>1. Steady
    BY DEF Steady
  <1>2. Init => WritesChanges
    BY DEF Init, WritesChanges, WritesChange
  <1>3. BaseInv /\ WritesChanges /\ [Next]_vars => WritesChanges'
    BY <1>1, WritesChangesStep
  <1>4. Init => Atomic!QInit
    BY QueueTypes, QueueInHand DEF Init, Atomic!QInit, Queue, QueueAtStart
  <1>5. BaseInv /\ WritesChanges /\ [Next]_vars => [Atomic!QNext]_(Atomic!qvars)
    BY StepsAreAtomic
  <1> QED
    BY <1>2, <1>3, <1>4, <1>5, BaseInvAlways, PTL
       DEF Spec, ImplementsAtomicQueue, Atomic!QSpec

=============================================================================
