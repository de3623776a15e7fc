---------------------------- MODULE AtomicQueue ----------------------------
(***************************************************************************)
(* What the approval queue promises: one shared queue whose every change   *)
(* is atomic.  A request enters the queue once, pending and without a      *)
(* rival for its target; it is resolved once; it leaves the queue only     *)
(* because it is older than APPROVAL_EXPIRY_DAYS or because the rule or    *)
(* CSV it is about has been removed.  There are no files, locks,           *)
(* signatures or workers here.                                             *)
(***************************************************************************)
EXTENDS RequestQueue

CONSTANT AtStart    \* requests pending at the start

VARIABLES queue,    \* the queue
          known,    \* every request that was ever on it
          old       \* requests submitted more than APPROVAL_EXPIRY_DAYS ago

qvars == <<queue, known, old>>

QInit ==
    /\ queue = [r \in Requests |-> IF r \in AtStart THEN "pending" ELSE "absent"]
    /\ known = AtStart
    /\ old = {}

\* Drop some of what is too old.
Sweep(X) ==
    /\ X \subseteq old
    /\ queue' = ExpirePending(queue, X)
    /\ UNCHANGED <<known, old>>

\* A new request, with the sweep its submission performs.  Only a dual-admin
\* request may be submitted next to a rival.
Submit(r, X) ==
    /\ X \subseteq old
    /\ r \notin known
    /\ LET q == ExpirePending(queue, X) IN
       /\ Kind[r] = "dual" \/ ~ConflictError(q, r)
       /\ queue' = [q EXCEPT ![r] = "pending"]
    /\ known' = known \cup {r}
    /\ UNCHANGED old

Resolve(r, s) ==
    /\ queue[r] = "pending"
    /\ s \in Status \ {"pending"}
    /\ queue' = [queue EXCEPT ![r] = s]
    /\ UNCHANGED <<known, old>>

\* The rule or CSV that removal r is about no longer exists.
Cancel(r) ==
    /\ Kind[r] \in Removals
    /\ queue' = CancelConflicts(queue, r)
    /\ UNCHANGED <<known, old>>

GrowOld(r) ==
    /\ r \in known
    /\ old' = old \cup {r}
    /\ UNCHANGED <<queue, known>>

QNext ==
    \/ \E X \in SUBSET old : Sweep(X) \/ \E r \in Requests : Submit(r, X)
    \/ \E r \in Requests, s \in Status : Resolve(r, s)
    \/ \E r \in Requests : Cancel(r) \/ GrowOld(r)

QSpec == QInit /\ [][QNext]_qvars
=============================================================================
