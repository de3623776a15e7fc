-------------------------- MODULE MCApprovalQueue --------------------------
(* ApprovalQueue for TLC: the requests clients make and their attributes.   *)
EXTENDS ApprovalQueue, TLC

CONSTANTS e1, e2,               \* two edits of one CSV by two analysts
          rr,                   \* the removal of that CSV
          dd,                   \* a dual-admin request
          ann, bob, cam, dan,   \* two analysts and two admins
          csv, rule

MCUsers   == {ann, bob, cam, dan}
MCKind    == [r \in Requests |-> IF r = rr THEN "remove_csv"
                                 ELSE IF r = dd THEN "dual" ELSE "edit"]
MCCsv     == [r \in Requests |-> IF r = dd THEN "none" ELSE csv]
MCRule    == [r \in Requests |-> IF r = dd THEN "none" ELSE rule]
MCAnalyst == [r \in Requests |-> IF r = e1 THEN ann
                                 ELSE IF r = dd THEN cam ELSE bob]

Ask(op, r, u, d) == [op |-> op, req |-> r, user |-> u, decision |-> d]

Submits == {Ask(IF r = dd THEN "submitDual" ELSE "submit", r, MCAnalyst[r],
                "approve") : r \in Requests}
Verdicts(r) == {Ask("process", r, cam, d) : d \in {"approve", "reject"}}

\* An edit and a removal that compete for a CSV, and a dual-admin request:
\* submissions, verdicts by others and by oneself, withdrawals by the requester
\* and by another, a removal an admin makes without asking, and a poll.
MCRequestsAll == {e1, rr, dd}
MCJobsAll ==
    Submits \cup Verdicts(e1)
    \cup {Ask("process", rr, cam, "approve"), Ask("process", rr, bob, "approve"),
          Ask("process", dd, cam, "reject"), Ask("remove", rr, cam, "approve"),
          Ask("cancelRequest", e1, ann, "cancel"), Ask("cancelRequest", e1, bob, "cancel"),
          Ask("processDual", dd, dan, "approve"), Ask("processDual", dd, dan, "reject"),
          Ask("processDual", dd, cam, "approve"), Ask("poll", e1, dan, "approve")}

\* Two competing edits, for the runs with faults.
MCRequestsTwo == {e1, e2}
MCJobsTwo == Submits \cup Verdicts(e1) \cup {Ask("poll", e1, dan, "approve")}

\* Workers are interchangeable.
WorkerSymmetry == Permutations(Workers)

\* Bound: only the edit e1 grows old.
AgingBound == aged \subseteq {e1}

MCNone == {}
MCNoFaults == {}
MCAllFaults == {"crash", "queueWrite", "sigWrite", "aftermath"}
=============================================================================
