---------------------------- MODULE RequestQueue ----------------------------
(***************************************************************************)
(* Requests for approval, and the pure functions of bin/wl_approval.py and *)
(* bin/wl_handler.py on a queue held in memory.  A queue is a function     *)
(* from request ids to a status, or "absent"; the age of an entry is       *)
(* reduced to the one bit the code looks at, "submitted more than          *)
(* APPROVAL_EXPIRY_DAYS ago".                                              *)
(***************************************************************************)
EXTENDS Naturals, FiniteSets

CONSTANTS
    Requests,               \* request ids (uuid4: never issued twice)
    Users,                  \* analysts and admins
    Kind,                   \* the action type of each request
    Csv,                    \* the "csv_file" of each request
    Rule,                   \* the "detection_rule" of each request
    Analyst                 \* who submits each request

Kinds  == {"edit", "create_csv", "remove_csv", "create_rule", "remove_rule",
           "dual"}
Status == {"pending", "approved", "rejected", "cancelled", "failed"}
Queues == [Requests -> Status \cup {"absent"}]
Empty  == [r \in Requests |-> "absent"]

Removals == {"remove_csv", "remove_rule"}
RuleOnly == {"create_rule", "remove_rule"}

\* expire_pending_approvals: drop what was submitted too long ago.  A
\* "failed" entry is in neither of the two status tests and always stays.
ExpirePending(q, aged) ==
    [r \in Requests |->
        IF r \in aged /\ q[r] # "failed" THEN "absent" ELSE q[r]]

Pending(q) == {r \in Requests : q[r] = "pending"}

\* A new request r is refused while s is pending: a rule operation because of
\* one on the same rule, any other because of one that names the same CSV.
Conflicts(r, s) ==
    /\ Kind[s] # "dual"
    /\ IF Kind[r] \in RuleOnly
       THEN Kind[s] \in RuleOnly /\ Rule[s] = Rule[r]
       ELSE Csv[s] = Csv[r]

\* _approval_conflict_error(queue, action_type, user, csv_file, rule)
ConflictError(q, r) == \E s \in Pending(q) : Conflicts(r, s)

\* Two requests that can not be pending together in either order.
SameTarget(r, s) == Conflicts(r, s) /\ Conflicts(s, r)

\* check_conflicts for the removal r: every pending request under the rule,
\* or every pending request for the CSV under that same rule.
CheckConflicts(q, r) ==
    {s \in Pending(q) :
        /\ Kind[s] # "dual"
        /\ Rule[s] = Rule[r]
        /\ Kind[r] = "remove_csv" => Csv[s] = Csv[r]}

\* A faulty variant of the next definition: the entries get a status of
\* their own, which no reader of the queue knows.
SupersedeConflicts(q, r) ==
    [s \in Requests |-> IF s \in CheckConflicts(q, r) THEN "superseded" ELSE q[s]]

\* cancel_conflicts: the entries are dropped from the queue.
CancelConflicts(q, r) ==
    [s \in Requests |-> IF s \in CheckConflicts(q, r) THEN "absent" ELSE q[s]]

ASSUME RequestAssumption ==
    /\ Kind \in [Requests -> Kinds]
    /\ Analyst \in [Requests -> Users]
=============================================================================
