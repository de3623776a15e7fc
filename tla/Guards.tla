------------------------------- MODULE Guards -------------------------------
(***************************************************************************)
(* What the handler asks before it lets a rare operation through: the      *)
(* emergency lockdown and the cooldown between two purge requests of one   *)
(* user.                                                                   *)
(*                                                                         *)
(* The lockdown is a small file, changed under a lock, truncated and       *)
(* written in place, and read without the lock when a request arrives.     *)
(* The cooldowns are one signed KV record that every purge request, and    *)
(* every change of the admin limits, reads and writes without a lock.  A   *)
(* marker on disk says that the record has existed: when it is missing all *)
(* the same, or its signature is wrong, a flag on disk blocks both         *)
(* operations until a script clears record, marker and flag.               *)
(***************************************************************************)
EXTENDS Integers

CONSTANTS
    Users,
    Does,           \* what each of them may ask for
    Workers,        \* requests served at the same time
    Cooldown,       \* PURGE_COOLDOWN_SECONDS
    MaxTime,        \* bound on the time
    MaxRequests,    \* bound on the requests
    MaxLosses,      \* bound on the times the record is lost or altered
    MaxFaults,      \* bound on the failures
    Missing,        \* no record
    Altered,        \* a record whose signature is wrong
    Torn,           \* a file that has been truncated
    NoOne

Ops == {"purge", "change", "activate", "deactivate"}

ASSUME GuardsAssumption ==
    /\ Does \in [Users -> SUBSET Ops]
    /\ {Cooldown, MaxTime, MaxRequests, MaxLosses, MaxFaults} \subseteq Nat
    /\ NoOne \notin Users \cup Workers /\ Torn \notin Users \cup {NoOne}
    /\ Missing # Altered
    /\ Missing \notin [Users -> Int] /\ Altered \notin [Users -> Int]

VARIABLES
    lockdown,   \* _emergency_lockdown.json: who has locked the app, if anyone
    holder,     \* of its lock
    record,     \* the KV record: when each user last asked for a purge
    marker,     \* .cooldown_initialized
    flag,       \* .cooldown_tamper
    clock,
    script,     \* next step of reset_cooldowns.sh
    pc, loc,
    asked, losses, faults,
    let,        \* history: when the last purge request of a user passed its check
    skipped,    \* history: one was let through too early
    lost,       \* history: the record has been lost or altered since it was reset
    keyless,    \* history: the key could not be derived since the flag was cleared
    raced       \* history: two requests have read and written the record at once

gate == <<lockdown, holder>>
cooldowns == <<record, marker, flag>>
history == <<let, skipped, lost, keyless>>
bounds == <<asked, losses, faults>>
vars == <<gate, cooldowns, clock, script, pc, loc, bounds, history, raced>>

Never == -Cooldown
NoCooldowns == [u \in Users |-> Never]
Idle == [op |-> "none", user |-> NoOne, again |-> FALSE, at |-> 0, data |-> NoCooldowns]

Init ==
    /\ lockdown = NoOne /\ holder = NoOne
    /\ record = Missing /\ marker = FALSE /\ flag = FALSE
    /\ clock = 0
    /\ script = "no"
    /\ pc = [w \in Workers |-> "idle"]
    /\ loc = [w \in Workers |-> Idle]
    /\ asked = 0 /\ losses = 0 /\ faults = 0
    /\ let = NoCooldowns
    /\ skipped = FALSE /\ lost = FALSE /\ keyless = FALSE
    /\ raced = FALSE

Goto(w, from, to) == pc[w] = from /\ pc' = [pc EXCEPT ![w] = to]

\* _read_lockdown_state: what cannot be parsed is no lockdown.
LockedDown == lockdown \in Users

\* A POST arrives.  Under a lockdown only its own two operations are let in.
Begin(w) ==
    \E u \in Users : \E op \in Does[u] :
        /\ asked < MaxRequests /\ asked' = asked + 1
        /\ op \in {"activate", "deactivate"} \/ ~LockedDown
        /\ Goto(w, "idle", IF op \in {"activate", "deactivate"} THEN "take" ELSE "get")
        /\ loc' = [loc EXCEPT ![w] = [Idle EXCEPT !.op = op, !.user = u]]
        /\ UNCHANGED <<gate, cooldowns, clock, script, losses, faults, history, raced>>

Done(w) ==
    /\ Goto(w, "done", "idle")
    /\ loc' = [loc EXCEPT ![w] = Idle]
    /\ UNCHANGED <<gate, cooldowns, clock, script, bounds, history, raced>>

----------------------------------------------------------------------------
(* The lockdown.                                                           *)

\* Faulty: the lock is not taken.
FaultyTake(w) ==
    /\ Goto(w, "take", "state")
    /\ UNCHANGED <<gate, cooldowns, clock, script, loc, bounds, history, raced>>

\* _lockdown_rmw_lock
Take(w) ==
    /\ Goto(w, "take", "state")
    /\ holder = NoOne /\ holder' = w
    /\ UNCHANGED <<lockdown, cooldowns, clock, script, loc, bounds, history, raced>>

TakeTimeout(w) ==
    /\ Goto(w, "take", "done")
    /\ holder # NoOne
    /\ UNCHANGED <<gate, cooldowns, clock, script, loc, bounds, history, raced>>

\* A lockdown is activated when there is none, and lifted by another user.
ReadState(w) ==
    /\ Goto(w, "state",
            IF IF loc[w].op = "activate" THEN ~LockedDown
               ELSE LockedDown /\ lockdown # loc[w].user
            THEN "truncate" ELSE "free")
    /\ UNCHANGED <<gate, cooldowns, clock, script, loc, bounds, history, raced>>

\* _write_lockdown_state
TruncateState(w) ==
    /\ Goto(w, "truncate", "write")
    /\ lockdown' = Torn
    /\ UNCHANGED <<holder, cooldowns, clock, script, loc, bounds, history, raced>>

WriteState(w) ==
    /\ Goto(w, "write", "free")
    /\ lockdown' = IF loc[w].op = "activate" THEN loc[w].user ELSE NoOne
    /\ UNCHANGED <<holder, cooldowns, clock, script, loc, bounds, history, raced>>

Free(w) ==
    /\ Goto(w, "free", "done")
    /\ holder' = NoOne
    /\ UNCHANGED <<lockdown, cooldowns, clock, script, loc, bounds, history, raced>>

----------------------------------------------------------------------------
(* The cooldowns.                                                          *)

\* Where a request goes with no cooldowns to go by: the check fails closed, and the
\* record that comes after it is not made.
Unread(l) == IF l.op = "purge" /\ l.again THEN "submit" ELSE "done"

\* Faulty: the time from which the next one is allowed.
FaultyStamp(l, data) ==
    IF l.op = "purge" THEN [data EXCEPT ![l.user] = clock + Cooldown] ELSE data

\* _record_cooldown, and the counter of _action_set_admin_limits, which is left out.
Stamp(l, data) ==
    IF l.op = "purge" THEN [data EXCEPT ![l.user] = clock] ELSE data

\* With the cooldowns it has read, a request is checked; if it passes, it reads
\* them again to change and write them.
Check(w, from, data) ==
    LET l == loc[w]
        blocked == l.op = "purge" /\ clock - data[l.user] < Cooldown
    IN
    IF l.again
    THEN Goto(w, from, "put") /\ loc' = [loc EXCEPT ![w].data = Stamp(l, data)]
    ELSE /\ Goto(w, from, IF blocked THEN "done" ELSE "get")
         /\ loc' = [loc EXCEPT ![w].again = TRUE, ![w].at = clock]

\* A request is between its first read of the record and its write.
Using(v) == pc[v] \in {"marker", "put", "mark"} \/ (pc[v] = "get" /\ loc[v].again)
Meets(w) == script # "no" \/ \E v \in Workers \ {w} : Using(v)

\* _read_cooldowns: flag, then the record.
GetRecord(w) ==
    /\ raced' = (raced \/ Meets(w))
    /\ IF flag \/ record = Altered
       THEN Goto(w, "get", Unread(loc[w])) /\ flag' = TRUE /\ UNCHANGED loc
       ELSE /\ IF record = Missing
               THEN Goto(w, "get", "marker") /\ UNCHANGED loc
               ELSE Check(w, "get", record)
            /\ UNCHANGED flag
    /\ UNCHANGED <<gate, record, marker, clock, script, bounds, history>>

\* Faulty: a missing record is a new installation.
FaultyLookForMarker(w) ==
    /\ Check(w, "marker", NoCooldowns)
    /\ UNCHANGED <<gate, cooldowns, clock, script, bounds, history, raced>>

\* No record: a new installation, or a record that has been lost.
LookForMarker(w) ==
    /\ IF marker
       THEN Goto(w, "marker", Unread(loc[w])) /\ flag' = TRUE /\ UNCHANGED loc
       ELSE Check(w, "marker", NoCooldowns) /\ UNCHANGED flag
    /\ UNCHANGED <<gate, record, marker, clock, script, bounds, history, raced>>

\* _write_cooldowns
PutRecord(w) ==
    /\ Goto(w, "put", "mark")
    /\ record' = loc[w].data
    /\ UNCHANGED <<gate, marker, flag, clock, script, loc, bounds, history, raced>>

After(op) == IF op = "purge" THEN "submit" ELSE "done"

\* _create_init_marker_if_missing
Mark(w) ==
    /\ Goto(w, "mark", After(loc[w].op))
    /\ marker' = TRUE
    /\ UNCHANGED <<gate, record, flag, clock, script, loc, bounds, history, raced>>

\* The purge request is submitted; a bad comment is refused only now.
Submit(w) ==
    LET l == loc[w]
        last == let[l.user]
    IN
    /\ Goto(w, "submit", "done")
    /\ \/ /\ let' = [let EXCEPT ![l.user] = IF l.at > last THEN l.at ELSE last]
          /\ skipped' = (skipped \/ l.at \in (last - Cooldown + 1)..(last + Cooldown - 1))
       \/ UNCHANGED <<let, skipped>>
    /\ UNCHANGED <<gate, cooldowns, clock, script, loc, bounds, lost, keyless, raced>>

----------------------------------------------------------------------------
(* Time, losses, failures and recovery.                                    *)

Tick ==
    /\ clock < MaxTime /\ clock' = clock + 1
    /\ UNCHANGED <<gate, cooldowns, script, pc, loc, bounds, history, raced>>

\* Somebody, or something, deletes the record or changes it.
Lose ==
    /\ losses < MaxLosses /\ losses' = losses + 1
    /\ record # Missing
    /\ record' \in {Missing, Altered}
    /\ lost' = TRUE
    /\ UNCHANGED <<gate, marker, flag, clock, script, pc, loc, asked, faults, let, skipped,
                   keyless, raced>>

Fault == faults < MaxFaults /\ faults' = faults + 1

\* The KV store does not answer, which sets no flag, or does not take the record.
Outage(w) ==
    /\ Fault
    /\ \/ Goto(w, "get", Unread(loc[w]))
       \/ Goto(w, "put", After(loc[w].op))
    /\ UNCHANGED <<gate, cooldowns, clock, script, loc, asked, losses, history, raced>>

\* The server's GUID cannot be had, and so no key to verify a record with or to sign
\* one: unlike a KV store that is away, this sets the flag.
KeyOutage(w) ==
    /\ Fault
    /\ \/ ~flag /\ Goto(w, "get", Unread(loc[w]))
       \/ Goto(w, "put", After(loc[w].op))
    /\ flag' = TRUE /\ keyless' = TRUE
    /\ UNCHANGED <<gate, record, marker, clock, script, loc, asked, losses, let, skipped,
                   lost, raced>>

\* The marker cannot be written, which is logged.
MarkFails(w) ==
    /\ Fault
    /\ Goto(w, "mark", After(loc[w].op))
    /\ UNCHANGED <<gate, cooldowns, clock, script, loc, asked, losses, history, raced>>

Stopped(stop) ==
    /\ pc' = [w \in Workers |-> IF w \in stop THEN "idle" ELSE pc[w]]
    /\ loc' = [w \in Workers |-> IF w \in stop THEN Idle ELSE loc[w]]
    /\ holder' = IF holder \in stop THEN NoOne ELSE holder

\* The process dies, and its locks with it.
Crash(w) ==
    /\ Fault
    /\ pc[w] # "idle"
    /\ Stopped({w})
    /\ UNCHANGED <<lockdown, cooldowns, clock, script, asked, losses, history, raced>>

\* Faulty: the marker stays.
FaultyClearFlag ==
    /\ flag /\ script = "no" /\ script' = "delete"
    /\ flag' = FALSE /\ keyless' = FALSE
    /\ raced' = (raced \/ \E w \in Workers : pc[w] \in {"get", "marker", "put", "mark"})
    /\ UNCHANGED <<gate, record, marker, clock, pc, loc, bounds, let, skipped, lost>>

\* reset_cooldowns.sh: flag and marker are removed, then the record, then splunkd is
\* stopped and started.
ClearFlag ==
    /\ flag /\ script = "no" /\ script' = "delete"
    /\ flag' = FALSE /\ marker' = FALSE /\ keyless' = FALSE
    /\ raced' = (raced \/ \E w \in Workers : pc[w] \in {"get", "marker", "put", "mark"})
    /\ UNCHANGED <<gate, record, clock, pc, loc, bounds, let, skipped, lost>>

DeleteRecord ==
    /\ script = "delete" /\ script' = "restart"
    /\ record' = Missing
    /\ lost' = FALSE
    /\ UNCHANGED <<gate, marker, flag, clock, pc, loc, bounds, let, skipped, keyless, raced>>

\* The KV store refuses, which the script does not look at.
DeleteFails ==
    /\ Fault
    /\ script = "delete" /\ script' = "restart"
    /\ UNCHANGED <<gate, cooldowns, clock, pc, loc, asked, losses, history, raced>>

Restart ==
    /\ script = "restart" /\ script' = "no"
    /\ Stopped(Workers)
    /\ let' = NoCooldowns
    /\ UNCHANGED <<lockdown, cooldowns, clock, bounds, skipped, lost, keyless, raced>>

Step(w) ==
    \/ Begin(w) \/ Done(w)
    \/ Take(w) \/ TakeTimeout(w) \/ ReadState(w) \/ TruncateState(w)
    \/ WriteState(w) \/ Free(w)
    \/ GetRecord(w) \/ LookForMarker(w) \/ PutRecord(w) \/ Mark(w) \/ Submit(w)
    \/ Outage(w) \/ KeyOutage(w) \/ MarkFails(w) \/ Crash(w)

Next ==
    \/ \E w \in Workers : Step(w)
    \/ Tick \/ Lose
    \/ ClearFlag \/ DeleteRecord \/ DeleteFails \/ Restart

Spec == Init /\ [][Next]_vars

----------------------------------------------------------------------------
\* The lockdown is somebody's or nobody's, or being written; the record holds a time
\* for each user (_write_lockdown_state, _write_cooldowns).
TypeOK ==
    /\ lockdown \in Users \cup {NoOne, Torn}
    /\ holder \in Workers \cup {NoOne}
    /\ record \in {Missing, Altered} \/ record \in [Users -> Never..MaxTime]
    /\ marker \in BOOLEAN /\ flag \in BOOLEAN

\* A lockdown that is in force ends only when another user than the one who activated
\* it lifts it, however many requests to activate and to lift cross, and whoever dies
\* half way (_action_activate_lockdown, _action_deactivate_lockdown).
LiftedByAnother ==
    [][LockedDown /\ lockdown' # lockdown =>
          \E w \in Workers :
              /\ pc[w] = "truncate" /\ loc[w].op = "deactivate"
              /\ loc[w].user # lockdown]_vars

\* When no two requests have used the record at once and nothing has failed, no
\* purge request passes within the cooldown of the user's last one, even if the record
\* has been deleted or altered in between (_check_cooldown, _record_cooldown).
CooldownKept == ~raced /\ faults = 0 => ~skipped

\* When no two requests have used the record at once, the flag that blocks purges is
\* set only after the record has been deleted or altered, or because the key could not
\* be derived.  It is not set because the KV store was away or a process died between
\* record and marker, nor a second time for a loss that the script has cleared up, as
\* long as the store has deleted the record when the script asked
\* (_read_cooldowns, _write_cooldowns, reset_cooldowns.sh).
FlaggedForCause == flag /\ ~raced => lost \/ keyless
=============================================================================
