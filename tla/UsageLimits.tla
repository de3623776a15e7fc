---------------------------- MODULE UsageLimits ----------------------------
(***************************************************************************)
(* Usage counters and the limits they are compared with.                   *)
(*                                                                         *)
(* _daily_limits.json counts what each user has done in a period.          *)
(* Analysts and admins have schedules of their own, so a counter is found  *)
(* under the key of its tier's current period.  An admin's checked         *)
(* operation holds a lock of that admin from the check to the increment;   *)
(* no lock covers the counter file, which every increment reads, truncates *)
(* and writes again.  _limit_config.json holds both tiers' settings and is *)
(* changed in the same way.  How often the admins' limits have changed is  *)
(* counted in the record of the cooldowns, which a purge writes too.       *)
(*                                                                         *)
(* One limited action stands for all those of a tier but for the purge of  *)
(* the trash, which is checked and never counted; a mass reset of usage is *)
(* neither.  One setting stands for the limit and the schedule.  A period  *)
(* that no request has counted in is one of zeros.  Reading the two files  *)
(* is one step.                                                            *)
(***************************************************************************)
EXTENDS Integers, FiniteSets, Sequences

CONSTANTS
    Analysts, Admins,
    Workers,         \* requests served at the same time
    Does,            \* what they may ask for
    DefaultLimits,   \* DEFAULT_LIMITS
    DefaultAdmin,    \* DEFAULT_ADMIN_LIMITS
    Choices,         \* settings that may be chosen for analysts
    AdminChoices,    \* and for admins
    MaxChanges,      \* MAX_ADMIN_LIMIT_CHANGES_PER_DAY
    MaxTracked,      \* MAX_TRACKED_ANALYSTS
    Overflow,        \* the name that further users are counted under
    DaysPerMonth,    \* length of a month
    MaxTime,         \* bound on the days
    MaxRequests,     \* bound on the requests
    Torn,            \* a file that has been truncated
    None, NoOne

Users == Analysts \cup Admins
Names == Users \cup {Overflow}
Frequencies == {"daily", "monthly", "never"}
Setting == [limit : -1..MaxRequests, resets : Frequencies]
Counting == {"save", "reorder", "approve", "reset", "reset_all", "purge"}
Settling == {"set", "set_admin", "reset_limits", "save_default", "factory"}

\* What the two files may hold.  Keys of periods are numbers here.
Permanent == (MaxTime + 1) * (DaysPerMonth + 1)
Keys == 0..Permanent
Kinds == {"plain", "admin", "reorder", "purge"}
Counts == [Keys -> [Names -> [Kinds -> Nat]]]
Settings == [plain : Setting, admin : Setting \cup {None}, custom : Setting \cup {None}]

ASSUME LimitsAssumption ==
    /\ Analysts \cap Admins = {} /\ Overflow \notin Users /\ NoOne \notin Workers
    /\ Does \subseteq Counting \cup Settling
    /\ {DefaultLimits, DefaultAdmin} \cup Choices \cup AdminChoices \subseteq Setting
    /\ {MaxChanges, MaxTracked, MaxTime, MaxRequests} \subseteq Nat
    /\ DaysPerMonth \in Nat \ {0}
    /\ None \notin Setting /\ Torn \notin Counts \cup Settings

VARIABLES
    counters,   \* _daily_limits.json
    config,     \* _limit_config.json
    changes,    \* the cooldown record's counts of admin limit changes, by day
    time,       \* the day
    holder,     \* of each admin's lock
    pc, loc,
    asked,
    acted,      \* history: what was let through, by period and user
    excess,     \* history: the kinds of which more was let through than the limit
    agreed,     \* history: the settings last accepted, and whether a reset of the
                \* analysts' limits has dropped the admins'
    made,       \* history: changes of the admin limits, by day
    missed,     \* history: those of them that were not counted
    failed,     \* history: the files that a request failed to write
    raced       \* history: a request read what another was about to write

vars == <<counters, config, changes, time, holder, pc, loc, asked, acted,
          excess, agreed, made, missed, failed, raced>>

\* get_counter_period_key: keys are compared as strings, so the key of a month
\* ("2026-04") comes before those of its days ("2026-04-01"), and "permanent" last.
Key(resets, t) ==
    LET month == (t \div DaysPerMonth) * (DaysPerMonth + 1)
    IN
    CASE resets = "daily"   -> month + 1 + (t % DaysPerMonth)
      [] resets = "monthly" -> month
      [] resets = "never"   -> Permanent

Nothing == [x \in Kinds |-> 0]
NoUsage == [k \in Keys |-> [n \in Names |-> Nothing]]
NoChanges == [d \in 0..MaxTime |-> 0]
Defaults == [plain |-> DefaultLimits, admin |-> None, custom |-> None]

\* read_daily_limits, read_limit_config: what cannot be parsed counts as missing.
Usage == IF counters = Torn THEN NoUsage ELSE counters
Config == IF config = Torn THEN Defaults ELSE config

\* read_admin_limits
AdminSetting(cfg) == IF cfg.admin = None THEN DefaultAdmin ELSE cfg.admin

PlainKey == Key(Config.plain.resets, time)
AdminKey == Key(AdminSetting(Config).resets, time)
KeyOf(kind) == IF kind = "plain" THEN PlainKey ELSE AdminKey

Idle == [op |-> "none", user |-> NoOne, whom |-> NoOne, kind |-> "plain",
         key |-> 0, cap |-> 0, set |-> None, cfg |-> Defaults,
         use |-> NoUsage, incs |-> <<>>, rec |-> NoChanges]

Init ==
    /\ counters = NoUsage
    /\ config = Defaults
    /\ changes = NoChanges
    /\ time = 0
    /\ holder = [u \in Admins |-> NoOne]
    /\ pc = [w \in Workers |-> "idle"]
    /\ loc = [w \in Workers |-> Idle]
    /\ asked = 0
    /\ acted = NoUsage
    /\ excess = {}
    /\ agreed = [plain |-> DefaultLimits, admin |-> None, lost |-> FALSE]
    /\ made = NoChanges
    /\ missed = NoChanges
    /\ failed = {}
    /\ raced = FALSE

history == <<acted, excess, agreed, made, missed, failed>>
Goto(w, from, to) == pc[w] = from /\ pc' = [pc EXCEPT ![w] = to]

\* _maybe_admin_limit_lock; the limits on reorderings and on purges are checked
\* without a lock, and the mass reset is not checked.
Locked(l) == l.op \in {"save", "approve", "reset"} /\ l.user \in Admins

\* Between its read of a file and its write of it.
Writing(v) == pc[v] \in {"clear", "put", "cclear", "cput"}

\* w reads what another request has read and will write, or goes past a check
\* without a lock while a request of the same user has passed the same one.
Meets(w) == \E v \in Workers \ {w} :
    \/ Writing(v)
    \/ /\ pc[w] = "check" /\ pc[v] \in {"act", "inc"}
       /\ loc[v].user = loc[w].user /\ loc[v].kind = loc[w].kind
       /\ ~Locked(loc[w])
Reads(w) == raced' = (raced \/ Meets(w))

----------------------------------------------------------------------------
(* Requests                                                                *)

\* The counters that each operation adds to when it has succeeded.  Those that need a
\* second admin, the purge and the mass reset, add to none.
Incs(op, u, whom) ==
    CASE op = "save" /\ u \in Analysts -> <<<<u, "plain">>>>
      [] op = "save" /\ u \in Admins   -> <<<<u, "plain">>, <<u, "admin">>>>
      [] op = "reorder"                -> <<<<u, "plain">>, <<u, "reorder">>>>
      [] op = "approve"                -> <<<<whom, "plain">>, <<u, "admin">>>>
      [] op = "reset"                  -> <<<<u, "admin">>>>
      [] OTHER                         -> <<>>

\* The kind of counter that the operation is checked against.
CheckedKind(op, u) ==
    IF op \in {"reorder", "purge"} THEN op ELSE IF u \in Admins THEN "admin" ELSE "plain"

Request(op, u, whom, s) ==
    [Idle EXCEPT !.op = op, !.user = u, !.whom = whom, !.set = s,
                 !.kind = CheckedKind(op, u), !.incs = Incs(op, u, whom)]

\* The settings a request may ask for.
Offered(op) == IF op = "set" THEN Choices
               ELSE IF op = "set_admin" THEN AdminChoices ELSE {None}

\* Where a request goes first.  The mass reset is carried out for the admin who
\* approves it.
FirstStep(l) == IF Locked(l) THEN "lock"
                ELSE IF l.op = "reset_all" THEN "wipe"
                ELSE IF l.op = "set_admin" THEN "changes"
                ELSE IF l.op \in Settling THEN "config" ELSE "check"

Begin(w) ==
    \E op \in Does, u \in Users, whom \in Users : \E s \in Offered(op) :
        /\ op # "save" => u \in Admins
        /\ op = "approve" => whom \in Analysts
        /\ op \notin {"approve", "reset"} => whom = u
        /\ asked < MaxRequests /\ asked' = asked + 1
        /\ loc' = [loc EXCEPT ![w] = Request(op, u, whom, s)]
        /\ Goto(w, "idle", FirstStep(Request(op, u, whom, s)))
        /\ UNCHANGED <<counters, config, changes, time, holder, history, raced>>

\* Faulty: the check is made without the lock.
FaultyLock(w) ==
    /\ Goto(w, "lock", "check")
    /\ UNCHANGED <<counters, config, changes, time, holder, loc, asked, history, raced>>

\* admin_daily_limit_lock, by _maybe_admin_limit_lock
Lock(w) ==
    LET u == loc[w].user IN
    /\ Goto(w, "lock", "check")
    /\ holder[u] = NoOne /\ holder' = [holder EXCEPT ![u] = w]
    /\ UNCHANGED <<counters, config, changes, time, loc, asked, history, raced>>

\* check_daily_limit takes the limit as it is; check_admin_daily_limit has values
\* for "disabled" and "unlimited".
Allowed(kind, count, cap) ==
    IF kind = "plain" THEN count + 1 <= cap
    ELSE cap # 0 /\ (cap = -1 \/ count + 1 <= cap)

Check(w) ==
    LET l == loc[w]
        key == KeyOf(l.kind)
        cap == (IF l.kind = "plain" THEN Config.plain ELSE AdminSetting(Config)).limit
    IN
    /\ Reads(w)
    /\ Goto(w, "check", IF ~Allowed(l.kind, Usage[key][l.user][l.kind], cap) THEN "done"
                        ELSE IF l.op = "purge" THEN "count" ELSE "act")
    /\ loc' = [loc EXCEPT ![w].key = key, ![w].cap = cap]
    /\ UNCHANGED <<counters, config, changes, time, holder, asked, history>>

\* The operation itself, which for a purge is to ask for it.  Only the reset of usage
\* touches the counters.
Act(w) ==
    LET l == loc[w]
        n == acted[l.key][l.user][l.kind]
    IN
    /\ Goto(w, "act", IF l.op = "reset" THEN "wipe"
                      ELSE IF l.op = "purge" THEN "done" ELSE "inc")
    /\ ~(l.op = "reset" /\ l.whom = l.user)
    /\ acted' = [acted EXCEPT ![l.key][l.user][l.kind] = n + 1]
    /\ excess' = excess \cup {x \in {l.kind} : ~Allowed(x, n, l.cap)}
    /\ UNCHANGED <<counters, config, changes, time, holder, loc, asked, agreed, made,
                   missed, failed, raced>>

\* It fails, or is refused, as the reset of one's own usage is.
ActFails(w) ==
    /\ Goto(w, "act", "done")
    /\ UNCHANGED <<counters, config, changes, time, holder, loc, asked, history, raced>>

----------------------------------------------------------------------------
(* The counters                                                            *)

\* Periods that are over are dropped: those whose key is smaller.
Prune(use, today) == [k \in Keys |-> IF k >= today THEN use[k] ELSE NoUsage[k]]

\* Users beyond the first MaxTracked share a counter.
Tracked(use, u) ==
    IF use[u] = Nothing /\ Cardinality({n \in Names : use[n] # Nothing}) >= MaxTracked
    THEN Overflow ELSE u

\* increment_daily_limit, increment_admin_daily_limit
Increment(use, u, kind) ==
    IF kind = "plain"
    THEN LET kept == Prune(use, PlainKey)
             n == Tracked(kept[PlainKey], u)
         IN [kept EXCEPT ![PlainKey][n]["plain"] = @ + 1]
    ELSE [use EXCEPT ![AdminKey][u][kind] = @ + 1]

ReadCounters(w) ==
    LET i == Head(loc[w].incs) IN
    /\ loc[w].incs # <<>>
    /\ Reads(w)
    /\ Goto(w, "inc", "clear")
    /\ loc' = [loc EXCEPT ![w].use = Increment(Usage, i[1], i[2]),
                          ![w].incs = Tail(@)]
    /\ UNCHANGED <<counters, config, changes, time, holder, asked, history>>

\* _reset_daily_usage_action: the counters of the analysts' period, of one user or
\* of all but the caller.
Wiped(l) == IF l.op = "reset" THEN {l.whom} ELSE Names \ {l.user}

ReadToWipe(w) ==
    LET l == loc[w] IN
    /\ Reads(w)
    /\ Goto(w, "wipe", "clear")
    /\ loc' = [loc EXCEPT ![w].use = [Usage EXCEPT ![PlainKey] =
                  [n \in Names |-> IF n \in Wiped(l) THEN Nothing ELSE @[n]]]]
    /\ acted' = [acted EXCEPT ![PlainKey] =
                  [n \in Names |-> IF n \in Wiped(l) THEN Nothing ELSE @[n]]]
    /\ UNCHANGED <<counters, config, changes, time, holder, asked, excess, agreed, made,
                   missed, failed>>

\* open(path, "w"), then json.dump
ClearCounters(w) ==
    /\ Goto(w, "clear", "put")
    /\ counters' = Torn
    /\ UNCHANGED <<config, changes, time, holder, loc, asked, history, raced>>

PutCounters(w) ==
    /\ Goto(w, "put", IF loc[w].incs = <<>> THEN "done" ELSE "inc")
    /\ counters' = loc[w].use
    /\ loc' = [loc EXCEPT ![w].use = NoUsage]
    /\ UNCHANGED <<config, changes, time, holder, asked, history, raced>>

\* An increment or a reset fails, or the process ends, before the file is truncated or
\* after it; so does a change of the settings, which is no change before that.
Fails(w) ==
    /\ pc[w] \in {"wipe", "inc", "put", "cput"}
    /\ Goto(w, pc[w], "done")
    /\ failed' = failed \cup {IF pc[w] = "cput" THEN "config" ELSE "counters"}
    /\ UNCHANGED <<counters, config, changes, time, holder, loc, asked, acted, excess,
                   agreed, made, missed, raced>>

\* Faulty: the lock outlives the request.
FaultyDone(w) ==
    /\ Goto(w, "done", "idle")
    /\ loc' = [loc EXCEPT ![w] = Idle]
    /\ UNCHANGED <<counters, config, changes, time, holder, asked, history, raced>>

\* The lock is released.
Done(w) ==
    /\ Goto(w, "done", "idle")
    /\ loc' = [loc EXCEPT ![w] = Idle]
    /\ holder' = [u \in Admins |-> IF holder[u] = w THEN NoOne ELSE holder[u]]
    /\ UNCHANGED <<counters, config, changes, time, asked, history, raced>>

----------------------------------------------------------------------------
(* The settings                                                            *)

\* Faulty: one change too many.
FaultyCheckChanges(w) ==
    /\ raced' = (raced \/ \E v \in Workers \ {w} :
                            \/ loc[v].op = "set_admin" /\ pc[v] # "changes"
                            \/ Writing(v))
    /\ \E read \in BOOLEAN :
          Goto(w, "changes", IF ~read \/ changes[time] > MaxChanges
                                \/ AdminSetting(Config) = loc[w].set
                             THEN "done" ELSE "config")
    /\ loc' = [loc EXCEPT ![w].key = time, ![w].cfg = Config]
    /\ UNCHANGED <<counters, config, changes, time, holder, asked, history>>

\* _action_set_admin_limits: so many changes a day, and none while the record is
\* flagged or out of reach.
CheckChanges(w) ==
    /\ raced' = (raced \/ \E v \in Workers \ {w} :
                            \/ loc[v].op = "set_admin" /\ pc[v] # "changes"
                            \/ Writing(v))
    /\ \E read \in BOOLEAN :
          Goto(w, "changes", IF ~read \/ changes[time] >= MaxChanges
                                \/ AdminSetting(Config) = loc[w].set
                             THEN "done" ELSE "config")
    /\ loc' = [loc EXCEPT ![w].key = time, ![w].cfg = Config]
    /\ UNCHANGED <<counters, config, changes, time, holder, asked, history>>

\* _reset_daily_limits_action: analysts' settings return to the saved defaults.
Target(cfg) == IF cfg.custom = None THEN DefaultLimits ELSE cfg.custom

ResetLimits(cfg) ==
    IF cfg.plain = Target(cfg) THEN cfg
    ELSE [cfg EXCEPT !.plain = Target(cfg), !.admin = None]

\* _save_as_default_action: factory settings need no copy.
SaveAsDefault(cfg) ==
    [cfg EXCEPT !.custom = IF cfg.plain = DefaultLimits THEN None ELSE cfg.plain]

\* _reset_factory_defaults_action: nothing is kept, not the admins' settings either.
FactoryReset(cfg) ==
    IF cfg.plain = DefaultLimits /\ cfg.custom = None THEN cfg ELSE Defaults

\* What each operation makes of the settings it has read.
Settled(op, cfg, s) ==
    CASE op = "set"          -> [cfg EXCEPT !.plain = s]
      [] op = "set_admin"    -> [cfg EXCEPT !.admin = s]
      [] op = "reset_limits" -> ResetLimits(cfg)
      [] op = "save_default" -> SaveAsDefault(cfg)
      [] op = "factory"      -> FactoryReset(cfg)

\* Faulty: the admin limits are put into the settings as first read.
FaultyReadConfig(w) ==
    LET l == loc[w] IN
    /\ Reads(w)
    /\ Goto(w, "config", "cclear")
    /\ loc' = [loc EXCEPT ![w].cfg =
                  Settled(l.op, IF l.op = "set_admin" THEN l.cfg ELSE Config, l.set)]
    /\ UNCHANGED <<counters, config, changes, time, holder, asked, history>>

\* write_admin_limits reads the settings again.
ReadConfig(w) ==
    LET new == Settled(loc[w].op, Config, loc[w].set) IN
    /\ Reads(w)
    /\ Goto(w, "config", IF new = Config THEN "done" ELSE "cclear")
    /\ loc' = [loc EXCEPT ![w].cfg = new]
    /\ UNCHANGED <<counters, config, changes, time, holder, asked, history>>

ClearConfig(w) ==
    /\ Goto(w, "cclear", "cput")
    /\ config' = Torn
    /\ UNCHANGED <<counters, changes, time, holder, loc, asked, history, raced>>

PutConfig(w) ==
    LET l == loc[w]
        admins == l.op = "set_admin"
    IN
    /\ Goto(w, "cput", IF admins THEN "count" ELSE "done")
    /\ config' = l.cfg
    /\ agreed' = CASE l.op = "set"          -> [agreed EXCEPT !.plain = l.set]
                   [] l.op = "set_admin"    -> [agreed EXCEPT !.admin = l.set, !.lost = FALSE]
                   [] l.op = "save_default" -> agreed
                   [] l.op = "reset_limits" -> [agreed EXCEPT !.plain = l.cfg.plain,
                                                              !.lost = TRUE]
                   [] l.op = "factory"      -> [plain |-> DefaultLimits, admin |-> None,
                                                lost |-> FALSE]
    /\ made' = IF admins THEN [made EXCEPT ![l.key] = @ + 1] ELSE made
    /\ UNCHANGED <<counters, changes, time, holder, loc, asked, acted, excess, missed,
                   failed, raced>>

----------------------------------------------------------------------------
(* The record of the cooldowns                                             *)

\* A change that is made and will not be counted.
Missed(w) == IF loc[w].op = "set_admin" THEN [missed EXCEPT ![loc[w].key] = @ + 1]
             ELSE missed

\* What follows the record: a purge goes on without it.
Onward(w) == IF loc[w].op = "purge" THEN "act" ELSE "done"

\* The record is read again, after the settings have been written or before the purge
\* is asked for.
ReadRecord(w) ==
    LET l == loc[w] IN
    /\ raced' = (raced \/ \E v \in Workers \ {w} : pc[v] = "record")
    /\ Goto(w, "count", "record")
    /\ loc' = [loc EXCEPT ![w].rec =
                  IF l.op = "set_admin" THEN [changes EXCEPT ![l.key] = @ + 1] ELSE changes]
    /\ UNCHANGED <<counters, config, changes, time, holder, asked, history>>

\* All of it is written back.
WriteRecord(w) ==
    /\ Goto(w, "record", Onward(w))
    /\ changes' = loc[w].rec
    /\ loc' = [loc EXCEPT ![w].rec = NoChanges]
    /\ UNCHANGED <<counters, config, time, holder, asked, history, raced>>

\* It cannot be read, being flagged or out of reach, or its write fails, which nobody
\* looks at, or the process ends.
RecordFails(w) ==
    /\ pc[w] \in {"count", "record"}
    /\ Goto(w, pc[w], Onward(w))
    /\ missed' = Missed(w)
    /\ loc' = [loc EXCEPT ![w].rec = NoChanges]
    /\ UNCHANGED <<counters, config, changes, time, holder, asked, acted, excess, agreed,
                   made, failed, raced>>

\* Midnight, between two requests or in the middle of one.
Tick ==
    /\ time < MaxTime /\ time' = time + 1
    /\ UNCHANGED <<counters, config, changes, holder, pc, loc, asked, history, raced>>

Step(w) ==
    \/ Begin(w) \/ Lock(w) \/ Check(w) \/ Act(w) \/ ActFails(w)
    \/ ReadCounters(w) \/ ReadToWipe(w) \/ ClearCounters(w) \/ PutCounters(w)
    \/ CheckChanges(w) \/ ReadConfig(w) \/ ClearConfig(w) \/ PutConfig(w)
    \/ ReadRecord(w) \/ WriteRecord(w) \/ RecordFails(w) \/ Fails(w) \/ Done(w)

Next == Tick \/ \E w \in Workers : Step(w)

Spec == Init /\ [][Next]_vars

----------------------------------------------------------------------------
\* The files hold counters and settings, or have been truncated by a request that is
\* about to write them or has failed to; a lock is held by a request of its admin
\* (write_daily_limits, write_limit_config, admin_daily_limit_lock).
TypeOK ==
    /\ IF counters = Torn THEN "counters" \in failed \/ \E w \in Workers : pc[w] = "put"
       ELSE counters \in Counts
    /\ IF config = Torn THEN "config" \in failed \/ \E w \in Workers : pc[w] = "cput"
       ELSE config \in Settings
    /\ \A u \in Admins : holder[u] # NoOne => loc[holder[u]].user = u

\* The analysts' schedule and the admins' do not change, and the key of the analysts'
\* period is never after that of the admins', whose counters it would drop.
SteadySchedules ==
    /\ \A s \in Choices : s.resets = DefaultLimits.resets
    /\ \A s \in AdminChoices : s.resets = DefaultAdmin.resets
    /\ \A t \in 0..MaxTime : Key(DefaultLimits.resets, t) <= Key(DefaultAdmin.resets, t)

\* Nobody is counted under a name that no check reads.
EveryoneTracked == IsFiniteSet(Users) /\ Cardinality(Users) <= MaxTracked

\* As long as no request reads the counters or the settings while another is about to
\* write them, and no increment is lost in a failure, nobody gets through more than the
\* limit in force at the check allows in a period: not with several requests at once,
\* across midnight, after somebody else's usage was reset, or with the limit changed or
\* its file lost (check_admin_daily_limit to increment_admin_daily_limit under
\* admin_daily_limit_lock).  Purges of the trash are the exception: they are checked
\* and never counted (_action_purge_trash), so their limit stops none.
CapKept == ~raced /\ "counters" \notin failed => excess \subseteq {"purge"}

\* The admins' settings are those last accepted, or there are none since the reset of
\* the analysts' limits has dropped them: _reset_daily_limits_action says that it keeps
\* what is not a limit of the analysts and does not keep these.
AdminAsAgreed(cfg) == cfg.admin = agreed.admin \/ (agreed.lost /\ cfg.admin = None)

\* As long as nobody reads what another is about to write and no write of the settings
\* has failed, the settings in the file are the ones last accepted: a change of one
\* tier's limits does not undo a change of the other's, except that the reset of the
\* analysts' limits drops the admins' until they are next set (write_admin_limits).
SettingsKept ==
    /\ ~raced /\ "config" \notin failed
    /\ \A w \in Workers : pc[w] \notin {"cclear", "cput"}
    => config.plain = agreed.plain /\ AdminAsAgreed(config)

\* As long as nobody reads what another is about to write, the admin limits change at
\* most so often a day, plus once for each change whose count was lost: a change is
\* counted only after it has been made, in a record that purges rewrite, and that may be
\* flagged, out of reach or not written by then (_action_set_admin_limits).
ChangesCapped == ~raced => \A d \in 0..MaxTime : made[d] <= MaxChanges + missed[d]
=============================================================================
