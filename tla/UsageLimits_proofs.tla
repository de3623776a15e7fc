------------------------- MODULE UsageLimits_proofs -------------------------
(***************************************************************************)
(* Theorems about UsageLimits, for every set of analysts, admins and       *)
(* concurrent requests, every choice of limits and any number of days.     *)
(***************************************************************************)
EXTENDS UsageLimits, FiniteSetTheorems, TLAPS

----------------------------------------------------------------------------
(* Periods.                                                                *)

\* The number of a month and the day in it.
LEMMA DivMod ==
    ASSUME NEW t \in Nat, NEW d \in Nat \ {0}
    PROVE  /\ t \div d \in Nat /\ t % d \in 0..(d - 1)
           /\ t = d * (t \div d) + (t % d)
    BY SMT

\* Products keep the order.
LEMMA Products ==
    ASSUME NEW a \in Nat, NEW b \in Nat, NEW c \in Nat, a <= b
    PROVE  a * c <= b * c /\ a * c \in Nat /\ b * c \in Nat
    BY SMT

\* A month is over after its last day.
LEMMA NextDay ==
    ASSUME NEW t \in Nat, NEW d \in Nat \ {0}
    PROVE  \/ (t + 1) \div d = t \div d /\ (t + 1) % d = (t % d) + 1
           \/ (t + 1) \div d = (t \div d) + 1 /\ (t + 1) % d = 0
  <1> DEFINE q == t \div d
             r == t % d
             q1 == (t + 1) \div d
             r1 == (t + 1) % d
  <1>1. q \in Nat /\ r \in 0..(d - 1) /\ t = d * q + r
    BY DivMod
  <1>2. q1 \in Nat /\ r1 \in 0..(d - 1) /\ t + 1 = d * q1 + r1
    <2>1. t + 1 \in Nat
      OBVIOUS
    <2> QED
      BY <2>1, DivMod
  <1> HIDE DEF q, r, q1, r1
  <1>3. d * q1 + r1 = d * q + r + 1
    BY <1>1, <1>2
  <1>4. ~(q1 < q)
    <2> SUFFICES ASSUME q1 < q PROVE FALSE
      OBVIOUS
    <2>1. (q1 + 1) * d <= q * d
      BY <1>1, <1>2, Products
    <2> QED
      BY <1>1, <1>2, <1>3, <2>1
  <1>5. ~(q1 > q + 1)
    <2> SUFFICES ASSUME q1 > q + 1 PROVE FALSE
      OBVIOUS
    <2>1. (q + 2) * d <= q1 * d
      BY <1>1, <1>2, Products
    <2> QED
      BY <1>1, <1>2, <1>3, <2>1
  <1>6. q1 = q \/ q1 = q + 1
    BY <1>1, <1>2, <1>4, <1>5
  <1> QED
    BY <1>1, <1>2, <1>3, <1>6 DEF q, r, q1, r1

\* Keys are keys, and they grow with time.
LEMMA KeyType ==
    ASSUME NEW f \in Frequencies, NEW t \in 0..MaxTime
    PROVE  Key(f, t) \in Keys
  <1> DEFINE d == DaysPerMonth
             q == t \div d
             r == t % d
  <1>1. d \in Nat \ {0} /\ MaxTime \in Nat /\ t \in Nat /\ t <= MaxTime
    BY LimitsAssumption
  <1>2. q \in Nat /\ r \in 0..(d - 1) /\ t = d * q + r
    BY <1>1, DivMod
  <1>3. Permanent = (MaxTime + 1) * (d + 1)
    BY DEF Permanent
  <1>4. Key(f, t) = CASE f = "daily" -> q * (d + 1) + 1 + r
                      [] f = "monthly" -> q * (d + 1)
                      [] f = "never" -> Permanent
    BY DEF Key
  <1> HIDE DEF d, q, r
  <1>5. q <= MaxTime
    <2>1. 1 * q <= d * q
      BY <1>1, <1>2, Products
    <2> QED
      BY <1>1, <1>2, <2>1
  <1>6. (q + 1) * (d + 1) <= (MaxTime + 1) * (d + 1) /\ (MaxTime + 1) * (d + 1) \in Nat
    BY <1>1, <1>2, <1>5, Products
  <1>7. q * (d + 1) \in Nat /\ (q + 1) * (d + 1) = q * (d + 1) + d + 1
    BY <1>1, <1>2
  <1>8. q * (d + 1) + 1 + r \in Nat /\ q * (d + 1) + 1 + r <= Permanent /\ Permanent \in Nat
    BY <1>1, <1>2, <1>3, <1>6, <1>7
  <1> QED
    BY <1>1, <1>2, <1>4, <1>7, <1>8 DEF Keys, Frequencies

\* A later day has no smaller key.
LEMMA KeyGrows ==
    ASSUME NEW f \in Frequencies, NEW t \in Nat
    PROVE  Key(f, t) <= Key(f, t + 1)
  <1> DEFINE d == DaysPerMonth
             q == t \div d
             r == t % d
             q1 == (t + 1) \div d
             r1 == (t + 1) % d
  <1>1. d \in Nat \ {0} /\ MaxTime \in Nat
    BY LimitsAssumption
  <1>2. q \in Nat /\ r \in 0..(d - 1)
    BY <1>1, DivMod
  <1>3. (q1 = q /\ r1 = r + 1) \/ (q1 = q + 1 /\ r1 = 0)
    BY <1>1, NextDay
  <1>4. /\ Key(f, t) = CASE f = "daily" -> q * (d + 1) + 1 + r
                         [] f = "monthly" -> q * (d + 1)
                         [] f = "never" -> Permanent
        /\ Key(f, t + 1) = CASE f = "daily" -> q1 * (d + 1) + 1 + r1
                             [] f = "monthly" -> q1 * (d + 1)
                             [] f = "never" -> Permanent
    BY DEF Key
  <1>5. Permanent \in Nat
    BY <1>1 DEF Permanent
  <1> HIDE DEF d, q, r, q1, r1
  <1>6. q * (d + 1) \in Nat /\ (q + 1) * (d + 1) = q * (d + 1) + d + 1
    BY <1>1, <1>2
  <1>7. /\ q * (d + 1) <= q1 * (d + 1)
        /\ q * (d + 1) + 1 + r <= q1 * (d + 1) + 1 + r1
    BY <1>1, <1>2, <1>3, <1>6
  <1> QED
    BY <1>4, <1>5, <1>7 DEF Frequencies

----------------------------------------------------------------------------
(* Types and control.                                                      *)

\* Where a request can be.
CountSteps == {"lock", "check", "act", "wipe", "inc", "clear", "put"}
SettleSteps == {"changes", "config", "cclear", "cput"}
RecordSteps == {"count", "record"}
Steps == {"idle", "done"} \cup CountSteps \cup SettleSteps \cup RecordSteps

Locals ==
    [op : Counting \cup Settling \cup {"none"}, user : Users \cup {NoOne},
     whom : Users \cup {NoOne}, kind : Kinds, key : Keys, cap : -1..MaxRequests,
     set : Setting \cup {None}, cfg : Settings, use : Counts, incs : Seq(Users \X Kinds),
     rec : [0..MaxTime -> Nat]]

\* What the counters of a limited operation are.
KindFits(l) ==
    /\ l.op # "save" => l.user \in Admins
    /\ l.kind = CheckedKind(l.op, l.user)

\* What a request does fits where it is, and it holds the lock of its admin.
JobAt(w, p, l) ==
    /\ p \in CountSteps => l.op \in Counting /\ KindFits(l)
    /\ p = "wipe" => l.op \in {"reset", "reset_all"}
    /\ p \in {"lock", "check", "act"} => l.op # "reset_all"
    /\ p \in SettleSteps => l.op \in Settling
    /\ p = "changes" => l.op = "set_admin"
    /\ p \in RecordSteps => l.op \in {"set_admin", "purge"}
    /\ p \in RecordSteps /\ l.op = "purge" => KindFits(l)
    /\ p # "idle" => l.user \in Users /\ l.whom \in Users
    /\ p \in SettleSteps /\ l.op = "set" => l.set \in Choices
    /\ p \in SettleSteps /\ l.op = "set_admin" => l.set \in AdminChoices
    /\ p \in SettleSteps \cup RecordSteps /\ l.op = "set_admin" => l.key \in 0..MaxTime
    /\ p = "lock" => Locked(l)
    /\ p \in CountSteps \ {"lock"} /\ Locked(l) => holder[l.user] = w
    /\ \A u \in Admins : holder[u] = w => p \notin {"idle", "lock"} /\ l.user = u

Jobs == \A w \in Workers : JobAt(w, pc[w], loc[w])

Types ==
    /\ counters \in Counts \cup {Torn} /\ config \in Settings \cup {Torn}
    /\ changes \in [0..MaxTime -> Nat] /\ made \in [0..MaxTime -> Nat]
    /\ missed \in [0..MaxTime -> Nat] /\ failed \in SUBSET {"counters", "config"}
    /\ time \in 0..MaxTime
    /\ holder \in [Admins -> Workers \cup {NoOne}]
    /\ pc \in [Workers -> Steps] /\ loc \in [Workers -> Locals]
    /\ acted \in Counts
    /\ agreed \in [plain : Setting, admin : Setting \cup {None}, lost : BOOLEAN]
    /\ excess \in SUBSET Kinds /\ raced \in BOOLEAN

\* A truncated file is about to be written, or its write has failed.
TornByWriter ==
    /\ counters = Torn => "counters" \in failed \/ \E w \in Workers : pc[w] = "put"
    /\ config = Torn => "config" \in failed \/ \E w \in Workers : pc[w] = "cput"

TypeInv == Types /\ TornByWriter /\ Jobs

\* The constants, and the values made of them, are of their types.
LEMMA ConstantTypes ==
    /\ Nothing \in [Kinds -> Nat] /\ NoUsage \in Counts /\ NoChanges \in [0..MaxTime -> Nat]
    /\ DefaultLimits \in Setting /\ DefaultAdmin \in Setting /\ Defaults \in Settings
    /\ \A s \in Setting : s.resets \in Frequencies /\ s.limit \in -1..MaxRequests
    /\ Choices \subseteq Setting /\ AdminChoices \subseteq Setting
    /\ MaxTime \in Nat /\ MaxRequests \in Nat /\ MaxChanges \in Nat /\ 0 \in Keys
    /\ 0..MaxTime \subseteq Keys
    /\ None \notin Setting /\ Torn \notin Counts /\ Torn \notin Settings
    /\ NoOne \notin Workers /\ DaysPerMonth \in Nat \ {0}
  <1>1. Nothing \in [Kinds -> Nat] /\ NoUsage \in Counts /\ NoChanges \in [0..MaxTime -> Nat]
    BY DEF Nothing, NoUsage, NoChanges, Counts, Kinds
  <1>2. /\ DefaultLimits \in Setting /\ DefaultAdmin \in Setting /\ Defaults \in Settings
        /\ \A s \in Setting : s.resets \in Frequencies /\ s.limit \in -1..MaxRequests
        /\ Choices \subseteq Setting /\ AdminChoices \subseteq Setting
        /\ MaxTime \in Nat /\ MaxRequests \in Nat /\ MaxChanges \in Nat
    BY LimitsAssumption DEF Setting, Settings, Defaults
  <1>3. Key("never", 0) \in Keys
    BY <1>2, KeyType DEF Frequencies
  <1>4. Permanent \in Nat /\ MaxTime <= Permanent
    <2> DEFINE a == MaxTime + 1
               b == DaysPerMonth + 1
    <2>1. a \in Nat /\ b \in Nat /\ 1 <= b
      BY LimitsAssumption
    <2>2. 1 * a <= b * a /\ b * a \in Nat
      BY <2>1, Products
    <2>3. Permanent = b * a
      BY <2>1 DEF Permanent
    <2> QED
      BY <1>2, <2>2, <2>3
  <1> QED
    BY <1>1, <1>2, <1>4, LimitsAssumption DEF Keys

\* What is read from the files.
LEMMA ReadTypes ==
    ASSUME Types
    PROVE  /\ Usage \in Counts /\ Config \in Settings
           /\ Config.plain \in Setting /\ AdminSetting(Config) \in Setting
           /\ PlainKey \in Keys /\ AdminKey \in Keys
           /\ \A x \in Kinds : KeyOf(x) \in Keys
  <1>1. Usage \in Counts /\ Config \in Settings
    BY ConstantTypes DEF Types, Usage, Config
  <1>2. Config.plain \in Setting /\ AdminSetting(Config) \in Setting
    BY <1>1, ConstantTypes DEF Settings, AdminSetting
  <1>3. PlainKey \in Keys /\ AdminKey \in Keys
    BY <1>2, ConstantTypes, KeyType DEF PlainKey, AdminKey, Types
  <1> QED
    BY <1>1, <1>2, <1>3 DEF KeyOf

\* The counters an operation adds to.
LEMMA IncsType ==
    ASSUME NEW op, NEW u \in Users, NEW v \in Users
    PROVE  Incs(op, u, v) \in Seq(Users \X Kinds)
  <1>1. \A y \in Users, z \in Users, a \in Kinds, b \in Kinds :
           /\ <<<<y, a>>>> \in Seq(Users \X Kinds)
           /\ <<<<y, a>>, <<z, b>>>> \in Seq(Users \X Kinds)
    OBVIOUS
  <1>2. CASE op = "save"
    <2>1. Incs(op, u, v) \in {<<<<u, "plain">>>>, <<<<u, "plain">>, <<u, "admin">>>>}
      BY <1>2 DEF Incs, Users
    <2> QED
      BY <1>1, <2>1 DEF Kinds
  <1>3. CASE op # "save"
    <2>1. Incs(op, u, v) \in {<<<<u, "plain">>, <<u, "reorder">>>>,
                              <<<<v, "plain">>, <<u, "admin">>>>, <<<<u, "admin">>>>, <<>>}
      BY <1>3 DEF Incs
    <2>2. <<>> \in Seq(Users \X Kinds)
      OBVIOUS
    <2> QED
      BY <1>1, <2>1, <2>2 DEF Kinds
  <1> QED BY <1>2, <1>3

\* One counter is raised.
LEMMA OneMore ==
    ASSUME NEW use \in Counts, NEW k \in Keys, NEW n \in Names, NEW x \in Kinds
    PROVE  LET new == [use EXCEPT ![k][n][x] = @ + 1] IN
           /\ new \in Counts
           /\ \A j \in Keys, m \in Names, y \in Kinds :
                 new[j][m][y] = IF j = k /\ m = n /\ y = x THEN use[j][m][y] + 1
                                ELSE use[j][m][y]
  <1> DEFINE row == [use[k][n] EXCEPT ![x] = @ + 1]
             col == [use[k] EXCEPT ![n] = row]
             new == [use EXCEPT ![k] = col]
  <1>1. use[k] \in [Names -> [Kinds -> Nat]] /\ use[k][n] \in [Kinds -> Nat]
    BY DEF Counts
  <1>2. /\ row \in [Kinds -> Nat]
        /\ \A y \in Kinds : row[y] = IF y = x THEN use[k][n][y] + 1 ELSE use[k][n][y]
    BY <1>1
  <1> HIDE DEF row
  <1>3. /\ col \in [Names -> [Kinds -> Nat]]
        /\ \A m \in Names : col[m] = IF m = n THEN row ELSE use[k][m]
    BY <1>1, <1>2
  <1> HIDE DEF col
  <1>4. new \in Counts /\ \A j \in Keys : new[j] = IF j = k THEN col ELSE use[j]
    BY <1>3 DEF Counts
  <1>5. \A j \in Keys, m \in Names, y \in Kinds :
           new[j][m][y] = IF j = k /\ m = n /\ y = x THEN use[j][m][y] + 1
                          ELSE use[j][m][y]
    BY <1>2, <1>3, <1>4
  <1>6. new = [use EXCEPT ![k][n][x] = @ + 1]
    BY DEF row, col
  <1> HIDE DEF new
  <1> QED BY <1>4, <1>5, <1>6, Zenon

\* An increment leaves counters.
LEMMA IncrementType ==
    ASSUME Types, NEW use \in Counts, NEW u \in Users, NEW x \in Kinds
    PROVE  Increment(use, u, x) \in Counts
  <1>1. PlainKey \in Keys /\ AdminKey \in Keys
    BY ReadTypes
  <1>2. CASE x = "plain"
    <2> DEFINE kept == Prune(use, PlainKey)
               n == Tracked(kept[PlainKey], u)
    <2>1. kept \in Counts
      BY ConstantTypes DEF Prune, Counts
    <2>2. n \in Names
      BY DEF Tracked, Names
    <2> HIDE DEF kept, n
    <2>3. [kept EXCEPT ![PlainKey][n]["plain"] = @ + 1] \in Counts
      BY <1>1, <2>1, <2>2, OneMore DEF Kinds
    <2> QED
      BY <1>2, <2>3 DEF Increment, kept, n
  <1>3. CASE x # "plain"
    <2>1. [use EXCEPT ![AdminKey][u][x] = @ + 1] \in Counts
      BY <1>1, OneMore DEF Names
    <2> QED
      BY <1>3, <2>1 DEF Increment
  <1> QED BY <1>2, <1>3

\* The settings an operation writes.
LEMMA SettledType ==
    ASSUME NEW cfg \in Settings, NEW s \in Setting \cup {None}, NEW op \in Settling,
           op \in {"set", "set_admin"} => s \in Setting
    PROVE  Settled(op, cfg, s) \in Settings
  <1>1. Target(cfg) \in Setting
    BY ConstantTypes DEF Target, Settings
  <1>2. ResetLimits(cfg) \in Settings
    BY <1>1 DEF ResetLimits, Settings
  <1>3. SaveAsDefault(cfg) \in Settings
    BY DEF SaveAsDefault, Settings
  <1>4. FactoryReset(cfg) \in Settings
    BY ConstantTypes DEF FactoryReset
  <1> QED
    BY <1>2, <1>3, <1>4 DEF Settled, Settling, Settings

\* A request that has not begun.
LEMMA IdleType == Idle \in Locals
  <1>1. <<>> \in Seq(Users \X Kinds)
    OBVIOUS
  <1> QED
    BY <1>1, ConstantTypes DEF Idle, Locals, Kinds

\* What a request notes leaves it a request.
LEMMA NotesType ==
    ASSUME NEW l \in Locals
    PROVE  /\ \A k \in Keys, c \in -1..MaxRequests : [l EXCEPT !.key = k, !.cap = c] \in Locals
           /\ \A k \in Keys, c \in Settings : [l EXCEPT !.key = k, !.cfg = c] \in Locals
           /\ \A c \in Settings : [l EXCEPT !.cfg = c] \in Locals
           /\ \A use \in Counts, s \in Seq(Users \X Kinds) :
                 [l EXCEPT !.use = use, !.incs = s] \in Locals
           /\ \A use \in Counts : [l EXCEPT !.use = use] \in Locals
           /\ \A r \in [0..MaxTime -> Nat] : [l EXCEPT !.rec = r] \in Locals
  <1>1. \A k \in Keys, c \in -1..MaxRequests : [l EXCEPT !.key = k, !.cap = c] \in Locals
    BY DEF Locals
  <1>2. \A k \in Keys, c \in Settings : [l EXCEPT !.key = k, !.cfg = c] \in Locals
    BY DEF Locals
  <1>3. \A c \in Settings : [l EXCEPT !.cfg = c] \in Locals
    BY DEF Locals
  <1>4. \A use \in Counts, s \in Seq(Users \X Kinds) :
           [l EXCEPT !.use = use, !.incs = s] \in Locals
    BY DEF Locals
  <1>5. \A use \in Counts : [l EXCEPT !.use = use] \in Locals
    BY DEF Locals
  <1>6. \A r \in [0..MaxTime -> Nat] : [l EXCEPT !.rec = r] \in Locals
    BY DEF Locals
  <1> QED BY <1>1, <1>2, <1>3, <1>4, <1>5, <1>6

\* One request notes something.
LEMMA OneNote ==
    ASSUME Types, NEW w \in Workers, NEW r \in Locals, loc' = [loc EXCEPT ![w] = r]
    PROVE  loc' \in [Workers -> Locals] /\ loc'[w] = r
    BY DEF Types

\* A step of w leaves the other requests alone.
OthersRest(w) ==
    \A v \in Workers \ {w} : pc'[v] = pc[v] /\ loc'[v] = loc[v]

\* Every step is one request's.
LEMMA OneMoves ==
    ASSUME Types, NEW w \in Workers, Step(w)
    PROVE  OthersRest(w)
  <1> USE DEF OthersRest, Types, Goto
  <1>1. CASE Begin(w) \/ Lock(w) \/ Check(w) \/ Act(w) \/ ActFails(w)
    BY <1>1 DEF Begin, Lock, Check, Act, ActFails
  <1>2. CASE ReadCounters(w) \/ ReadToWipe(w) \/ ClearCounters(w) \/ PutCounters(w)
    BY <1>2 DEF ReadCounters, ReadToWipe, ClearCounters, PutCounters
  <1>3. CASE CheckChanges(w) \/ ReadConfig(w) \/ ClearConfig(w) \/ PutConfig(w)
    BY <1>3 DEF CheckChanges, ReadConfig, ClearConfig, PutConfig
  <1>4. CASE ReadRecord(w) \/ WriteRecord(w) \/ RecordFails(w) \/ Fails(w) \/ Done(w)
    BY <1>4 DEF ReadRecord, WriteRecord, RecordFails, Fails, Done
  <1> QED BY <1>1, <1>2, <1>3, <1>4 DEF Step

\* What a step of w that moves no lock has to keep.
LEMMA StepKeeps ==
    ASSUME TypeInv, NEW w \in Workers, OthersRest(w), holder' = holder, Types',
           JobAt(w, pc'[w], loc'[w]),
           failed \subseteq failed',
           counters' = Torn => \/ pc'[w] = "put" \/ "counters" \in failed'
                               \/ (counters = Torn /\ pc[w] # "put"),
           config' = Torn => \/ pc'[w] = "cput" \/ "config" \in failed'
                             \/ (config = Torn /\ pc[w] # "cput")
    PROVE  TypeInv'
  <1>1. TornByWriter'
    BY DEF TypeInv, TornByWriter, OthersRest
  <1>2. Jobs'
    BY DEF TypeInv, Jobs, JobAt, OthersRest
  <1> QED BY <1>1, <1>2 DEF TypeInv

\* The invariant holds at the start, ...
LEMMA TypeInvInit == Init => TypeInv
  <1> SUFFICES ASSUME Init PROVE TypeInv
    OBVIOUS
  <1>1. Idle \in Locals
    BY IdleType
  <1>2. Types
    <2>1. agreed \in [plain : Setting, admin : Setting \cup {None}, lost : BOOLEAN]
      BY ConstantTypes DEF Init
    <2>2. counters \in Counts /\ config \in Settings /\ acted \in Counts
      BY ConstantTypes DEF Init
    <2>3. /\ changes \in [0..MaxTime -> Nat] /\ made \in [0..MaxTime -> Nat]
          /\ missed \in [0..MaxTime -> Nat] /\ failed \in SUBSET {"counters", "config"}
          /\ time \in 0..MaxTime
      BY ConstantTypes DEF Init
    <2>4. /\ holder \in [Admins -> Workers \cup {NoOne}]
          /\ pc \in [Workers -> Steps] /\ loc \in [Workers -> Locals]
      BY <1>1 DEF Init, Steps
    <2>5. excess \in SUBSET Kinds /\ raced \in BOOLEAN
      BY DEF Init
    <2> QED
      BY <2>1, <2>2, <2>3, <2>4, <2>5 DEF Types
  <1>3. TornByWriter
    BY ConstantTypes DEF Init, TornByWriter
  <1>4. Jobs
    BY ConstantTypes DEF Init, Jobs, JobAt, CountSteps, SettleSteps, RecordSteps
  <1> QED BY <1>2, <1>3, <1>4 DEF TypeInv

\* A request begins with what it needs.
LEMMA BeginTyped ==
    ASSUME TypeInv, NEW w \in Workers, Begin(w)
    PROVE  TypeInv'
  <1> PICK op \in Does, u \in Users, whom \in Users :
         \E s \in Offered(op) :
            /\ op # "save" => u \in Admins
            /\ loc' = [loc EXCEPT ![w] = Request(op, u, whom, s)]
            /\ Goto(w, "idle", FirstStep(Request(op, u, whom, s)))
    BY DEF Begin
  <1> PICK s \in Offered(op) :
            /\ op # "save" => u \in Admins
            /\ loc' = [loc EXCEPT ![w] = Request(op, u, whom, s)]
            /\ Goto(w, "idle", FirstStep(Request(op, u, whom, s)))
    OBVIOUS
  <1> DEFINE l == Request(op, u, whom, s)
  <1>1. pc[w] = "idle" /\ pc'[w] = FirstStep(l) /\ loc'[w] = l
    BY DEF Goto, TypeInv, Types
  <1>2. /\ s \in Setting \cup {None}
        /\ op = "set" => s \in Choices
        /\ op = "set_admin" => s \in AdminChoices
    BY ConstantTypes DEF Offered
  <1>3. op \in Counting \cup Settling
    BY LimitsAssumption
  <1>4. /\ l.op = op /\ l.user = u /\ l.whom = whom /\ l.set = s /\ l.key = 0
        /\ l.kind = CheckedKind(op, u)
    BY DEF Request, Idle
  <1>5. l \in Locals
    <2>1. CheckedKind(op, u) \in Kinds /\ Incs(op, u, whom) \in Seq(Users \X Kinds)
      BY IncsType DEF CheckedKind, Kinds
    <2> QED
      BY <1>2, <1>3, <2>1, IdleType DEF Request, Locals
  <1> HIDE DEF l
  <1>6. FirstStep(l) \in {"lock", "wipe", "changes", "config", "check"}
    BY DEF FirstStep
  <1>7. /\ OthersRest(w)
        /\ UNCHANGED <<counters, config, changes, time, holder, history, raced>>
    BY OneMoves DEF Step, Begin, TypeInv
  <1>8. Types'
    <2>1. pc' \in [Workers -> Steps] /\ loc' \in [Workers -> Locals]
      <3>1. FirstStep(l) \in Steps
        BY <1>6 DEF Steps, CountSteps, SettleSteps
      <3>2. loc' = [loc EXCEPT ![w] = l] /\ pc' = [pc EXCEPT ![w] = FirstStep(l)]
        BY DEF Goto, l
      <3> QED
        BY <1>5, <3>1, <3>2 DEF TypeInv, Types
    <2> QED
      BY <1>7, <2>1 DEF TypeInv, Types, history
  <1>9. \A a \in Admins : holder[a] # w
    BY <1>1 DEF TypeInv, Jobs, JobAt
  <1>10. JobAt(w, pc'[w], l)
    BY <1>1, <1>2, <1>3, <1>4, <1>6, <1>9, ConstantTypes
       DEF JobAt, CountSteps, SettleSteps, RecordSteps, KindFits, Counting, Settling, Locked,
           FirstStep, CheckedKind
  <1> QED
    BY <1>1, <1>6, <1>7, <1>8, <1>10, StepKeeps DEF l, history

\* The steps of a counted operation keep the types.
LEMMA CountTyped ==
    ASSUME TypeInv, NEW w \in Workers,
           \/ Check(w) \/ Act(w) \/ ActFails(w) \/ ReadCounters(w) \/ ReadToWipe(w)
           \/ ClearCounters(w) \/ PutCounters(w) \/ Fails(w)
    PROVE  TypeInv'
  <1> DEFINE l == loc[w]
  <1> USE DEF TypeInv, Goto, history
  <1>1. OthersRest(w)
    BY OneMoves DEF Step
  <1>2. JobAt(w, pc[w], l) /\ l \in Locals /\ Types
    BY DEF Jobs, Types
  <1>3. pc[w] \in CountSteps => l.user \in Users /\ l.kind \in Kinds /\ l.op \in Counting
    BY <1>2 DEF JobAt, CountSteps, Locals
  <1>4. CASE Check(w)
    <2> DEFINE key == KeyOf(l.kind)
               cap == (IF l.kind = "plain" THEN Config.plain ELSE AdminSetting(Config)).limit
    <2>1. key \in Keys /\ cap \in -1..MaxRequests
      BY <1>2, ReadTypes, ConstantTypes DEF Locals
    <2> HIDE DEF key, cap
    <2>2. loc' = [loc EXCEPT ![w].key = key, ![w].cap = cap]
      BY <1>4 DEF Check, key, cap
    <2>3. loc'[w] = [l EXCEPT !.key = key, !.cap = cap]
      BY <2>2 DEF Types
    <2>4. loc'[w] \in Locals /\ loc' \in [Workers -> Locals]
      <3>1. [l EXCEPT !.key = key, !.cap = cap] \in Locals
        BY <1>2, <2>1, NotesType
      <3>2. loc' = [loc EXCEPT ![w] = [l EXCEPT !.key = key, !.cap = cap]]
        BY <2>2
      <3> QED
        BY <1>2, <3>1, <3>2, OneNote
    <2>5. /\ pc[w] = "check" /\ pc'[w] \in {"act", "count", "done"}
          /\ pc'[w] = "count" => l.op = "purge"
          /\ pc' \in [Workers -> Steps]
      BY <1>4 DEF Check, Types, Steps, CountSteps, RecordSteps
    <2>6. Types'
      BY <1>4, <2>4, <2>5 DEF Check, Types, Reads
    <2>7. JobAt(w, pc'[w], loc'[w])
      BY <1>2, <2>3, <2>5
         DEF JobAt, CountSteps, SettleSteps, RecordSteps, Locals, KindFits, Locked
    <2> QED
      BY <1>1, <1>4, <2>5, <2>6, <2>7, StepKeeps DEF Check
  <1>5. CASE Act(w)
    <2>1. /\ pc[w] = "act" /\ pc'[w] \in {"wipe", "inc", "done"}
          /\ pc'[w] = "wipe" => l.op = "reset"
          /\ loc' = loc /\ pc' \in [Workers -> Steps]
      BY <1>5 DEF Act, Types, Steps, CountSteps
    <2>2. l.key \in Keys /\ l.user \in Names /\ l.kind \in Kinds
      BY <1>2, <1>3, <2>1 DEF Locals, CountSteps, Names
    <2>3. acted' \in Counts
      <3>1. acted' = [acted EXCEPT ![l.key][l.user][l.kind] = @ + 1]
        BY <1>5 DEF Act
      <3> QED
        BY <2>2, <3>1, OneMore DEF Types
    <2>4. Types'
      BY <1>5, <2>1, <2>2, <2>3 DEF Act, Types
    <2>5. JobAt(w, pc'[w], loc'[w])
      BY <1>2, <2>1 DEF JobAt, CountSteps, SettleSteps, RecordSteps
    <2> QED
      BY <1>1, <1>5, <2>1, <2>4, <2>5, StepKeeps DEF Act
  <1>6. CASE ActFails(w)
    <2>1. /\ pc[w] = "act" /\ pc'[w] = "done" /\ loc' = loc /\ pc' \in [Workers -> Steps]
      BY <1>6 DEF ActFails, Types, Steps
    <2>2. Types'
      BY <1>6, <2>1 DEF ActFails, Types
    <2>3. JobAt(w, pc'[w], loc'[w])
      BY <1>2, <2>1 DEF JobAt, CountSteps, SettleSteps, RecordSteps
    <2> QED
      BY <1>1, <1>6, <2>1, <2>2, <2>3, StepKeeps DEF ActFails
  <1>7. CASE ReadCounters(w)
    <2> DEFINE i == Head(l.incs)
               new == Increment(Usage, i[1], i[2])
    <2>1. i \in Users \X Kinds /\ Tail(l.incs) \in Seq(Users \X Kinds)
      BY <1>2, <1>7 DEF ReadCounters, Locals
    <2>2. new \in Counts
      BY <1>2, <2>1, IncrementType, ReadTypes
    <2> HIDE DEF new
    <2>3. loc' = [loc EXCEPT ![w].use = new, ![w].incs = Tail(@)]
      BY <1>7 DEF ReadCounters, new
    <2>4. loc'[w] = [l EXCEPT !.use = new, !.incs = Tail(@)]
      BY <2>3 DEF Types
    <2>5. loc'[w] \in Locals /\ loc' \in [Workers -> Locals]
      <3>1. [l EXCEPT !.use = new, !.incs = Tail(@)] \in Locals
        BY <1>2, <2>1, <2>2, NotesType
      <3>2. loc' = [loc EXCEPT ![w] = [l EXCEPT !.use = new, !.incs = Tail(@)]]
        BY <2>3
      <3> QED
        BY <1>2, <3>1, <3>2, OneNote
    <2>6. pc[w] = "inc" /\ pc'[w] = "clear" /\ pc' \in [Workers -> Steps]
      BY <1>7 DEF ReadCounters, Types, Steps, CountSteps
    <2>7. Types'
      BY <1>7, <2>5, <2>6 DEF ReadCounters, Types, Reads
    <2>8. JobAt(w, pc'[w], loc'[w])
      BY <1>2, <2>4, <2>6
         DEF JobAt, CountSteps, SettleSteps, RecordSteps, Locals, KindFits, Locked
    <2> QED
      BY <1>1, <1>7, <2>6, <2>7, <2>8, StepKeeps DEF ReadCounters
  <1>8. CASE ReadToWipe(w)
    <2> DEFINE new == [Usage EXCEPT ![PlainKey] =
                         [n \in Names |-> IF n \in Wiped(l) THEN Nothing ELSE @[n]]]
    <2>1. new \in Counts /\ acted' \in Counts
      <3>1. \A use \in Counts :
               [use EXCEPT ![PlainKey] =
                  [n \in Names |-> IF n \in Wiped(l) THEN Nothing ELSE @[n]]] \in Counts
        BY <1>2, ReadTypes, ConstantTypes DEF Counts
      <3> QED
        BY <1>2, <1>8, <3>1, ReadTypes DEF ReadToWipe, Types
    <2> HIDE DEF new
    <2>2. loc' = [loc EXCEPT ![w].use = new]
      BY <1>8 DEF ReadToWipe, new
    <2>3. loc'[w] = [l EXCEPT !.use = new]
      BY <2>2 DEF Types
    <2>4. loc'[w] \in Locals /\ loc' \in [Workers -> Locals]
      <3>1. [l EXCEPT !.use = new] \in Locals
        BY <1>2, <2>1, NotesType
      <3>2. loc' = [loc EXCEPT ![w] = [l EXCEPT !.use = new]]
        BY <2>2
      <3> QED
        BY <1>2, <3>1, <3>2, OneNote
    <2>5. pc[w] = "wipe" /\ pc'[w] = "clear" /\ pc' \in [Workers -> Steps]
      BY <1>8 DEF ReadToWipe, Types, Steps, CountSteps
    <2>6. Types'
      BY <1>8, <2>1, <2>4, <2>5 DEF ReadToWipe, Types, Reads
    <2>7. JobAt(w, pc'[w], loc'[w])
      BY <1>2, <2>3, <2>5
         DEF JobAt, CountSteps, SettleSteps, RecordSteps, Locals, KindFits, Locked
    <2> QED
      BY <1>1, <1>8, <2>5, <2>6, <2>7, StepKeeps DEF ReadToWipe
  <1>9. CASE ClearCounters(w)
    <2>1. pc[w] = "clear" /\ pc'[w] = "put" /\ loc' = loc /\ pc' \in [Workers -> Steps]
      BY <1>9 DEF ClearCounters, Types, Steps, CountSteps
    <2>2. Types'
      BY <1>9, <2>1 DEF ClearCounters, Types
    <2>3. JobAt(w, pc'[w], loc'[w])
      BY <1>2, <2>1 DEF JobAt, CountSteps, SettleSteps, RecordSteps
    <2> QED
      BY <1>1, <1>9, <2>1, <2>2, <2>3, StepKeeps DEF ClearCounters
  <1>10. CASE PutCounters(w)
    <2>1. loc' = [loc EXCEPT ![w].use = NoUsage] /\ loc'[w] = [l EXCEPT !.use = NoUsage]
      BY <1>10 DEF PutCounters, Types
    <2>2. loc'[w] \in Locals /\ loc' \in [Workers -> Locals]
      <3>1. [l EXCEPT !.use = NoUsage] \in Locals
        BY <1>2, ConstantTypes, NotesType
      <3>2. loc' = [loc EXCEPT ![w] = [l EXCEPT !.use = NoUsage]]
        BY <2>1
      <3> QED
        BY <1>2, <3>1, <3>2, OneNote
    <2>3. /\ pc[w] = "put" /\ pc'[w] \in {"done", "inc"} /\ pc' \in [Workers -> Steps]
          /\ counters' = l.use
      BY <1>10 DEF PutCounters, Types, Steps, CountSteps
    <2>4. counters' \in Counts
      BY <1>2, <2>3 DEF Locals
    <2>5. Types'
      BY <1>10, <2>2, <2>3, <2>4 DEF PutCounters, Types
    <2>6. JobAt(w, pc'[w], loc'[w])
      BY <1>2, <2>1, <2>3
         DEF JobAt, CountSteps, SettleSteps, RecordSteps, Locals, KindFits, Locked
    <2> QED
      BY <1>1, <1>10, <2>3, <2>4, <2>5, <2>6, ConstantTypes, StepKeeps DEF PutCounters
  <1>11. CASE Fails(w)
    <2>1. /\ pc[w] \in {"wipe", "inc", "put", "cput"} /\ pc'[w] = "done" /\ loc' = loc
          /\ pc' \in [Workers -> Steps]
          /\ failed' = failed \cup {IF pc[w] = "cput" THEN "config" ELSE "counters"}
      BY <1>11 DEF Fails, Types, Steps
    <2>2. Types'
      BY <1>11, <2>1 DEF Fails, Types
    <2>3. JobAt(w, pc'[w], loc'[w])
      BY <1>2, <2>1 DEF JobAt, CountSteps, SettleSteps, RecordSteps
    <2> QED
      BY <1>1, <1>11, <2>1, <2>2, <2>3, StepKeeps DEF Fails
  <1> QED
    BY <1>4, <1>5, <1>6, <1>7, <1>8, <1>9, <1>10, <1>11

\* So do those of a change of settings, ...
LEMMA SettleTyped ==
    ASSUME TypeInv, NEW w \in Workers,
           \/ CheckChanges(w) \/ ReadConfig(w) \/ ClearConfig(w) \/ PutConfig(w)
           \/ ReadRecord(w) \/ WriteRecord(w) \/ RecordFails(w)
    PROVE  TypeInv'
  <1> DEFINE l == loc[w]
  <1> USE DEF TypeInv, Goto, history
  <1>1. OthersRest(w)
    BY OneMoves DEF Step
  <1>2. JobAt(w, pc[w], l) /\ l \in Locals /\ Types
    BY DEF Jobs, Types
  <1>3. CASE CheckChanges(w)
    <2>1. /\ loc' = [loc EXCEPT ![w].key = time, ![w].cfg = Config]
          /\ loc'[w] = [l EXCEPT !.key = time, !.cfg = Config]
      BY <1>3 DEF CheckChanges, Types
    <2>2. loc'[w] \in Locals /\ loc' \in [Workers -> Locals]
      <3>1. time \in Keys /\ Config \in Settings
        BY <1>2, ReadTypes, ConstantTypes DEF Types
      <3>2. [l EXCEPT !.key = time, !.cfg = Config] \in Locals
        BY <1>2, <3>1, NotesType
      <3>3. loc' = [loc EXCEPT ![w] = [l EXCEPT !.key = time, !.cfg = Config]]
        BY <2>1
      <3> QED
        BY <1>2, <3>2, <3>3, OneNote
    <2>3. pc[w] = "changes" /\ pc'[w] \in {"done", "config"} /\ pc' \in [Workers -> Steps]
      BY <1>3 DEF CheckChanges, Types, Steps, SettleSteps
    <2>4. Types'
      BY <1>3, <2>2, <2>3 DEF CheckChanges, Types
    <2>5. JobAt(w, pc'[w], loc'[w])
      BY <1>2, <2>1, <2>3 DEF JobAt, CountSteps, SettleSteps, RecordSteps, Locals, Types
    <2> QED
      BY <1>1, <1>3, <2>3, <2>4, <2>5, StepKeeps DEF CheckChanges
  <1>4. CASE ReadConfig(w)
    <2> DEFINE new == Settled(l.op, Config, l.set)
    <2>1. l.op \in Settling /\ (l.op \in {"set", "set_admin"} => l.set \in Setting)
      BY <1>2, <1>4, ConstantTypes DEF ReadConfig, JobAt, SettleSteps
    <2>2. new \in Settings
      BY <1>2, <2>1, SettledType, ReadTypes DEF Locals
    <2> HIDE DEF new
    <2>3. loc' = [loc EXCEPT ![w].cfg = new] /\ loc'[w] = [l EXCEPT !.cfg = new]
      BY <1>4 DEF ReadConfig, Types, new
    <2>4. loc'[w] \in Locals /\ loc' \in [Workers -> Locals]
      <3>1. [l EXCEPT !.cfg = new] \in Locals
        BY <1>2, <2>2, NotesType
      <3>2. loc' = [loc EXCEPT ![w] = [l EXCEPT !.cfg = new]]
        BY <2>3
      <3> QED
        BY <1>2, <3>1, <3>2, OneNote
    <2>5. pc[w] = "config" /\ pc'[w] \in {"done", "cclear"} /\ pc' \in [Workers -> Steps]
      BY <1>4 DEF ReadConfig, Types, Steps, SettleSteps
    <2>6. Types'
      BY <1>4, <2>4, <2>5 DEF ReadConfig, Types, Reads
    <2>7. JobAt(w, pc'[w], loc'[w])
      BY <1>2, <2>3, <2>5 DEF JobAt, CountSteps, SettleSteps, RecordSteps, Locals
    <2> QED
      BY <1>1, <1>4, <2>5, <2>6, <2>7, StepKeeps DEF ReadConfig
  <1>5. CASE ClearConfig(w)
    <2>1. pc[w] = "cclear" /\ pc'[w] = "cput" /\ loc' = loc /\ pc' \in [Workers -> Steps]
      BY <1>5 DEF ClearConfig, Types, Steps, SettleSteps
    <2>2. Types'
      BY <1>5, <2>1 DEF ClearConfig, Types
    <2>3. JobAt(w, pc'[w], loc'[w])
      BY <1>2, <2>1 DEF JobAt, CountSteps, SettleSteps, RecordSteps
    <2> QED
      BY <1>1, <1>5, <2>1, <2>2, <2>3, StepKeeps DEF ClearConfig
  <1>6. CASE PutConfig(w)
    <2>1. /\ pc[w] = "cput" /\ pc'[w] = (IF l.op = "set_admin" THEN "count" ELSE "done")
          /\ loc' = loc /\ pc' \in [Workers -> Steps] /\ config' = l.cfg
      BY <1>6 DEF PutConfig, Types, Steps, SettleSteps, RecordSteps
    <2>2. l.cfg \in Settings /\ l.op \in Settling
      BY <1>2, <2>1 DEF Locals, JobAt, SettleSteps
    <2>3. agreed' \in [plain : Setting, admin : Setting \cup {None}, lost : BOOLEAN]
      <3>1. (l.op = "set" => l.set \in Setting) /\ (l.op = "set_admin" => l.set \in Setting)
        BY <1>2, <2>1, ConstantTypes DEF JobAt, SettleSteps
      <3>2. l.cfg.plain \in Setting
        BY <2>2 DEF Settings
      <3>3. CASE l.op = "set"
        <4>1. agreed' = [agreed EXCEPT !.plain = l.set]
          BY <1>6, <3>3 DEF PutConfig
        <4> QED
          BY <3>1, <3>3, <4>1 DEF Types
      <3>4. CASE l.op = "set_admin"
        <4>1. agreed' = [agreed EXCEPT !.admin = l.set, !.lost = FALSE]
          BY <1>6, <3>4 DEF PutConfig
        <4> QED
          BY <3>1, <3>4, <4>1 DEF Types
      <3>5. CASE l.op \notin {"set", "set_admin"}
        <4>1. \/ agreed' = agreed
              \/ agreed' = [agreed EXCEPT !.plain = l.cfg.plain, !.lost = TRUE]
              \/ agreed' = [plain |-> DefaultLimits, admin |-> None, lost |-> FALSE]
          BY <1>6, <2>2, <3>5 DEF PutConfig, Settling
        <4>2. CASE agreed' = agreed
          BY <1>2, <4>2 DEF Types
        <4>3. CASE agreed' = [agreed EXCEPT !.plain = l.cfg.plain, !.lost = TRUE]
          BY <1>2, <3>2, <4>3 DEF Types
        <4>4. CASE agreed' = [plain |-> DefaultLimits, admin |-> None, lost |-> FALSE]
          BY <4>4, ConstantTypes
        <4> QED
          BY <4>1, <4>2, <4>3, <4>4
      <3> QED
        BY <3>3, <3>4, <3>5
    <2>4. made' \in [0..MaxTime -> Nat]
      <3>1. CASE l.op = "set_admin"
        <4>1. l.key \in 0..MaxTime
          BY <1>2, <2>1, <3>1 DEF JobAt, SettleSteps
        <4>2. made' = [made EXCEPT ![l.key] = @ + 1]
          BY <1>6, <3>1 DEF PutConfig
        <4> QED
          BY <1>2, <4>1, <4>2 DEF Types
      <3>2. CASE l.op # "set_admin"
        BY <1>2, <1>6, <3>2 DEF PutConfig, Types
      <3> QED
        BY <3>1, <3>2
    <2>5. Types'
      BY <1>6, <2>1, <2>2, <2>3, <2>4 DEF PutConfig, Types
    <2>6. JobAt(w, pc'[w], loc'[w])
      BY <1>2, <2>1 DEF JobAt, CountSteps, SettleSteps, RecordSteps
    <2> QED
      BY <1>1, <1>6, <2>1, <2>2, <2>5, <2>6, ConstantTypes, StepKeeps DEF PutConfig
  <1>7. CASE ReadRecord(w)
    <2> DEFINE new == IF l.op = "set_admin" THEN [changes EXCEPT ![l.key] = @ + 1]
                      ELSE changes
    <2>1. pc[w] = "count" /\ pc'[w] = "record" /\ pc' \in [Workers -> Steps]
      BY <1>7 DEF ReadRecord, Types, Steps, RecordSteps
    <2>2. new \in [0..MaxTime -> Nat]
      <3>1. l.op = "set_admin" => l.key \in 0..MaxTime
        BY <1>2, <2>1 DEF JobAt, RecordSteps
      <3> QED
        BY <1>2, <3>1 DEF Types
    <2> HIDE DEF new
    <2>3. loc' = [loc EXCEPT ![w].rec = new] /\ loc'[w] = [l EXCEPT !.rec = new]
      BY <1>7 DEF ReadRecord, Types, new
    <2>4. loc'[w] \in Locals /\ loc' \in [Workers -> Locals]
      <3>1. [l EXCEPT !.rec = new] \in Locals
        BY <1>2, <2>2, NotesType
      <3>2. loc' = [loc EXCEPT ![w] = [l EXCEPT !.rec = new]]
        BY <2>3
      <3> QED
        BY <1>2, <3>1, <3>2, OneNote
    <2>5. Types'
      BY <1>7, <2>1, <2>4 DEF ReadRecord, Types
    <2>6. JobAt(w, pc'[w], loc'[w])
      BY <1>2, <2>1, <2>3 DEF JobAt, CountSteps, SettleSteps, RecordSteps, Locals, KindFits, Locked
    <2> QED
      BY <1>1, <1>7, <2>1, <2>5, <2>6, StepKeeps DEF ReadRecord
  <1>8. CASE WriteRecord(w) \/ RecordFails(w)
    <2>1. /\ pc[w] \in RecordSteps /\ pc'[w] = Onward(w) /\ pc' \in [Workers -> Steps]
          /\ loc' = [loc EXCEPT ![w].rec = NoChanges]
          /\ loc'[w] = [l EXCEPT !.rec = NoChanges]
      BY <1>8 DEF WriteRecord, RecordFails, Onward, Types, Steps, RecordSteps, CountSteps
    <2>2. /\ l.op \in {"set_admin", "purge"} /\ (l.op = "set_admin" => l.key \in 0..MaxTime)
          /\ l.op = "purge" => KindFits(l)
      BY <1>2, <2>1 DEF JobAt
    <2>3. loc'[w] \in Locals /\ loc' \in [Workers -> Locals]
      <3>1. [l EXCEPT !.rec = NoChanges] \in Locals
        BY <1>2, ConstantTypes, NotesType
      <3>2. loc' = [loc EXCEPT ![w] = [l EXCEPT !.rec = NoChanges]]
        BY <2>1
      <3> QED
        BY <1>2, <3>1, <3>2, OneNote
    <2>4. Missed(w) \in [0..MaxTime -> Nat]
      BY <1>2, <2>2 DEF Missed, Types
    <2>5. /\ changes' \in [0..MaxTime -> Nat] /\ missed' \in [0..MaxTime -> Nat]
          /\ UNCHANGED <<counters, config, time, holder, acted, excess, agreed, made, failed,
                         raced>>
      <3>1. l.rec \in [0..MaxTime -> Nat]
        BY <1>2 DEF Locals
      <3> QED
        BY <1>2, <1>8, <2>4, <3>1 DEF WriteRecord, RecordFails, Types
    <2>6. Types'
      BY <1>2, <2>1, <2>3, <2>5 DEF Types
    <2>7. JobAt(w, pc'[w], loc'[w])
      <3>1. /\ loc'[w].op = l.op /\ loc'[w].user = l.user /\ loc'[w].whom = l.whom
            /\ loc'[w].kind = l.kind
        BY <1>2, <2>1 DEF Locals
      <3>2. ~Locked(l) /\ ~Locked(loc'[w]) /\ (KindFits(l) => KindFits(loc'[w]))
        BY <2>2, <3>1 DEF Locked, KindFits
      <3>3. pc'[w] = IF l.op = "purge" THEN "act" ELSE "done"
        BY <2>1 DEF Onward
      <3> QED
        BY <1>2, <2>1, <2>2, <2>5, <3>1, <3>2, <3>3
           DEF JobAt, CountSteps, SettleSteps, RecordSteps, Counting
    <2>8. pc[w] \notin {"put", "cput"}
      BY <2>1 DEF RecordSteps
    <2> QED
      BY <1>1, <2>5, <2>6, <2>7, <2>8, StepKeeps
  <1> QED
    BY <1>3, <1>4, <1>5, <1>6, <1>7, <1>8

\* ... the taking of a free lock ...
LEMMA LockTyped ==
    ASSUME TypeInv, NEW w \in Workers, Lock(w)
    PROVE  TypeInv'
  <1> DEFINE u == loc[w].user
  <1> USE DEF TypeInv, Goto, history
  <1>1. OthersRest(w) /\ loc' = loc
    BY OneMoves DEF Step, Lock
  <1>2. JobAt(w, pc[w], loc[w]) /\ loc[w] \in Locals /\ Types
    BY DEF Jobs, Types
  <1>3. pc[w] = "lock" /\ pc'[w] = "check" /\ pc' \in [Workers -> Steps]
    BY DEF Lock, Types, Steps, CountSteps
  <1>4. u \in Admins /\ holder[u] = NoOne /\ holder' = [holder EXCEPT ![u] = w]
    BY <1>2, <1>3 DEF Lock, JobAt, Locked
  <1>5. \A a \in Admins : holder'[a] = IF a = u THEN w ELSE holder[a]
    BY <1>4 DEF Types
  <1>6. Types'
    BY <1>1, <1>3, <1>4 DEF Lock, Types
  <1>7. TornByWriter'
    BY <1>1, <1>3 DEF Lock, TornByWriter
  <1>8. ASSUME NEW v \in Workers PROVE JobAt(v, pc[v], loc[v])' 
    <2>1. JobAt(v, pc[v], loc[v]) /\ NoOne \notin Workers
      BY ConstantTypes DEF Jobs
    <2>2. CASE v = w
      BY <1>1, <1>2, <1>3, <1>4, <1>5, <2>1, <2>2 DEF JobAt, CountSteps, SettleSteps, RecordSteps, KindFits
    <2>3. CASE v # w
      <3>1. pc'[v] = pc[v] /\ loc'[v] = loc[v]
        BY <1>1, <2>3 DEF OthersRest
      <3>2. \A a \in Admins : (holder'[a] = v => holder[a] = v)
                              /\ (holder[a] = v => holder'[a] = v)
        BY <1>4, <1>5, <2>1, <2>3
      <3>3. Locked(loc[v]) => loc[v].user \in Admins
        BY DEF Locked
      <3> QED
        BY <2>1, <3>1, <3>2, <3>3 DEF JobAt
    <2> QED
      BY <2>2, <2>3
  <1> QED
    BY <1>6, <1>7, <1>8 DEF Jobs

\* ... and its release.
LEMMA DoneTyped ==
    ASSUME TypeInv, NEW w \in Workers, Done(w)
    PROVE  TypeInv'
  <1> USE DEF TypeInv, Goto, history
  <1>1. OthersRest(w) /\ Types
    BY OneMoves DEF Step
  <1>2. /\ pc[w] = "done" /\ pc'[w] = "idle" /\ pc' \in [Workers -> Steps]
        /\ loc' = [loc EXCEPT ![w] = Idle] /\ loc' \in [Workers -> Locals]
    BY IdleType DEF Done, Types, Steps
  <1>3. /\ holder' \in [Admins -> Workers \cup {NoOne}]
        /\ \A a \in Admins : holder'[a] = IF holder[a] = w THEN NoOne ELSE holder[a]
    BY DEF Done, Types
  <1>4. Types'
    BY <1>1, <1>2, <1>3 DEF Done, Types
  <1>5. TornByWriter'
    BY <1>1, <1>2 DEF Done, TornByWriter, OthersRest
  <1>6. ASSUME NEW v \in Workers PROVE JobAt(v, pc[v], loc[v])' 
    <2>1. JobAt(v, pc[v], loc[v]) /\ NoOne \notin Workers
      BY ConstantTypes DEF Jobs
    <2>2. CASE v = w
      BY <1>2, <1>3, <2>1, <2>2 DEF JobAt, CountSteps, SettleSteps, RecordSteps
    <2>3. CASE v # w
      <3>1. pc'[v] = pc[v] /\ loc'[v] = loc[v]
        BY <1>1, <2>3 DEF OthersRest
      <3>2. \A a \in Admins : (holder'[a] = v => holder[a] = v)
                              /\ (holder[a] = v => holder'[a] = v)
        BY <1>3, <2>1, <2>3
      <3>3. Locked(loc[v]) => loc[v].user \in Admins
        BY DEF Locked
      <3> QED
        BY <2>1, <3>1, <3>2, <3>3 DEF JobAt
    <2> QED
      BY <2>2, <2>3
  <1> QED
    BY <1>4, <1>5, <1>6 DEF Jobs

\* ... and every step keeps it.
LEMMA TypeInvStep == TypeInv /\ [Next]_vars => TypeInv'
  <1> SUFFICES ASSUME TypeInv, [Next]_vars PROVE TypeInv'
    OBVIOUS
  <1>1. ASSUME NEW w \in Workers, Step(w) PROVE TypeInv'
    BY <1>1, BeginTyped, LockTyped, CountTyped, SettleTyped, DoneTyped DEF Step
  <1>2. CASE Tick
    <2> USE DEF Tick, history
    <2>1. time' \in 0..MaxTime /\ pc' = pc /\ loc' = loc /\ holder' = holder
      BY <1>2, ConstantTypes DEF TypeInv, Types
    <2>2. Types'
      BY <1>2, <2>1 DEF TypeInv, Types
    <2> QED
      BY <1>2, <2>1, <2>2 DEF TypeInv, TornByWriter, Jobs, JobAt
  <1>3. CASE UNCHANGED vars
    BY <1>3 DEF vars, TypeInv, Types, TornByWriter, Jobs, JobAt
  <1> QED BY <1>1, <1>2, <1>3 DEF Next

\* The types hold at all times.
LEMMA TypesHold == Spec => []TypeInv
  <1> QED
    BY TypeInvInit, TypeInvStep, PTL DEF Spec

\* The two files hold counters and settings, or are about to be written, and a lock is
\* held by a request of its admin (write_daily_limits, write_limit_config,
\* admin_daily_limit_lock).
THEOREM TypeCorrect == Spec => []TypeOK
  <1>1. TypeInv => TypeOK
    <2> SUFFICES ASSUME TypeInv PROVE TypeOK
      OBVIOUS
    <2>1. \A u \in Admins : holder[u] # NoOne => loc[holder[u]].user = u
      BY DEF TypeInv, Types, Jobs, JobAt
    <2> QED
      BY <2>1, ConstantTypes DEF TypeInv, Types, TornByWriter, TypeOK
  <1> QED
    BY <1>1, TypesHold, PTL

----------------------------------------------------------------------------
(* The settings.                                                           *)

\* One request at a time is between its read of a file and its write.
OneWriter == \A v, w \in Workers : Writing(v) /\ Writing(w) => v = w

\* What a change that is being written makes of the accepted settings.
Settles(p, l) ==
    p \in {"cclear", "cput"} =>
        /\ l.op = "set" => l.cfg.plain = l.set /\ AdminAsAgreed(l.cfg)
        /\ l.op = "set_admin" => l.cfg.plain = agreed.plain /\ l.cfg.admin = l.set
        /\ l.op = "save_default" => l.cfg.plain = agreed.plain /\ AdminAsAgreed(l.cfg)
        /\ l.op = "reset_limits" => l.cfg.admin = None
        /\ l.op = "factory" => l.cfg = Defaults

Unsettled(v) == pc[v] \in {"cclear", "cput"}
InForce ==
    (\A v \in Workers : ~Unsettled(v)) =>
        config # Torn /\ config.plain = agreed.plain /\ AdminAsAgreed(config)

SettleInv ==
    ~raced =>
        /\ OneWriter
        /\ "config" \notin failed =>
              InForce /\ \A w \in Workers : Settles(pc[w], loc[w])

\* A step that leaves no race starts without one, and nobody starts to write while
\* another request does.
LEMMA Unraced ==
    ASSUME Types, NEW w \in Workers, Step(w), ~raced'
    PROVE  /\ ~raced /\ failed \subseteq failed'
           /\ Writing(w)' => Writing(w) \/ \A v \in Workers \ {w} : ~Writing(v)
  <1> USE DEF Types, Goto, Reads, Meets, Writing, history
  <1>1. CASE Begin(w)
    <2>1. pc'[w] \in {"lock", "wipe", "changes", "config", "check"}
      BY <1>1 DEF Begin, FirstStep
    <2> QED
      BY <1>1, <2>1 DEF Begin
  <1>2. CASE Lock(w) \/ Check(w) \/ Act(w) \/ ActFails(w)
    BY <1>2 DEF Lock, Check, Act, ActFails
  <1>3. CASE ReadCounters(w) \/ ReadToWipe(w) \/ ClearCounters(w) \/ PutCounters(w)
    BY <1>3 DEF ReadCounters, ReadToWipe, ClearCounters, PutCounters
  <1>4. CASE CheckChanges(w) \/ ReadConfig(w) \/ ClearConfig(w) \/ PutConfig(w)
    BY <1>4 DEF CheckChanges, ReadConfig, ClearConfig, PutConfig
  <1>5. CASE ReadRecord(w) \/ WriteRecord(w) \/ RecordFails(w) \/ Fails(w) \/ Done(w)
    BY <1>5 DEF ReadRecord, WriteRecord, RecordFails, Onward, Fails, Done
  <1> QED BY <1>1, <1>2, <1>3, <1>4, <1>5 DEF Step

\* Without a race there is never a second writer.
LEMMA OneWriterStep ==
    ASSUME Types, NEW w \in Workers, Step(w), ~raced', OneWriter
    PROVE  OneWriter'
  <1>1. OthersRest(w)
    BY OneMoves
  <1>2. \A v \in Workers \ {w} : Writing(v)' <=> Writing(v)
    BY <1>1 DEF OthersRest, Writing
  <1>3. Writing(w)' => \A v \in Workers \ {w} : ~Writing(v)
    BY Unraced DEF OneWriter
  <1> QED BY <1>2, <1>3 DEF OneWriter

\* A step that leaves the settings alone and is not about to write them.
LEMMA SettlesRest ==
    ASSUME TypeInv, SettleInv, NEW w \in Workers, OthersRest(w), ~raced, OneWriter',
           failed \subseteq failed',
           config' = config, agreed' = agreed, ~Unsettled(w), ~Unsettled(w)'
    PROVE  SettleInv'
    BY DEF SettleInv, InForce, Settles, OthersRest, Unsettled, AdminAsAgreed

\* The first settings are the defaults.
LEMMA SettleInvInit == Init => SettleInv
    BY ConstantTypes DEF Init, SettleInv, OneWriter, Writing, InForce, Settles, Defaults, AdminAsAgreed

\* Without a race, the settings written are made of those in force.
LEMMA SettleInvStep == TypeInv /\ SettleInv /\ [Next]_vars => SettleInv'
  <1> SUFFICES ASSUME TypeInv, SettleInv, [Next]_vars, ~raced' PROVE SettleInv'
    BY DEF SettleInv
  <1> USE DEF Goto, history
  <1>0. Types
    BY DEF TypeInv
  <1>1. ASSUME NEW w \in Workers, Step(w) PROVE SettleInv'
    <2> DEFINE l == loc[w]
    <2>1. /\ ~raced /\ failed \subseteq failed' /\ OneWriter /\ OneWriter' /\ OthersRest(w)
          /\ l \in Locals /\ JobAt(w, pc[w], l)
          /\ Writing(w)' => Writing(w) \/ \A v \in Workers \ {w} : ~Writing(v)
      BY <1>0, <1>1, Unraced, OneWriterStep, OneMoves DEF SettleInv, Types, TypeInv, Jobs
    <2>2. CASE Begin(w)
      <3>1. /\ pc[w] = "idle" /\ pc'[w] \in {"lock", "wipe", "changes", "config", "check"}
            /\ config' = config /\ agreed' = agreed
        BY <1>0, <2>2 DEF Begin, FirstStep, Types
      <3> QED
        BY <2>1, <3>1, SettlesRest DEF Unsettled
    <2>3. CASE Lock(w) \/ Check(w) \/ Act(w) \/ ActFails(w)
      <3>1. ~Unsettled(w) /\ ~Unsettled(w)' /\ config' = config /\ agreed' = agreed
        BY <1>0, <2>3 DEF Lock, Check, Act, ActFails, Unsettled, Types
      <3> QED
        BY <2>1, <3>1, SettlesRest
    <2>4. CASE ReadCounters(w) \/ ReadToWipe(w) \/ ClearCounters(w) \/ PutCounters(w)
      <3>1. ~Unsettled(w) /\ ~Unsettled(w)' /\ config' = config /\ agreed' = agreed
        BY <1>0, <2>4
           DEF ReadCounters, ReadToWipe, ClearCounters, PutCounters, Unsettled, Types
      <3> QED
        BY <2>1, <3>1, SettlesRest
    <2>5. CASE CheckChanges(w) \/ ReadRecord(w) \/ WriteRecord(w) \/ RecordFails(w) \/ Done(w)
      <3>1. ~Unsettled(w) /\ ~Unsettled(w)' /\ config' = config /\ agreed' = agreed
        BY <1>0, <2>5
           DEF CheckChanges, ReadRecord, WriteRecord, RecordFails, Onward, Done, Unsettled, Types
      <3> QED
        BY <2>1, <3>1, SettlesRest
    <2>6. CASE ReadConfig(w)
      <3> DEFINE new == Settled(l.op, Config, l.set)
      <3>1. /\ pc[w] = "config" /\ config' = config /\ agreed' = agreed
            /\ pc'[w] = (IF new = Config THEN "done" ELSE "cclear")
            /\ loc'[w] = [l EXCEPT !.cfg = new]
        BY <1>0, <2>6 DEF ReadConfig, Types
      <3>2. CASE new = Config
        BY <2>1, <3>1, <3>2, SettlesRest DEF Unsettled
      <3>3. CASE new # Config /\ "config" \in failed'
        BY <2>1, <3>3 DEF SettleInv
      <3>4. CASE new # Config /\ "config" \notin failed'
        <4>1. \A v \in Workers : ~Unsettled(v)
          BY <2>1, <3>1, <3>4 DEF Writing, Unsettled
        <4>2. config # Torn /\ config.plain = agreed.plain /\ AdminAsAgreed(config)
          BY <2>1, <3>4, <4>1 DEF SettleInv, InForce
        <4>3. Config = config /\ Config \in Settings
          BY <1>0, <4>2, ReadTypes DEF Config
        <4>4. l.op \in Settling /\ loc'[w].op = l.op /\ loc'[w].set = l.set
              /\ loc'[w].cfg = new
          BY <2>1, <3>1 DEF JobAt, SettleSteps, Locals
        <4>5. /\ l.op = "set" => new.plain = l.set /\ AdminAsAgreed(new)
              /\ l.op = "set_admin" => new.plain = agreed.plain /\ new.admin = l.set
              /\ l.op = "save_default" => new.plain = agreed.plain /\ AdminAsAgreed(new)
          BY <4>2, <4>3 DEF Settled, SaveAsDefault, Settings, AdminAsAgreed
        <4>6. l.op = "reset_limits" => new.admin = None
          BY <3>4, <4>3 DEF Settled, ResetLimits, Settings
        <4>7. l.op = "factory" => new = Defaults
          BY <3>4 DEF Settled, FactoryReset
        <4>8. Settles(pc[w], loc[w])'
          BY <3>1, <4>4, <4>5, <4>6, <4>7 DEF Settles, Settling, AdminAsAgreed
        <4>9. \A v \in Workers \ {w} : Settles(pc[v], loc[v])'
          BY <2>1, <3>1, <3>4 DEF SettleInv, Settles, OthersRest, AdminAsAgreed
        <4>10. Unsettled(w)'
          BY <3>1, <3>4 DEF Unsettled
        <4> QED
          BY <2>1, <4>8, <4>9, <4>10 DEF SettleInv, InForce
      <3> QED BY <3>2, <3>3, <3>4
    <2>7. CASE ClearConfig(w)
      <3>1. /\ pc[w] = "cclear" /\ pc'[w] = "cput" /\ loc' = loc /\ agreed' = agreed
        BY <1>0, <2>7 DEF ClearConfig, Types
      <3>2. "config" \notin failed' => \A v \in Workers : Settles(pc[v], loc[v])'
        BY <2>1, <3>1 DEF SettleInv, Settles, OthersRest, AdminAsAgreed
      <3> QED
        BY <2>1, <3>1, <3>2 DEF SettleInv, InForce, Unsettled
    <2>8. CASE PutConfig(w)
      <3>1. /\ pc[w] = "cput" /\ pc'[w] \in {"count", "done"} /\ loc' = loc
            /\ config' = l.cfg
        BY <1>0, <2>8 DEF PutConfig, Types
      <3>2. \A v \in Workers : ~Unsettled(v)'
        BY <2>1, <3>1 DEF Unsettled, OneWriter, Writing, OthersRest
      <3>3. l.op \in Settling /\ l.cfg \in Settings
        BY <2>1, <3>1 DEF JobAt, SettleSteps, Locals
      <3>4. config' # Torn
        BY <3>1, <3>3, ConstantTypes
      <3>5. ASSUME "config" \notin failed'
            PROVE  l.cfg.plain = agreed'.plain /\ AdminAsAgreed(l.cfg)'
        <4>0. Settles("cput", l) /\ l.cfg' = l.cfg
          BY <2>1, <3>1, <3>5 DEF SettleInv
        <4>1. CASE l.op = "set"
          BY <1>0, <2>8, <4>0, <4>1 DEF PutConfig, Settles, Types, AdminAsAgreed
        <4>2. CASE l.op = "set_admin"
          BY <1>0, <2>8, <4>0, <4>2 DEF PutConfig, Settles, Types, AdminAsAgreed
        <4>3. CASE l.op = "save_default"
          BY <1>0, <2>8, <4>0, <4>3 DEF PutConfig, Settles, AdminAsAgreed
        <4>4. CASE l.op = "reset_limits"
          BY <1>0, <2>8, <4>0, <4>4 DEF PutConfig, Settles, Types, AdminAsAgreed
        <4>5. CASE l.op = "factory"
          BY <1>0, <2>8, <4>0, <4>5 DEF PutConfig, Settles, Defaults, AdminAsAgreed
        <4> QED BY <3>3, <4>1, <4>2, <4>3, <4>4, <4>5 DEF Settling
      <3>6. "config" \notin failed' => InForce'
        BY <3>1, <3>4, <3>5 DEF InForce, AdminAsAgreed
      <3>7. \A v \in Workers : Settles(pc[v], loc[v])'
        BY <3>2 DEF Settles, Unsettled
      <3> QED
        BY <2>1, <3>6, <3>7 DEF SettleInv
    <2>9. CASE Fails(w)
      <3>1. /\ pc'[w] = "done" /\ pc[w] \in {"wipe", "inc", "put", "cput"} /\ config' = config
            /\ agreed' = agreed
            /\ failed' = failed \cup {IF pc[w] = "cput" THEN "config" ELSE "counters"}
        BY <1>0, <2>9 DEF Fails, Types
      <3>2. CASE pc[w] = "cput"
        BY <2>1, <3>1, <3>2 DEF SettleInv
      <3>3. CASE pc[w] # "cput"
        BY <2>1, <3>1, <3>3, SettlesRest DEF Unsettled
      <3> QED BY <3>2, <3>3
    <2> QED
      BY <1>1, <2>2, <2>3, <2>4, <2>5, <2>6, <2>7, <2>8, <2>9 DEF Step
  <1>2. CASE Tick
    BY <1>2 DEF Tick, SettleInv, OneWriter, Writing, InForce, Settles, Unsettled, AdminAsAgreed
  <1>3. CASE UNCHANGED vars
    BY <1>3 DEF vars, history, SettleInv, OneWriter, Writing, InForce, Settles, Unsettled,
                AdminAsAgreed
  <1> QED BY <1>1, <1>2, <1>3 DEF Next

\* The files settle what was accepted, at all times.
LEMMA SettlesHold == Spec => [](TypeInv /\ SettleInv)
    BY TypeInvInit, TypeInvStep, SettleInvInit, SettleInvStep, PTL DEF Spec

\* The settings in the file are those last accepted, as long as no request reads a file
\* another is about to write and no write of the settings has failed: a change of one
\* tier's limits does not undo a change of the other's, but for the reset of the
\* analysts' limits, which drops the admins' (write_admin_limits).
THEOREM SettingsStay == Spec => []SettingsKept
  <1>1. SettleInv => SettingsKept
    BY DEF SettleInv, InForce, Unsettled, SettingsKept
  <1> QED
    BY <1>1, SettlesHold, PTL

----------------------------------------------------------------------------
(* Changes of the admins' limits.                                          *)

\* Between the check of the count and the end of the count.
Changing(v) ==
    pc[v] \in {"config", "cclear", "cput", "count", "record"} /\ loc[v].op = "set_admin"

\* It has been made and is still to be counted.
Pending(v) == pc[v] \in RecordSteps /\ loc[v].op = "set_admin"
Counted(d) == \A v \in Workers : Pending(v) => loc[v].key # d

\* What will be written back is the record with the change counted.
Copied(v) ==
    pc[v] = "record" =>
        \A d \in 0..MaxTime :
            loc[v].rec[d] = IF Pending(v) /\ d = loc[v].key THEN changes[d] + 1 ELSE changes[d]

ChangesInv ==
    ~raced =>
        /\ \A v, w \in Workers : Changing(v) /\ Changing(w) => v = w
        /\ \A v, w \in Workers : pc[v] = "record" /\ pc[w] = "record" => v = w
        /\ \A d \in 0..MaxTime :
              /\ made[d] <= MaxChanges + missed[d] /\ made[d] <= changes[d] + missed[d] + 1
              /\ Counted(d) => made[d] <= changes[d] + missed[d]
        /\ \A w \in Workers :
              /\ Copied(w)
              /\ Changing(w) /\ ~Pending(w) =>
                    made[loc[w].key] < MaxChanges + missed[loc[w].key]

\* No change has been made at the start.
LEMMA ChangesInvInit == Init => ChangesInv
    BY ConstantTypes
       DEF Init, ChangesInv, Changing, Pending, Copied, Counted, RecordSteps, NoChanges

\* A step that changes no count and does not start a change.
LEMMA ChangesRest ==
    ASSUME TypeInv, ChangesInv, NEW w \in Workers, OthersRest(w), ~raced,
           changes' = changes, made' = made, missed' = missed,
           pc[w] \notin RecordSteps,
           pc'[w] \in RecordSteps => pc'[w] = "count" /\ loc'[w].op # "set_admin",
           Changing(w)' => Changing(w) /\ loc'[w].key = loc[w].key
    PROVE  ChangesInv'
  <1>1. \A v \in Workers : /\ Changing(v)' => Changing(v) /\ loc'[v].key = loc[v].key
                           /\ Pending(v)' <=> Pending(v)
                           /\ Pending(v) => loc'[v] = loc[v]
                           /\ pc'[v] = "record" <=> pc[v] = "record"
                           /\ pc[v] = "record" => loc'[v] = loc[v]
    BY DEF OthersRest, Changing, Pending, RecordSteps
  <1>2. \A d \in 0..MaxTime : Counted(d)' <=> Counted(d)
    BY <1>1 DEF Counted
  <1>3. \A v \in Workers : Copied(v)'
    BY <1>1 DEF Copied, ChangesInv
  <1> QED
    BY <1>1, <1>2, <1>3 DEF ChangesInv

\* Without a race, a change that has passed the check is counted, or missed, before the
\* next one.
LEMMA ChangesInvStep == TypeInv /\ ChangesInv /\ [Next]_vars => ChangesInv'
  <1> SUFFICES ASSUME TypeInv, ChangesInv, [Next]_vars, ~raced' PROVE ChangesInv'
    BY DEF ChangesInv
  <1> USE DEF Goto, history
  <1>0. Types
    BY DEF TypeInv
  <1>1. ASSUME NEW w \in Workers, Step(w) PROVE ChangesInv'
    <2> DEFINE l == loc[w]
    <2>1. /\ ~raced /\ OthersRest(w) /\ l \in Locals /\ JobAt(w, pc[w], l)
      BY <1>0, <1>1, Unraced, OneMoves DEF Types, TypeInv, Jobs
    <2>2. CASE Begin(w)
      <3>1. /\ pc[w] = "idle" /\ pc'[w] \notin RecordSteps /\ changes' = changes
            /\ made' = made /\ missed' = missed /\ ~Changing(w)'
        <4>1. PICK op \in Does, u \in Users, whom \in Users : \E s \in Offered(op) :
                 /\ loc' = [loc EXCEPT ![w] = Request(op, u, whom, s)]
                 /\ Goto(w, "idle", FirstStep(Request(op, u, whom, s)))
          BY <2>2 DEF Begin
        <4>2. PICK s \in Offered(op) :
                 /\ loc' = [loc EXCEPT ![w] = Request(op, u, whom, s)]
                 /\ Goto(w, "idle", FirstStep(Request(op, u, whom, s)))
          BY <4>1
        <4>3. loc'[w] = Request(op, u, whom, s) /\ pc'[w] = FirstStep(Request(op, u, whom, s))
          BY <1>0, <4>2 DEF Types
        <4>4. ~Changing(w)' /\ pc'[w] \notin RecordSteps
          BY <4>3 DEF Changing, FirstStep, RecordSteps
        <4> QED
          BY <2>2, <4>4 DEF Begin
      <3> QED
        BY <2>1, <3>1, ChangesRest DEF RecordSteps
    <2>3. CASE Lock(w) \/ Act(w) \/ ActFails(w)
      <3>1. /\ pc[w] \notin RecordSteps /\ pc'[w] \notin RecordSteps /\ changes' = changes
            /\ made' = made /\ missed' = missed /\ ~Changing(w)'
        BY <1>0, <2>3 DEF Lock, Act, ActFails, Changing, Types, RecordSteps
      <3> QED
        BY <2>1, <3>1, ChangesRest
    <2>4. CASE ReadCounters(w) \/ ReadToWipe(w) \/ ClearCounters(w) \/ PutCounters(w)
      <3>1. /\ pc[w] \notin RecordSteps /\ pc'[w] \notin RecordSteps /\ changes' = changes
            /\ made' = made /\ missed' = missed /\ ~Changing(w)'
        BY <1>0, <2>4
           DEF ReadCounters, ReadToWipe, ClearCounters, PutCounters, Changing, Types,
               RecordSteps
      <3> QED
        BY <2>1, <3>1, ChangesRest
    <2>5. CASE Done(w) \/ Fails(w)
      <3>1. /\ pc[w] \notin RecordSteps /\ pc'[w] \notin RecordSteps /\ changes' = changes
            /\ made' = made /\ missed' = missed /\ ~Changing(w)'
        BY <1>0, <2>5 DEF Done, Fails, Changing, Types, RecordSteps
      <3> QED
        BY <2>1, <3>1, ChangesRest
    <2>6. CASE ReadConfig(w) \/ ClearConfig(w)
      <3>1. /\ pc[w] \in {"config", "cclear"} /\ pc'[w] \notin RecordSteps
            /\ changes' = changes /\ made' = made /\ missed' = missed
        BY <1>0, <2>6 DEF ReadConfig, ClearConfig, Types, RecordSteps
      <3>2. loc'[w].op = l.op /\ loc'[w].key = l.key
        BY <1>0, <2>1, <2>6 DEF ReadConfig, ClearConfig, Types, Locals
      <3> QED
        BY <2>1, <3>1, <3>2, ChangesRest DEF Changing, RecordSteps
    <2>7. CASE CheckChanges(w)
      <3>1. /\ pc[w] = "changes" /\ pc'[w] \in {"done", "config"}
            /\ changes' = changes /\ made' = made /\ missed' = missed /\ l.op = "set_admin"
            /\ pc'[w] = "config" => changes[time] < MaxChanges
            /\ loc'[w].key = time
        BY <1>0, <2>1, <2>7, ConstantTypes DEF CheckChanges, JobAt, Types, Locals
      <3>2. \A v \in Workers \ {w} : ~(loc[v].op = "set_admin" /\ pc[v] # "changes")
        BY <2>7 DEF CheckChanges
      <3>3. \A v \in Workers \ {w} : ~Changing(v) /\ ~Changing(v)'
        BY <2>1, <3>2 DEF Changing, OthersRest
      <3>4. /\ \A v \in Workers : ~Pending(v) /\ ~Pending(v)'
            /\ \A v \in Workers : pc'[v] = "record" =>
                  pc[v] = "record" /\ v # w /\ loc'[v] = loc[v]
        BY <2>1, <3>1, <3>3 DEF Changing, Pending, RecordSteps, OthersRest
      <3>5. \A d \in 0..MaxTime : made[d] <= changes[d] + missed[d] /\ Counted(d)
        BY <2>1, <3>4 DEF ChangesInv, Counted
      <3>6. Changing(w)' => made[time] < MaxChanges + missed[time]
        BY <1>0, <3>1, <3>5, ConstantTypes DEF Types, Changing
      <3>7. \A v \in Workers : Copied(v)'
        BY <2>1, <3>1, <3>4 DEF ChangesInv, Copied
      <3> QED
        BY <1>0, <2>1, <3>1, <3>3, <3>4, <3>5, <3>6, <3>7 DEF ChangesInv
    <2>8. CASE PutConfig(w)
      <3>1. /\ pc[w] = "cput" /\ loc' = loc /\ changes' = changes /\ missed' = missed
            /\ pc'[w] = (IF l.op = "set_admin" THEN "count" ELSE "done")
        BY <1>0, <2>8 DEF PutConfig, Types
      <3>2. CASE l.op # "set_admin"
        <4>1. made' = made /\ pc'[w] = "done"
          BY <2>8, <3>1, <3>2 DEF PutConfig
        <4> QED
          BY <2>1, <3>1, <4>1, ChangesRest DEF Changing, RecordSteps
      <3>3. CASE l.op = "set_admin"
        <4> DEFINE k == l.key
        <4>1. k \in 0..MaxTime /\ made' = [made EXCEPT ![k] = @ + 1]
          BY <2>1, <2>8, <3>1, <3>3 DEF PutConfig, JobAt, SettleSteps
        <4>2. \A d \in 0..MaxTime : made'[d] = IF d = k THEN made[d] + 1 ELSE made[d]
          BY <1>0, <4>1 DEF Types
        <4>3. Changing(w) /\ Changing(w)' /\ ~Pending(w) /\ Pending(w)' /\ pc'[w] = "count"
          BY <3>1, <3>3 DEF Changing, Pending, RecordSteps
        <4>4. \A v \in Workers \ {w} : ~Changing(v) /\ ~Changing(v)' /\ ~Pending(v) /\ ~Pending(v)'
          <5>1. \A v \in Workers \ {w} : ~Changing(v)
            BY <2>1, <4>3 DEF ChangesInv
          <5>2. \A v \in Workers \ {w} : ~Changing(v)' /\ ~Pending(v) /\ ~Pending(v)'
            BY <2>1, <5>1 DEF Changing, Pending, RecordSteps, OthersRest
          <5> QED BY <5>1, <5>2
        <4>5. \A d \in 0..MaxTime : Counted(d) /\ (Counted(d)' => d # k)
          BY <3>1, <4>3, <4>4 DEF Counted
        <4>6. made[k] < MaxChanges + missed[k]
          BY <2>1, <4>3 DEF ChangesInv
        <4>7. \A d \in 0..MaxTime :
                 /\ made'[d] <= MaxChanges + missed'[d]
                 /\ made'[d] <= changes'[d] + missed'[d] + 1
                 /\ Counted(d)' => made'[d] <= changes'[d] + missed'[d]
          <5>1. \A d \in 0..MaxTime :
                   /\ made[d] \in Nat /\ changes[d] \in Nat /\ missed[d] \in Nat
                   /\ made[d] <= MaxChanges + missed[d] /\ made[d] <= changes[d] + missed[d]
            BY <1>0, <2>1, <4>5 DEF ChangesInv, Types
          <5>2. ASSUME NEW d \in 0..MaxTime
                PROVE  /\ made'[d] <= MaxChanges + missed'[d]
                       /\ made'[d] <= changes'[d] + missed'[d] + 1
                       /\ d # k => made'[d] <= changes'[d] + missed'[d]
            <6>1. CASE d = k
              <7>1. /\ made'[d] = made[d] + 1 /\ missed'[d] = missed[d]
                    /\ changes'[d] = changes[d] /\ made[d] < MaxChanges + missed[d]
                BY <3>1, <4>2, <4>6, <5>2, <6>1
              <7>2. made[d] \in Nat /\ changes[d] \in Nat /\ missed[d] \in Nat
                BY <5>1, <5>2
              <7>3. made[d] <= changes[d] + missed[d] /\ MaxChanges \in Nat
                BY <5>1, <5>2, ConstantTypes
              <7> QED
                BY <6>1, <7>1, <7>2, <7>3
            <6>2. CASE d # k
              <7>1. /\ made'[d] = made[d] /\ missed'[d] = missed[d]
                    /\ changes'[d] = changes[d]
                BY <3>1, <4>2, <5>2, <6>2
              <7>2. /\ made[d] \in Nat /\ changes[d] \in Nat /\ missed[d] \in Nat
                    /\ made[d] <= MaxChanges + missed[d] /\ made[d] <= changes[d] + missed[d]
                BY <5>1, <5>2
              <7> QED
                BY <7>1, <7>2
            <6> QED BY <6>1, <6>2
          <5> QED
            BY <4>5, <5>2
        <4>8. \A v \in Workers : Changing(v)' => v = w
          BY <4>4 DEF Changing
        <4>9. \A v \in Workers : ~(Changing(v)' /\ ~Pending(v)')
          BY <4>3, <4>8
        <4>10. \A v \in Workers :
                  pc'[v] = "record" => pc[v] = "record" /\ v # w /\ loc'[v] = loc[v]
          BY <2>1, <4>3 DEF OthersRest
        <4>11. \A v \in Workers : Copied(v)'
          BY <2>1, <3>1, <4>4, <4>10 DEF ChangesInv, Copied
        <4> QED
          BY <2>1, <4>7, <4>8, <4>9, <4>10, <4>11 DEF ChangesInv
      <3> QED BY <3>2, <3>3
    <2>9. CASE Check(w)
      <3>1. /\ pc[w] = "check" /\ (pc'[w] \in RecordSteps => pc'[w] = "count" /\ l.op = "purge")
            /\ changes' = changes /\ made' = made /\ missed' = missed /\ loc'[w].op = l.op
        BY <1>0, <2>1, <2>9 DEF Check, Types, RecordSteps, Locals
      <3>2. ~Changing(w)'
        BY <1>0, <2>9, <3>1 DEF Check, Changing, Types
      <3> QED
        BY <2>1, <3>1, <3>2, ChangesRest DEF RecordSteps
    <2>10. CASE ReadRecord(w)
      <3> DEFINE k == l.key
      <3>1. /\ pc[w] = "count" /\ pc'[w] = "record" /\ made' = made /\ missed' = missed
            /\ changes' = changes /\ \A v \in Workers \ {w} : pc[v] # "record"
            /\ loc'[w] = [l EXCEPT !.rec = IF l.op = "set_admin"
                              THEN [changes EXCEPT ![k] = @ + 1] ELSE changes]
        BY <1>0, <2>10 DEF ReadRecord, Types
      <3>2. /\ loc'[w].op = l.op /\ loc'[w].key = k
            /\ loc'[w].rec = IF l.op = "set_admin" THEN [changes EXCEPT ![k] = @ + 1] ELSE changes
        BY <2>1, <3>1 DEF Locals
      <3>3. \A v \in Workers : /\ Changing(v)' <=> Changing(v)
                               /\ Pending(v)' <=> Pending(v)
                               /\ loc'[v].key = loc[v].key
        BY <2>1, <3>1, <3>2 DEF Changing, Pending, RecordSteps, OthersRest
      <3>4. \A d : Counted(d)' <=> Counted(d)
        BY <3>3 DEF Counted
      <3>5. \A v \in Workers : pc'[v] = "record" => v = w
        BY <2>1, <3>1 DEF OthersRest
      <3>6. Pending(w)' <=> l.op = "set_admin"
        BY <3>1, <3>2 DEF Pending, RecordSteps
      <3>7. Copied(w)'
        BY <1>0, <3>1, <3>2, <3>6 DEF Copied, Types
      <3>8. \A v \in Workers : Copied(v)'
        BY <3>5, <3>7 DEF Copied
      <3> QED
        BY <2>1, <3>1, <3>3, <3>4, <3>5, <3>8 DEF ChangesInv
    <2>11. CASE WriteRecord(w) \/ RecordFails(w)
      <3> DEFINE k == l.key
      <3>1. /\ pc[w] \in RecordSteps /\ pc'[w] \in {"act", "done"} /\ made' = made
            /\ ~Changing(w)' /\ ~Pending(w)'
        BY <1>0, <2>11
           DEF WriteRecord, RecordFails, Onward, Changing, Pending, RecordSteps, Types
      <3>2. /\ \A v \in Workers \ {w} : pc'[v] = pc[v] /\ loc'[v] = loc[v]
            /\ Pending(w) => k \in 0..MaxTime
        BY <2>1, <3>1 DEF OthersRest, JobAt, Pending
      <3>3. \A v \in Workers \ {w} : (Changing(v)' <=> Changing(v)) /\ (Pending(v)' <=> Pending(v))
        BY <3>2 DEF Changing, Pending
      <3>4. ASSUME NEW d \in 0..MaxTime
            PROVE  /\ made[d] \in Nat /\ changes[d] \in Nat /\ missed[d] \in Nat
                   /\ changes'[d] \in Nat /\ missed'[d] \in Nat
                   /\ missed'[d] >= missed[d] /\ changes'[d] >= changes[d]
                   /\ Pending(w) /\ d = k =>
                         changes'[d] + missed'[d] = changes[d] + missed[d] + 1
        <4>1. made[d] \in Nat /\ changes[d] \in Nat /\ missed[d] \in Nat
          BY <1>0, <3>4 DEF Types
        <4>2. CASE WriteRecord(w)
          <5>1. pc[w] = "record" /\ missed' = missed /\ changes' = l.rec
            BY <4>2 DEF WriteRecord
          <5>2. l.rec[d] = IF Pending(w) /\ d = k THEN changes[d] + 1 ELSE changes[d]
            BY <2>1, <3>4, <5>1 DEF ChangesInv, Copied
          <5>3. CASE Pending(w) /\ d = k
            BY <4>1, <5>1, <5>2, <5>3
          <5>4. CASE ~(Pending(w) /\ d = k)
            BY <4>1, <5>1, <5>2, <5>4
          <5> QED BY <5>3, <5>4
        <4>3. CASE RecordFails(w)
          <5>1. changes' = changes /\ missed' = Missed(w)
            BY <4>3 DEF RecordFails
          <5>2. CASE Pending(w)
            <6>1. missed' = [missed EXCEPT ![k] = @ + 1]
              BY <5>1, <5>2 DEF Missed, Pending
            <6>2. missed'[d] = IF d = k THEN missed[d] + 1 ELSE missed[d]
              BY <1>0, <3>4, <6>1 DEF Types
            <6> QED
              BY <4>1, <5>1, <6>2
          <5>3. CASE ~Pending(w)
            <6>1. missed' = missed
              BY <3>1, <5>1, <5>3 DEF Missed, Pending
            <6> QED
              BY <4>1, <5>1, <5>3, <6>1
          <5> QED BY <5>2, <5>3
        <4> QED BY <2>11, <4>2, <4>3
      <3>5. ASSUME NEW d \in 0..MaxTime
            PROVE  Counted(d)' => Counted(d) \/ (Pending(w) /\ d = k)
        BY <3>2, <3>3 DEF Counted
      <3>6. ASSUME NEW d \in 0..MaxTime
            PROVE  /\ made'[d] <= MaxChanges + missed'[d]
                   /\ made'[d] <= changes'[d] + missed'[d] + 1
                   /\ Counted(d)' => made'[d] <= changes'[d] + missed'[d]
        <4>1. /\ made[d] <= MaxChanges + missed[d] /\ made[d] <= changes[d] + missed[d] + 1
              /\ Counted(d) => made[d] <= changes[d] + missed[d]
          BY <2>1, <3>6 DEF ChangesInv
        <4>0. /\ made[d] \in Nat /\ changes[d] \in Nat /\ missed[d] \in Nat
              /\ changes'[d] \in Nat /\ missed'[d] \in Nat /\ MaxChanges \in Nat
              /\ missed'[d] >= missed[d] /\ changes'[d] >= changes[d]
              /\ made'[d] = made[d]
          BY <3>1, <3>4, <3>6, ConstantTypes
        <4>2. CASE Pending(w) /\ d = k
          <5>1. changes'[d] + missed'[d] = changes[d] + missed[d] + 1
            BY <3>4, <3>6, <4>2
          <5> QED
            BY <4>0, <4>1, <5>1
        <4>3. CASE ~(Pending(w) /\ d = k)
          <5>1. Counted(d)' => made[d] <= changes[d] + missed[d]
            BY <3>5, <3>6, <4>1, <4>3
          <5> QED
            BY <4>0, <4>1, <5>1
        <4> QED BY <4>2, <4>3
      <3>7. \A v \in Workers : Copied(v)'
        <4>1. Copied(w)'
          BY <3>1 DEF Copied
        <4>2. CASE WriteRecord(w)
          <5>1. \A v \in Workers \ {w} : pc'[v] # "record"
            BY <2>1, <3>2, <4>2 DEF WriteRecord, ChangesInv
          <5> QED
            BY <4>1, <5>1 DEF Copied
        <4>3. CASE RecordFails(w)
          <5>1. changes' = changes
            BY <4>3 DEF RecordFails
          <5>2. \A v \in Workers \ {w} : Copied(v)'
            BY <2>1, <3>2, <3>3, <5>1 DEF Copied, ChangesInv
          <5> QED BY <4>1, <5>2
        <4> QED BY <2>11, <4>2, <4>3
      <3>8. \A v \in Workers : Changing(v)' /\ ~Pending(v)' =>
               made'[loc'[v].key] < MaxChanges + missed'[loc'[v].key]
        <4> SUFFICES ASSUME NEW v \in Workers, Changing(v)', ~Pending(v)'
                     PROVE  made'[loc'[v].key] < MaxChanges + missed'[loc'[v].key]
          OBVIOUS
        <4>1. v # w /\ Changing(v) /\ ~Pending(v) /\ loc'[v] = loc[v]
          BY <3>1, <3>2, <3>3
        <4>2. loc[v].key \in 0..MaxTime
          BY <4>1 DEF TypeInv, Jobs, JobAt, Changing, Pending, RecordSteps, SettleSteps
        <4>3. made[loc[v].key] < MaxChanges + missed[loc[v].key]
          BY <2>1, <4>1 DEF ChangesInv
        <4>4. PICK j \in 0..MaxTime : j = loc[v].key
          BY <4>2
        <4>5. /\ made'[j] = made[j] /\ made[j] \in Nat /\ missed[j] \in Nat
              /\ missed'[j] \in Nat /\ missed'[j] >= missed[j] /\ MaxChanges \in Nat
          BY <3>1, <3>4, ConstantTypes
        <4>6. made[j] < MaxChanges + missed[j]
          BY <4>3, <4>4
        <4>7. made'[j] < MaxChanges + missed'[j]
          BY <4>5, <4>6
        <4> QED
          BY <4>1, <4>4, <4>7
      <3>9. /\ \A v, u \in Workers : Changing(v)' /\ Changing(u)' => v = u
            /\ \A v, u \in Workers : pc'[v] = "record" /\ pc'[u] = "record" => v = u
        BY <2>1, <3>1, <3>2, <3>3 DEF ChangesInv
      <3> QED
        BY <3>6, <3>7, <3>8, <3>9 DEF ChangesInv
    <2> QED
      BY <1>1, <2>2, <2>3, <2>4, <2>5, <2>6, <2>7, <2>8, <2>9, <2>10, <2>11 DEF Step
  <1>2. CASE Tick
    BY <1>2 DEF Tick, ChangesInv, Changing, Pending, Counted, Copied
  <1>3. CASE UNCHANGED vars
    BY <1>3 DEF vars, ChangesInv, Changing, Pending, Counted, Copied
  <1> QED BY <1>1, <1>2, <1>3 DEF Next

\* The admin limits change at most so often a day, plus once for each change whose
\* count was lost: the record was flagged, out of reach or not written when the change
\* had been made (_action_set_admin_limits).
THEOREM ChangesAreCapped == Spec => []ChangesCapped
  <1>1. ChangesInv => ChangesCapped
    BY DEF ChangesInv, ChangesCapped
  <1>2. Spec => []ChangesInv
    BY TypeInvInit, TypeInvStep, ChangesInvInit, ChangesInvStep, PTL DEF Spec
  <1> QED
    BY <1>1, <1>2, PTL

----------------------------------------------------------------------------
(* The limits.                                                             *)

\* The settings keep the two schedules.
InSchedule(cfg) ==
    /\ cfg.plain \in Choices \cup {DefaultLimits}
    /\ cfg.custom \in Choices \cup {DefaultLimits, None}
    /\ cfg.admin \in AdminChoices \cup {None}

Scheduled ==
    /\ config # Torn => InSchedule(config)
    /\ \A w \in Workers : Unsettled(w) => InSchedule(loc[w].cfg)

\* The period that a kind of counter is in.
KeyNow(x) == Key(IF x = "plain" THEN DefaultLimits.resets ELSE DefaultAdmin.resets, time)

\* The kinds of counters that are added to.
CountedKinds == Kinds \ {"purge"}

\* Requests that are past their check and will be counted, ...
Busy(w) ==
    /\ pc[w] \in {"act", "wipe", "inc", "clear", "put"}
    /\ loc[w].kind \in CountedKinds /\ loc[w].op # "reset_all"

\* ... of which only one at a time is checked against the same counter.
Alone ==
    \A v, w \in Workers :
        Busy(v) /\ Busy(w) /\ loc[v].user = loc[w].user /\ loc[v].kind = loc[w].kind
            => v = w

Named(l, u, x) == \E i \in 1..Len(l.incs) : l.incs[i] = <<u, x>>

\* A request adds to the counter it was checked against.
Due(p, l) ==
    /\ p \in {"lock", "check", "act", "wipe"}
    /\ l.kind \in CountedKinds /\ l.op # "reset_all"
    => Named(l, l.user, l.kind)

\* It has been let through and has not been counted yet.
Owes(w, u, x) ==
    /\ Busy(w) /\ pc[w] # "act"
    /\ loc[w].user = u /\ loc[w].kind = x /\ loc[w].key = KeyNow(x)
    /\ Named(loc[w], u, x)

\* The counters of this period are those of what was let through, but for one that is
\* still to be counted.
CoversOne(use, u, x) ==
    \/ acted[KeyNow(x)][u][x] <= use[KeyNow(x)][u][x]
    \/ /\ acted[KeyNow(x)][u][x] <= use[KeyNow(x)][u][x] + 1
       /\ \E w \in Workers : Owes(w, u, x)
Covers(use) == \A u \in Users, x \in CountedKinds : CoversOne(use, u, x)
NoOverflow(use) == \A k \in Keys : use[k][Overflow] = Nothing

\* Nothing has been let through in a period to come.
NotYet ==
    \A k \in Keys, u \in Users, x \in CountedKinds : k > KeyNow(x) => acted[k][u][x] = 0

\* What has passed its check may go ahead.
Ready(w) ==
    pc[w] = "act" /\ loc[w].kind \in CountedKinds =>
        /\ Allowed(loc[w].kind, acted[loc[w].key][loc[w].user][loc[w].kind], loc[w].cap)
        /\ loc[w].key <= KeyNow(loc[w].kind)

InHand(w) ==
    pc[w] \in {"clear", "put"} => Covers(loc[w].use) /\ NoOverflow(loc[w].use)
InFile ==
    (\A w \in Workers : pc[w] \notin {"clear", "put"}) =>
        counters # Torn /\ Covers(counters) /\ NoOverflow(counters)

Clean == ~raced /\ "counters" \notin failed

CapInv ==
    Clean =>
        /\ excess \subseteq {"purge"} /\ Alone /\ NotYet /\ InFile
        /\ \A w \in Workers : Due(pc[w], loc[w]) /\ Ready(w) /\ InHand(w)

\* Settings made from settings that keep the schedules keep them.
LEMMA SettledInSchedule ==
    ASSUME NEW cfg \in Settings, InSchedule(cfg), NEW op \in Settling, NEW s,
           op = "set" => s \in Choices, op = "set_admin" => s \in AdminChoices
    PROVE  InSchedule(Settled(op, cfg, s))
  <1>1. CASE op = "set"
    BY <1>1 DEF Settled, Settings, InSchedule
  <1>2. CASE op = "set_admin"
    BY <1>2 DEF Settled, Settings, InSchedule
  <1>3. CASE op = "reset_limits"
    BY <1>3 DEF Settled, ResetLimits, Target, Settings, InSchedule
  <1>4. CASE op = "save_default"
    BY <1>4 DEF Settled, SaveAsDefault, Settings, InSchedule
  <1>5. CASE op = "factory"
    BY <1>5 DEF Settled, FactoryReset, Defaults, InSchedule
  <1> QED BY <1>1, <1>2, <1>3, <1>4, <1>5 DEF Settling

\* The defaults keep their own schedules.
LEMMA ScheduledInit == Init => Scheduled
    BY ConstantTypes DEF Init, Scheduled, Defaults, InSchedule, Unsettled

\* Whatever is raced, the settings are made of what may be chosen.
LEMMA ScheduledStep == TypeInv /\ Scheduled /\ [Next]_vars => Scheduled'
  <1> SUFFICES ASSUME TypeInv, Scheduled, [Next]_vars PROVE Scheduled'
    OBVIOUS
  <1> USE DEF Goto, history
  <1>0. Types
    BY DEF TypeInv
  <1>1. ASSUME NEW w \in Workers, Step(w) PROVE Scheduled'
    <2> DEFINE l == loc[w]
    <2>1. OthersRest(w) /\ JobAt(w, pc[w], l)
      BY <1>0, <1>1, OneMoves DEF TypeInv, Jobs
    <2>2. \A v \in Workers \ {w} : Unsettled(v)' => InSchedule(loc'[v].cfg)
      BY <2>1 DEF Scheduled, Unsettled, OthersRest
    <2>3. CASE ~Unsettled(w)' /\ config' = config
      BY <2>2, <2>3 DEF Scheduled, Unsettled
    <2>4. CASE ReadConfig(w)
      <3> DEFINE new == Settled(l.op, Config, l.set)
      <3>1. /\ pc[w] = "config" /\ config' = config /\ loc'[w].cfg = new
        BY <1>0, <2>4 DEF ReadConfig, Types, Locals
      <3>2. InSchedule(Config) /\ Config \in Settings
        BY <1>0, ReadTypes, ConstantTypes
           DEF Config, Scheduled, InSchedule, Defaults
      <3>3. /\ l.op \in Settling /\ (l.op = "set" => l.set \in Choices)
            /\ l.op = "set_admin" => l.set \in AdminChoices
        BY <2>1, <3>1 DEF JobAt, SettleSteps
      <3>4. InSchedule(new)
        BY <3>2, <3>3, SettledInSchedule
      <3>5. InSchedule(loc'[w].cfg)
        BY <3>1, <3>4
      <3> QED
        BY <2>2, <3>1, <3>5 DEF Scheduled
    <2>5. CASE ClearConfig(w)
      <3>1. config' = Torn /\ loc' = loc /\ pc[w] = "cclear"
        BY <2>5 DEF ClearConfig
      <3>2. InSchedule(loc'[w].cfg)
        BY <3>1 DEF Scheduled, Unsettled
      <3> QED
        BY <2>2, <3>1, <3>2 DEF Scheduled
    <2>6. CASE PutConfig(w)
      <3>1. /\ config' = l.cfg /\ loc' = loc /\ pc[w] = "cput"
            /\ pc'[w] \in {"count", "done"}
        BY <1>0, <2>6 DEF PutConfig, Types
      <3>2. InSchedule(config') /\ ~Unsettled(w)'
        BY <3>1 DEF Scheduled, Unsettled
      <3> QED
        BY <2>2, <3>2 DEF Scheduled
    <2>7. CASE Begin(w)
      <3>1. pc'[w] \in {"lock", "wipe", "changes", "config", "check"} /\ config' = config
        BY <1>0, <2>7 DEF Begin, FirstStep, Types
      <3> QED
        BY <2>3, <3>1 DEF Unsettled
    <2>8. CASE Lock(w) \/ Check(w) \/ Act(w) \/ ActFails(w)
      <3>1. ~Unsettled(w)' /\ config' = config
        BY <1>0, <2>8 DEF Lock, Check, Act, ActFails, Unsettled, Types
      <3> QED
        BY <2>3, <3>1
    <2>9. CASE ReadCounters(w) \/ ReadToWipe(w) \/ ClearCounters(w) \/ PutCounters(w)
      <3>1. ~Unsettled(w)' /\ config' = config
        BY <1>0, <2>9
           DEF ReadCounters, ReadToWipe, ClearCounters, PutCounters, Unsettled, Types
      <3> QED
        BY <2>3, <3>1
    <2>10. CASE \/ CheckChanges(w) \/ ReadRecord(w) \/ WriteRecord(w) \/ RecordFails(w)
                \/ Fails(w) \/ Done(w)
      <3>1. ~Unsettled(w)' /\ config' = config
        BY <1>0, <2>10
           DEF CheckChanges, ReadRecord, WriteRecord, RecordFails, Onward, Fails, Done,
               Unsettled, Types
      <3> QED
        BY <2>3, <3>1
    <2> QED
      BY <1>1, <2>4, <2>5, <2>6, <2>7, <2>8, <2>9, <2>10 DEF Step
  <1>2. CASE Tick
    BY <1>2 DEF Tick, Scheduled, Unsettled
  <1>3. CASE UNCHANGED vars
    BY <1>3 DEF vars, Scheduled, Unsettled
  <1> QED BY <1>1, <1>2, <1>3 DEF Next

\* The keys that the code computes are those of the current periods.
LEMMA KeysNow ==
    ASSUME SteadySchedules, Types, Scheduled
    PROVE  \A x \in Kinds : /\ KeyOf(x) = KeyNow(x) /\ KeyNow(x) \in Keys
                            /\ KeyNow(x) = (IF x = "plain" THEN PlainKey ELSE AdminKey)
                            /\ PlainKey <= KeyNow(x)
  <1>1. InSchedule(Config)
    BY ConstantTypes DEF Config, Scheduled, InSchedule, Defaults
  <1>2. /\ Config.plain.resets = DefaultLimits.resets
        /\ AdminSetting(Config).resets = DefaultAdmin.resets
    BY <1>1, ConstantTypes DEF InSchedule, SteadySchedules, AdminSetting
  <1>3. PlainKey \in Keys /\ AdminKey \in Keys /\ PlainKey <= AdminKey
    BY <1>2, ReadTypes DEF PlainKey, AdminKey, SteadySchedules, Types
  <1>4. Keys \subseteq Nat
    BY DEF Keys
  <1>5. \A x \in Kinds : KeyNow(x) = IF x = "plain" THEN PlainKey ELSE AdminKey
    BY <1>2 DEF KeyNow, PlainKey, AdminKey
  <1>6. \A x \in Kinds : KeyOf(x) = KeyNow(x)
    BY <1>5 DEF KeyOf
  <1>7. PlainKey <= PlainKey
    BY <1>3, <1>4
  <1> QED
    BY <1>3, <1>5, <1>6, <1>7

\* Nobody is counted under another name.
LEMMA TrackedUser ==
    ASSUME EveryoneTracked, NEW use, use[Overflow] = Nothing, NEW u \in Users
    PROVE  Tracked(use, u) = u
  <1> DEFINE S == {n \in Names : use[n] # Nothing}
  <1>1. IsFiniteSet(Users) /\ Cardinality(Users) \in Nat /\ Cardinality(Users) <= MaxTracked
    BY FS_CardinalityType DEF EveryoneTracked
  <1>2. /\ IsFiniteSet(Users \ {u})
        /\ Cardinality(Users \ {u}) = Cardinality(Users) - 1
    BY <1>1, FS_RemoveElement
  <1>3. ASSUME use[u] = Nothing PROVE ~(Cardinality(S) >= MaxTracked)
    <2>1. S \subseteq Users \ {u}
      BY <1>3 DEF Names
    <2>2. Cardinality(S) \in Nat /\ Cardinality(S) <= Cardinality(Users \ {u})
      BY <1>2, <2>1, FS_Subset, FS_CardinalityType
    <2> QED
      BY <1>1, <1>2, <2>2, LimitsAssumption
  <1> QED
    BY <1>3 DEF Tracked

\* A smaller count is let through where a larger one is.
LEMMA AllowedLess ==
    ASSUME NEW x, NEW m \in Nat, NEW n \in Nat, NEW c \in Int, n <= m, Allowed(x, m, c)
    PROVE  Allowed(x, n, c)
    BY DEF Allowed

\* The counter a request is checked against is among those it adds to.
LEMMA NamedAtFirst ==
    ASSUME NEW op \in Counting \ {"purge", "reset_all"}, NEW u \in Users, NEW v, NEW s,
           op # "save" => u \in Admins
    PROVE  LET l == Request(op, u, v, s) IN Named(l, l.user, l.kind)
  <1> DEFINE x == CheckedKind(op, u)
             q == Incs(op, u, v)
  <1>1. /\ Request(op, u, v, s).user = u /\ Request(op, u, v, s).kind = x
        /\ Request(op, u, v, s).incs = q
    BY DEF Request, Idle
  <1>2. (Len(q) = 1 /\ q[1] = <<u, x>>) \/ (Len(q) = 2 /\ q[2] = <<u, x>>)
    <2>1. CASE op = "save" /\ u \in Admins
      BY <2>1, LimitsAssumption DEF Incs, CheckedKind
    <2>2. CASE op = "save" /\ u \notin Admins
      BY <2>2 DEF Incs, CheckedKind, Users
    <2>3. CASE op # "save"
      BY <2>3 DEF Incs, CheckedKind, Counting
    <2> QED BY <2>1, <2>2, <2>3
  <1>3. \E i \in 1..Len(q) : q[i] = <<u, x>>
    BY <1>2
  <1> QED
    BY <1>1, <1>3 DEF Named

\* Another counter is still to be added to after the first one.
LEMMA NamedLater ==
    ASSUME NEW T, NEW q \in Seq(T), q # <<>>, NEW e,
           \E i \in 1..Len(q) : q[i] = e
    PROVE  Head(q) = e \/ \E i \in 1..Len(Tail(q)) : Tail(q)[i] = e
  <1>1. PICK i \in 1..Len(q) : q[i] = e
    OBVIOUS
  <1>2. CASE i = 1
    BY <1>1, <1>2
  <1>3. CASE i # 1
    <2>1. i - 1 \in 1..Len(Tail(q)) /\ Tail(q)[i - 1] = e
      BY <1>1, <1>3
    <2> QED BY <2>1
  <1> QED BY <1>2, <1>3

\* Counters that cover the acts still do when nothing is acted or counted.
LEMMA CoversRest ==
    ASSUME NEW use, NEW w \in Workers, OthersRest(w), acted' = acted, time' = time,
           Covers(use),
           \A u \in Users, x \in CountedKinds : Owes(w, u, x) => Owes(w, u, x)'
    PROVE  Covers(use)'
  <1>1. \A x : KeyNow(x)' = KeyNow(x)
    BY DEF KeyNow
  <1>2. ASSUME NEW v \in Workers, NEW u \in Users, NEW x \in CountedKinds, Owes(v, u, x)
        PROVE  Owes(v, u, x)'
    <2>1. CASE v = w
      BY <1>2, <2>1
    <2>2. CASE v # w
      BY <1>1, <1>2, <2>2 DEF Owes, Busy, OthersRest, Named
    <2> QED BY <2>1, <2>2
  <1>3. ASSUME NEW u \in Users, NEW x \in CountedKinds PROVE CoversOne(use, u, x)'
    <2>1. CoversOne(use, u, x)
      BY <1>3 DEF Covers
    <2>2. CASE \E v \in Workers : Owes(v, u, x)
      <3>1. \E v \in Workers : Owes(v, u, x)'
        BY <1>2, <1>3, <2>2
      <3> QED
        BY <1>1, <2>1, <3>1 DEF CoversOne
    <2>3. CASE ~ \E v \in Workers : Owes(v, u, x)
      BY <1>1, <2>1, <2>3 DEF CoversOne
    <2> QED BY <2>2, <2>3
  <1> QED BY <1>3 DEF Covers

\* The other requests are as ready as before.
LEMMA OthersReady ==
    ASSUME NEW w \in Workers, OthersRest(w), acted' = acted, time' = time, CapInv, Clean
    PROVE  \A v \in Workers \ {w} : Ready(v)' /\ Due(pc[v], loc[v])'
  <1>1. \A x : KeyNow(x)' = KeyNow(x)
    BY DEF KeyNow
  <1> SUFFICES ASSUME NEW v \in Workers \ {w} PROVE Ready(v)' /\ Due(pc[v], loc[v])'
    OBVIOUS
  <1>2. Ready(v) /\ Due(pc[v], loc[v]) /\ pc'[v] = pc[v] /\ loc'[v] = loc[v]
    BY DEF CapInv, OthersRest
  <1>3. Ready(v)'
    BY <1>1, <1>2 DEF Ready
  <1>4. Due(pc[v], loc[v])'
    BY <1>2 DEF Due, Named
  <1> QED BY <1>3, <1>4

\* A step that touches no counter, of a request that owes nothing before it and has not
\* passed a check after it.
LEMMA CapRests ==
    ASSUME CapInv, Clean, NEW w \in Workers, OthersRest(w),
           counters' = counters, acted' = acted, excess' = excess, time' = time,
           ~Busy(w)', pc[w] \notin {"wipe", "inc", "clear", "put"}, Due(pc[w], loc[w])',
           pc'[w] \notin {"clear", "put"},
           pc'[w] = "act" => loc'[w].kind \notin CountedKinds
    PROVE  CapInv'
  <1>1. \A u \in Users, x \in CountedKinds : ~Owes(w, u, x)
    BY DEF Owes, Busy
  <1>2. \A use : Covers(use) => Covers(use)'
    BY <1>1, CoversRest
  <1>3. \A x : KeyNow(x)' = KeyNow(x)
    BY DEF KeyNow
  <1>4. excess' \subseteq {"purge"} /\ NotYet'
    BY <1>3 DEF CapInv, NotYet
  <1>5. Alone'
    BY DEF CapInv, Alone, Busy, OthersRest
  <1>6. InFile'
    <2> SUFFICES ASSUME \A v \in Workers : pc'[v] \notin {"clear", "put"}
                 PROVE  counters' # Torn /\ Covers(counters)' /\ NoOverflow(counters)'
      BY DEF InFile
    <2>1. \A v \in Workers : pc[v] \notin {"clear", "put"}
      BY DEF OthersRest
    <2>2. counters # Torn /\ Covers(counters) /\ NoOverflow(counters)
      BY <2>1 DEF CapInv, InFile
    <2>3. PICK c : c = counters
      OBVIOUS
    <2>4. Covers(c)'
      BY <1>2, <2>2, <2>3
    <2> QED
      BY <2>2, <2>3, <2>4 DEF Covers, CoversOne, NoOverflow
  <1>7. ASSUME NEW v \in Workers PROVE InHand(v)'
    <2>1. CASE v = w
      BY <2>1 DEF InHand
    <2>2. CASE v # w
      <3> SUFFICES ASSUME pc'[v] \in {"clear", "put"}
                   PROVE  Covers(loc[v].use)' /\ NoOverflow(loc[v].use)'
        BY DEF InHand
      <3>1. pc[v] = pc'[v] /\ loc'[v] = loc[v]
        BY <2>2 DEF OthersRest
      <3>2. PICK c : c = loc[v].use
        OBVIOUS
      <3>3. Covers(c) /\ NoOverflow(c)
        BY <3>1, <3>2 DEF CapInv, InHand
      <3>4. Covers(c)'
        BY <1>2, <3>3
      <3> QED
        BY <3>1, <3>2, <3>3, <3>4 DEF Covers, CoversOne, NoOverflow
    <2> QED BY <2>1, <2>2
  <1>8. Ready(w)'
    BY DEF Ready
  <1> QED
    BY <1>4, <1>5, <1>6, <1>7, <1>8, OthersReady DEF CapInv

\* Nobody has passed a check of the counter that w is about to check.
LEMMA FirstToCheck ==
    ASSUME TypeInv, NEW w \in Workers, Check(w), Clean', NEW v \in Workers, Busy(v),
           loc[v].user = loc[w].user, loc[v].kind = loc[w].kind
    PROVE  FALSE
  <1> USE DEF CountedKinds, Clean
  <1>1. pc[w] = "check" /\ ~Meets(w) /\ v # w
    BY DEF Check, Goto, Reads, Busy, TypeInv, Types
  <1>2. /\ pc[v] \in {"act", "wipe", "inc"}
        /\ pc[v] \in {"act", "inc"} => Locked(loc[w])
    BY <1>1 DEF Meets, Writing, Busy
  <1>3. JobAt(w, pc[w], loc[w]) /\ JobAt(v, pc[v], loc[v])
    BY DEF TypeInv, Jobs
  <1>4. /\ KindFits(loc[w]) /\ loc[w].op \in Counting
        /\ KindFits(loc[v]) /\ loc[v].op \in Counting
    BY <1>1, <1>2, <1>3 DEF JobAt, CountSteps
  <1>5. /\ loc[v].op # "reset_all" /\ loc[v].kind # "purge" /\ loc[w].op # "reset_all"
        /\ pc[v] = "wipe" => loc[v].op = "reset" /\ loc[v].user \in Admins
    BY <1>1, <1>3, <1>4 DEF JobAt, KindFits, Busy
  <1>6. Locked(loc[w])
    BY <1>2, <1>4, <1>5 DEF Locked, KindFits, CheckedKind, Counting
  <1>7. Locked(loc[v])
    BY <1>4, <1>5, <1>6 DEF Locked, KindFits, CheckedKind, Counting
  <1>8. holder[loc[w].user] = w /\ holder[loc[v].user] = v
    BY <1>1, <1>2, <1>3, <1>6, <1>7 DEF JobAt, CountSteps
  <1> QED BY <1>1, <1>8

\* A check finds the counter of everything let through before it.
LEMMA CheckCaps ==
    ASSUME SteadySchedules, TypeInv, Scheduled, CapInv, Clean, NEW w \in Workers,
           Check(w), Clean'
    PROVE  CapInv'
  <1> DEFINE l == loc[w]
             key == KeyOf(l.kind)
             cap == (IF l.kind = "plain" THEN Config.plain ELSE AdminSetting(Config)).limit
             ok == Allowed(l.kind, Usage[key][l.user][l.kind], cap)
  <1> USE DEF Goto, history, CountedKinds, Clean
  <1>1. /\ OthersRest(w) /\ Types /\ ~Meets(w) /\ JobAt(w, pc[w], l) /\ l \in Locals
        /\ pc[w] = "check" /\ l.op # "reset_all" /\ l.kind = CheckedKind(l.op, l.user)
    BY OneMoves DEF Step, TypeInv, Types, Check, Reads, Jobs, JobAt, KindFits, CountSteps
  <1>2. /\ pc'[w] = (IF ~ok THEN "done" ELSE IF l.op = "purge" THEN "count" ELSE "act")
        /\ loc'[w] = [l EXCEPT !.key = key, !.cap = cap]
        /\ counters' = counters /\ acted' = acted /\ excess' = excess /\ time' = time
    BY <1>1 DEF Check, Types
  <1>3. /\ loc'[w].user = l.user /\ loc'[w].kind = l.kind /\ loc'[w].incs = l.incs
        /\ loc'[w].key = key /\ loc'[w].cap = cap /\ loc'[w].op = l.op
    BY <1>1, <1>2 DEF Locals
  <1>4. l.kind \in CountedKinds => Named(l, l.user, l.kind)
    BY <1>1 DEF CapInv, Due
  <1>5. Due(pc[w], loc[w])'
    BY <1>3, <1>4 DEF Due, Named
  <1>6. CASE ~ok \/ l.op = "purge"
    <2>1. ~Busy(w)'
      BY <1>2, <1>6 DEF Busy
    <2>2. pc'[w] \notin {"clear", "put", "act"}
      BY <1>2, <1>6
    <2> QED
      BY <1>1, <1>2, <1>5, <2>1, <2>2, CapRests
  <1>7. CASE ok /\ l.op # "purge"
    <2>0. l.kind \in CountedKinds
      BY <1>1, <1>7 DEF CheckedKind, Locals
    <2>1. pc'[w] = "act"
      BY <1>2, <1>7
    <2>2. \A v \in Workers : pc[v] \notin {"clear", "put"} /\ pc'[v] \notin {"clear", "put"}
      BY <1>1, <2>1 DEF Meets, Writing, OthersRest
    <2>3. counters # Torn /\ Covers(counters) /\ NoOverflow(counters)
      BY <2>2 DEF CapInv, InFile
    <2>4. \A x : KeyNow(x)' = KeyNow(x)
      BY <1>2 DEF KeyNow
    <2>5. l.user \in Users /\ l.kind \in Kinds /\ key = KeyNow(l.kind) /\ key \in Keys
      BY <1>1, KeysNow DEF JobAt, Locals
    <2>6. Usage = counters /\ counters \in Counts /\ acted \in Counts
      BY <1>1, <2>3 DEF Usage, Types
    <2>7. ~ \E v \in Workers : Owes(v, l.user, l.kind)
      BY FirstToCheck DEF Owes
    <2>8. acted[key][l.user][l.kind] <= counters[key][l.user][l.kind]
      BY <2>0, <2>3, <2>5, <2>7 DEF Covers, CoversOne
    <2>9. cap \in Int
      BY <1>1, ReadTypes, ConstantTypes
    <2>10. /\ acted[key][l.user][l.kind] \in Nat
           /\ counters[key][l.user][l.kind] \in Nat
      BY <2>5, <2>6 DEF Counts, Names
    <2>11. Allowed(l.kind, acted[key][l.user][l.kind], cap)
      BY <1>7, <2>6, <2>8, <2>9, <2>10, AllowedLess
    <2> HIDE DEF key, cap, ok
    <2>12. Ready(w)'
      <3>1. key <= KeyNow(l.kind)
        BY <2>5 DEF Keys
      <3> QED
        BY <1>2, <1>3, <2>4, <2>11, <3>1 DEF Ready
    <2>13. Alone'
      <3>1. ASSUME NEW v \in Workers \ {w}, Busy(v)', loc'[v].user = loc'[w].user,
                   loc'[v].kind = loc'[w].kind
            PROVE  FALSE
        BY <1>1, <1>3, <3>1, FirstToCheck DEF OthersRest, Busy
      <3>2. \A v, u \in Workers \ {w} :
               Busy(v)' /\ Busy(u)' /\ loc'[v].user = loc'[u].user
                  /\ loc'[v].kind = loc'[u].kind => v = u
        BY <1>1 DEF OthersRest, Busy, CapInv, Alone
      <3> QED BY <3>1, <3>2 DEF Alone
    <2>14. InFile'
      <3>1. PICK c : c = counters
        OBVIOUS
      <3>2. Covers(c)'
        <4>1. \A u \in Users, x \in CountedKinds : ~Owes(w, u, x)
          BY <1>1 DEF Owes, Busy
        <4> QED
          BY <1>1, <1>2, <2>3, <3>1, <4>1, CoversRest
      <3> QED
        BY <1>2, <2>3, <3>1, <3>2 DEF InFile, Covers, CoversOne, NoOverflow
    <2>15. \A v \in Workers : InHand(v)'
      BY <2>2 DEF InHand
    <2>16. excess' \subseteq {"purge"} /\ NotYet'
      BY <1>2, <2>4 DEF CapInv, NotYet
    <2> QED
      BY <1>1, <1>2, <1>5, <2>12, <2>13, <2>14, <2>15, <2>16, OthersReady DEF CapInv
  <1> QED BY <1>6, <1>7

\* What is let through is within its limit, and is owed.
LEMMA ActCaps ==
    ASSUME SteadySchedules, TypeInv, Scheduled, CapInv, Clean, NEW w \in Workers, Act(w)
    PROVE  CapInv'
  <1> DEFINE l == loc[w]
             key == l.key
             user == l.user
             kind == l.kind
  <1> USE DEF Goto, history, CountedKinds, Clean
  <1>1. /\ OthersRest(w) /\ Types /\ JobAt(w, pc[w], l) /\ l \in Locals
        /\ pc[w] = "act" /\ pc'[w] \in {"wipe", "inc", "done"} /\ loc' = loc
        /\ counters' = counters /\ time' = time
        /\ pc'[w] = "done" => l.op = "purge"
    BY OneMoves DEF Step, TypeInv, Types, Act, Jobs
  <1>2. key \in Keys /\ user \in Users /\ user \in Names /\ kind \in Kinds
    BY <1>1 DEF JobAt, Locals, Names
  <1>3. kind \in CountedKinds =>
           /\ Allowed(kind, acted[key][user][kind], l.cap) /\ key <= KeyNow(kind)
           /\ Named(l, user, kind) /\ l.op \notin {"purge", "reset_all"}
           /\ pc'[w] \in {"wipe", "inc"}
    <2>1. l.op # "reset_all" /\ kind = CheckedKind(l.op, user)
      BY <1>1 DEF JobAt, KindFits, CountSteps
    <2>2. kind \in CountedKinds => l.op # "purge"
      BY <2>1 DEF CheckedKind
    <2> QED
      BY <1>1, <2>1, <2>2 DEF CapInv, Ready, Due
  <1>4. \A x : KeyNow(x)' = KeyNow(x)
    BY <1>1 DEF KeyNow
  <1>5. \A x \in CountedKinds : KeyNow(x) \in Keys /\ KeyNow(x) \in Nat
    BY <1>1, KeysNow DEF Keys
  <1>6. excess' \subseteq {"purge"}
    BY <1>2, <1>3 DEF Act, CapInv
  <1>7. \A k \in Keys, n \in Names, x \in CountedKinds :
           acted'[k][n][x] = IF k = key /\ n = user /\ x = kind THEN acted[k][n][x] + 1
                             ELSE acted[k][n][x]
    <2>1. acted' = [acted EXCEPT ![key][user][kind] = @ + 1] /\ acted \in Counts
      BY <1>1 DEF Act, Types
    <2> QED
      BY <1>2, <2>1, OneMore
  <1> HIDE DEF key, user, kind
  <1>8. \A v \in Workers \ {w} : Busy(v) => ~(loc[v].user = user /\ loc[v].kind = kind)
    BY <1>1, <1>3 DEF CapInv, Alone, Busy, user, kind
  <1>9. NotYet'
    BY <1>2, <1>3, <1>4, <1>5, <1>7 DEF CapInv, NotYet, Names, Keys
  <1>10. Alone'
    BY <1>1 DEF CapInv, Alone, Busy, OthersRest
  <1>11. ASSUME NEW v \in Workers PROVE Ready(v)' /\ Due(pc[v], loc[v])'
    <2>1. CASE v = w
      BY <1>1, <1>3, <2>1 DEF Ready, Due, Named, user, kind
    <2>2. CASE v # w
      <3>1. pc'[v] = pc[v] /\ Due(pc[v], loc[v])'
        BY <1>1, <2>2 DEF CapInv, OthersRest, Due, Named
      <3>2. CASE ~(pc[v] = "act" /\ loc[v].kind \in CountedKinds)
        BY <1>1, <3>1, <3>2 DEF Ready
      <3>3. CASE pc[v] = "act" /\ loc[v].kind \in CountedKinds
        <4>1. /\ loc[v].key \in Keys /\ loc[v].user \in Names /\ loc[v].kind \in Kinds
              /\ loc[v].op # "reset_all"
          BY <1>1, <3>3 DEF TypeInv, Jobs, JobAt, Types, Locals, Names
        <4>2. acted'[loc[v].key][loc[v].user][loc[v].kind]
                 = acted[loc[v].key][loc[v].user][loc[v].kind]
          BY <1>7, <1>8, <2>2, <3>3, <4>1 DEF Busy
        <4>3. Ready(v)
          BY DEF CapInv
        <4> QED
          BY <1>1, <1>4, <3>1, <4>2, <4>3 DEF Ready
      <3> QED BY <3>1, <3>2, <3>3
    <2> QED BY <2>1, <2>2
  <1>12. ASSUME NEW c \in Counts, Covers(c) PROVE Covers(c)'
    <2>1. ASSUME NEW u \in Users, NEW x \in CountedKinds PROVE CoversOne(c, u, x)'
      <3>1. CoversOne(c, u, x)
        BY <1>12, <2>1 DEF Covers
      <3>2. u \in Names /\ c[KeyNow(x)][u][x] \in Nat /\ acted[KeyNow(x)][u][x] \in Nat
        BY <1>1, <1>5, <2>1 DEF Counts, Types, Names
      <3>3. CASE u = user /\ x = kind /\ KeyNow(x) = key
        <4>1. ~ \E v \in Workers : Owes(v, u, x)
          BY <1>1, <1>8, <3>3 DEF Owes, Busy
        <4>2. Owes(w, u, x)'
          BY <1>1, <1>3, <1>4, <3>3 DEF Owes, Busy, Named, user, kind, key
        <4>3. acted'[KeyNow(x)][u][x] = acted[KeyNow(x)][u][x] + 1
          BY <1>5, <1>7, <3>2, <3>3
        <4> QED
          BY <1>4, <3>1, <3>2, <4>1, <4>2, <4>3 DEF CoversOne
      <3>4. CASE ~(u = user /\ x = kind /\ KeyNow(x) = key)
        <4>1. acted'[KeyNow(x)][u][x] = acted[KeyNow(x)][u][x]
          BY <1>5, <1>7, <3>2, <3>4
        <4>2. \A v \in Workers : Owes(v, u, x) => Owes(v, u, x)'
          BY <1>1, <1>4 DEF Owes, Busy, OthersRest, Named
        <4>3. CASE \E v \in Workers : Owes(v, u, x)
          <5>1. \E v \in Workers : Owes(v, u, x)'
            BY <4>2, <4>3
          <5> QED
            BY <1>4, <3>1, <4>1, <5>1 DEF CoversOne
        <4>4. CASE ~ \E v \in Workers : Owes(v, u, x)
          BY <1>4, <3>1, <4>1, <4>4 DEF CoversOne
        <4> QED BY <4>3, <4>4
      <3> QED BY <3>3, <3>4
    <2> QED BY <2>1 DEF Covers
  <1>13. InFile'
    <2> SUFFICES ASSUME \A v \in Workers : pc'[v] \notin {"clear", "put"}
                 PROVE  counters' # Torn /\ Covers(counters)' /\ NoOverflow(counters)'
      BY DEF InFile
    <2>1. \A v \in Workers : pc[v] \notin {"clear", "put"}
      BY <1>1 DEF OthersRest
    <2>2. counters # Torn /\ Covers(counters) /\ NoOverflow(counters) /\ counters \in Counts
      BY <1>1, <2>1 DEF CapInv, InFile, Types
    <2>3. PICK c : c = counters
      OBVIOUS
    <2>4. Covers(c)'
      BY <1>12, <2>2, <2>3
    <2> QED
      BY <1>1, <2>2, <2>3, <2>4 DEF Covers, CoversOne, NoOverflow
  <1>14. ASSUME NEW v \in Workers PROVE InHand(v)'
    <2> SUFFICES ASSUME pc'[v] \in {"clear", "put"}
                 PROVE  Covers(loc[v].use)' /\ NoOverflow(loc[v].use)'
      BY DEF InHand
    <2>1. pc[v] = pc'[v] /\ loc' = loc
      BY <1>1 DEF OthersRest
    <2>2. PICK c : c = loc[v].use
      OBVIOUS
    <2>3. Covers(c) /\ NoOverflow(c) /\ c \in Counts
      BY <1>1, <2>1, <2>2 DEF CapInv, InHand, Types, Locals
    <2>4. Covers(c)'
      BY <1>12, <2>3
    <2> QED
      BY <2>1, <2>2, <2>3, <2>4 DEF Covers, CoversOne, NoOverflow
  <1> QED
    BY <1>6, <1>9, <1>10, <1>11, <1>13, <1>14 DEF CapInv

\* An increment adds to one counter of the current periods.
LEMMA IncrementAdds ==
    ASSUME SteadySchedules, EveryoneTracked, Types, Scheduled,
           NEW use \in Counts, NoOverflow(use), NEW u \in Users, NEW x \in Kinds
    PROVE  /\ NoOverflow(Increment(use, u, x))
           /\ \A v \in Users, y \in Kinds :
                 Increment(use, u, x)[KeyNow(y)][v][y] =
                    IF v = u /\ y = x THEN use[KeyNow(y)][v][y] + 1
                    ELSE use[KeyNow(y)][v][y]
  <1> DEFINE kept == IF x = "plain" THEN Prune(use, PlainKey) ELSE use
             at == IF x = "plain" THEN PlainKey ELSE AdminKey
             new == [kept EXCEPT ![at][u][x] = @ + 1]
  <1>1. PlainKey \in Keys /\ AdminKey \in Keys /\ Keys \subseteq Nat
    BY ReadTypes DEF Keys
  <1>2. kept \in Counts /\ NoOverflow(kept)
    BY ConstantTypes DEF Prune, Counts, NoOverflow, NoUsage, Names
  <1>3. \A y \in Kinds : KeyNow(y) \in Keys /\ PlainKey <= KeyNow(y)
    BY KeysNow
  <1>4. \A y \in Kinds : kept[KeyNow(y)] = use[KeyNow(y)]
    BY <1>1, <1>3 DEF Prune
  <1>5. at \in Keys /\ at = KeyNow(x) /\ u \in Names /\ Overflow \in Names /\ u # Overflow
    BY <1>1, KeysNow, LimitsAssumption DEF Names
  <1>6. Increment(use, u, x) = new
    <2>1. CASE x = "plain"
      <3>1. kept[PlainKey][Overflow] = Nothing
        BY <1>1, <1>2 DEF NoOverflow
      <3>2. Tracked(kept[PlainKey], u) = u
        BY <3>1, TrackedUser
      <3>3. kept = Prune(use, PlainKey) /\ at = PlainKey
        BY <2>1
      <3> QED
        BY <2>1, <3>2, <3>3 DEF Increment
    <2>2. CASE x # "plain"
      BY <2>2 DEF Increment
    <2> QED BY <2>1, <2>2
  <1> HIDE DEF kept, at
  <1>7. /\ new \in Counts
        /\ \A j \in Keys, m \in Names, y \in Kinds :
              new[j][m][y] = IF j = at /\ m = u /\ y = x THEN kept[j][m][y] + 1
                             ELSE kept[j][m][y]
    BY <1>2, <1>5, OneMore
  <1> HIDE DEF new
  <1>8. ASSUME NEW v \in Users, NEW y \in Kinds
        PROVE  new[KeyNow(y)][v][y] = IF v = u /\ y = x THEN use[KeyNow(y)][v][y] + 1
                                      ELSE use[KeyNow(y)][v][y]
    BY <1>3, <1>4, <1>5, <1>7, <1>8 DEF Names
  <1>9. NoOverflow(new)
    <2>1. ASSUME NEW k \in Keys PROVE new[k][Overflow] = Nothing
      <3>1. new[k][Overflow] \in [Kinds -> Nat] /\ kept[k][Overflow] = Nothing
        BY <1>2, <1>5, <1>7, <2>1 DEF Counts, NoOverflow
      <3>2. \A y \in Kinds : new[k][Overflow][y] = Nothing[y]
        BY <1>5, <1>7, <2>1, <3>1
      <3> QED
        BY <3>1, <3>2, ConstantTypes
    <2> QED BY <2>1 DEF NoOverflow
  <1> QED
    BY <1>6, <1>8, <1>9

\* Counters that are read, added to and about to be written cover what they did.
LEMMA ReadCaps ==
    ASSUME SteadySchedules, EveryoneTracked, TypeInv, Scheduled, CapInv, Clean,
           NEW w \in Workers, ReadCounters(w), Clean'
    PROVE  CapInv'
  <1> DEFINE l == loc[w]
  <1> USE DEF Goto, history, CountedKinds, Clean
  <1>0. PICK i, new : i = Head(l.incs) /\ new = Increment(counters, i[1], i[2])
    OBVIOUS
  <1>1. /\ OthersRest(w) /\ Types /\ ~Meets(w) /\ l \in Locals /\ l.incs # <<>>
        /\ pc[w] = "inc" /\ pc'[w] = "clear" /\ excess' = excess
        /\ counters' = counters /\ acted' = acted /\ time' = time
    BY OneMoves DEF Step, TypeInv, Types, ReadCounters, Reads
  <1>2. \A v \in Workers : pc[v] \notin {"clear", "put"}
    BY <1>1 DEF Meets, Writing
  <1>3. counters # Torn /\ Covers(counters) /\ NoOverflow(counters)
    BY <1>2 DEF CapInv, InFile
  <1>4. Usage = counters /\ counters \in Counts
    BY <1>1, <1>3 DEF Usage, Types
  <1>5. loc'[w] = [l EXCEPT !.use = new, !.incs = Tail(l.incs)]
    BY <1>0, <1>1, <1>4 DEF ReadCounters, Types
  <1>6. /\ loc'[w].user = l.user /\ loc'[w].kind = l.kind /\ loc'[w].key = l.key
        /\ loc'[w].use = new /\ loc'[w].incs = Tail(l.incs) /\ loc'[w].op = l.op
    BY <1>1, <1>5 DEF Locals
  <1>7. i \in Users \X Kinds /\ i = <<i[1], i[2]>> /\ l.incs \in Seq(Users \X Kinds)
    BY <1>0, <1>1 DEF Locals
  <1>8. /\ NoOverflow(new)
        /\ \A v \in Users, y \in CountedKinds :
              new[KeyNow(y)][v][y] =
                 IF v = i[1] /\ y = i[2] THEN counters[KeyNow(y)][v][y] + 1
                 ELSE counters[KeyNow(y)][v][y]
    <2>1. i[1] \in Users /\ i[2] \in Kinds
      BY <1>7
    <2>2. /\ NoOverflow(Increment(counters, i[1], i[2]))
          /\ \A v \in Users, y \in Kinds :
                Increment(counters, i[1], i[2])[KeyNow(y)][v][y] =
                   IF v = i[1] /\ y = i[2] THEN counters[KeyNow(y)][v][y] + 1
                   ELSE counters[KeyNow(y)][v][y]
      BY <1>1, <1>3, <1>4, <2>1, IncrementAdds
    <2> QED
      BY <1>0, <2>2
  <1>9. \A x : KeyNow(x)' = KeyNow(x)
    BY <1>1 DEF KeyNow
  <1>10. \A v \in Workers, u \in Users, x \in CountedKinds :
            Owes(v, u, x) => <<u, x>> = i \/ Owes(v, u, x)'
    <2> SUFFICES ASSUME NEW v \in Workers, NEW u \in Users, NEW x \in CountedKinds, Owes(v, u, x)
                 PROVE  <<u, x>> = i \/ Owes(v, u, x)'
      OBVIOUS
    <2>1. CASE v = w
      <3>1. Named(l, u, x)
        BY <2>1 DEF Owes, Busy
      <3>2. <<u, x>> = i \/ \E j \in 1..Len(Tail(l.incs)) : Tail(l.incs)[j] = <<u, x>>
        <4>1. PICK q, e : q = l.incs /\ e = <<u, x>>
          OBVIOUS
        <4>2. q \in Seq(Users \X Kinds) /\ q # <<>> /\ \E j \in 1..Len(q) : q[j] = e
          BY <1>1, <1>7, <3>1, <4>1 DEF Named
        <4>3. Head(q) = e \/ \E j \in 1..Len(Tail(q)) : Tail(q)[j] = e
          BY <4>2, NamedLater
        <4> QED
          BY <1>0, <4>1, <4>3
      <3> QED
        BY <1>1, <1>6, <1>9, <2>1, <3>2 DEF Owes, Busy, Named
    <2>2. CASE v # w
      BY <1>1, <1>9, <2>2 DEF Owes, Busy, OthersRest, Named
    <2> QED BY <2>1, <2>2
  <1>11. ASSUME NEW u \in Users, NEW x \in CountedKinds PROVE CoversOne(new, u, x)'
    <2>1. CoversOne(counters, u, x)
      BY <1>3, <1>11 DEF Covers
    <2>2. KeyNow(x) \in Keys
      BY <1>1, <1>11, KeysNow
    <2>3. counters[KeyNow(x)][u][x] \in Nat /\ acted[KeyNow(x)][u][x] \in Nat
      BY <1>1, <1>4, <1>11, <2>2 DEF Counts, Types, Names
    <2>4. CASE <<u, x>> = i
      <3>1. u = i[1] /\ x = i[2]
        BY <2>4
      <3>2. new[KeyNow(x)][u][x] = counters[KeyNow(x)][u][x] + 1
        BY <1>8, <1>11, <3>1
      <3> QED
        BY <1>1, <1>9, <2>1, <2>3, <3>2 DEF CoversOne
    <2>5. CASE <<u, x>> # i
      <3>1. ~(u = i[1] /\ x = i[2])
        BY <1>7, <2>5
      <3>2. new[KeyNow(x)][u][x] = counters[KeyNow(x)][u][x]
        BY <1>8, <1>11, <3>1
      <3>3. CASE \E v \in Workers : Owes(v, u, x)
        <4>1. \E v \in Workers : Owes(v, u, x)'
          BY <1>10, <1>11, <2>5, <3>3
        <4> QED
          BY <1>1, <1>9, <2>1, <3>2, <4>1 DEF CoversOne
      <3>4. CASE ~ \E v \in Workers : Owes(v, u, x)
        BY <1>1, <1>9, <2>1, <3>2, <3>4 DEF CoversOne
      <3> QED BY <3>3, <3>4
    <2> QED BY <2>4, <2>5
  <1>12. InHand(w)'
    BY <1>6, <1>8, <1>11 DEF InHand, Covers, CoversOne, NoOverflow
  <1>13. \A v \in Workers \ {w} : InHand(v)'
    BY <1>1, <1>2 DEF InHand, OthersRest
  <1>14. InFile'
    BY <1>1 DEF InFile
  <1>15. Alone'
    BY <1>1, <1>6 DEF CapInv, Alone, Busy, OthersRest
  <1>16. excess' \subseteq {"purge"} /\ NotYet' /\ Ready(w)' /\ Due(pc[w], loc[w])'
    BY <1>1, <1>9 DEF CapInv, NotYet, Ready, Due
  <1> QED
    BY <1>1, <1>12, <1>13, <1>14, <1>15, <1>16, OthersReady DEF CapInv

\* What is reset was let through no longer counts.
LEMMA WipeCaps ==
    ASSUME SteadySchedules, TypeInv, Scheduled, CapInv, Clean,
           NEW w \in Workers, ReadToWipe(w), Clean'
    PROVE  CapInv'
  <1> DEFINE l == loc[w]
  <1> USE DEF Goto, history, CountedKinds, Clean
  <1>0. PICK p, W, new :
           /\ p = PlainKey /\ W = Wiped(l)
           /\ new = [counters EXCEPT ![p] =
                       [n \in Names |-> IF n \in W THEN Nothing ELSE @[n]]]
    OBVIOUS
  <1>1. /\ OthersRest(w) /\ Types /\ ~Meets(w) /\ l \in Locals
        /\ pc[w] = "wipe" /\ pc'[w] = "clear" /\ excess' = excess
        /\ counters' = counters /\ time' = time
    BY OneMoves DEF Step, TypeInv, Types, ReadToWipe, Reads
  <1>2. \A v \in Workers : pc[v] \notin {"clear", "put"}
    BY <1>1 DEF Meets, Writing
  <1>3. counters # Torn /\ Covers(counters) /\ NoOverflow(counters)
    BY <1>2 DEF CapInv, InFile
  <1>4. Usage = counters /\ counters \in Counts /\ acted \in Counts /\ p \in Keys
    BY <1>0, <1>1, <1>3, ReadTypes DEF Usage, Types
  <1>5. /\ loc'[w] = [l EXCEPT !.use = new]
        /\ acted' = [acted EXCEPT ![p] =
                       [n \in Names |-> IF n \in W THEN Nothing ELSE @[n]]]
    BY <1>0, <1>1, <1>4 DEF ReadToWipe, Types
  <1>6. /\ loc'[w].user = l.user /\ loc'[w].kind = l.kind /\ loc'[w].key = l.key
        /\ loc'[w].use = new /\ loc'[w].incs = l.incs /\ loc'[w].op = l.op
    BY <1>1, <1>5 DEF Locals
  <1>7. \A k \in Keys, n \in Names :
           /\ new[k][n] = IF k = p /\ n \in W THEN Nothing ELSE counters[k][n]
           /\ acted'[k][n] = IF k = p /\ n \in W THEN Nothing ELSE acted[k][n]
    BY <1>0, <1>4, <1>5 DEF Counts
  <1>8. \A x : KeyNow(x)' = KeyNow(x)
    BY <1>1 DEF KeyNow
  <1>9. \A u \in Users : u \in Names
    BY DEF Names
  <1>10. \A x \in CountedKinds : Nothing[x] = 0
    BY DEF Nothing
  <1>11. \A k \in Keys, u \in Users, x \in CountedKinds :
            acted[k][u][x] \in Nat /\ acted'[k][u][x] \in {0, acted[k][u][x]}
    <2> SUFFICES ASSUME NEW k \in Keys, NEW u \in Users, NEW x \in CountedKinds
                 PROVE  acted[k][u][x] \in Nat /\ acted'[k][u][x] \in {0, acted[k][u][x]}
      OBVIOUS
    <2>1. u \in Names
      BY <1>9
    <2>2. acted[k][u][x] \in Nat
      BY <1>4, <2>1 DEF Counts
    <2>3. acted'[k][u] = Nothing \/ acted'[k][u] = acted[k][u]
      BY <1>7, <2>1
    <2> QED
      BY <1>10, <2>2, <2>3
  <1>12. \A v \in Workers, u \in Users, x \in CountedKinds : Owes(v, u, x) => Owes(v, u, x)'
    <2> SUFFICES ASSUME NEW v \in Workers, NEW u \in Users, NEW x \in CountedKinds, Owes(v, u, x)
                 PROVE  Owes(v, u, x)'
      OBVIOUS
    <2>1. CASE v = w
      BY <1>1, <1>6, <1>8, <2>1 DEF Owes, Busy, Named
    <2>2. CASE v # w
      BY <1>1, <1>8, <2>2 DEF Owes, Busy, OthersRest, Named
    <2> QED BY <2>1, <2>2
  <1>13. ASSUME NEW u \in Users, NEW x \in CountedKinds PROVE CoversOne(new, u, x)'
    <2>1. CoversOne(counters, u, x)
      BY <1>3, <1>13 DEF Covers
    <2>2. KeyNow(x) \in Keys /\ u \in Names
      BY <1>1, <1>9, <1>13, KeysNow
    <2>3. CASE KeyNow(x) = p /\ u \in W
      <3>1. new[KeyNow(x)][u][x] = 0 /\ acted'[KeyNow(x)][u][x] = 0
        BY <1>7, <1>10, <1>13, <2>2, <2>3
      <3> QED
        BY <1>8, <3>1 DEF CoversOne
    <2>4. CASE ~(KeyNow(x) = p /\ u \in W)
      <3>1. /\ new[KeyNow(x)][u][x] = counters[KeyNow(x)][u][x]
            /\ acted'[KeyNow(x)][u][x] = acted[KeyNow(x)][u][x]
        BY <1>7, <2>2, <2>4
      <3>2. CASE \E v \in Workers : Owes(v, u, x)
        <4>1. \E v \in Workers : Owes(v, u, x)'
          BY <1>12, <1>13, <3>2
        <4> QED
          BY <1>8, <2>1, <3>1, <4>1 DEF CoversOne
      <3>3. CASE ~ \E v \in Workers : Owes(v, u, x)
        BY <1>8, <2>1, <3>1, <3>3 DEF CoversOne
      <3> QED BY <3>2, <3>3
    <2> QED BY <2>3, <2>4
  <1>14. NoOverflow(new)
    BY <1>3, <1>7 DEF NoOverflow, Names
  <1>15. InHand(w)'
    BY <1>6, <1>13, <1>14 DEF InHand, Covers, CoversOne, NoOverflow
  <1>16. \A v \in Workers \ {w} : InHand(v)'
    BY <1>1, <1>2 DEF InHand, OthersRest
  <1>17. InFile'
    BY <1>1 DEF InFile
  <1>18. Alone'
    BY <1>1, <1>6 DEF CapInv, Alone, Busy, OthersRest
  <1>19. excess' \subseteq {"purge"} /\ NotYet'
    BY <1>1, <1>8, <1>11 DEF CapInv, NotYet
  <1>20. Ready(w)' /\ Due(pc[w], loc[w])'
    BY <1>1 DEF Ready, Due
  <1>21. ASSUME NEW v \in Workers \ {w} PROVE Ready(v)' /\ Due(pc[v], loc[v])'
    <2>1. pc'[v] = pc[v] /\ loc'[v] = loc[v]
      BY <1>1, <1>21 DEF OthersRest
    <2>2. Due(pc[v], loc[v])'
      BY <1>21, <2>1 DEF CapInv, Due, Named
    <2>3. CASE pc[v] = "act" /\ loc[v].kind \in CountedKinds
      <3>0. JobAt(v, pc[v], loc[v]) /\ loc[v] \in Locals /\ MaxRequests \in Nat
        BY <1>1, <1>21, ConstantTypes DEF TypeInv, Jobs, Types
      <3>1. /\ loc[v].key \in Keys /\ loc[v].user \in Users /\ loc[v].kind \in CountedKinds
            /\ loc[v].cap \in Int
        BY <2>3, <3>0 DEF JobAt, Locals
      <3>2. PICK n, m : /\ n = acted'[loc[v].key][loc[v].user][loc[v].kind]
                        /\ m = acted[loc[v].key][loc[v].user][loc[v].kind]
        OBVIOUS
      <3>3. n \in Nat /\ m \in Nat /\ n <= m
        BY <1>11, <3>1, <3>2
      <3>4. Allowed(loc[v].kind, m, loc[v].cap) /\ loc[v].key <= KeyNow(loc[v].kind)
        BY <1>21, <2>3, <3>2 DEF CapInv, Ready
      <3>5. Allowed(loc[v].kind, n, loc[v].cap)
        BY <3>1, <3>3, <3>4, AllowedLess
      <3> QED
        BY <1>8, <2>1, <2>2, <3>2, <3>4, <3>5 DEF Ready
    <2>4. CASE ~(pc[v] = "act" /\ loc[v].kind \in CountedKinds)
      BY <2>1, <2>2, <2>4 DEF Ready
    <2> QED BY <2>3, <2>4
  <1> QED
    BY <1>15, <1>16, <1>17, <1>18, <1>19, <1>20, <1>21 DEF CapInv

\* What is in hand is what is written.
LEMMA WriteCaps ==
    ASSUME TypeInv, SettleInv, CapInv, Clean,
           NEW w \in Workers, ClearCounters(w) \/ PutCounters(w)
    PROVE  CapInv'
  <1> DEFINE l == loc[w]
  <1> USE DEF Goto, history, CountedKinds, Clean
  <1>1. /\ OthersRest(w) /\ Types /\ l \in Locals /\ pc[w] \in {"clear", "put"}
        /\ excess' = excess /\ acted' = acted /\ time' = time
    BY OneMoves DEF Step, TypeInv, Types, ClearCounters, PutCounters
  <1>2. PICK c : c = l.use
    OBVIOUS
  <1>3. Covers(c) /\ NoOverflow(c)
    BY <1>1, <1>2 DEF CapInv, InHand
  <1>4. \A x : KeyNow(x)' = KeyNow(x)
    BY <1>1 DEF KeyNow
  <1>5. \A v \in Workers \ {w} : pc'[v] \notin {"clear", "put"}
    BY <1>1 DEF SettleInv, OneWriter, Writing, OthersRest
  <1>6. /\ pc'[w] \in {"put", "inc", "done"} /\ loc'[w].incs = l.incs
        /\ loc'[w].user = l.user /\ loc'[w].kind = l.kind /\ loc'[w].key = l.key
        /\ loc'[w].op = l.op
    BY <1>1 DEF ClearCounters, PutCounters, Types, Locals
  <1>7. excess' \subseteq {"purge"} /\ NotYet' /\ Ready(w)' /\ Due(pc[w], loc[w])'
    BY <1>1, <1>4, <1>6 DEF CapInv, NotYet, Ready, Due
  <1>8. Alone'
    BY <1>1, <1>6 DEF CapInv, Alone, Busy, OthersRest
  <1>9. \A u \in Users, x \in CountedKinds : Owes(w, u, x) => Owes(w, u, x)'
    <2> SUFFICES ASSUME NEW u \in Users, NEW x \in CountedKinds, Owes(w, u, x)
                 PROVE  Owes(w, u, x)'
      OBVIOUS
    <2>1. Named(l, u, x)
      BY DEF Owes, Busy
    <2>2. l.incs # <<>>
      BY <2>1 DEF Named
    <2>3. pc'[w] \in {"put", "inc"}
      BY <1>1, <2>2 DEF ClearCounters, PutCounters, Types
    <2> QED
      BY <1>4, <1>6, <2>3 DEF Owes, Busy, Named
  <1>10. Covers(c)'
    BY <1>1, <1>3, <1>9, CoversRest
  <1>11. CASE ClearCounters(w)
    <2>1. pc'[w] = "put" /\ loc' = loc
      BY <1>1, <1>11 DEF ClearCounters, Types
    <2>2. InHand(w)'
      BY <1>2, <1>3, <1>10, <2>1 DEF InHand, Covers, CoversOne, NoOverflow
    <2>3. InFile'
      BY <2>1 DEF InFile
    <2>4. \A v \in Workers \ {w} : InHand(v)'
      BY <1>5 DEF InHand
    <2> QED
      BY <1>1, <1>7, <1>8, <2>2, <2>3, <2>4, OthersReady DEF CapInv
  <1>12. CASE PutCounters(w)
    <2>1. counters' = c /\ pc'[w] \in {"inc", "done"}
      BY <1>1, <1>2, <1>12 DEF PutCounters, Types
    <2>2. c # Torn
      BY <1>1, <1>2, ConstantTypes DEF Locals
    <2>3. InFile'
      BY <1>3, <1>10, <2>1, <2>2 DEF InFile, Covers, CoversOne, NoOverflow
    <2>4. \A v \in Workers : InHand(v)'
      BY <1>5, <2>1 DEF InHand
    <2> QED
      BY <1>1, <1>7, <1>8, <2>3, <2>4, OthersReady DEF CapInv
  <1> QED BY <1>11, <1>12

\* A request that begins is due to add to the counter it will be checked against.
LEMMA BeginCaps ==
    ASSUME TypeInv, CapInv, Clean, NEW w \in Workers, Begin(w)
    PROVE  CapInv'
  <1>1. PICK op \in Does, u \in Users, v \in Users : \E s \in Offered(op) :
           /\ op # "save" => u \in Admins
           /\ loc' = [loc EXCEPT ![w] = Request(op, u, v, s)]
           /\ Goto(w, "idle", FirstStep(Request(op, u, v, s)))
    BY DEF Begin
  <1>2. PICK s \in Offered(op) :
           /\ op # "save" => u \in Admins
           /\ loc' = [loc EXCEPT ![w] = Request(op, u, v, s)]
           /\ Goto(w, "idle", FirstStep(Request(op, u, v, s)))
    BY <1>1
  <1> DEFINE l == Request(op, u, v, s)
  <1>3. loc'[w] = l /\ pc[w] = "idle" /\ pc'[w] = FirstStep(l)
    BY <1>2 DEF Goto, TypeInv, Types
  <1>4. /\ l.op = op /\ l.kind = CheckedKind(op, u)
        /\ pc'[w] \in {"lock", "wipe", "changes", "config", "check"}
        /\ pc'[w] = "wipe" => op = "reset_all"
    BY <1>3 DEF Request, Idle, FirstStep
  <1>5. Due(pc[w], loc[w])'
    <2>0. CASE op \in {"purge", "reset_all"}
      BY <1>3, <1>4, <2>0 DEF Due, CheckedKind, CountedKinds
    <2>1. CASE op \in Counting \ {"purge", "reset_all"}
      <3>1. Named(l, l.user, l.kind)
        BY <1>2, <2>1, NamedAtFirst
      <3> QED
        BY <1>3, <3>1 DEF Due, Named
    <2>2. CASE op \notin Counting
      <3>1. op \in Settling
        BY <2>2, LimitsAssumption
      <3>2. pc'[w] \in {"changes", "config"}
        BY <1>3, <1>4, <2>2, <3>1 DEF FirstStep, Locked, Settling
      <3> QED
        BY <3>2 DEF Due
    <2> QED BY <2>0, <2>1, <2>2
  <1>6. /\ OthersRest(w) /\ counters' = counters /\ acted' = acted /\ excess' = excess
        /\ time' = time
    BY OneMoves DEF Step, TypeInv, Begin, history
  <1> QED
    BY <1>3, <1>4, <1>5, <1>6, CapRests DEF Busy

\* At midnight a period may begin, in which nothing has been let through.
LEMMA TickCaps ==
    ASSUME SteadySchedules, TypeInv, TypeInv', Scheduled, CapInv, Clean, Tick
    PROVE  CapInv'
  <1>1. /\ pc' = pc /\ loc' = loc /\ counters' = counters /\ acted' = acted
        /\ excess' = excess /\ time' = time + 1 /\ time' \in 0..MaxTime /\ Types
    BY DEF Tick, history, TypeInv, Types
  <1>2. \A x \in CountedKinds : /\ KeyNow(x) <= KeyNow(x)' /\ KeyNow(x)' \in Keys
                         /\ KeyNow(x) \in Keys
    <2> SUFFICES ASSUME NEW x \in CountedKinds
                 PROVE  /\ KeyNow(x) <= KeyNow(x)' /\ KeyNow(x)' \in Keys
                        /\ KeyNow(x) \in Keys
      OBVIOUS
    <2>1. PICK f \in Frequencies :
             f = IF x = "plain" THEN DefaultLimits.resets ELSE DefaultAdmin.resets
      BY ConstantTypes
    <2>2. KeyNow(x) = Key(f, time) /\ KeyNow(x)' = Key(f, time + 1)
      BY <1>1, <2>1 DEF KeyNow
    <2>3. time \in 0..MaxTime /\ time + 1 \in 0..MaxTime /\ time \in Nat
      BY <1>1, ConstantTypes DEF Types
    <2> QED
      BY <2>2, <2>3, KeyGrows, KeyType
  <1>3. Keys \subseteq Nat
    BY DEF Keys
  <1>4. NotYet'
    <2> SUFFICES ASSUME NEW k \in Keys, NEW u \in Users, NEW x \in CountedKinds, k > KeyNow(x)'
                 PROVE  acted'[k][u][x] = 0
      BY DEF NotYet
    <2>1. KeyNow(x) <= KeyNow(x)' /\ KeyNow(x)' \in Nat /\ KeyNow(x) \in Nat /\ k \in Nat
      BY <1>2, <1>3
    <2>2. k > KeyNow(x)
      BY <2>1
    <2>3. acted[k][u][x] = 0
      BY <2>2 DEF CapInv, NotYet
    <2> QED
      BY <1>1, <2>3
  <1>5. ASSUME NEW c \in Counts, Covers(c) PROVE Covers(c)'
    <2>1. ASSUME NEW u \in Users, NEW x \in CountedKinds PROVE CoversOne(c, u, x)'
      <3>1. CoversOne(c, u, x)
        BY <1>5, <2>1 DEF Covers
      <3>2. CASE KeyNow(x)' = KeyNow(x)
        <4>1. \A v \in Workers : Owes(v, u, x)' <=> Owes(v, u, x)
          BY <1>1, <3>2 DEF Owes, Busy, Named
        <4> QED
          BY <1>1, <3>1, <3>2, <4>1 DEF CoversOne
      <3>3. CASE KeyNow(x)' # KeyNow(x)
        <4>1. PICK k \in Keys : k = KeyNow(x)'
          BY <1>2, <2>1
        <4>2. k > KeyNow(x)
          <5>1. PICK j : j = KeyNow(x)
            OBVIOUS
          <5>2. k # j /\ j <= k /\ j \in Nat /\ k \in Nat
            BY <1>2, <1>3, <2>1, <3>3, <4>1, <5>1
          <5> QED
            BY <5>1, <5>2
        <4>3. acted[k][u][x] = 0
          BY <2>1, <4>2 DEF CapInv, NotYet
        <4>4. c[k][u][x] \in Nat
          <5>1. u \in Names /\ x \in Kinds
            BY <2>1 DEF Names, CountedKinds
          <5> QED
            BY <1>5, <5>1 DEF Counts
        <4> QED
          BY <1>1, <4>1, <4>3, <4>4 DEF CoversOne
      <3> QED BY <3>2, <3>3
    <2> QED BY <2>1 DEF Covers
  <1>6. InFile'
    <2> SUFFICES ASSUME \A v \in Workers : pc'[v] \notin {"clear", "put"}
                 PROVE  counters' # Torn /\ Covers(counters)' /\ NoOverflow(counters)'
      BY DEF InFile
    <2>1. counters # Torn /\ Covers(counters) /\ NoOverflow(counters) /\ counters \in Counts
      BY <1>1 DEF CapInv, InFile, Types
    <2>2. PICK c : c = counters
      OBVIOUS
    <2>3. Covers(c)'
      BY <1>5, <2>1, <2>2
    <2> QED
      BY <1>1, <2>1, <2>2, <2>3 DEF Covers, CoversOne, NoOverflow
  <1>7. ASSUME NEW v \in Workers PROVE InHand(v)'
    <2> SUFFICES ASSUME pc'[v] \in {"clear", "put"}
                 PROVE  Covers(loc[v].use)' /\ NoOverflow(loc[v].use)'
      BY DEF InHand
    <2>1. PICK c : c = loc[v].use
      OBVIOUS
    <2>2. Covers(c) /\ NoOverflow(c) /\ c \in Counts
      BY <1>1, <1>7, <2>1 DEF CapInv, InHand, Types, Locals
    <2>3. Covers(c)'
      BY <1>5, <2>2
    <2> QED
      BY <1>1, <2>1, <2>2, <2>3 DEF Covers, CoversOne, NoOverflow
  <1>8. ASSUME NEW v \in Workers PROVE Ready(v)' /\ Due(pc[v], loc[v])'
    <2>1. Due(pc[v], loc[v])'
      BY <1>1, <1>8 DEF CapInv, Due, Named
    <2>2. CASE pc[v] = "act" /\ loc[v].kind \in CountedKinds
      <3>1. PICK z \in CountedKinds, k \in Keys : z = loc[v].kind /\ k = loc[v].key
        BY <1>1, <1>8, <2>2 DEF Types, Locals
      <3>2. k <= KeyNow(z)
        BY <1>8, <2>2, <3>1 DEF CapInv, Ready
      <3>3. PICK a, b : a = KeyNow(z) /\ b = KeyNow(z)'
        OBVIOUS
      <3>4. k <= a /\ a <= b /\ k \in Nat /\ a \in Nat /\ b \in Nat
        BY <1>2, <1>3, <3>1, <3>2, <3>3
      <3>5. k <= KeyNow(z)'
        BY <3>3, <3>4
      <3>6. Allowed(z, acted[k][loc[v].user][z], loc[v].cap)
        BY <1>8, <2>2, <3>1 DEF CapInv, Ready
      <3> QED
        BY <1>1, <2>1, <2>2, <3>1, <3>5, <3>6 DEF Ready, KeyNow
    <2>3. CASE ~(pc[v] = "act" /\ loc[v].kind \in CountedKinds)
      BY <1>1, <2>1, <2>3 DEF Ready
    <2> QED BY <2>2, <2>3
  <1>9. Alone' /\ excess' \subseteq {"purge"}
    BY <1>1 DEF CapInv, Alone, Busy
  <1> QED
    BY <1>4, <1>6, <1>7, <1>8, <1>9 DEF CapInv

\* Nothing has been counted or let through at the start.
LEMMA CapInvInit == Init => CapInv
  <1> SUFFICES ASSUME Init PROVE CapInv
    OBVIOUS
  <1>1. \A k \in Keys, n \in Names, x \in CountedKinds : NoUsage[k][n][x] = 0
    BY DEF NoUsage, Nothing, CountedKinds
  <1>2. /\ pc = [w \in Workers |-> "idle"] /\ counters = NoUsage /\ acted = NoUsage
        /\ excess = {} /\ time = 0 /\ NoUsage # Torn
    BY ConstantTypes DEF Init
  <1>3. \A x \in CountedKinds : KeyNow(x) \in Keys
    <2>1. \A x : (IF x = "plain" THEN DefaultLimits.resets ELSE DefaultAdmin.resets)
                 \in Frequencies
      BY ConstantTypes
    <2> QED
      BY <1>2, <2>1, KeyType, ConstantTypes DEF KeyNow
  <1>4. Covers(counters)
    BY <1>1, <1>2, <1>3 DEF Covers, CoversOne, Names
  <1>5. NoOverflow(counters)
    BY <1>2 DEF NoOverflow, NoUsage, Names
  <1>6. NotYet
    BY <1>1, <1>2 DEF NotYet, Names
  <1> QED
    BY <1>2, <1>4, <1>5, <1>6 DEF CapInv, Alone, Busy, InFile, Due, Ready, InHand

\* Every step keeps the counters to what was let through.
LEMMA CapInvStep ==
    ASSUME SteadySchedules, EveryoneTracked, TypeInv, SettleInv, Scheduled, CapInv, [Next]_vars
    PROVE  CapInv'
  <1> SUFFICES ASSUME Clean' PROVE CapInv'
    BY DEF CapInv
  <1> USE DEF Goto, history, CountedKinds, Clean
  <1>0. Types /\ TypeInv'
    BY TypeInvStep DEF TypeInv
  <1>1. ASSUME NEW w \in Workers, Step(w) PROVE CapInv'
    <2>1. Clean /\ OthersRest(w)
      BY <1>0, <1>1, Unraced, OneMoves
    <2>2. CASE Begin(w)
      BY <2>1, <2>2, BeginCaps
    <2>3. CASE Lock(w)
      <3>1. /\ pc[w] = "lock" /\ pc'[w] = "check" /\ loc' = loc /\ counters' = counters
            /\ acted' = acted /\ excess' = excess /\ time' = time
        BY <1>0, <2>3 DEF Lock, Types
      <3>2. Due(pc[w], loc[w])'
        BY <2>1, <3>1 DEF CapInv, Due, Named
      <3> QED
        BY <2>1, <3>1, <3>2, CapRests DEF Busy
    <2>4. CASE Check(w)
      BY <2>1, <2>4, CheckCaps
    <2>5. CASE Act(w)
      BY <2>1, <2>5, ActCaps
    <2>6. CASE ReadCounters(w)
      BY <2>1, <2>6, ReadCaps
    <2>7. CASE ReadToWipe(w)
      BY <2>1, <2>7, WipeCaps
    <2>8. CASE ClearCounters(w) \/ PutCounters(w)
      BY <2>1, <2>8, WriteCaps
    <2>9. CASE ActFails(w) \/ Done(w) \/ CheckChanges(w) \/ ReadConfig(w)
      <3>1. /\ pc[w] \in {"act", "done", "changes", "config"}
            /\ pc'[w] \in {"done", "idle", "config", "cclear"} /\ counters' = counters
            /\ acted' = acted /\ excess' = excess /\ time' = time
        BY <1>0, <2>9 DEF ActFails, Done, CheckChanges, ReadConfig, Types
      <3> QED
        BY <2>1, <3>1, CapRests DEF Busy, Due
    <2>10. CASE ClearConfig(w) \/ PutConfig(w)
      <3>1. /\ pc[w] \in {"cclear", "cput"}
            /\ pc'[w] \in {"cput", "count", "done"} /\ counters' = counters
            /\ acted' = acted /\ excess' = excess /\ time' = time
        BY <1>0, <2>10 DEF ClearConfig, PutConfig, Types
      <3> QED
        BY <2>1, <3>1, CapRests DEF Busy, Due
    <2>11. CASE ReadRecord(w) \/ WriteRecord(w) \/ RecordFails(w)
      <3>1. /\ pc[w] \in RecordSteps /\ counters' = counters /\ acted' = acted
            /\ excess' = excess /\ time' = time /\ pc'[w] \in {"record", "done", "act"}
            /\ pc'[w] = "act" => loc[w].op = "purge"
        BY <1>0, <2>11
           DEF ReadRecord, WriteRecord, RecordFails, Onward, Types, RecordSteps
      <3>2. loc'[w].kind = loc[w].kind
        BY <1>0, <2>11 DEF ReadRecord, WriteRecord, RecordFails, Types, Locals
      <3>3. pc'[w] = "act" => loc[w].kind = "purge"
        BY <3>1 DEF TypeInv, Jobs, JobAt, KindFits, CheckedKind
      <3>4. /\ ~Busy(w)' /\ Due(pc[w], loc[w])'
            /\ pc'[w] = "act" => loc'[w].kind \notin CountedKinds
        BY <3>1, <3>2, <3>3 DEF Busy, Due
      <3> QED
        BY <2>1, <3>1, <3>4, CapRests DEF RecordSteps
    <2>12. CASE Fails(w)
      <3>1. /\ pc[w] = "cput" /\ pc'[w] = "done" /\ counters' = counters
            /\ acted' = acted /\ excess' = excess /\ time' = time
        BY <1>0, <2>12 DEF Fails, Types
      <3> QED
        BY <2>1, <3>1, CapRests DEF Busy, Due
    <2> QED
      BY <1>1, <2>2, <2>3, <2>4, <2>5, <2>6, <2>7, <2>8, <2>9, <2>10, <2>11, <2>12 DEF Step
  <1>2. CASE Tick
    <2>1. Clean
      BY <1>2 DEF Tick
    <2> QED
      BY <1>0, <1>2, <2>1, TickCaps
  <1>3. CASE UNCHANGED vars
    <2>1. /\ pc' = pc /\ loc' = loc /\ counters' = counters /\ acted' = acted
          /\ excess' = excess /\ time' = time /\ Clean
      BY <1>3 DEF vars
    <2>2. \A x : KeyNow(x)' = KeyNow(x)
      BY <2>1 DEF KeyNow
    <2>3. excess' \subseteq {"purge"} /\ Alone' /\ NotYet'
      BY <2>1, <2>2 DEF CapInv, Alone, Busy, NotYet
    <2>4. \A v \in Workers, u \in Users, x \in CountedKinds : Owes(v, u, x)' <=> Owes(v, u, x)
      BY <2>1, <2>2 DEF Owes, Busy, Named
    <2>5. InFile'
      BY <2>1, <2>2, <2>4 DEF CapInv, InFile, Covers, CoversOne, NoOverflow
    <2>6. ASSUME NEW v \in Workers PROVE Due(pc[v], loc[v])' /\ Ready(v)' /\ InHand(v)'
      <3>1. Due(pc[v], loc[v])' /\ Ready(v)'
        BY <2>1, <2>2, <2>6 DEF CapInv, Due, Named, Ready, KeyNow
      <3>2. InHand(v)'
        BY <2>1, <2>2, <2>4, <2>6 DEF CapInv, InHand, Covers, CoversOne, NoOverflow
      <3> QED BY <3>1, <3>2
    <2> QED
      BY <2>3, <2>5, <2>6 DEF CapInv
  <1> QED BY <1>1, <1>2, <1>3 DEF Next

\* As long as no request reads a file that another is about to write and no increment is
\* lost in a failure, nobody gets through more than the limit in force at the check
\* allows in a period, with any number of requests at once and across midnight, provided
\* that the schedules stay as they are and nobody is counted under another name; only
\* purges of the trash have no effective limit (check_admin_daily_limit to
\* increment_admin_daily_limit under admin_daily_limit_lock).
THEOREM LimitsHold ==
    ASSUME SteadySchedules, EveryoneTracked
    PROVE  Spec => []CapKept
  <1> DEFINE IInv == TypeInv /\ SettleInv /\ Scheduled /\ CapInv
  <1>1. Init => IInv
    BY TypeInvInit, SettleInvInit, ScheduledInit, CapInvInit
  <1>2. IInv /\ [Next]_vars => IInv'
    BY TypeInvStep, SettleInvStep, ScheduledStep, CapInvStep
  <1>3. IInv => CapKept
    BY DEF CapInv, CapKept, Clean
  <1> QED
    BY <1>1, <1>2, <1>3, PTL DEF Spec

=============================================================================
