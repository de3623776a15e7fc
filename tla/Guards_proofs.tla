--------------------------- MODULE Guards_proofs ---------------------------
(***************************************************************************)
(* Proofs about Guards, for any users, workers and bounds: types, that a   *)
(* lockdown is lifted only by another user, that the flag of the cooldowns *)
(* is set for cause, and that the cooldown is kept when no two requests    *)
(* have used the record at once.                                           *)
(***************************************************************************)
EXTENDS Guards, TLAPS

Steps == {"idle", "done", "take", "state", "truncate", "write", "free",
          "get", "marker", "put", "mark", "submit"}
Data == [Users -> Never..MaxTime]
Requests == [op : Ops \cup {"none"}, user : Users \cup {NoOne}, again : BOOLEAN,
             at : 0..MaxTime, data : Data]

TypeInv ==
    /\ TypeOK
    /\ clock \in 0..MaxTime
    /\ script \in {"no", "delete", "restart"}
    /\ pc \in [Workers -> Steps]
    /\ loc \in [Workers -> Requests]
    /\ let \in Data
    /\ faults \in Nat
    /\ skipped \in BOOLEAN /\ lost \in BOOLEAN /\ keyless \in BOOLEAN
    /\ raced \in BOOLEAN

\* What a worker is at is a step of the request it has.
OwnTask ==
    \A w \in Workers :
        /\ pc[w] # "idle" => loc[w].user \in Users /\ loc[w].op \in Ops
        /\ pc[w] \in {"take", "state", "truncate", "write", "free"} =>
              loc[w].op \in {"activate", "deactivate"}
        /\ pc[w] \in {"get", "marker", "put", "mark", "submit"} =>
              loc[w].op \in {"purge", "change"}
        /\ pc[w] \in {"put", "mark", "submit"} => loc[w].again
        /\ pc[w] = "submit" => loc[w].op = "purge"
        /\ loc[w].at <= clock

----------------------------------------------------------------------------
(* Types.                                                                  *)

\* The constants are numbers, and a time of the clock is one that the record can hold
\* (PURGE_COOLDOWN_SECONDS).
LEMMA Numbers ==
    /\ Cooldown \in Nat /\ MaxTime \in Nat /\ MaxFaults \in Nat
    /\ Never \in Int /\ Never + Cooldown = 0
    /\ Never \in Never..MaxTime /\ 0..MaxTime \subseteq Never..MaxTime
BY GuardsAssumption, SMT DEF Never

\* No cooldowns at all are data, and an idle worker has no request.
LEMMA NoCooldownsTyped == NoCooldowns \in Data /\ Idle \in Requests
BY Numbers, SMT DEF NoCooldowns, Data, Idle, Requests

\* A purge is stamped with the time; other data are left as they are (_record_cooldown).
LEMMA StampTyped ==
    ASSUME NEW l \in Requests, NEW data \in Data, l.user \in Users, clock \in 0..MaxTime
    PROVE  /\ Stamp(l, data) \in Data
           /\ \A u \in Users : Stamp(l, data)[u] =
                 IF l.op = "purge" /\ u = l.user THEN clock ELSE data[u]
<1>1. clock \in Never..MaxTime
  BY Numbers, SMT
<1>2. CASE l.op = "purge"
  <2>1. Stamp(l, data) = [data EXCEPT ![l.user] = clock]
    BY <1>2 DEF Stamp
  <2>2. QED
    BY <1>1, <1>2, <2>1 DEF Data
<1>3. CASE l.op # "purge"
  BY <1>3 DEF Stamp
<1>4. QED
  BY <1>2, <1>3

\* A check leaves the request typed, and sends it to one of three steps (_check_cooldown).
LEMMA CheckTyped ==
    ASSUME NEW w \in Workers, NEW from \in {"get", "marker"}, NEW data \in Data,
           TypeInv, OwnTask, Check(w, from, data)
    PROVE  /\ pc[w] = from
           /\ pc' \in [Workers -> Steps] /\ loc' \in [Workers -> Requests]
           /\ \A v \in Workers \ {w} : pc'[v] = pc[v] /\ loc'[v] = loc[v]
           /\ loc'[w].op = loc[w].op /\ loc'[w].user = loc[w].user /\ loc'[w].again
           /\ \/ /\ loc[w].again
                 /\ pc'[w] = "put"
                 /\ loc'[w].at = loc[w].at
                 /\ loc'[w].data = Stamp(loc[w], data)
              \/ /\ ~loc[w].again
                 /\ pc'[w] \in {"get", "done"}
                 /\ loc'[w].at = clock
                 /\ loc'[w].data = loc[w].data
                 /\ pc'[w] = "get" /\ loc[w].op = "purge" =>
                       clock - data[loc[w].user] >= Cooldown
<1>1. CASE loc[w].again
  <2>1. /\ pc[w] = from
        /\ pc' = [pc EXCEPT ![w] = "put"]
        /\ loc' = [loc EXCEPT ![w].data = Stamp(loc[w], data)]
    BY <1>1 DEF Check, Goto
  <2>2. loc[w].user \in Users
    BY <2>1 DEF OwnTask
  <2>3. Stamp(loc[w], data) \in Data
    BY <2>2, StampTyped DEF TypeInv
  <2>4. loc'[w] = [loc[w] EXCEPT !.data = Stamp(loc[w], data)]
    BY <2>1 DEF TypeInv
  <2>5. loc'[w] \in Requests
    BY <2>3, <2>4 DEF TypeInv, Requests
  <2>6. pc' \in [Workers -> Steps] /\ loc' \in [Workers -> Requests]
    BY <2>1, <2>4, <2>5 DEF TypeInv, Steps
  <2>7. QED
    BY <1>1, <2>1, <2>4, <2>6 DEF TypeInv, Requests
<1>2. CASE ~loc[w].again
  <2> DEFINE blocked == loc[w].op = "purge" /\ clock - data[loc[w].user] < Cooldown
  <2>1. /\ pc[w] = from
        /\ pc' = [pc EXCEPT ![w] = IF blocked THEN "done" ELSE "get"]
        /\ loc' = [loc EXCEPT ![w].again = TRUE, ![w].at = clock]
    BY <1>2 DEF Check, Goto
  <2>2. loc[w].user \in Users
    BY <2>1 DEF OwnTask
  <2>3. loc[w].op = "purge" /\ ~blocked => clock - data[loc[w].user] >= Cooldown
    BY <2>2, Numbers, SMT DEF TypeInv, Data
  <2>4. loc'[w] = [loc[w] EXCEPT !.again = TRUE, !.at = clock]
    BY <2>1 DEF TypeInv
  <2>5. loc'[w] \in Requests
    BY <2>4 DEF TypeInv, Requests
  <2> HIDE DEF blocked
  <2>6. pc' \in [Workers -> Steps] /\ loc' \in [Workers -> Requests]
    BY <2>1, <2>4, <2>5 DEF TypeInv, Steps
  <2>7. pc'[w] \in {"get", "done"} /\ (pc'[w] = "get" => ~blocked)
    BY <2>1 DEF TypeInv
  <2>8. QED
    BY <1>2, <2>1, <2>3, <2>4, <2>6, <2>7 DEF TypeInv, Requests
<1>3. QED
  BY <1>1, <1>2

\* Every step keeps the types, and every worker at a step of the request it has.
LEMMA TypeStep == TypeInv /\ OwnTask /\ [Next]_vars => TypeInv' /\ OwnTask'
<1> SUFFICES ASSUME TypeInv, OwnTask, [Next]_vars PROVE TypeInv' /\ OwnTask'
  OBVIOUS
<1> USE DEF gate, cooldowns, bounds, history
<1>1. ASSUME NEW w \in Workers, Begin(w) PROVE TypeInv' /\ OwnTask'
  <2>u. PICK u \in Users : \E op \in Does[u] :
           /\ op \in {"activate", "deactivate"} \/ ~LockedDown
           /\ asked' = asked + 1
           /\ Goto(w, "idle", IF op \in {"activate", "deactivate"} THEN "take" ELSE "get")
           /\ loc' = [loc EXCEPT ![w] = [Idle EXCEPT !.op = op, !.user = u]]
           /\ UNCHANGED <<gate, cooldowns, clock, script, losses, faults, history, raced>>
    BY <1>1 DEF Begin
  <2>1. PICK op \in Does[u] :
           /\ asked' = asked + 1
           /\ Goto(w, "idle", IF op \in {"activate", "deactivate"} THEN "take" ELSE "get")
           /\ loc' = [loc EXCEPT ![w] = [Idle EXCEPT !.op = op, !.user = u]]
           /\ UNCHANGED <<gate, cooldowns, clock, script, losses, faults, history, raced>>
    BY <2>u
  <2>2. op \in Ops
    BY GuardsAssumption
  <2>3. [Idle EXCEPT !.op = op, !.user = u] \in Requests
    BY <2>2, NoCooldownsTyped DEF Requests, Idle
  <2>4. [Idle EXCEPT !.op = op, !.user = u].op = op
        /\ [Idle EXCEPT !.op = op, !.user = u].user = u
        /\ [Idle EXCEPT !.op = op, !.user = u].at = 0
    BY DEF Idle
  <2> HIDE DEF Ops
  <2>5. TypeInv'
    BY <2>1, <2>3 DEF TypeInv, TypeOK, Goto, Steps
  <2>6. OwnTask'
    BY <2>1, <2>2, <2>4, SMT DEF TypeInv, OwnTask, Goto, Ops
  <2>7. QED
    BY <2>5, <2>6
<1>2. ASSUME NEW w \in Workers, Done(w) PROVE TypeInv' /\ OwnTask'
  BY <1>2, NoCooldownsTyped, SMT DEF Done, TypeInv, TypeOK, OwnTask, Goto, Steps, Idle
<1>3. ASSUME NEW w \in Workers, Take(w) PROVE TypeInv' /\ OwnTask'
  BY <1>3, SMT DEF Take, TypeInv, TypeOK, OwnTask, Goto, Steps, Idle
<1>4. ASSUME NEW w \in Workers, TakeTimeout(w) PROVE TypeInv' /\ OwnTask'
  BY <1>4, SMT DEF TakeTimeout, TypeInv, TypeOK, OwnTask, Goto, Steps, Idle
<1>5. ASSUME NEW w \in Workers, ReadState(w) PROVE TypeInv' /\ OwnTask'
  BY <1>5, SMT DEF ReadState, TypeInv, TypeOK, OwnTask, Goto, Steps, Idle, LockedDown
<1>6. ASSUME NEW w \in Workers, TruncateState(w) PROVE TypeInv' /\ OwnTask'
  BY <1>6, SMT DEF TruncateState, TypeInv, TypeOK, OwnTask, Goto, Steps, Idle
<1>7. ASSUME NEW w \in Workers, WriteState(w) PROVE TypeInv' /\ OwnTask'
  BY <1>7, SMT DEF WriteState, TypeInv, TypeOK, OwnTask, Goto, Steps, Idle
<1>8. ASSUME NEW w \in Workers, Free(w) PROVE TypeInv' /\ OwnTask'
  BY <1>8, SMT DEF Free, TypeInv, TypeOK, OwnTask, Goto, Steps, Idle
<1>9. ASSUME NEW w \in Workers, PutRecord(w) PROVE TypeInv' /\ OwnTask'
  BY <1>9, SMT DEF PutRecord, TypeInv, TypeOK, OwnTask, Goto, Steps, Requests, Data
<1>10. ASSUME NEW w \in Workers, Mark(w) PROVE TypeInv' /\ OwnTask'
  BY <1>10, SMT DEF Mark, TypeInv, TypeOK, OwnTask, Goto, Steps, Idle, After
<1>11. ASSUME NEW w \in Workers, Outage(w) PROVE TypeInv' /\ OwnTask'
  BY <1>11, SMT DEF Outage, TypeInv, TypeOK, OwnTask, Goto, Steps, Idle, Unread, After, Fault
<1>24. ASSUME NEW w \in Workers, KeyOutage(w) PROVE TypeInv' /\ OwnTask'
  BY <1>24, SMT
  DEF KeyOutage, TypeInv, TypeOK, OwnTask, Goto, Steps, Idle, Unread, After, Fault
<1>12. ASSUME NEW w \in Workers, MarkFails(w) PROVE TypeInv' /\ OwnTask'
  BY <1>12, SMT DEF MarkFails, TypeInv, TypeOK, OwnTask, Goto, Steps, Idle, After, Fault
<1>13. ASSUME NEW w \in Workers, GetRecord(w) PROVE TypeInv' /\ OwnTask'
  <2>1. CASE flag \/ record = Altered
    <3>1. /\ Goto(w, "get", Unread(loc[w])) /\ flag' = TRUE
          /\ UNCHANGED <<gate, record, marker, clock, script, bounds, history, loc>>
          /\ raced' \in BOOLEAN
      BY <1>13, <2>1 DEF GetRecord, TypeInv
    <3>2. QED
      BY <3>1, SMT DEF TypeInv, TypeOK, OwnTask, Goto, Steps, Unread
  <2>2. CASE ~(flag \/ record = Altered) /\ record = Missing
    BY <1>13, <2>2, SMT DEF GetRecord, TypeInv, TypeOK, OwnTask, Goto, Steps
  <2>3. CASE ~(flag \/ record = Altered) /\ record # Missing
    <3>1. record \in Data
      BY <2>3 DEF TypeInv, TypeOK, Data
    <3>2. Check(w, "get", record)
      BY <1>13, <2>3 DEF GetRecord
    <3>3. QED
      BY <1>13, <2>3, <3>1, <3>2, CheckTyped, SMT DEF GetRecord, TypeInv, TypeOK, OwnTask
  <2>4. QED
    BY <2>1, <2>2, <2>3
<1>14. ASSUME NEW w \in Workers, LookForMarker(w) PROVE TypeInv' /\ OwnTask'
  <2>1. CASE marker
    BY <1>14, <2>1, SMT
    DEF LookForMarker, TypeInv, TypeOK, OwnTask, Goto, Steps, Unread
  <2>2. CASE ~marker
    <3>1. Check(w, "marker", NoCooldowns)
      BY <1>14, <2>2 DEF LookForMarker
    <3>2. QED
      BY <1>14, <2>2, <3>1, CheckTyped, NoCooldownsTyped, SMT
      DEF LookForMarker, TypeInv, TypeOK, OwnTask
  <2>3. QED
    BY <2>1, <2>2
<1>15. ASSUME NEW w \in Workers, Submit(w) PROVE TypeInv' /\ OwnTask'
  <2>1. loc[w].user \in Users /\ loc[w].at \in Never..MaxTime
    BY <1>15, Numbers DEF Submit, Goto, OwnTask, TypeInv, Requests
  <2>2. let' \in Data /\ skipped' \in BOOLEAN
    BY <1>15, <2>1 DEF Submit, TypeInv, Data
  <2>3. QED
    BY <1>15, <2>2, SMT DEF Submit, TypeInv, TypeOK, OwnTask, Goto, Steps
<1>16. ASSUME NEW w \in Workers, Crash(w) PROVE TypeInv' /\ OwnTask'
  BY <1>16, NoCooldownsTyped, SMT
  DEF Crash, Fault, Stopped, TypeInv, TypeOK, OwnTask, Steps, Idle
<1>17. CASE Tick
  <2>1. \A w \in Workers : loc[w].at \in Int /\ clock \in Int
    BY Numbers DEF TypeInv, Requests
  <2>2. OwnTask'
    BY <1>17, <2>1, SMT DEF Tick, OwnTask
  <2>3. TypeInv'
    BY <1>17, Numbers, SMT DEF Tick, TypeInv, TypeOK
  <2>4. QED
    BY <2>2, <2>3
<1>18. CASE Lose
  <2>1. OwnTask'
    BY <1>18 DEF Lose, OwnTask
  <2>2. TypeInv'
    BY <1>18, SMT DEF Lose, TypeInv, TypeOK
  <2>3. QED
    BY <2>1, <2>2
<1>19. CASE ClearFlag
  <2>1. OwnTask'
    BY <1>19 DEF ClearFlag, OwnTask
  <2>2. TypeInv'
    BY <1>19 DEF ClearFlag, TypeInv, TypeOK
  <2>3. QED
    BY <2>1, <2>2
<1>20. CASE DeleteRecord
  <2>1. OwnTask'
    BY <1>20 DEF DeleteRecord, OwnTask
  <2>2. TypeInv'
    BY <1>20 DEF DeleteRecord, TypeInv, TypeOK
  <2>3. QED
    BY <2>1, <2>2
<1>25. CASE DeleteFails
  BY <1>25, SMT DEF DeleteFails, Fault, TypeInv, TypeOK, OwnTask
<1>21. CASE Restart
  BY <1>21, NoCooldownsTyped, SMT
  DEF Restart, Stopped, TypeInv, TypeOK, OwnTask, Steps, Idle
<1>22. CASE UNCHANGED vars
  BY <1>22 DEF vars, TypeInv, TypeOK, OwnTask
<1>23. QED
  BY <1>1, <1>2, <1>3, <1>4, <1>5, <1>6, <1>7, <1>8, <1>9, <1>10, <1>11, <1>12, <1>13,
     <1>14, <1>15, <1>16, <1>17, <1>18, <1>19, <1>20, <1>21, <1>22, <1>24, <1>25
  DEF Next, Step

\* Types (_read_lockdown_state, _read_cooldowns and what writes them).
LEMMA Typed == Spec => [](TypeInv /\ OwnTask)
<1>1. Init => TypeInv /\ OwnTask
  <2> SUFFICES ASSUME Init PROVE TypeInv /\ OwnTask
    OBVIOUS
  <2>1. TypeInv
    <3>1. TypeOK
      BY DEF Init, TypeOK
    <3>0. clock \in 0..MaxTime
      BY Numbers DEF Init
    <3>2. pc \in [Workers -> Steps] /\ loc \in [Workers -> Requests]
      BY NoCooldownsTyped DEF Init, Steps
    <3>3. QED
      BY <3>0, <3>1, <3>2, NoCooldownsTyped DEF Init, TypeInv
  <2>2. OwnTask
    BY NoCooldownsTyped, Numbers, SMT DEF Init, OwnTask, Idle
  <2>3. QED
    BY <2>1, <2>2
<1>2. QED
  BY <1>1, TypeStep, PTL DEF Spec

\* The lockdown is somebody's, nobody's or torn; the record holds a time for each user
\* (_write_lockdown_state, _write_cooldowns).
THEOREM TypeCorrect == Spec => []TypeOK
BY Typed, PTL DEF TypeInv

----------------------------------------------------------------------------
(* The lockdown.                                                           *)

Locking == {"state", "truncate", "write", "free"}

\* Its lock is held by the worker that is between taking and freeing it; what it has
\* read to decide is still so when it truncates the file, and until it has written
\* nobody reads a lockdown (_lockdown_rmw_lock).
LockInv ==
    \A w \in Workers :
        /\ pc[w] \in Locking <=> holder = w
        /\ pc[w] = "truncate" =>
              IF loc[w].op = "activate" THEN ~LockedDown
              ELSE LockedDown /\ lockdown # loc[w].user
        /\ pc[w] = "write" => ~LockedDown

\* Every step keeps it; nobody but the holder of the lock changes the file.
LEMMA LockStep == TypeInv /\ LockInv /\ [Next]_vars => LockInv'
<1> SUFFICES ASSUME TypeInv, LockInv, [Next]_vars PROVE LockInv'
  OBVIOUS
<1> USE DEF gate
<1>a. ASSUME NEW w \in Workers, UNCHANGED gate,
             pc[w] \notin Locking, pc' \in [Workers -> Steps], pc'[w] \notin Locking,
             \A v \in Workers \ {w} : pc'[v] = pc[v] /\ loc'[v] = loc[v]
      PROVE  LockInv'
  BY <1>a DEF LockInv, LockedDown, Locking
<1>b. ASSUME UNCHANGED <<gate, pc, loc>> PROVE LockInv'
  BY <1>b DEF LockInv, LockedDown
<1>c. ASSUME NEW stop \in SUBSET Workers, UNCHANGED lockdown, Stopped(stop) PROVE LockInv'
  <2> SUFFICES ASSUME NEW w \in Workers
               PROVE  /\ pc'[w] \in Locking <=> holder' = w
                      /\ pc'[w] = "truncate" =>
                            IF loc'[w].op = "activate" THEN ~LockedDown'
                            ELSE LockedDown' /\ lockdown' # loc'[w].user
                      /\ pc'[w] = "write" => ~LockedDown'
    BY DEF LockInv
  <2>1. w # NoOne
    BY GuardsAssumption
  <2>2. LockedDown' = LockedDown
    BY <1>c DEF LockedDown
  <2>3. CASE w \in stop
    BY <1>c, <2>1, <2>3 DEF Stopped, LockInv, Locking
  <2>4. CASE w \notin stop
    BY <1>c, <2>1, <2>2, <2>4 DEF Stopped, LockInv, Locking
  <2>5. QED
    BY <2>3, <2>4
<1>1. ASSUME NEW w \in Workers, Begin(w) PROVE LockInv'
  <2>1. UNCHANGED gate /\ \E t \in {"take", "get"} : Goto(w, "idle", t)
    BY <1>1 DEF Begin
  <2>2. \A v \in Workers \ {w} : loc'[v] = loc[v]
    BY <1>1 DEF Begin, TypeInv
  <2>3. QED
    BY <1>a, <2>1, <2>2 DEF Goto, TypeInv, Steps, Locking
<1>2. ASSUME NEW w \in Workers, Done(w) PROVE LockInv'
  BY <1>a, <1>2 DEF Done, Goto, TypeInv, Steps, Locking
<1>3. ASSUME NEW w \in Workers, Take(w) PROVE LockInv'
  BY <1>3, GuardsAssumption DEF Take, Goto, TypeInv, LockInv, LockedDown, Locking
<1>4. ASSUME NEW w \in Workers, TakeTimeout(w) PROVE LockInv'
  BY <1>a, <1>4 DEF TakeTimeout, Goto, TypeInv, Steps, Locking
<1>5. ASSUME NEW w \in Workers, ReadState(w) PROVE LockInv'
  BY <1>5 DEF ReadState, Goto, TypeInv, LockInv, LockedDown, Locking
<1>6. ASSUME NEW w \in Workers, TruncateState(w) PROVE LockInv'
  BY <1>6, GuardsAssumption DEF TruncateState, Goto, TypeInv, LockInv, LockedDown, Locking
<1>7. ASSUME NEW w \in Workers, WriteState(w) PROVE LockInv'
  BY <1>7 DEF WriteState, Goto, TypeInv, LockInv, LockedDown, Locking
<1>8. ASSUME NEW w \in Workers, Free(w) PROVE LockInv'
  BY <1>8, GuardsAssumption DEF Free, Goto, TypeInv, LockInv, LockedDown, Locking
<1>9. ASSUME NEW w \in Workers, GetRecord(w) PROVE LockInv'
  <2>1. UNCHANGED gate /\ pc[w] = "get"
    BY <1>9 DEF GetRecord, Goto, Check
  <2>2. \E t \in Steps \ Locking : pc' = [pc EXCEPT ![w] = t]
    BY <1>9 DEF GetRecord, Goto, Check, Unread, Steps, Locking
  <2>3. \A v \in Workers \ {w} : loc'[v] = loc[v]
    BY <1>9 DEF GetRecord, Goto, Check, TypeInv
  <2>4. QED
    BY <1>a, <2>1, <2>2, <2>3 DEF TypeInv, Locking
<1>10. ASSUME NEW w \in Workers, LookForMarker(w) PROVE LockInv'
  <2>1. UNCHANGED gate /\ pc[w] = "marker"
    BY <1>10 DEF LookForMarker, Goto, Check
  <2>2. \E t \in Steps \ Locking : pc' = [pc EXCEPT ![w] = t]
    BY <1>10 DEF LookForMarker, Goto, Check, Unread, Steps, Locking
  <2>3. \A v \in Workers \ {w} : loc'[v] = loc[v]
    BY <1>10 DEF LookForMarker, Goto, Check, TypeInv
  <2>4. QED
    BY <1>a, <2>1, <2>2, <2>3 DEF TypeInv, Locking
<1>11. ASSUME NEW w \in Workers, PutRecord(w) PROVE LockInv'
  BY <1>a, <1>11 DEF PutRecord, Goto, TypeInv, Steps, Locking
<1>12. ASSUME NEW w \in Workers, Mark(w) PROVE LockInv'
  BY <1>a, <1>12 DEF Mark, After, Goto, TypeInv, Steps, Locking
<1>13. ASSUME NEW w \in Workers, Submit(w) PROVE LockInv'
  BY <1>a, <1>13 DEF Submit, Goto, TypeInv, Steps, Locking
<1>14. ASSUME NEW w \in Workers, Outage(w) PROVE LockInv'
  BY <1>a, <1>14 DEF Outage, Unread, After, Goto, TypeInv, Steps, Locking
<1>20. ASSUME NEW w \in Workers, KeyOutage(w) PROVE LockInv'
  BY <1>a, <1>20 DEF KeyOutage, Unread, After, Goto, TypeInv, Steps, Locking
<1>15. ASSUME NEW w \in Workers, MarkFails(w) PROVE LockInv'
  BY <1>a, <1>15 DEF MarkFails, After, Goto, TypeInv, Steps, Locking
<1>16. ASSUME NEW w \in Workers, Crash(w) PROVE LockInv'
  BY <1>c, <1>16 DEF Crash
<1>17. CASE Tick \/ Lose \/ ClearFlag \/ DeleteRecord \/ DeleteFails \/ UNCHANGED vars
  BY <1>b, <1>17 DEF Tick, Lose, ClearFlag, DeleteRecord, DeleteFails, vars
<1>18. CASE Restart
  BY <1>c, <1>18 DEF Restart
<1>19. QED
  BY <1>1, <1>2, <1>3, <1>4, <1>5, <1>6, <1>7, <1>8, <1>9, <1>10, <1>11, <1>12, <1>13,
     <1>14, <1>15, <1>16, <1>17, <1>18, <1>20
  DEF Next, Step

\* The lockdown is only ever changed under its lock, on a decision that still holds.
LEMMA LockHeld == Spec => []LockInv
<1>1. Init => LockInv
  BY GuardsAssumption DEF Init, LockInv, Locking
<1>2. QED
  BY <1>1, LockStep, Typed, PTL DEF Spec

\* A lockdown in force ends only when another user than the one who activated it lifts
\* it, whatever requests cross and whoever dies half way (_action_deactivate_lockdown).
THEOREM LockdownLifted == Spec => LiftedByAnother
<1> DEFINE Lifted(w) == /\ pc[w] = "truncate" /\ loc[w].op = "deactivate"
                        /\ loc[w].user # lockdown
<1>1. TypeInv /\ OwnTask /\ LockInv /\ [Next]_vars =>
         [LockedDown /\ lockdown' # lockdown => \E w \in Workers : Lifted(w)]_vars
  <2> SUFFICES ASSUME TypeInv, OwnTask, LockInv, Next, LockedDown, lockdown' # lockdown
               PROVE  \E w \in Workers : Lifted(w)
    OBVIOUS
  <2>1. PICK w \in Workers : TruncateState(w) \/ WriteState(w)
    BY DEF Next, Step, Begin, Done, Take, TakeTimeout, ReadState, Free, GetRecord,
           LookForMarker, PutRecord, Mark, Submit, Outage, KeyOutage, MarkFails, Crash,
           Tick, Lose, ClearFlag, DeleteRecord, DeleteFails, Restart, gate
  <2>2. pc[w] # "write"
    BY DEF LockInv
  <2>3. pc[w] = "truncate"
    BY <2>1, <2>2 DEF TruncateState, WriteState, Goto
  <2>4. loc[w].op = "deactivate" /\ lockdown # loc[w].user
    BY <2>3 DEF LockInv, OwnTask
  <2>5. QED
    BY <2>3, <2>4
<1>2. QED
  BY <1>1, Typed, LockHeld, PTL DEF Spec, LiftedByAnother

----------------------------------------------------------------------------
(* The flag.                                                               *)

\* One request at a time uses the record.
Alone == \A v, w \in Workers : Using(v) /\ Using(w) => v = w

\* Whatever sets the flag has been noted.
LossNoted ==
    /\ flag => lost \/ keyless
    /\ record = Altered \/ (record = Missing /\ marker) => lost
    /\ keyless => faults # 0

\* A request that uses the record has seen no flag, and the script is not running; once
\* it is, flag and marker stay away, and then the record, unless something has failed.
Quiet ==
    /\ \A w \in Workers : Using(w) => (~flag \/ keyless) /\ script = "no"
    /\ script # "no" => ~marker /\ (~flag \/ keyless)
    /\ script = "restart" => record = Missing \/ faults # 0

\* What a request has seen, or written, is still there.
Stages ==
    \A w \in Workers : /\ pc[w] = "marker" => record = Missing
                       /\ pc[w] = "mark" => record # Missing \/ lost

FlagInv == ~raced => Alone /\ LossNoted /\ Quiet /\ Stages

\* Every step keeps it.
LEMMA FlagStep == TypeInv /\ OwnTask /\ FlagInv /\ [Next]_vars => FlagInv'
<1> SUFFICES ASSUME TypeInv, OwnTask, FlagInv, [Next]_vars, ~raced'
             PROVE  Alone' /\ LossNoted' /\ Quiet' /\ Stages'
  BY DEF FlagInv
<1> DEFINE Body == Alone' /\ LossNoted' /\ Quiet' /\ Stages'
<1> USE DEF cooldowns, history, bounds
<1>a. ASSUME NEW w \in Workers, UNCHANGED <<cooldowns, script, lost, keyless, raced>>,
             faults' \in {faults, faults + 1}, \A v \in Workers \ {w} : pc'[v] = pc[v] /\ loc'[v] = loc[v],
             Using(w)' => Using(w), pc'[w] \notin {"marker", "mark"}
      PROVE  Body
  <2>1. \A v \in Workers : Using(v)' => Using(v)
    BY <1>a DEF Using
  <2>0. faults # 0 => faults' # 0
    BY <1>a DEF TypeInv
  <2>2. Alone' /\ LossNoted' /\ Quiet'
    BY <1>a, <2>0, <2>1 DEF FlagInv, Alone, LossNoted, Quiet
  <2>3. Stages'
    BY <1>a DEF FlagInv, Stages
  <2>4. QED
    BY <2>2, <2>3
<1>b. ASSUME NEW w \in Workers, NEW from \in Steps, NEW t \in Steps, Goto(w, from, t),
             UNCHANGED <<cooldowns, script, lost, keyless, raced, loc>>,
             faults' \in {faults, faults + 1}, t \notin {"get", "marker", "put", "mark"}
      PROVE  Body
  BY <1>a, <1>b DEF Goto, Using, TypeInv
<1>1. ASSUME NEW w \in Workers, Begin(w) PROVE Body
  <2>1. UNCHANGED <<cooldowns, script, lost, keyless, raced, faults>>
    BY <1>1 DEF Begin
  <2>2. \A v \in Workers \ {w} : pc'[v] = pc[v] /\ loc'[v] = loc[v]
    BY <1>1 DEF Begin, Goto, TypeInv
  <2>3. pc'[w] \in {"take", "get"} /\ ~loc'[w].again
    BY <1>1 DEF Begin, Goto, TypeInv, Idle
  <2>4. QED
    BY <1>a, <2>1, <2>2, <2>3 DEF Using
<1>2. ASSUME NEW w \in Workers, Done(w) PROVE Body
  BY <1>a, <1>2 DEF Done, Goto, TypeInv, Using
<1>3. ASSUME NEW w \in Workers, Take(w) \/ TakeTimeout(w) \/ ReadState(w) PROVE Body
  BY <1>b, <1>3 DEF Take, TakeTimeout, ReadState, Steps
<1>4. ASSUME NEW w \in Workers, TruncateState(w) \/ WriteState(w) \/ Free(w) PROVE Body
  BY <1>b, <1>4 DEF TruncateState, WriteState, Free, Steps
<1>5. ASSUME NEW w \in Workers, Submit(w) PROVE Body
  BY <1>b, <1>5 DEF Submit, Steps
<1>6. ASSUME NEW w \in Workers, Outage(w) \/ MarkFails(w) PROVE Body
  BY <1>b, <1>6 DEF Outage, MarkFails, Fault, Unread, After, Steps
<1>19. ASSUME NEW w \in Workers, KeyOutage(w) PROVE Body
  <2>1. /\ UNCHANGED <<record, marker, script, lost, raced, loc>>
        /\ flag' /\ keyless' /\ faults' = faults + 1
        /\ pc'[w] \in {"submit", "done"} /\ \A v \in Workers \ {w} : pc'[v] = pc[v]
    BY <1>19 DEF KeyOutage, Fault, Goto, Unread, After, TypeInv
  <2>2. faults' # 0
    BY <2>1 DEF TypeInv
  <2>3. ~Using(w)' /\ \A v \in Workers \ {w} : Using(v)' <=> Using(v)
    BY <2>1 DEF Using
  <2>4. ~raced
    BY <2>1
  <2>5. \A v \in Workers : Using(v)' => v # w /\ Using(v)
    BY <2>3
  <2>6. Alone' /\ Stages'
    BY <2>1, <2>4, <2>5 DEF FlagInv, Alone, Stages
  <2>7. LossNoted' /\ Quiet'
    BY <2>1, <2>2, <2>4, <2>5 DEF FlagInv, LossNoted, Quiet
  <2>8. QED
    BY <2>6, <2>7
<1>7. ASSUME NEW w \in Workers, GetRecord(w) PROVE Body
  <2>1. script = "no" /\ (\A v \in Workers \ {w} : ~Using(v)) /\ ~raced
    BY <1>7 DEF GetRecord, Meets
  <2>2. UNCHANGED <<record, marker, script, lost, keyless, faults>> /\ pc[w] = "get"
    BY <1>7 DEF GetRecord, Goto, Check
  <2>3. \A v \in Workers \ {w} : pc'[v] = pc[v] /\ loc'[v] = loc[v]
    BY <1>7 DEF GetRecord, Goto, Check, TypeInv
  <2>4. \A v \in Workers \ {w} : ~Using(v)'
    BY <2>1, <2>3 DEF Using
  <2>5. CASE flag \/ record = Altered
    <3>1. flag' /\ pc'[w] \in {"submit", "done"}
      BY <1>7, <2>5 DEF GetRecord, Goto, Unread, TypeInv
    <3>2. lost \/ keyless
      BY <2>1, <2>5 DEF FlagInv, LossNoted
    <3>3. ~Using(w)'
      BY <3>1 DEF Using
    <3>4. QED
      BY <2>1, <2>2, <2>3, <2>4, <3>1, <3>2, <3>3
      DEF Alone, LossNoted, Quiet, FlagInv, Stages
  <2>6. CASE ~(flag \/ record = Altered)
    <3>1. ~flag' /\ pc'[w] \in {"marker", "put", "get", "done"}
      BY <1>7, <2>6 DEF GetRecord, Goto, Check, TypeInv
    <3>2. pc'[w] = "marker" => record = Missing
      BY <1>7, <2>6 DEF GetRecord, Goto, Check, TypeInv
    <3>3. QED
      BY <2>1, <2>2, <2>3, <2>4, <2>6, <3>1, <3>2
      DEF Alone, LossNoted, Quiet, FlagInv, Stages
  <2>7. QED
    BY <2>5, <2>6
<1>8. ASSUME NEW w \in Workers, LookForMarker(w) PROVE Body
  <2>1. Using(w) /\ ~raced
    BY <1>8 DEF LookForMarker, Goto, Check, Using
  <2>2. /\ script = "no" /\ record = Missing /\ (~flag \/ keyless)
        /\ \A v \in Workers \ {w} : ~Using(v)
    BY <1>8, <2>1 DEF LookForMarker, Goto, Check, FlagInv, Quiet, Stages, Alone
  <2>3. UNCHANGED <<record, marker, script, lost, keyless, faults>>
    BY <1>8 DEF LookForMarker
  <2>4. \A v \in Workers \ {w} : pc'[v] = pc[v] /\ loc'[v] = loc[v]
    BY <1>8 DEF LookForMarker, Goto, Check, TypeInv
  <2>5. \A v \in Workers \ {w} : ~Using(v)'
    BY <2>2, <2>4 DEF Using
  <2>6. CASE marker
    <3>1. flag' /\ pc'[w] \in {"submit", "done"}
      BY <1>8, <2>6 DEF LookForMarker, Goto, Unread, TypeInv
    <3>2. lost
      BY <2>1, <2>2, <2>6 DEF FlagInv, LossNoted
    <3>3. ~Using(w)'
      BY <3>1 DEF Using
    <3>4. QED
      BY <2>1, <2>2, <2>3, <2>4, <2>5, <3>1, <3>2, <3>3
      DEF Alone, LossNoted, Quiet, FlagInv, Stages
  <2>7. CASE ~marker
    <3>1. (~flag' \/ keyless) /\ flag' = flag /\ pc'[w] \in {"put", "get", "done"}
      BY <1>8, <2>2, <2>7 DEF LookForMarker, Goto, Check, TypeInv
    <3>2. QED
      BY <2>1, <2>2, <2>3, <2>4, <2>5, <3>1
      DEF Alone, LossNoted, Quiet, FlagInv, Stages
  <2>8. QED
    BY <2>6, <2>7
<1>9. ASSUME NEW w \in Workers, PutRecord(w) PROVE Body
  <2>1. Using(w) /\ ~raced
    BY <1>9 DEF PutRecord, Goto, Using
  <2>2. script = "no" /\ (~flag \/ keyless) /\ (\A v \in Workers \ {w} : ~Using(v))
    BY <2>1 DEF FlagInv, Quiet, Alone
  <2>3. record' # Missing /\ record' # Altered
    BY <1>9, GuardsAssumption, Numbers DEF PutRecord, TypeInv, Requests, Data
  <2>4. /\ UNCHANGED <<marker, flag, script, lost, keyless, faults, loc>>
        /\ pc' = [pc EXCEPT ![w] = "mark"]
    BY <1>9 DEF PutRecord, Goto
  <2>5. \A v \in Workers \ {w} : pc'[v] = pc[v] /\ ~Using(v)'
    BY <2>2, <2>4 DEF Using, TypeInv
  <2>6. \A v \in Workers \ {w} : pc[v] # "marker" /\ pc[v] # "mark"
    BY <2>2 DEF Using
  <2>7. pc'[w] = "mark"
    BY <2>4 DEF TypeInv
  <2>8. QED
    BY <2>1, <2>2, <2>3, <2>4, <2>5, <2>6, <2>7
    DEF Alone, LossNoted, Quiet, FlagInv, Stages
<1>10. ASSUME NEW w \in Workers, Mark(w) PROVE Body
  <2>1. Using(w) /\ ~raced
    BY <1>10 DEF Mark, Goto, Using
  <2>2. /\ script = "no" /\ (~flag \/ keyless) /\ (record # Missing \/ lost)
        /\ \A v \in Workers \ {w} : ~Using(v)
    BY <1>10, <2>1 DEF Mark, Goto, FlagInv, Quiet, Alone, Stages
  <2>3. /\ UNCHANGED <<record, flag, script, lost, keyless, faults, loc>>
        /\ pc'[w] \in {"submit", "done"}
        /\ \A v \in Workers \ {w} : pc'[v] = pc[v]
    BY <1>10 DEF Mark, Goto, After, TypeInv
  <2>4. \A v \in Workers : ~Using(v)'
    BY <2>2, <2>3 DEF Using
  <2>5. QED
    BY <2>1, <2>2, <2>3, <2>4 DEF Alone, LossNoted, Quiet, FlagInv, Stages
<1>11. ASSUME NEW w \in Workers, Crash(w) PROVE Body
  BY <1>a, <1>11 DEF Crash, Fault, Stopped, Using
<1>12. CASE Tick
  BY <1>12 DEF Tick, FlagInv, Alone, LossNoted, Quiet, Stages, Using
<1>13. CASE Lose
  BY <1>13 DEF Lose, FlagInv, Alone, LossNoted, Quiet, Stages, Using
<1>14. CASE ClearFlag
  <2>1. ~raced /\ \A w \in Workers : ~Using(w)
    BY <1>14 DEF ClearFlag, Using
  <2>2. \A w \in Workers : ~Using(w)' /\ pc'[w] \notin {"marker", "mark"}
    BY <1>14, <2>1 DEF ClearFlag, Using
  <2>3. QED
    BY <1>14, <2>1, <2>2 DEF ClearFlag, FlagInv, Alone, LossNoted, Quiet, Stages
<1>15. CASE DeleteRecord
  <2>1. ~raced /\ \A w \in Workers : ~Using(w)
    BY <1>15 DEF DeleteRecord, FlagInv, Quiet
  <2>2. \A w \in Workers : ~Using(w)' /\ pc'[w] \notin {"marker", "mark"}
    BY <1>15, <2>1 DEF DeleteRecord, Using
  <2>3. QED
    BY <1>15, <2>1, <2>2, GuardsAssumption
    DEF DeleteRecord, FlagInv, Alone, LossNoted, Quiet, Stages
<1>20. CASE DeleteFails
  <2>1. ~raced /\ \A w \in Workers : ~Using(w)
    BY <1>20 DEF DeleteFails, FlagInv, Quiet
  <2>2. \A w \in Workers : ~Using(w)' /\ pc'[w] \notin {"marker", "mark"}
    BY <1>20, <2>1 DEF DeleteFails, Using
  <2>3. faults' # 0
    BY <1>20 DEF DeleteFails, Fault, TypeInv
  <2>4. QED
    BY <1>20, <2>1, <2>2, <2>3
    DEF DeleteFails, FlagInv, Alone, LossNoted, Quiet, Stages
<1>16. CASE Restart
  <2>1. \A w \in Workers : ~Using(w)' /\ pc'[w] \notin {"marker", "mark"}
    BY <1>16 DEF Restart, Stopped, Using
  <2>2. QED
    BY <1>16, <2>1 DEF Restart, FlagInv, Alone, LossNoted, Quiet, Stages
<1>17. CASE UNCHANGED vars
  BY <1>17 DEF vars, FlagInv, Alone, LossNoted, Quiet, Stages, Using
<1>18. QED
  BY <1>1, <1>2, <1>3, <1>4, <1>5, <1>6, <1>7, <1>8, <1>9, <1>10, <1>11, <1>12, <1>13,
     <1>14, <1>15, <1>16, <1>17, <1>19, <1>20
  DEF Next, Step

\* At most one request uses the record as long as none has raced.
LEMMA Flags == Spec => []FlagInv
<1>1. Init => FlagInv
  BY GuardsAssumption
  DEF Init, FlagInv, Alone, LossNoted, Quiet, Stages, Using, cooldowns, history, bounds
<1>2. QED
  BY <1>1, FlagStep, Typed, PTL DEF Spec

\* The flag that blocks purges is set only after the record has been deleted or altered,
\* or for want of the key (_read_cooldowns, _write_cooldowns, reset_cooldowns.sh).
THEOREM FlagIsForCause == Spec => []FlaggedForCause
BY Flags, PTL DEF FlagInv, LossNoted, FlaggedForCause

----------------------------------------------------------------------------
(* The cooldown.                                                           *)

\* A purge request of the user has passed its check and is on its way.
Passed(w, u) ==
    /\ loc[w].op = "purge" /\ loc[w].user = u /\ loc[w].again
    /\ pc[w] \in {"get", "marker", "put", "mark", "submit"}

Apart(s, t) == s - t >= Cooldown \/ t - s >= Cooldown

\* Purge requests of a user, on their way and let through, were checked at times that
\* are a cooldown apart.
Spread ==
    \A u \in Users, w \in Workers :
        Passed(w, u) =>
            /\ Apart(loc[w].at, let[u])
            /\ \A v \in Workers \ {w} : Passed(v, u) => Apart(loc[w].at, loc[v].at)

\* Data are as late as the purges that have been let through, and as those that have
\* passed and are at one of the steps.
Covers(data, at) ==
    \A u \in Users :
        /\ let[u] <= data[u]
        /\ \A v \in Workers : Passed(v, u) /\ pc[v] \in at => loc[v].at <= data[u]

\* The record that the next check goes by covers what it must, and so do the data that
\* are about to replace it.
Remembered ==
    /\ \A w \in Workers : pc[w] = "put" => Covers(loc[w].data, {"put", "submit"})
    /\ script = "no" =>
          /\ record # Missing => marker \/ \E v \in Workers : pc[v] = "mark"
          /\ record \in Data /\ ~flag => Covers(record, {"mark", "submit"})
          /\ record = Missing /\ ~marker /\ ~flag /\ (\A v \in Workers : pc[v] # "mark") =>
                Covers(NoCooldowns, {"submit"})

Past == \A u \in Users : let[u] <= clock

CoolInv == ~raced /\ faults = 0 => ~skipped /\ Spread /\ Remembered

\* A step that brings no request past its check, and leaves record and writers alone,
\* keeps what is remembered.
LEMMA Fewer ==
    ASSUME Spread, Remembered, UNCHANGED <<cooldowns, script, let>>,
           \A v \in Workers :
               /\ pc'[v] = "mark" <=> pc[v] = "mark"
               /\ pc'[v] = "put" => pc[v] = "put" /\ loc'[v].data = loc[v].data,
           \A v \in Workers, u \in Users :
               Passed(v, u)' => Passed(v, u) /\ pc'[v] = pc[v] /\ loc'[v].at = loc[v].at
    PROVE  Spread' /\ Remembered'
<1>1. Spread'
  BY DEF Spread
<1>2. \A data, at : Covers(data, at) => \A u \in Users :
         /\ let'[u] <= data[u]
         /\ \A v \in Workers : Passed(v, u)' /\ pc'[v] \in at => loc'[v].at <= data[u]
  BY DEF Covers
<1>3. /\ record' = record /\ marker' = marker /\ flag' = flag /\ script' = script
      /\ NoCooldowns' = NoCooldowns
  BY DEF cooldowns, NoCooldowns
<1>4. Remembered'
  BY <1>2, <1>3 DEF Remembered, Covers
<1>5. QED
  BY <1>1, <1>4

\* A check by data that cover what has been submitted lets a purge pass only a cooldown
\* later, and the second reading puts it into the data to be written (_check_cooldown,
\* _record_cooldown).
LEMMA CheckKeeps ==
    ASSUME NEW w \in Workers, NEW from \in {"get", "marker"}, NEW data \in Data,
           TypeInv, OwnTask, Past, Spread, Remembered, Covers(data, {"submit"}),
           Check(w, from, data), UNCHANGED <<cooldowns, script, let, clock>>,
           \A v \in Workers \ {w} : ~Using(v)
    PROVE  Spread' /\ Remembered'
<1> USE DEF cooldowns
<1>1. \A v \in Workers \ {w} : pc'[v] = pc[v] /\ loc'[v] = loc[v]
  BY CheckTyped
<1>2. \A v \in Workers \ {w} : pc[v] \notin {"marker", "put", "mark"}
  BY DEF Using
<1>3. \A v \in Workers \ {w}, u \in Users : Passed(v, u) => pc[v] = "submit"
  BY DEF Using, Passed
<1>4. pc[w] = from /\ pc'[w] \in {"put", "get", "done"}
      /\ loc'[w].op = loc[w].op /\ loc'[w].user = loc[w].user /\ loc'[w].again
  BY CheckTyped
<1>5. \A u \in Users : let[u] \in Int /\ data[u] \in Int
  BY Numbers DEF TypeInv, Data
<1>6. clock \in Int /\ \A v \in Workers : loc[v].at \in Int
  BY Numbers DEF TypeInv, Requests
<1>7. record' = record /\ marker' = marker /\ flag' = flag /\ script' = script
  OBVIOUS
<1>8. script = "no" =>
         /\ record # Missing => marker
         /\ record \in Data /\ ~flag => Covers(record, {"mark", "submit"})'
         /\ record = Missing /\ ~marker /\ ~flag => Covers(NoCooldowns, {"submit"})'
  <2>1. \A d : Covers(d, {"mark", "submit"}) => Covers(d, {"mark", "submit"})'
    BY <1>1, <1>2, <1>4 DEF Covers, Passed
  <2>2. Covers(NoCooldowns, {"submit"}) => Covers(NoCooldowns, {"submit"})'
    BY <1>1, <1>2, <1>4 DEF Covers, Passed, NoCooldowns
  <2>3. \A v \in Workers : pc[v] # "mark"
    BY <1>2, <1>4
  <2>4. QED
    BY <2>1, <2>2, <2>3 DEF Remembered
<1>9. CASE loc[w].again
  <2>1. pc'[w] = "put" /\ loc'[w].at = loc[w].at /\ loc'[w].data = Stamp(loc[w], data)
    BY <1>9, CheckTyped
  <2>2. \A u \in Users : Stamp(loc[w], data)[u] =
           IF loc[w].op = "purge" /\ u = loc[w].user THEN clock ELSE data[u]
    <3>1. loc[w].user \in Users
      BY <1>4 DEF OwnTask
    <3>2. QED
      BY <3>1, StampTyped DEF TypeInv
  <2>3. Covers(loc[w].data, {"put", "submit"})'
    <3> SUFFICES ASSUME NEW u \in Users
                 PROVE  /\ let[u] <= Stamp(loc[w], data)[u]
                        /\ \A v \in Workers : Passed(v, u)' /\ pc'[v] \in {"put", "submit"} =>
                              loc'[v].at <= Stamp(loc[w], data)[u]
      BY <2>1 DEF Covers
    <3>1. let[u] <= clock /\ let[u] <= data[u]
      BY DEF Past, Covers
    <3>2. ASSUME NEW v \in Workers \ {w}, Passed(v, u)'
          PROVE  loc'[v].at <= data[u] /\ loc'[v].at <= clock
      BY <1>1, <1>3, <3>2 DEF Passed, Covers, OwnTask
    <3>3. Passed(w, u)' => loc'[w].at <= clock /\ loc[w].op = "purge" /\ u = loc[w].user
      BY <1>4, <2>1 DEF Passed, OwnTask
    <3>4. QED
      BY <2>2, <3>1, <3>2, <3>3
  <2>4. Spread'
    BY <1>1, <1>4, <1>9, <2>1 DEF Spread, Passed
  <2>5. Remembered'
    BY <1>1, <1>2, <1>7, <1>8, <2>1, <2>3 DEF Remembered
  <2>6. QED
    BY <2>4, <2>5
<1>10. CASE ~loc[w].again
  <2>1. /\ pc'[w] \in {"get", "done"} /\ loc'[w].at = clock
        /\ pc'[w] = "get" /\ loc[w].op = "purge" => clock - data[loc[w].user] >= Cooldown
    BY <1>10, CheckTyped
  <2>2. Remembered'
    BY <1>1, <1>2, <1>7, <1>8, <2>1 DEF Remembered
  <2>3. Spread'
    <3> SUFFICES ASSUME NEW u \in Users, NEW v \in Workers, Passed(v, u)'
                 PROVE  /\ Apart(loc'[v].at, let[u])
                        /\ \A x \in Workers \ {v} : Passed(x, u)' => Apart(loc'[v].at, loc'[x].at)
      BY DEF Spread, Apart
    <3>1. \A x \in Workers \ {w} : Passed(x, u)' => Passed(x, u) /\ loc'[x].at = loc[x].at
      BY <1>1 DEF Passed
    <3>2. Passed(w, u)' => clock - data[u] >= Cooldown
      BY <1>4, <2>1 DEF Passed
    <3>3. let[u] <= data[u]
      BY DEF Covers
    <3>4. \A x \in Workers \ {w} : Passed(x, u)' => loc'[x].at <= data[u]
      BY <1>3, <3>1 DEF Covers
    <3>5. CASE v = w
      BY <1>5, <1>6, <2>1, <3>1, <3>2, <3>3, <3>4, <3>5, Numbers DEF Apart
    <3>6. CASE v # w
      <4>1. Apart(loc'[v].at, let[u])
        BY <3>1, <3>6 DEF Spread
      <4>2. \A x \in Workers \ {v, w} : Passed(x, u)' => Apart(loc'[v].at, loc'[x].at)
        BY <3>1, <3>6 DEF Spread
      <4>3. Passed(w, u)' => Apart(loc'[v].at, loc'[w].at)
        BY <1>5, <1>6, <2>1, <3>1, <3>2, <3>4, <3>6, Numbers DEF Apart
      <4>4. QED
        BY <4>1, <4>2, <4>3
    <3>7. QED
      BY <3>5, <3>6
  <2>4. QED
    BY <2>2, <2>3
<1>11. QED
  BY <1>9, <1>10

\* Every step keeps both, and no purge is let through too early.
LEMMA CoolStep ==
    TypeInv /\ OwnTask /\ FlagInv /\ Past /\ CoolInv /\ [Next]_vars => Past' /\ CoolInv'
<1> SUFFICES ASSUME TypeInv, OwnTask, FlagInv, Past, CoolInv, [Next]_vars
             PROVE  Past' /\ (~raced' /\ faults' = 0 => ~skipped' /\ Spread' /\ Remembered')
  BY DEF CoolInv
<1> DEFINE Cool == ~raced /\ faults = 0 => ~skipped /\ Spread /\ Remembered
           Body == Past' /\ Cool'
<1> USE DEF cooldowns, history, bounds
<1>a. ASSUME NEW w \in Workers,
             UNCHANGED <<cooldowns, script, let, skipped, clock, raced, faults>>,
             pc' \in [Workers -> Steps],
             \A v \in Workers \ {w} : pc'[v] = pc[v] /\ loc'[v] = loc[v],
             pc[w] \notin {"put", "mark"},
             \/ pc'[w] \in {"idle", "done", "take", "state", "truncate", "write", "free"}
             \/ pc'[w] = "get" /\ ~loc'[w].again
      PROVE  Body
  <2>1. Past'
    BY <1>a DEF Past
  <2>2. ASSUME Spread, Remembered PROVE Spread' /\ Remembered'
    <3>1. \A v \in Workers : /\ pc'[v] = "mark" <=> pc[v] = "mark"
                             /\ pc'[v] = "put" => pc[v] = "put" /\ loc'[v].data = loc[v].data
      BY <1>a
    <3>2. \A v \in Workers, u \in Users :
             Passed(v, u)' => Passed(v, u) /\ pc'[v] = pc[v] /\ loc'[v].at = loc[v].at
      BY <1>a DEF Passed
    <3>3. QED
      BY <1>a, <2>2, <3>1, <3>2, Fewer
  <2>3. QED
    BY <1>a, <2>1, <2>2 DEF CoolInv
<1>b. ASSUME faults' = faults + 1, UNCHANGED <<let, clock>> PROVE Body
  BY <1>b DEF TypeInv, Past
<1>1. ASSUME NEW w \in Workers, Begin(w) PROVE Body
  <2>1. UNCHANGED <<cooldowns, script, let, skipped, clock, raced, faults>>
    BY <1>1 DEF Begin
  <2>2. /\ \A v \in Workers \ {w} : pc'[v] = pc[v] /\ loc'[v] = loc[v]
        /\ pc[w] = "idle" /\ pc' \in [Workers -> Steps]
    BY <1>1 DEF Begin, Goto, TypeInv, Steps
  <2>3. pc'[w] \in {"take", "get"} /\ ~loc'[w].again
    BY <1>1 DEF Begin, Goto, TypeInv, Idle
  <2>4. QED
    BY <1>a, <2>1, <2>2, <2>3
<1>2. ASSUME NEW w \in Workers, Done(w) PROVE Body
  BY <1>a, <1>2 DEF Done, Goto, TypeInv, Steps
<1>3. ASSUME NEW w \in Workers, Take(w) \/ TakeTimeout(w) \/ ReadState(w) PROVE Body
  BY <1>a, <1>3 DEF Take, TakeTimeout, ReadState, Goto, TypeInv, Steps
<1>4. ASSUME NEW w \in Workers, TruncateState(w) \/ WriteState(w) \/ Free(w) PROVE Body
  BY <1>a, <1>4 DEF TruncateState, WriteState, Free, Goto, TypeInv, Steps
<1>5. ASSUME NEW w \in Workers, Outage(w) \/ KeyOutage(w) \/ MarkFails(w) \/ Crash(w) PROVE Body
  BY <1>b, <1>5 DEF Outage, KeyOutage, MarkFails, Crash, Fault
<1>6. ASSUME NEW w \in Workers, GetRecord(w) PROVE Body
  <2>1. /\ UNCHANGED <<record, marker, clock, script, let, skipped, faults>>
        /\ pc[w] = "get"
    BY <1>6 DEF GetRecord, Goto, Check
  <2> SUFFICES ASSUME ~raced', faults = 0 PROVE ~skipped' /\ Spread' /\ Remembered'
    BY <2>1 DEF Past
  <2>2. script = "no" /\ (\A v \in Workers \ {w} : ~Using(v)) /\ ~raced
    BY <1>6 DEF GetRecord, Meets
  <2>3. ~skipped' /\ Spread /\ Remembered
    BY <2>1, <2>2 DEF CoolInv
  <2>4. \A v \in Workers : pc[v] \notin {"put", "mark"}
    BY <2>1, <2>2 DEF Using
  <2>5. CASE flag \/ record = Altered
    <3>1. /\ flag' /\ loc' = loc
          /\ pc' = [pc EXCEPT ![w] = IF loc[w].op = "purge" /\ loc[w].again
                                     THEN "submit" ELSE "done"]
      BY <1>6, <2>5 DEF GetRecord, Goto, Unread
    <3>2. \A v \in Workers : /\ v # w => pc'[v] = pc[v]
                             /\ pc'[v] \notin {"put", "mark"}
                             /\ \A u \in Users : Passed(v, u)' => Passed(v, u)
      BY <2>1, <2>4, <3>1 DEF TypeInv, Passed
    <3>3. Spread'
      BY <2>1, <2>3, <3>1, <3>2 DEF Spread
    <3>4. Remembered'
      BY <2>1, <2>2, <2>3, <2>4, <3>1, <3>2 DEF Remembered
    <3>5. QED
      BY <2>3, <3>3, <3>4
  <2>6. CASE ~(flag \/ record = Altered) /\ record = Missing
    <3>1. pc' = [pc EXCEPT ![w] = "marker"] /\ loc' = loc /\ flag' = flag
      BY <1>6, <2>6 DEF GetRecord, Goto
    <3>2. \A v \in Workers : /\ v # w => pc'[v] = pc[v]
                             /\ pc'[v] \notin {"put", "mark"}
                             /\ pc'[v] = "submit" <=> pc[v] = "submit"
                             /\ \A u \in Users : Passed(v, u)' => Passed(v, u)
      BY <2>1, <2>4, <3>1 DEF TypeInv, Passed
    <3>3. Spread'
      BY <2>1, <2>3, <3>1, <3>2 DEF Spread
    <3>4. Covers(NoCooldowns, {"submit"}) => Covers(NoCooldowns, {"submit"})'
      BY <2>1, <3>1, <3>2 DEF Covers, NoCooldowns
    <3>5. record \notin Data
      BY <2>6, GuardsAssumption, Numbers DEF Data
    <3>6. Remembered'
      BY <2>1, <2>2, <2>3, <2>4, <2>6, <3>1, <3>2, <3>4, <3>5 DEF Remembered
    <3>7. QED
      BY <2>3, <3>3, <3>6
  <2>7. CASE ~(flag \/ record = Altered) /\ record # Missing
    <3>1. record \in Data
      BY <2>7 DEF TypeInv, TypeOK, Data
    <3>2. Check(w, "get", record) /\ flag' = flag
      BY <1>6, <2>7 DEF GetRecord
    <3>3. Covers(record, {"submit"})
      BY <2>2, <2>3, <2>7, <3>1 DEF Remembered, Covers
    <3>4. QED
      BY <2>1, <2>2, <2>3, <3>1, <3>2, <3>3, CheckKeeps
  <2>8. QED
    BY <2>5, <2>6, <2>7
<1>7. ASSUME NEW w \in Workers, LookForMarker(w) PROVE Body
  <2>1. /\ UNCHANGED <<record, marker, clock, script, let, skipped, faults, raced>>
        /\ pc[w] = "marker"
    BY <1>7 DEF LookForMarker, Goto, Check
  <2> SUFFICES ASSUME ~raced, faults = 0 PROVE ~skipped' /\ Spread' /\ Remembered'
    BY <2>1 DEF Past
  <2>2. Using(w)
    BY <2>1 DEF Using
  <2>3. /\ script = "no" /\ ~flag /\ record = Missing
        /\ \A v \in Workers \ {w} : ~Using(v)
    BY <2>1, <2>2 DEF FlagInv, LossNoted, Quiet, Stages, Alone
  <2>4. ~skipped' /\ Spread /\ Remembered
    BY <2>1 DEF CoolInv
  <2>5. \A v \in Workers : pc[v] \notin {"put", "mark"}
    BY <2>1, <2>3 DEF Using
  <2>6. CASE marker
    <3>1. /\ flag' /\ loc' = loc
          /\ pc' = [pc EXCEPT ![w] = IF loc[w].op = "purge" /\ loc[w].again
                                     THEN "submit" ELSE "done"]
      BY <1>7, <2>6 DEF LookForMarker, Goto, Unread
    <3>2. \A v \in Workers : /\ v # w => pc'[v] = pc[v]
                             /\ pc'[v] \notin {"put", "mark"}
                             /\ \A u \in Users : Passed(v, u)' => Passed(v, u)
      BY <2>1, <2>5, <3>1 DEF TypeInv, Passed
    <3>3. Spread'
      BY <2>1, <2>4, <3>1, <3>2 DEF Spread
    <3>4. Remembered'
      BY <2>1, <2>3, <2>4, <2>6, <3>1, <3>2 DEF Remembered
    <3>5. QED
      BY <2>4, <3>3, <3>4
  <2>7. CASE ~marker
    <3>1. Check(w, "marker", NoCooldowns) /\ flag' = flag
      BY <1>7, <2>7 DEF LookForMarker
    <3>2. Covers(NoCooldowns, {"submit"})
      BY <2>3, <2>4, <2>5, <2>7 DEF Remembered
    <3>3. QED
      BY <2>1, <2>3, <2>4, <3>1, <3>2, CheckKeeps, NoCooldownsTyped
  <2>8. QED
    BY <2>6, <2>7
<1>8. ASSUME NEW w \in Workers, PutRecord(w) PROVE Body
  <2>1. /\ UNCHANGED <<marker, flag, clock, script, loc, let, skipped, faults, raced>>
        /\ pc[w] = "put" /\ pc' = [pc EXCEPT ![w] = "mark"] /\ record' = loc[w].data
    BY <1>8 DEF PutRecord, Goto
  <2> SUFFICES ASSUME ~raced, faults = 0 PROVE ~skipped' /\ Spread' /\ Remembered'
    BY <2>1 DEF Past
  <2>2. ~skipped' /\ Spread /\ Remembered
    BY <2>1 DEF CoolInv
  <2>3. \A v \in Workers \ {w} : pc[v] # "put"
    BY <2>1 DEF FlagInv, Alone, Using
  <2>4. \A v \in Workers : pc'[v] = IF v = w THEN "mark" ELSE pc[v]
    BY <2>1 DEF TypeInv
  <2>5. \A v \in Workers, u \in Users : Passed(v, u)' <=> Passed(v, u)
    BY <2>1, <2>4 DEF Passed
  <2>6. Spread'
    BY <2>1, <2>2, <2>5 DEF Spread
  <2>7. record' # Missing
    BY <2>1, GuardsAssumption, Numbers DEF TypeInv, Requests, Data
  <2>8. Covers(loc[w].data, {"put", "submit"})
    BY <2>1, <2>2 DEF Remembered
  <2>9. Covers(record, {"mark", "submit"})'
    <3>1. \A v \in Workers : pc'[v] = "mark" => v = w
      BY <2>1, <2>4 DEF FlagInv, Alone, Using
    <3>2. QED
      BY <2>1, <2>4, <2>5, <2>8, <3>1 DEF Covers
  <2>10. Remembered'
    BY <2>3, <2>4, <2>7, <2>9 DEF Remembered
  <2>11. QED
    BY <2>2, <2>6, <2>10
<1>9. ASSUME NEW w \in Workers, Mark(w) PROVE Body
  <2>1. /\ UNCHANGED <<record, flag, clock, script, loc, let, skipped, faults, raced>>
        /\ pc[w] = "mark" /\ pc' = [pc EXCEPT ![w] = After(loc[w].op)] /\ marker'
    BY <1>9 DEF Mark, Goto
  <2> SUFFICES ASSUME ~raced, faults = 0 PROVE ~skipped' /\ Spread' /\ Remembered'
    BY <2>1 DEF Past
  <2>2. ~skipped' /\ Spread /\ Remembered
    BY <2>1 DEF CoolInv
  <2>3. \A v \in Workers : pc'[v] = IF v = w THEN After(loc[w].op) ELSE pc[v]
    BY <2>1 DEF TypeInv
  <2>4. \A v \in Workers, u \in Users :
           /\ Passed(v, u)' => Passed(v, u)
           /\ Passed(v, u)' /\ pc'[v] \in {"mark", "submit"} => pc[v] \in {"mark", "submit"}
    BY <2>1, <2>3 DEF Passed, After
  <2>5. Spread'
    BY <2>1, <2>2, <2>4 DEF Spread
  <2>6. Covers(record, {"mark", "submit"}) => Covers(record, {"mark", "submit"})'
    BY <2>1, <2>4 DEF Covers
  <2>7. \A v \in Workers : pc'[v] # "put"
    BY <2>1, <2>3 DEF FlagInv, Alone, Using, After
  <2>8. Remembered'
    BY <2>1, <2>2, <2>6, <2>7 DEF Remembered
  <2>9. QED
    BY <2>2, <2>5, <2>8
<1>10. ASSUME NEW w \in Workers, Submit(w) PROVE Body
  <2> DEFINE l == loc[w]
             last == let[l.user]
  <2>1. /\ UNCHANGED <<cooldowns, script, clock, loc, faults, raced>>
        /\ pc[w] = "submit" /\ pc' = [pc EXCEPT ![w] = "done"]
    BY <1>10 DEF Submit, Goto
  <2>2. l.user \in Users /\ l.op = "purge" /\ l.again /\ l.at <= clock
    BY <2>1 DEF OwnTask
  <2>3. l.at \in Int /\ last \in Int /\ clock \in Int /\ Cooldown \in Int
    BY <2>2, Numbers DEF TypeInv, Requests, Data
  <2>4. CASE UNCHANGED <<let, skipped>>
    BY <1>a, <2>1, <2>4 DEF TypeInv, Steps
  <2>5. CASE /\ let' = [let EXCEPT ![l.user] = IF l.at > last THEN l.at ELSE last]
             /\ skipped' = (skipped \/ l.at \in (last - Cooldown + 1)..(last + Cooldown - 1))
    <3>1. /\ let'[l.user] = (IF l.at > last THEN l.at ELSE last)
          /\ \A u \in Users \ {l.user} : let'[u] = let[u]
      BY <2>2, <2>5 DEF TypeInv, Data
    <3>2. Past'
      BY <2>1, <2>2, <2>3, <3>1 DEF Past
    <3> SUFFICES ASSUME ~raced, faults = 0 PROVE ~skipped' /\ Spread' /\ Remembered'
      BY <2>1, <3>2
    <3>3. ~skipped /\ Spread /\ Remembered
      BY DEF CoolInv
    <3>4. Passed(w, l.user)
      BY <2>1, <2>2 DEF Passed
    <3>5. ~skipped'
      <4>1. l.at - last >= Cooldown \/ last - l.at >= Cooldown
        BY <2>2, <3>3, <3>4 DEF Spread, Apart
      <4>2. l.at \notin (last - Cooldown + 1)..(last + Cooldown - 1)
        BY <2>3, <4>1
      <4> HIDE DEF l, last
      <4>3. QED
        BY <2>5, <3>3, <4>2
    <3>6. \A v \in Workers : pc'[v] = IF v = w THEN "done" ELSE pc[v]
      BY <2>1 DEF TypeInv
    <3>7. \A v \in Workers, u \in Users :
             Passed(v, u)' => v # w /\ Passed(v, u) /\ pc'[v] = pc[v]
      BY <2>1, <3>6 DEF Passed
    <3>8. Spread'
      BY <2>1, <2>2, <3>1, <3>3, <3>4, <3>7 DEF Spread
    <3>9. \A data, at : "submit" \in at /\ Covers(data, at) => \A u \in Users :
             /\ let'[u] <= data[u]
             /\ \A v \in Workers : Passed(v, u)' /\ pc'[v] \in at => loc'[v].at <= data[u]
      BY <2>1, <2>2, <3>1, <3>4, <3>7 DEF Covers
    <3>10. \A v \in Workers : /\ pc'[v] = "mark" <=> pc[v] = "mark"
                              /\ pc'[v] = "put" => pc[v] = "put"
      BY <2>1, <3>6
    <3>11. /\ record' = record /\ marker' = marker /\ flag' = flag /\ script' = script
           /\ NoCooldowns' = NoCooldowns
      BY <2>1 DEF NoCooldowns
    <3>12. /\ Covers(record, {"mark", "submit"}) => Covers(record, {"mark", "submit"})'
           /\ Covers(NoCooldowns, {"submit"}) => Covers(NoCooldowns, {"submit"})'
           /\ \A v \in Workers : Covers(loc[v].data, {"put", "submit"}) =>
                 Covers(loc[v].data, {"put", "submit"})'
      BY <2>1, <3>9, <3>11 DEF Covers
    <3>13. Remembered'
      BY <2>1, <3>3, <3>10, <3>11, <3>12 DEF Remembered
    <3>14. QED
      BY <3>5, <3>8, <3>13
  <2>6. QED
    BY <1>10, <2>4, <2>5 DEF Submit
<1>11. CASE Tick
  <2>1. Past'
    BY <1>11, Numbers DEF Tick, Past, TypeInv, Data
  <2>2. Spread /\ Remembered => Spread' /\ Remembered'
    BY <1>11, Fewer DEF Tick, Passed
  <2>3. QED
    BY <1>11, <2>1, <2>2 DEF Tick, CoolInv
<1>12. CASE Lose
  <2>1. /\ UNCHANGED <<marker, flag, clock, script, pc, loc, faults, let, skipped, raced>>
        /\ record # Missing /\ record' \in {Missing, Altered}
    BY <1>12 DEF Lose
  <2> SUFFICES ASSUME ~raced, faults = 0 PROVE ~skipped' /\ Spread' /\ Remembered'
    BY <2>1 DEF Past
  <2>2. ~skipped' /\ Spread /\ Remembered
    BY <2>1 DEF CoolInv
  <2>3. Spread'
    BY <2>1, <2>2 DEF Spread, Passed
  <2>4. record' \notin Data
    BY <2>1, GuardsAssumption, Numbers DEF Data
  <2>5. \A d, at : Covers(d, at) => Covers(d, at)'
    BY <2>1 DEF Covers, Passed
  <2>6. Remembered'
    BY <2>1, <2>2, <2>4, <2>5 DEF Remembered
  <2>7. QED
    BY <2>2, <2>3, <2>6
<1>13. CASE ClearFlag \/ DeleteRecord
  <2>1. /\ UNCHANGED <<clock, pc, loc, faults, let, skipped>>
        /\ script' # "no" /\ (raced => raced')
    <3>1. CASE ClearFlag
      BY <3>1 DEF ClearFlag
    <3>2. CASE DeleteRecord
      BY <3>2 DEF DeleteRecord
    <3>3. QED
      BY <1>13, <3>1, <3>2
  <2> SUFFICES ASSUME ~raced, faults = 0 PROVE ~skipped' /\ Spread' /\ Remembered'
    BY <2>1 DEF Past
  <2>2. ~skipped' /\ Spread /\ Remembered
    BY <2>1 DEF CoolInv
  <2>3. Spread'
    BY <2>1, <2>2 DEF Spread, Passed
  <2>4. \A d, at : Covers(d, at) => \A u \in Users :
           /\ let'[u] <= d[u]
           /\ \A v \in Workers : Passed(v, u)' /\ pc'[v] \in at => loc'[v].at <= d[u]
    BY <2>1 DEF Covers, Passed
  <2>5. Remembered'
    BY <2>1, <2>2, <2>4 DEF Remembered, Covers
  <2>6. QED
    BY <2>2, <2>3, <2>5
<1>17. CASE DeleteFails
  BY <1>b, <1>17 DEF DeleteFails, Fault
<1>14. CASE Restart
  <2>1. /\ UNCHANGED <<cooldowns, clock, faults, skipped, raced>>
        /\ script = "restart" /\ let' = NoCooldowns
        /\ \A v \in Workers : pc'[v] = "idle"
    BY <1>14 DEF Restart, Stopped
  <2>2. \A u \in Users : let'[u] = Never /\ NoCooldowns'[u] = Never
    BY <2>1 DEF NoCooldowns
  <2>3. Past'
    BY <2>1, <2>2, Numbers DEF Past, TypeInv
  <2> SUFFICES ASSUME ~raced, faults = 0 PROVE ~skipped' /\ Spread' /\ Remembered'
    BY <2>1, <2>3
  <2>4. \A v \in Workers, u \in Users : ~Passed(v, u)'
    BY <2>1 DEF Passed
  <2>5. record' = Missing /\ record' \notin Data
    BY <2>1, GuardsAssumption, Numbers DEF FlagInv, Quiet, Data
  <2>6. Covers(NoCooldowns, {"submit"})'
    BY <2>2, <2>4, Numbers DEF Covers
  <2>7. QED
    BY <2>1, <2>4, <2>5, <2>6 DEF CoolInv, Spread, Remembered
<1>15. CASE UNCHANGED vars
  BY <1>15, Fewer DEF vars, Past, Passed, CoolInv
<1>16. QED
  BY <1>1, <1>2, <1>3, <1>4, <1>5, <1>6, <1>7, <1>8, <1>9, <1>10, <1>11, <1>12, <1>13,
     <1>14, <1>15, <1>17
  DEF Next, Step

\* No purge request passes within the cooldown of the user's last one, when no two
\* requests have used the record at once and nothing has failed (_check_cooldown).
THEOREM CooldownIsKept == Spec => []CooldownKept
<1>1. Init => Past /\ CoolInv
  <2> SUFFICES ASSUME Init PROVE Past /\ CoolInv
    OBVIOUS
  <2>1. \A u \in Users : let[u] = Never /\ NoCooldowns[u] = Never
    BY DEF Init, NoCooldowns, history
  <2>2. Past
    <3>1. clock = 0
      BY DEF Init
    <3>2. Never <= 0 /\ Never <= Never
      BY Numbers
    <3>3. QED
      BY <2>1, <3>1, <3>2 DEF Past
  <2>3. \A v \in Workers, u \in Users : ~Passed(v, u)
    BY DEF Init, Passed
  <2>4. Covers(NoCooldowns, {"submit"})
    <3>1. Never <= Never
      BY Numbers
    <3>2. QED
      BY <2>1, <2>3, <3>1 DEF Covers
  <2>5. record = Missing /\ record \notin Data /\ ~skipped /\ \A w \in Workers : pc[w] = "idle"
    BY GuardsAssumption, Numbers DEF Init, Data
  <2>6. QED
    BY <2>2, <2>3, <2>4, <2>5 DEF CoolInv, Spread, Remembered
<1>2. QED
  BY <1>1, CoolStep, Typed, Flags, PTL DEF Spec, CoolInv, CooldownKept
=============================================================================
