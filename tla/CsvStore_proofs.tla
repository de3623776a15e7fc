-------------------------- MODULE CsvStore_proofs --------------------------
(***************************************************************************)
(* Proofs about CsvStore, for any workers, edits, requests, contents and   *)
(* bounds: types, that the CSV is whole, that a write replaces what its    *)
(* token names, and that an approved change is in the CSV, as long as no   *)
(* writer without the lock has overlapped another.                         *)
(***************************************************************************)
EXTENDS CsvStore, TLAPS

Locals == [op : Ops \cup {"none"}, req : Requests \cup {NoReq},
           got : Contents, put : Contents, ok : {"done", "failed", "unnoticed"},
           mtime : 0..MaxClock, size : Nat]
Views == [rows : Contents, mtime : 0..MaxClock, hash : Contents]

Saving == {"open", "flush", "rename", "digest", "record"}
Checking == {"check", "stat", "compare"}
Proving == Checking \cup {"reply", "replied"}

\* Step s is one of operation o.
On(o, s) ==
    \/ o = "none" /\ s = "idle"
    \/ o = "load" /\ s \in {"rows", "token", "answer"} \cup Saving
    \/ o = "keep" /\ s \in {"token", "answer"}
    \/ o = "save" /\ s \in {"wait", "diff", "gate"} \cup Proving \cup Saving
    \/ o = "revert" /\ s \in {"gate"} \cup Proving \cup Saving
    \/ o = "cleanup" /\ s \in {"rows", "end"} \cup Saving
    \/ o = "submit" /\ s \in {"qwait", "store"}
    \/ o = "process" /\ s \in {"qwait", "verdict", "rows", "wait", "diff", "reply",
                              "replied", "mark"} \cup Saving
    \/ o = "other" /\ s \in {"digest", "record", "end"}

\* Every worker is at a step of its operation, the approval of a revert neither reads
\* nor compares rows, a client that checks a token has one, only a worker that is about
\* to write has a file open, and <csv>.tmp is there when it is that.
OwnPath ==
    \A w \in Workers :
        /\ On(loc[w].op, pc[w])
        /\ loc[w].op \in {"submit", "process"} => loc[w].req \in Requests
        /\ loc[w].op = "process" /\ Action[loc[w].req] = "revert" =>
              pc[w] \notin {"rows", "wait", "diff"}
        /\ loc[w].op \in {"keep", "save", "revert"} => view[w] # NoView
        /\ fd[w] # "none" => pc[w] = "flush"
        /\ fd[w] = "tmp" => tmp # NoFile

\* What worker w does.
Act(w) ==
    \/ Begin(w) \/ AcquireQueue(w) \/ Store(w) \/ Verdict(w) \/ Mark(w)
    \/ Acquire(w) \/ LockTimeout(w) \/ ReadRows(w) \/ End(w) \/ Stat(w) \/ Check(w)
    \/ Compare(w) \/ Refuse(w) \/ Diff(w) \/ Gate(w) \/ OpenTmp(w) \/ Flush(w) \/ Rename(w)
    \/ WriteFails(w) \/ Digest(w) \/ Record(w) \/ Reply(w) \/ Aftermath(w)
    \/ Answer(w)

----------------------------------------------------------------------------
(* Types.                                                                  *)

\* Rows with an edit more, or without the expired ones, are contents, and so is what a
\* write leaves in a file (remove_expired_rows, write_csv).
LEMMA ContentsTyped ==
    /\ {} \in Contents /\ Original \in Contents /\ Blank \in Contents /\ Torn \in Contents
    /\ \A x \in Contents : Kept(x) \in Contents
    /\ \A x \in Contents, e \in Edits \cup Requests : Plus(x, e) \in Contents
    /\ \A x, y \in Contents : Over(x, y) \in Contents
BY CsvAssumption DEF Contents, Rows, Kept, Plus, Over

\* An idle worker has no request.
LEMMA IdleTyped == Idle \in Locals
BY ContentsTyped, CsvAssumption DEF Idle, Locals

\* What a handler notes leaves it a handler, and its worker alone changes.
LEMMA NotesTyped ==
    ASSUME NEW l \in Locals
    PROVE  /\ \A x \in Contents : [l EXCEPT !.put = x] \in Locals
           /\ \A x \in Contents : [l EXCEPT !.got = x] \in Locals
           /\ \A x, y \in Contents : [l EXCEPT !.got = x, !.put = y] \in Locals
           /\ \A ok \in {"done", "failed", "unnoticed"} : [l EXCEPT !.ok = ok] \in Locals
           /\ \A m \in 0..MaxClock, n \in Nat : [l EXCEPT !.mtime = m, !.size = n] \in Locals
BY DEF Locals

LEMMA OneNote ==
    ASSUME TypeOK, NEW w \in Workers
    PROVE  /\ loc \in [Workers -> Locals] /\ loc[w] \in Locals
           /\ \A r \in Locals :
                 loc' = [loc EXCEPT ![w] = r] => loc' \in [Workers -> Locals] /\ loc'[w] = r
           /\ \A r : loc' = [loc EXCEPT ![w] = r] => loc'[w] = r
<1>1. loc \in [Workers -> Locals]
  BY DEF TypeOK, Locals
<1>2. QED
  BY <1>1

\* A handler that returns leaves its worker idle, and nobody else in its place.
LEMMA ReturnTyped ==
    ASSUME NEW w \in Workers, TypeOK, Return(w)
    PROVE  /\ pc' \in [Workers -> Steps] /\ loc' \in [Workers -> Locals]
           /\ lock' \in Workers \cup {NoOne} /\ qlock' \in Workers \cup {NoOne}
           /\ pc'[w] = "idle" /\ loc'[w] = Idle
           /\ \A v \in Workers \ {w} : pc'[v] = pc[v] /\ loc'[v] = loc[v]
<1>1. pc' \in [Workers -> Steps] /\ loc' \in [Workers -> Locals]
  BY IdleTyped DEF Return, TypeOK, Steps, Locals
<1>2. lock' \in Workers \cup {NoOne} /\ qlock' \in Workers \cup {NoOne}
  BY DEF Return, TypeOK
<1>3. QED
  BY <1>1, <1>2 DEF Return, TypeOK

\* A write that fails: the handler returns, goes on to its answer, or to the mark.
LEMMA GiveUpTyped ==
    ASSUME NEW w \in Workers, TypeOK, GiveUp(w)
    PROVE  /\ pc' \in [Workers -> Steps] /\ loc' \in [Workers -> Locals]
           /\ lock' \in Workers \cup {NoOne} /\ qlock' \in Workers \cup {NoOne}
           /\ \A v \in Workers \ {w} : pc'[v] = pc[v] /\ loc'[v] = loc[v]
           /\ IF loc[w].op \in {"load", "process"}
              THEN /\ pc'[w] = IF loc[w].op = "load" THEN "token" ELSE "mark"
                   /\ loc'[w] = [loc[w] EXCEPT !.put = loc[w].got, !.ok = "failed"]
              ELSE pc'[w] = "idle" /\ loc'[w] = Idle
<1>1. CASE loc[w].op \in {"load", "process"}
  <2>1. loc' = [loc EXCEPT ![w].put = loc[w].got, ![w].ok = "failed"]
    BY <1>1 DEF GiveUp
  <2>2. loc'[w] = [loc[w] EXCEPT !.put = loc[w].got, !.ok = "failed"]
    BY <2>1 DEF TypeOK
  <2>3. loc'[w] \in Locals
    BY <2>2 DEF TypeOK, Locals
  <2>4. loc' \in [Workers -> Locals]
    BY <2>1, <2>3 DEF TypeOK, Locals
  <2>5. QED
    BY <1>1, <2>1, <2>2, <2>4 DEF GiveUp, TypeOK, Steps
<1>2. CASE loc[w].op \notin {"load", "process"}
  BY <1>2, ReturnTyped DEF GiveUp
<1>3. QED
  BY <1>1, <1>2

\* The queue keeps its type (_submit_approval, _process_approval).
LEMMA QueueTyped ==
    ASSUME TypeOK,
           \/ UNCHANGED qvars
           \/ \E r \in Requests : Submit(r, {}) \/ \E s \in Status : Resolve(r, s)
    PROVE  queue' \in Queues /\ known' \subseteq Requests /\ old' = {}
<1>1. CASE UNCHANGED qvars
  BY <1>1 DEF qvars, TypeOK
<1>2. ASSUME NEW r \in Requests, Submit(r, {})
      PROVE  queue' \in Queues /\ known' \subseteq Requests /\ old' = {}
  <2>1. ExpirePending(queue, {}) \in Queues
    BY DEF ExpirePending, TypeOK, Queues
  <2>2. queue' = [ExpirePending(queue, {}) EXCEPT ![r] = "pending"]
    BY <1>2 DEF Submit
  <2>3. queue' \in Queues
    BY <2>1, <2>2 DEF Queues, Status
  <2>4. QED
    BY <1>2, <2>3 DEF Submit, TypeOK
<1>3. ASSUME NEW r \in Requests, NEW s \in Status, Resolve(r, s)
      PROVE  queue' \in Queues /\ known' \subseteq Requests /\ old' = {}
  BY <1>3 DEF Resolve, TypeOK, Queues
<1>4. QED
  BY <1>1, <1>2, <1>3

\* What starts is typed.
LEMMA StartTyped ==
    ASSUME NEW w \in Workers, NEW o \in Ops, NEW r \in Requests \cup {NoReq},
           NEW put \in Contents, NEW to \in Steps, TypeOK, Start(w, o, r, put, to)
    PROVE  TypeOK'
<1>1. [Idle EXCEPT !.op = o, !.req = r, !.put = put] \in Locals
  BY IdleTyped DEF Locals, Idle
<1>2. loc' \in [Workers -> Locals] /\ pc' \in [Workers -> Steps]
  BY <1>1 DEF Start, Step, TypeOK, Locals
<1>3. asked' \in 0..MaxRequests
  BY CsvAssumption DEF Start, TypeOK
<1>4. QED
  BY <1>2, <1>3 DEF Start, TypeOK, Locals, qvars, disk

\* Every step keeps the types.
LEMMA TypeStep == TypeOK /\ OwnPath /\ [Next]_vars => TypeOK'
<1> SUFFICES ASSUME TypeOK, OwnPath, [Next]_vars PROVE TypeOK'
  OBVIOUS
<1> USE DEF disk, rest
<1>1. ASSUME NEW w \in Workers, Begin(w) PROVE TypeOK'
  <2>1. \A o \in Ops, r \in Requests \cup {NoReq}, put \in Contents, to \in Steps :
           Start(w, o, r, put, to) => TypeOK'
    BY StartTyped
  <2>2. CASE BeginLoad(w) \/ BeginCleanup(w) \/ BeginOther(w) \/ BeginKeep(w)
             \/ BeginRevert(w)
    BY <2>1, <2>2, ContentsTyped
    DEF BeginLoad, BeginCleanup, BeginOther, BeginKeep, BeginRevert, Ops, Steps
  <2>3. \A e \in Edits \cup Requests : view[w] # NoView => Plus(view[w].rows, e) \in Contents
    BY ContentsTyped DEF TypeOK
  <2>4. ASSUME NEW e \in Edits, BeginSave(w, e) PROVE TypeOK'
    BY <2>1, <2>3, <2>4 DEF BeginSave, Ops, Steps
  <2>5. ASSUME NEW r \in Requests, BeginSubmit(w, r) \/ BeginProcess(w, r) PROVE TypeOK'
    BY <2>1, <2>3, <2>5, ContentsTyped DEF BeginSubmit, BeginProcess, Ops, Steps
  <2>6. QED
    BY <1>1, <2>2, <2>4, <2>5 DEF Begin
<1>2. ASSUME NEW w \in Workers, AcquireQueue(w) PROVE TypeOK'
  BY <1>2 DEF AcquireQueue, Step, TypeOK, Steps, qvars
<1>3. ASSUME NEW w \in Workers, Store(w) PROVE TypeOK'
  <2>1. loc[w].req \in Requests
    BY <1>3 DEF Store, OwnPath, On, Saving, Proving, Checking
  <2>2. queue' \in Queues /\ known' \subseteq Requests /\ old' = {}
    BY <1>3, <2>1, QueueTyped DEF Store
  <2>3. payload' \in [Requests -> Contents]
    BY <1>3, <2>1 DEF Store, TypeOK
  <2>4. QED
    BY <1>3, <2>2, <2>3, ReturnTyped DEF Store, TypeOK, Locals
<1>4. ASSUME NEW w \in Workers, Verdict(w) PROVE TypeOK'
  <2>1. loc[w].req \in Requests
    BY <1>4 DEF Verdict, OwnPath, On, Saving, Proving, Checking
  <2>2. queue' \in Queues /\ known' \subseteq Requests /\ old' = {}
    BY <1>4, <2>1, QueueTyped DEF Verdict, Status
  <2>3. /\ pc' \in [Workers -> Steps] /\ loc' \in [Workers -> Locals]
        /\ lock' \in Workers \cup {NoOne} /\ qlock' \in Workers \cup {NoOne}
    <3>1. CASE Return(w)
      BY <3>1, ReturnTyped
    <3>2. CASE ~Return(w)
      <4>1. /\ UNCHANGED <<lock, qlock>>
            /\ \E s \in {"mark", "open", "rows"} : pc' = [pc EXCEPT ![w] = s]
            /\ \/ loc' = [loc EXCEPT ![w].ok = "failed"]
               \/ loc' = [loc EXCEPT ![w].put = Original]
        BY <1>4, <3>2 DEF Verdict, Step
      <4>2. pc' \in [Workers -> Steps]
        BY <4>1 DEF TypeOK, Steps
      <4>3. loc' \in [Workers -> Locals]
        <5>1. CASE loc' = [loc EXCEPT ![w].ok = "failed"]
          BY <5>1, NotesTyped, OneNote
        <5>2. CASE loc' = [loc EXCEPT ![w].put = Original]
          BY <5>2, ContentsTyped, NotesTyped, OneNote
        <5>3. QED
          BY <4>1, <5>1, <5>2
      <4>4. QED
        BY <4>1, <4>2, <4>3 DEF TypeOK
    <3>3. QED
      BY <3>1, <3>2
  <2>4. QED
    BY <1>4, <2>2, <2>3 DEF Verdict, TypeOK, Locals
<1>5. ASSUME NEW w \in Workers, Mark(w) PROVE TypeOK'
  <2>1. loc[w].req \in Requests
    BY <1>5 DEF Mark, OwnPath, On, Saving, Proving, Checking
  <2>2. queue' \in Queues /\ known' \subseteq Requests /\ old' = {}
    BY <1>5, <2>1, QueueTyped DEF Mark, Status
  <2>3. QED
    BY <1>5, <2>2, ReturnTyped DEF Mark, TypeOK, Locals
<1>6. ASSUME NEW w \in Workers, Acquire(w) PROVE TypeOK'
  BY <1>6 DEF Acquire, Step, TypeOK, Steps, qvars
<1>7. ASSUME NEW w \in Workers, LockTimeout(w) \/ End(w) PROVE TypeOK'
  BY <1>7, ReturnTyped DEF LockTimeout, End, TypeOK, Locals, qvars
<1>8. ASSUME NEW w \in Workers, ReadRows(w) PROVE TypeOK'
  <2>1. live.data \in Contents /\ Kept(live.data) \in Contents
    BY ContentsTyped DEF TypeOK, Files
  <2>2. loc' \in [Workers -> Locals] /\ pc' \in [Workers -> Steps]
    <3>1. CASE loc[w].op = "process"
      <4>1. loc[w].req \in Requests
        BY <1>8, <3>1 DEF ReadRows, OwnPath
      <4>2. payload[loc[w].req] \in Contents /\ Plus(live.data, loc[w].req) \in Contents
        BY <2>1, <4>1, ContentsTyped DEF TypeOK
      <4>3. /\ \E s \in {"mark", "wait"} : pc' = [pc EXCEPT ![w] = s]
            /\ \/ loc' = [loc EXCEPT ![w].ok = "failed"]
               \/ \E x \in Contents : loc' = [loc EXCEPT ![w].put = x]
        BY <1>8, <3>1, <4>2 DEF ReadRows, Step
      <4>4. pc' \in [Workers -> Steps]
        BY <4>3 DEF TypeOK, Steps
      <4>5. CASE loc' = [loc EXCEPT ![w].ok = "failed"]
        BY <4>4, <4>5, NotesTyped, OneNote
      <4>6. ASSUME NEW x \in Contents, loc' = [loc EXCEPT ![w].put = x]
            PROVE  loc' \in [Workers -> Locals]
        BY <4>6, NotesTyped, OneNote
      <4>7. QED
        BY <4>3, <4>4, <4>5, <4>6
    <3>2. CASE loc[w].op # "process"
      <4>1. /\ \E s \in {"open", "token", "end"} : pc' = [pc EXCEPT ![w] = s]
            /\ loc' = [loc EXCEPT ![w] = [@ EXCEPT !.got = live.data,
                                                   !.put = Kept(live.data)]]
        BY <1>8, <3>2 DEF ReadRows, Step
      <4>2. [loc[w] EXCEPT !.got = live.data, !.put = Kept(live.data)] \in Locals
        BY <2>1, NotesTyped, OneNote
      <4>3. loc' \in [Workers -> Locals]
        BY <4>1, <4>2, OneNote
      <4>4. pc' \in [Workers -> Steps]
        BY <4>1 DEF TypeOK, Steps
      <4>5. QED
        BY <4>3, <4>4
    <3>3. QED
      BY <3>1, <3>2
  <2>3. QED
    BY <1>8, <2>2 DEF ReadRows, TypeOK, Locals, qvars
<1>a. ASSUME NEW w \in Workers
      PROVE  /\ Hash(w) \in Contents
             /\ Hashed(w) => cache' \in [Processes -> Hashes \cup {NoHash}]
             /\ \A x \in Contents : Token(x, w) \in Views
  <2>1. Process[w] \in Processes /\ cache[Process[w]] \in Hashes \cup {NoHash}
    BY CsvAssumption DEF TypeOK
  <2>2. live.data \in Contents
    BY DEF TypeOK, Files
  <2>3. Hash(w) \in Contents
    BY <2>1, <2>2 DEF Hash, Hashes
  <2>4. loc[w].mtime \in 0..MaxClock /\ loc[w].size \in Nat
    BY DEF TypeOK
  <2>5. [data |-> Hash(w), mtime |-> loc[w].mtime, size |-> loc[w].size] \in Hashes
    BY <2>3, <2>4 DEF Hashes
  <2>6. Hashed(w) => cache' \in [Processes -> Hashes \cup {NoHash}]
    BY <2>1, <2>5 DEF Hashed, TypeOK
  <2>7. QED
    BY <2>3, <2>4, <2>6 DEF Token, Views
<1>b. ASSUME NEW w \in Workers, NEW m \in 0..MaxClock, view[w] \in Views
      PROVE  /\ [view EXCEPT ![w].mtime = m] \in [Workers -> Views \cup {NoView}]
             /\ \A h \in Contents :
                   [view EXCEPT ![w].hash = h] \in [Workers -> Views \cup {NoView}]
  BY <1>b DEF TypeOK, Views
<1>9. ASSUME NEW w \in Workers, Check(w) \/ Compare(w) PROVE TypeOK'
  <2>1. cache' \in [Processes -> Hashes \cup {NoHash}]
    BY <1>9, <1>a DEF Check, Compare, TypeOK
  <2>2. view' \in [Workers -> Views \cup {NoView}]
    <3>1. view[w] \in Views
      BY <1>9 DEF Check, Compare, OwnPath, On, Saving, Proving, Checking, TypeOK, Views
    <3>2. live.mtime \in 0..MaxClock /\ Hash(w) \in Contents
      BY <1>a DEF TypeOK, Files
    <3>3. \/ view' = view
          \/ view' = [view EXCEPT ![w].mtime = live.mtime]
          \/ view' = [view EXCEPT ![w].hash = Hash(w)]
      BY <1>9 DEF Check, Compare
    <3>4. CASE view' = view
      BY <3>4 DEF TypeOK, Views
    <3>5. CASE view' = [view EXCEPT ![w].mtime = live.mtime]
      <4>1. PICK m \in 0..MaxClock : m = live.mtime
        BY <3>2
      <4>2. [view EXCEPT ![w].mtime = m] \in [Workers -> Views \cup {NoView}]
        BY <1>b, <3>1
      <4>3. QED
        BY <3>5, <4>1, <4>2
    <3>6. CASE view' = [view EXCEPT ![w].hash = Hash(w)]
      <4>1. PICK h \in Contents : h = Hash(w)
        BY <3>2
      <4>2. 0 \in 0..MaxClock
        BY CsvAssumption
      <4>3. [view EXCEPT ![w].hash = h] \in [Workers -> Views \cup {NoView}]
        BY <1>b, <3>1, <4>2
      <4>4. QED
        BY <3>6, <4>1, <4>3
    <3>7. QED
      BY <3>3, <3>4, <3>5, <3>6
  <2>3. /\ pc' \in [Workers -> Steps] /\ loc' \in [Workers -> Locals]
        /\ lock' \in Workers \cup {NoOne} /\ qlock' \in Workers \cup {NoOne}
    <3>1. CASE Return(w)
      BY <3>1, ReturnTyped
    <3>2. CASE ~Return(w)
      <4>1. /\ UNCHANGED <<loc, lock, qlock>>
            /\ \E s \in {"stat", "diff", "open"} : pc' = [pc EXCEPT ![w] = s]
        BY <1>9, <3>2 DEF Check, Compare, Checked, Step
      <4>2. QED
        BY <4>1 DEF TypeOK, Steps, Locals
    <3>3. QED
      BY <3>1, <3>2
  <2>4. QED
    BY <1>9, <2>1, <2>2, <2>3 DEF Check, Compare, TypeOK, Locals, Views, qvars
<1>c. ASSUME NEW w \in Workers, Stat(w) PROVE TypeOK'
  <2>1. live.mtime \in 0..MaxClock /\ Length[live.data] \in Nat
    BY CsvAssumption DEF TypeOK, Files
  <2>2. loc' \in [Workers -> Locals]
    <3>1. PICK m \in 0..MaxClock, n \in Nat : m = live.mtime /\ n = Length[live.data]
      BY <2>1
    <3>2. loc' = [loc EXCEPT ![w] = [loc[w] EXCEPT !.mtime = m, !.size = n]]
      BY <1>c, <3>1 DEF Stat
    <3>3. [loc[w] EXCEPT !.mtime = m, !.size = n] \in Locals
      BY NotesTyped, OneNote
    <3>4. QED
      BY <3>2, <3>3, OneNote
  <2>3. \E s \in {"answer", "compare", "replied"} : pc' = [pc EXCEPT ![w] = s]
    BY <1>c DEF Stat, Step
  <2>4. pc' \in [Workers -> Steps]
    BY <2>3 DEF TypeOK, Steps
  <2>5. QED
    BY <1>c, <2>2, <2>4 DEF Stat, TypeOK, Locals, qvars
<1>d. ASSUME NEW w \in Workers, Refuse(w) PROVE TypeOK'
  <2>1. CASE Return(w)
    BY <1>d, <2>1, ReturnTyped DEF Refuse, TypeOK, Locals, qvars
  <2>2. CASE ~Return(w)
    <3>1. loc' \in [Workers -> Locals]
      <4>1. PICK ok \in {"failed", "unnoticed"} :
               loc' = [loc EXCEPT ![w] = [loc[w] EXCEPT !.ok = ok]]
        BY <1>d, <2>2 DEF Refuse
      <4>2. [loc[w] EXCEPT !.ok = ok] \in Locals
        BY NotesTyped, OneNote
      <4>3. QED
        BY <4>1, <4>2, OneNote
    <3>2. pc' \in [Workers -> Steps]
      BY <1>d, <2>2 DEF Refuse, Step, TypeOK, Steps
    <3>3. QED
      BY <1>d, <2>2, <3>1, <3>2 DEF Refuse, TypeOK, Locals, qvars
  <2>3. QED
    BY <2>1, <2>2
<1>e. ASSUME Stamped, live' \in Files PROVE recent' \subseteq Contents
  BY <1>e DEF Stamped, TypeOK, Files
<1>10. ASSUME NEW w \in Workers, Diff(w) PROVE TypeOK'
  BY <1>10 DEF Diff, Step, TypeOK, Steps, qvars
<1>11. ASSUME NEW w \in Workers, Gate(w) PROVE TypeOK'
  <2>1. CASE Return(w)
    BY <1>11, <2>1, ReturnTyped DEF Gate, TypeOK, Locals, qvars
  <2>2. CASE ~Return(w)
    BY <1>11, <2>2 DEF Gate, Step, TypeOK, Steps, qvars
  <2>3. QED
    BY <2>1, <2>2
<1>12. ASSUME NEW w \in Workers, OpenTmp(w) PROVE TypeOK'
  <2>1. [data |-> Blank, mtime |-> clock] \in Files
    BY ContentsTyped DEF TypeOK, Files
  <2>2. overlap' \in BOOLEAN
    BY <1>12 DEF OpenTmp, Touch
  <2>3. QED
    BY <1>12, <2>1, <2>2 DEF OpenTmp, Step, TypeOK, Steps, qvars
<1>13. ASSUME NEW w \in Workers, Flush(w) PROVE TypeOK'
  <2>1. loc[w].put \in Contents /\ live.data \in Contents
    BY DEF TypeOK, Files
  <2>2. live' \in Files
    <3>1. Over(live.data, loc[w].put) \in Contents
      BY <2>1, ContentsTyped
    <3>2. QED
      BY <1>13, <3>1 DEF Flush, Put, TypeOK, Files
  <2>3. tmp' \in Files \cup {NoFile}
    <3>1. CASE fd[w] = "tmp"
      <4>1. tmp \in Files
        BY <3>1 DEF OwnPath, TypeOK
      <4>2. Over(tmp.data, loc[w].put) \in Contents
        BY <2>1, <4>1, ContentsTyped DEF Files
      <4>3. QED
        BY <1>13, <3>1, <4>2 DEF Flush, Put, TypeOK, Files
    <3>2. CASE fd[w] # "tmp"
      BY <1>13, <3>2 DEF Flush, Put, TypeOK
    <3>3. QED
      BY <3>1, <3>2
  <2>4. overlap' \in BOOLEAN
    BY <1>13 DEF Flush, Touch
  <2>5. recent' \subseteq Contents
    BY <1>13, <1>e, <2>2 DEF Flush
  <2>6. QED
    BY <1>13, <2>2, <2>3, <2>4, <2>5 DEF Flush, Step, TypeOK, Steps, qvars
<1>14. ASSUME NEW w \in Workers, Rename(w) PROVE TypeOK'
  <2>1. overlap' \in BOOLEAN
    BY <1>14 DEF Rename, Touch
  <2>2. CASE tmp = NoFile
    BY <1>14, <2>1, <2>2, GiveUpTyped DEF Rename, TypeOK, Locals, qvars
  <2>3. CASE tmp # NoFile
    <3>1. fd' \in [Workers -> {"none", "tmp", "live", "gone"}]
      BY <1>14, <2>3 DEF Rename, Moved, TypeOK
    <3>2. recent' \subseteq Contents
      BY <1>14, <1>e, <2>3 DEF Rename, TypeOK
    <3>3. QED
      BY <1>14, <2>1, <2>3, <3>1, <3>2 DEF Rename, Step, TypeOK, Steps, qvars
  <2>4. QED
    BY <2>2, <2>3
<1>15. ASSUME NEW w \in Workers, WriteFails(w) PROVE TypeOK'
  <2>1. overlap' \in BOOLEAN
    BY <1>15 DEF WriteFails, Touch
  <2>2. live' \in Files
    BY <1>15, ContentsTyped DEF WriteFails, TypeOK, Files
  <2>3. fd' \in [Workers -> {"none", "tmp", "live", "gone"}]
    BY <1>15 DEF WriteFails, Moved, TypeOK
  <2>4. faults' \in 0..MaxFaults
    BY <1>15, CsvAssumption DEF WriteFails, TypeOK
  <2>5. recent' \subseteq Contents
    BY <1>15, <1>e, <2>2 DEF WriteFails
  <2>6. QED
    BY <1>15, <2>1, <2>2, <2>3, <2>4, <2>5, GiveUpTyped DEF WriteFails, TypeOK, Locals, qvars
<1>16. ASSUME NEW w \in Workers, Digest(w) PROVE TypeOK'
  <2>1. live.data \in Contents /\ registry \in Contents
    BY DEF TypeOK, Files
  <2>2. loc' \in [Workers -> Locals]
    BY <1>16, <2>1 DEF Digest, TypeOK, Locals
  <2>3. QED
    BY <1>16, <2>2 DEF Digest, Step, TypeOK, Steps, Locals, qvars
<1>17. ASSUME NEW w \in Workers, Record(w) PROVE TypeOK'
  <2>1. loc' \in [Workers -> Locals] /\ registry' \in Contents
    <3>1. loc' = [loc EXCEPT ![w] = [loc[w] EXCEPT !.got = {}]]
      BY <1>17 DEF Record
    <3>2. [loc[w] EXCEPT !.got = {}] \in Locals
      BY ContentsTyped, NotesTyped, OneNote
    <3>3. registry' \in Contents
      BY <1>17, OneNote DEF Record, Locals
    <3>4. QED
      BY <3>1, <3>2, <3>3, OneNote
  <2>2. QED
    BY <1>17, <2>1 DEF Record, Step, TypeOK, Steps, Locals, qvars
<1>18. ASSUME NEW w \in Workers, Reply(w) PROVE TypeOK'
  <2>1. cache' \in [Processes -> Hashes \cup {NoHash}]
    BY <1>18, <1>a DEF Reply
  <2>2. CASE loc[w].op = "process"
    BY <1>18, <2>1, <2>2 DEF Reply, Step, TypeOK, Steps, qvars
  <2>3. CASE loc[w].op # "process"
    <3>1. Token(loc[w].put, w) \in Views
      BY <1>a DEF TypeOK
    <3>2. view' \in [Workers -> Views \cup {NoView}]
      BY <1>18, <2>3, <3>1 DEF Reply, TypeOK, Views
    <3>3. QED
      BY <1>18, <2>1, <2>3, <3>2, ReturnTyped DEF Reply, TypeOK, Locals, Views, qvars
  <2>4. QED
    BY <2>2, <2>3
<1>19. ASSUME NEW w \in Workers, Aftermath(w) PROVE TypeOK'
  <2>1. faults' \in 0..MaxFaults
    BY <1>19, CsvAssumption DEF Aftermath, TypeOK
  <2>2. QED
    BY <1>19, <2>1, GiveUpTyped DEF Aftermath, TypeOK, Locals, qvars
<1>20. ASSUME NEW w \in Workers, Answer(w) PROVE TypeOK'
  <2>1. cache' \in [Processes -> Hashes \cup {NoHash}]
    BY <1>20, <1>a DEF Answer
  <2>2. loc[w].op # "load" => view[w] \in Views
    BY <1>20 DEF Answer, OwnPath, On, Saving, Proving, Checking, TypeOK, Views
  <2>3. \E x \in Contents : view' = [view EXCEPT ![w] = Token(x, w)]
    <3>1. (IF loc[w].op = "load" THEN loc[w].put ELSE view[w].rows) \in Contents
      BY <2>2 DEF TypeOK, Views
    <3>2. QED
      BY <1>20, <3>1 DEF Answer, TypeOK
  <2>4. view' \in [Workers -> Views \cup {NoView}]
    BY <1>a, <2>3 DEF TypeOK, Views
  <2>5. QED
    BY <1>20, <2>1, <2>4, ReturnTyped DEF Answer, TypeOK, Locals, Views, qvars
<1>21. CASE Tick
  BY <1>21, CsvAssumption DEF Tick, TypeOK, qvars
<1>22. CASE Crash
  <2>1. loc' \in [Workers -> Locals] /\ pc' \in [Workers -> Steps]
    BY <1>22, IdleTyped DEF Crash, Steps
  <2>2. faults' \in 0..MaxFaults
    BY <1>22, CsvAssumption DEF Crash, TypeOK
  <2>3. QED
    BY <1>22, <2>1, <2>2 DEF Crash, TypeOK, Locals, qvars
<1>23. CASE UNCHANGED vars
  BY <1>23 DEF vars, TypeOK
<1>24. QED
  BY <1>1, <1>2, <1>3, <1>4, <1>5, <1>6, <1>7, <1>8, <1>9, <1>c, <1>d, <1>10, <1>11, <1>12,
     <1>13, <1>14, <1>15, <1>16, <1>17, <1>18, <1>19, <1>20, <1>21, <1>22, <1>23
  DEF Next

----------------------------------------------------------------------------
(* Who does what.                                                          *)

\* A step of one worker leaves the others, and their screens, alone.
LEMMA OthersRest ==
    ASSUME TypeOK, NEW w \in Workers, Act(w)
    PROVE  \A v \in Workers \ {w} : pc'[v] = pc[v] /\ loc'[v] = loc[v] /\ view'[v] = view[v]
<1> DEFINE Others == \A v \in Workers \ {w} : pc'[v] = pc[v] /\ loc'[v] = loc[v]
<1>1. \A v \in Workers \ {w} : view'[v] = view[v]
  <2>1. UNCHANGED view \/ \E x : view' = [view EXCEPT ![w] = x]
    BY DEF Act, Begin, BeginLoad, BeginCleanup, BeginOther, BeginKeep, BeginRevert,
           BeginSave, BeginSubmit, BeginProcess, Start, AcquireQueue, Store, Verdict, Mark,
           Acquire, LockTimeout, ReadRows, End, Stat, Check, Compare, Refuse, Diff, Gate,
           OpenTmp, Flush, Rename, WriteFails, Digest, Record, Reply, Aftermath, Answer
  <2>2. QED
    BY <2>1 DEF TypeOK
<1>2. ASSUME Return(w) PROVE Others
  BY <1>2, ReturnTyped
<1>3. ASSUME GiveUp(w) PROVE Others
  BY <1>3, GiveUpTyped
<1>4. ASSUME \E from, to : Step(w, from, to), UNCHANGED loc PROVE Others
  BY <1>4 DEF Step, TypeOK
<1>5. ASSUME \E from, to : Step(w, from, to), NEW x, loc' = [loc EXCEPT ![w] = x] PROVE Others
  BY <1>5 DEF Step, TypeOK
<1>6. CASE Begin(w)
  BY <1>5, <1>6
  DEF Begin, BeginLoad, BeginCleanup, BeginOther, BeginKeep, BeginRevert, BeginSave,
      BeginSubmit, BeginProcess, Start
<1>7. CASE Store(w) \/ Mark(w) \/ LockTimeout(w) \/ End(w) \/ Answer(w)
  BY <1>1, <1>2, <1>7 DEF Store, Mark, LockTimeout, End, Answer
<1>8. CASE Verdict(w) /\ ~Return(w)
  BY <1>1, <1>8 DEF Verdict, Step, TypeOK
<1>9. CASE ReadRows(w) \/ Digest(w) \/ Record(w) \/ Stat(w) \/ (Refuse(w) /\ ~Return(w))
  BY <1>1, <1>9 DEF ReadRows, Digest, Record, Stat, Refuse, Step, TypeOK
<1>10. CASE AcquireQueue(w) \/ Acquire(w) \/ Diff(w) \/ OpenTmp(w) \/ Flush(w)
  BY <1>4, <1>10 DEF AcquireQueue, Acquire, Diff, OpenTmp, Flush
<1>11. CASE (Check(w) \/ Compare(w) \/ Gate(w) \/ Reply(w)) /\ ~Return(w)
  BY <1>4, <1>11 DEF Check, Compare, Gate, Reply
<1>12. CASE Rename(w) \/ WriteFails(w) \/ Aftermath(w)
  BY <1>3, <1>4, <1>12 DEF Rename, WriteFails, Aftermath
<1>13. QED
  BY <1>1, <1>2, <1>6, <1>7, <1>8, <1>9, <1>10, <1>11, <1>12 DEF Act

\* A step of a worker leaves it at a step of its operation.
LEMMA OwnMoves ==
    ASSUME TypeOK, OwnPath, NEW w \in Workers, Act(w)
    PROVE  /\ On(loc'[w].op, pc'[w])
           /\ loc'[w].op \in {"submit", "process"} => loc'[w].req \in Requests
           /\ loc'[w].op = "process" /\ Action[loc'[w].req] = "revert" =>
                 pc'[w] \notin {"rows", "wait", "diff"}
           /\ loc'[w].op \in {"keep", "save", "revert"} => view'[w] # NoView
<1> DEFINE Good == /\ On(loc'[w].op, pc'[w])
                   /\ loc'[w].op \in {"submit", "process"} => loc'[w].req \in Requests
                   /\ loc'[w].op = "process" /\ Action[loc'[w].req] = "revert" =>
                         pc'[w] \notin {"rows", "wait", "diff"}
                   /\ loc'[w].op \in {"keep", "save", "revert"} => view'[w] # NoView
<1>1. ASSUME Return(w) PROVE Good
  <2>1. pc'[w] = "idle" /\ loc'[w].op = "none"
    BY <1>1, ReturnTyped DEF Idle
  <2>2. QED
    BY <2>1 DEF On, Saving, Proving, Checking
<1>2. ASSUME NEW o \in Ops, NEW r, NEW put, NEW to, Start(w, o, r, put, to),
             On(o, to), o \in {"submit", "process"} => r \in Requests, to # "rows" \/ o # "process",
             to \notin {"wait", "diff"} \/ o # "process",
             o \in {"keep", "save", "revert"} => view[w] # NoView
      PROVE  Good
  <2>1. loc'[w].op = o /\ loc'[w].req = r /\ pc'[w] = to /\ view' = view
    BY <1>2 DEF Start, Step, TypeOK, Idle
  <2>2. QED
    BY <1>2, <2>1
<1>3. CASE Begin(w)
  BY <1>2, <1>3
  DEF Begin, BeginLoad, BeginCleanup, BeginOther, BeginKeep, BeginRevert, BeginSave,
      BeginSubmit, BeginProcess, Ops, On, Saving, Proving, Checking
<1>4. CASE Store(w) \/ Mark(w) \/ LockTimeout(w) \/ End(w) \/ Answer(w)
  BY <1>1, <1>4 DEF Store, Mark, LockTimeout, End, Answer
<1>5. ASSUME loc'[w].op = loc[w].op, loc'[w].req = loc[w].req, On(loc[w].op, pc'[w]),
             loc[w].op = "process" =>
                \/ pc'[w] \notin {"rows", "wait", "diff"}
                \/ Action[loc[w].req] # "revert",
             view[w] # NoView => view'[w] # NoView
      PROVE  Good
  BY <1>5 DEF OwnPath
<1>6. CASE \/ AcquireQueue(w) \/ Acquire(w) \/ Diff(w) \/ OpenTmp(w) \/ Flush(w)
           \/ (Gate(w) /\ ~Return(w))
  <2>1. loc' = loc /\ view' = view
    BY <1>6 DEF AcquireQueue, Acquire, Diff, OpenTmp, Flush, Gate
  <2>2. On(loc[w].op, pc'[w])
    BY <1>6 DEF AcquireQueue, Acquire, Diff, OpenTmp, Flush, Gate, Step, TypeOK, OwnPath,
                On, Saving, Proving, Checking
  <2>3. loc[w].op = "process" =>
           \/ pc'[w] \notin {"rows", "wait", "diff"} \/ Action[loc[w].req] # "revert"
    BY <1>6 DEF AcquireQueue, Acquire, Diff, OpenTmp, Flush, Gate, Step, TypeOK, OwnPath
  <2>4. QED
    BY <1>5, <2>1, <2>2, <2>3
<1>7. CASE Verdict(w) /\ ~Return(w)
  <2>1. /\ pc[w] = "verdict" /\ view' = view
        /\ \/ pc'[w] = "mark"
           \/ pc'[w] = IF Action[loc[w].req] = "revert" THEN "open" ELSE "rows"
        /\ loc'[w].op = loc[w].op /\ loc'[w].req = loc[w].req
    BY <1>7 DEF Verdict, Step, TypeOK
  <2>2. QED
    BY <1>5, <2>1 DEF OwnPath, On, Saving, Proving, Checking
<1>8. CASE ReadRows(w)
  <2>1. /\ pc[w] = "rows" /\ view' = view
        /\ loc'[w].op = loc[w].op /\ loc'[w].req = loc[w].req
        /\ IF loc[w].op = "process" THEN pc'[w] \in {"mark", "wait"}
           ELSE \/ pc'[w] = "open"
                \/ pc'[w] = IF loc[w].op = "load" THEN "token" ELSE "end"
    <3>1. CASE loc[w].op = "process"
      BY <1>8, <3>1 DEF ReadRows, Step, TypeOK
    <3>2. CASE loc[w].op # "process"
      <4>1. loc' = [loc EXCEPT ![w] = [@ EXCEPT !.got = live.data, !.put = Kept(live.data)]]
        BY <1>8, <3>2 DEF ReadRows
      <4>2. loc'[w].op = loc[w].op /\ loc'[w].req = loc[w].req
        BY <4>1 DEF TypeOK
      <4>3. QED
        BY <1>8, <3>2, <4>2 DEF ReadRows, Step, TypeOK
    <3>3. QED
      BY <3>1, <3>2
  <2>2. QED
    BY <1>5, <2>1 DEF OwnPath, On, Saving, Proving, Checking
<1>9. CASE (Check(w) \/ Compare(w)) /\ ~Return(w)
  <2>1. /\ loc' = loc /\ view' = view
        /\ \/ pc[w] = "check" /\ pc'[w] = "stat"
           \/ pc[w] = "compare" /\ pc'[w] = IF loc[w].op = "save" THEN "diff" ELSE "open"
    BY <1>9 DEF Check, Compare, Checked, Step, TypeOK
  <2>2. QED
    BY <1>5, <2>1 DEF OwnPath, On, Saving, Proving, Checking
<1>a. CASE Stat(w)
  <2>1. /\ view' = view /\ loc'[w].op = loc[w].op /\ loc'[w].req = loc[w].req
        /\ \/ pc[w] = "token" /\ pc'[w] = "answer"
           \/ pc[w] = "stat" /\ pc'[w] = "compare"
           \/ pc[w] = "reply" /\ pc'[w] = "replied"
    BY <1>a DEF Stat, Step, TypeOK
  <2>2. QED
    BY <1>5, <2>1 DEF OwnPath, On, Saving, Proving, Checking
<1>b. CASE Refuse(w) /\ ~Return(w)
  <2>1. /\ view' = view /\ loc'[w].op = loc[w].op /\ loc'[w].req = loc[w].req
        /\ loc[w].op = "process" /\ pc'[w] = "mark"
    BY <1>b DEF Refuse, Step, TypeOK
  <2>2. QED
    BY <1>5, <2>1 DEF OwnPath, On, Saving, Proving, Checking
<1>10. CASE Digest(w) \/ Record(w)
  <2>1. /\ view' = view /\ loc'[w].op = loc[w].op /\ loc'[w].req = loc[w].req
        /\ \/ pc[w] = "digest" /\ pc'[w] = "record"
           \/ /\ pc[w] = "record"
              /\ pc'[w] = IF loc[w].op = "load" THEN "token"
                          ELSE IF loc[w].op \in {"cleanup", "other"} THEN "end" ELSE "reply"
    BY <1>10 DEF Digest, Record, Step, TypeOK
  <2>2. QED
    BY <1>5, <2>1 DEF OwnPath, On, Saving, Proving, Checking
<1>11. CASE Reply(w) /\ ~Return(w)
  <2>1. /\ pc[w] = "replied" /\ loc' = loc /\ view' = view
        /\ loc[w].op = "process" /\ pc'[w] = "mark"
    BY <1>11 DEF Reply, Step, TypeOK
  <2>2. QED
    BY <1>5, <2>1 DEF OwnPath, On, Saving, Proving, Checking
<1>12. ASSUME GiveUp(w), view' = view PROVE Good
  <2>1. CASE loc[w].op \in {"load", "process"}
    <3>1. /\ pc'[w] = IF loc[w].op = "load" THEN "token" ELSE "mark"
          /\ loc'[w].op = loc[w].op /\ loc'[w].req = loc[w].req
      BY <1>12, <2>1, GiveUpTyped DEF TypeOK
    <3>2. QED
      BY <1>5, <1>12, <2>1, <3>1 DEF On, Saving, Proving, Checking
  <2>2. CASE loc[w].op \notin {"load", "process"}
    BY <1>1, <1>12, <2>2 DEF GiveUp
  <2>3. QED
    BY <2>1, <2>2
<1>13. CASE Rename(w) /\ tmp # NoFile
  <2>1. pc[w] = "rename" /\ loc' = loc /\ view' = view /\ pc'[w] = "digest"
    BY <1>13 DEF Rename, Step, TypeOK
  <2>2. QED
    BY <1>5, <2>1 DEF OwnPath, On, Saving, Proving, Checking
<1>14. CASE (Rename(w) /\ tmp = NoFile) \/ WriteFails(w) \/ Aftermath(w)
  BY <1>12, <1>14 DEF Rename, WriteFails, Aftermath
<1>15. QED
  <2>1. Refuse(w) /\ Return(w) => Good
    BY <1>1
  <2>2. QED
    BY <1>1, <1>3, <1>4, <1>6, <1>7, <1>8, <1>9, <1>a, <1>b, <1>10, <1>11, <1>13, <1>14, <2>1
    DEF Act

\* A file that a worker has open is <csv>.tmp until it is renamed or removed.
LEMMA OpenFiles ==
    ASSUME TypeOK, OwnPath, NEW w \in Workers, Act(w), NEW v \in Workers
    PROVE  /\ fd'[v] # "none" => pc'[v] = "flush"
           /\ fd'[v] = "tmp" => tmp' # NoFile
<1>a. \A x \in Workers \ {w} : pc'[x] = pc[x]
  BY OthersRest
<1>1. CASE OpenTmp(w)
  <2>1. [data |-> Blank, mtime |-> clock] # NoFile
    BY CsvAssumption, ContentsTyped DEF TypeOK, Files
  <2>2. QED
    BY <1>1, <1>a, <2>1 DEF OpenTmp, Step, TypeOK, OwnPath
<1>2. CASE Flush(w)
  <2>1. fd[v] = "tmp" /\ v # w => tmp' # NoFile
    <3>1. CASE fd[w] = "tmp"
      <4>1. tmp \in Files /\ loc[w].put \in Contents
        BY <3>1 DEF TypeOK, OwnPath
      <4>2. Over(tmp.data, loc[w].put) \in Contents
        BY <4>1, ContentsTyped DEF Files
      <4>3. [data |-> Over(tmp.data, loc[w].put), mtime |-> clock] \in Files
        BY <4>2 DEF TypeOK, Files
      <4>4. QED
        BY <1>2, <3>1, <4>3, CsvAssumption DEF Flush, Put
    <3>2. CASE fd[w] # "tmp"
      BY <1>2, <3>2 DEF Flush, Put, OwnPath
    <3>3. QED
      BY <3>1, <3>2
  <2>2. QED
    BY <1>2, <1>a, <2>1 DEF Flush, Step, TypeOK, OwnPath
<1>3. CASE Rename(w) /\ tmp # NoFile
  <2>1. fd' = Moved(w, "live")
    BY <1>3 DEF Rename
  <2>2. v = w => fd'[v] = "none"
    BY <2>1 DEF Moved
  <2>3. v # w => fd'[v] # "tmp" /\ (fd'[v] # "none" => fd[v] # "none")
    BY <2>1 DEF Moved
  <2>4. QED
    BY <1>a, <2>2, <2>3 DEF OwnPath
<1>4. CASE WriteFails(w)
  <2>1. fd' = Moved(w, "gone")
    BY <1>4 DEF WriteFails
  <2>2. v = w => fd'[v] = "none"
    BY <2>1 DEF Moved
  <2>3. v # w => fd'[v] # "tmp" /\ (fd'[v] # "none" => fd[v] # "none")
    BY <2>1 DEF Moved
  <2>4. QED
    BY <1>a, <2>2, <2>3 DEF OwnPath
<1>5. CASE ~(OpenTmp(w) \/ Flush(w) \/ (Rename(w) /\ tmp # NoFile) \/ WriteFails(w))
  <2>1. UNCHANGED <<tmp, fd>> /\ pc[w] # "flush"
    BY <1>5
    DEF Act, Begin, BeginLoad, BeginCleanup, BeginOther, BeginKeep, BeginRevert, BeginSave,
        BeginSubmit, BeginProcess, Start, AcquireQueue, Store, Verdict, Mark, Acquire,
        LockTimeout, ReadRows, End, Stat, Check, Compare, Refuse, Diff, Gate, Rename, Digest,
        Record, Reply, Aftermath, Answer, Step, disk
  <2>2. QED
    BY <1>a, <2>1 DEF OwnPath
<1>6. QED
  BY <1>1, <1>2, <1>3, <1>4, <1>5

\* Every step keeps every worker on the path of its operation.
LEMMA PathStep == TypeOK /\ OwnPath /\ [Next]_vars => OwnPath'
<1> SUFFICES ASSUME TypeOK, OwnPath, [Next]_vars PROVE OwnPath'
  OBVIOUS
<1>1. ASSUME NEW w \in Workers, Act(w) PROVE OwnPath'
  <2> SUFFICES ASSUME NEW v \in Workers
               PROVE  /\ On(loc'[v].op, pc'[v])
                      /\ loc'[v].op \in {"submit", "process"} => loc'[v].req \in Requests
                      /\ loc'[v].op = "process" /\ Action[loc'[v].req] = "revert" =>
                            pc'[v] \notin {"rows", "wait", "diff"}
                      /\ loc'[v].op \in {"keep", "save", "revert"} => view'[v] # NoView
                      /\ fd'[v] # "none" => pc'[v] = "flush"
                      /\ fd'[v] = "tmp" => tmp' # NoFile
    BY DEF OwnPath, On
  <2>1. CASE v = w
    BY <1>1, <2>1, OwnMoves, OpenFiles
  <2>2. CASE v # w
    <3>1. pc'[v] = pc[v] /\ loc'[v] = loc[v] /\ view'[v] = view[v]
      BY <1>1, <2>2, OthersRest
    <3>2. QED
      BY <1>1, <3>1, OpenFiles DEF OwnPath
  <2>3. QED
    BY <2>1, <2>2
<1>2. CASE Tick \/ UNCHANGED vars
  BY <1>2 DEF Tick, vars, disk, OwnPath, On
<1>3. CASE Crash
  BY <1>3 DEF Crash, OwnPath, On, Idle
<1>4. QED
  BY <1>1, <1>2, <1>3 DEF Next, Act

\* Types, and where each worker can be.
LEMMA Typed == Spec => [](TypeOK /\ OwnPath)
<1>1. Init => TypeOK /\ OwnPath
  <2> SUFFICES ASSUME Init PROVE TypeOK /\ OwnPath
    OBVIOUS
  <2>1. queue \in Queues /\ known \subseteq Requests /\ old = {}
    BY CsvAssumption DEF Init, QInit, Queues, Status
  <2>2. live \in Files /\ registry \in Contents
    BY CsvAssumption, ContentsTyped DEF Init, Files
  <2>3. pc \in [Workers -> Steps] /\ loc \in [Workers -> Locals]
    BY IdleTyped DEF Init, Steps
  <2>4. /\ fd \in [Workers -> {"none", "tmp", "live", "gone"}]
        /\ view \in [Workers -> Views \cup {NoView}]
        /\ payload \in [Requests -> Contents]
        /\ cache \in [Processes -> Hashes \cup {NoHash}]
    BY ContentsTyped DEF Init
  <2>5. clock \in 0..MaxClock /\ asked \in 0..MaxRequests /\ faults \in 0..MaxFaults
    BY CsvAssumption DEF Init
  <2>6. TypeOK
    <3>0. recent \subseteq Contents
      BY ContentsTyped DEF Init
    <3>1. tmp = NoFile /\ lock = NoOne /\ qlock = NoOne /\ overlap \in BOOLEAN
      BY DEF Init
    <3>2. QED
      BY <2>1, <2>2, <2>3, <2>4, <2>5, <3>0, <3>1 DEF TypeOK, Locals, Views
  <2>7. OwnPath
    BY DEF Init, OwnPath, On, Idle
  <2>8. QED
    BY <2>6, <2>7
<1>2. QED
  BY <1>1, TypeStep, PathStep, PTL DEF Spec

\* Every variable has its type, whatever overlaps and fails (write_csv, _save_csv).
THEOREM TypeCorrect == Spec => []TypeOK
BY Typed, PTL

----------------------------------------------------------------------------
(* The two locks.                                                          *)

\* A save, or the replay of one, is between taking the lock of the CSV and its answer.
Guarded(w) ==
    /\ \/ loc[w].op = "save"
       \/ loc[w].op = "process" /\ Action[loc[w].req] # "revert"
    /\ pc[w] \in {"diff", "gate"} \cup Proving \cup Saving

\* An approval has the queue's lock.
Replaying(w) == loc[w].op = "process" /\ pc[w] # "qwait"

\* Who is between taking a lock and releasing it has it; the request that is being
\* approved stays pending until it is marked.
Held ==
    \A w \in Workers :
        /\ Guarded(w) => lock = w
        /\ pc[w] = "store" \/ Replaying(w) => qlock = w
        /\ Replaying(w) /\ pc[w] # "verdict" => queue[loc[w].req] = "pending"

\* A step takes a lock that is free, releases one's own, or leaves it; and the queue
\* changes at three steps only.
LEMMA LockMoves ==
    ASSUME NEW w \in Workers, Act(w)
    PROVE  /\ \/ lock' = lock
              \/ lock = NoOne /\ lock' = w
              \/ lock = w /\ lock' = NoOne
           /\ \/ qlock' = qlock
              \/ qlock = NoOne /\ qlock' = w
              \/ qlock = w /\ qlock' = NoOne
           /\ queue' = queue \/ pc[w] \in {"store", "verdict", "mark"}
BY DEF Act, Begin, BeginLoad, BeginCleanup, BeginOther, BeginKeep, BeginRevert, BeginSave,
       BeginSubmit, BeginProcess, Start, AcquireQueue, Store, Verdict, Mark, Acquire,
       LockTimeout, ReadRows, End, Stat, Check, Compare, Refuse, Diff, Gate, OpenTmp, Flush,
       Rename, WriteFails, Digest, Record, Reply, Aftermath, Answer, GiveUp, Return, qvars

\* A step of a worker leaves it with the locks it is to have.
LEMMA HeldOwn ==
    ASSUME TypeOK, OwnPath, OwnPath', Held, NEW w \in Workers, Act(w)
    PROVE  /\ Guarded(w)' => lock' = w
           /\ pc'[w] = "store" \/ Replaying(w)' => qlock' = w
           /\ Replaying(w)' /\ pc'[w] # "verdict" => queue'[loc'[w].req] = "pending"
<1> DEFINE Good == /\ Guarded(w)' => lock' = w
                   /\ pc'[w] = "store" \/ Replaying(w)' => qlock' = w
                   /\ Replaying(w)' /\ pc'[w] # "verdict" => queue'[loc'[w].req] = "pending"
<1>1. ASSUME Return(w) PROVE Good
  <2>1. pc'[w] = "idle" /\ loc'[w].op = "none"
    BY <1>1, ReturnTyped DEF Idle
  <2>2. QED
    BY <2>1 DEF Guarded, Replaying, Saving, Proving, Checking
<1>2. ASSUME NEW o \in Ops, NEW r, NEW put, NEW to, Start(w, o, r, put, to),
             o = "process" => to = "qwait", to # "store", o # "save" \/ to = "wait"
      PROVE  Good
  <2>1. loc'[w].op = o /\ pc'[w] = to
    BY <1>2 DEF Start, Step, TypeOK, Idle
  <2>2. QED
    BY <1>2, <2>1 DEF Guarded, Replaying, Saving, Proving, Checking
<1>3. CASE Begin(w)
  BY <1>2, <1>3
  DEF Begin, BeginLoad, BeginCleanup, BeginOther, BeginKeep, BeginRevert, BeginSave,
      BeginSubmit, BeginProcess, Ops
<1>4. CASE Store(w) \/ Mark(w) \/ LockTimeout(w) \/ End(w) \/ Answer(w)
  BY <1>1, <1>4 DEF Store, Mark, LockTimeout, End, Answer
<1>5. CASE AcquireQueue(w)
  <2>1. pc'[w] \in {"store", "verdict"} /\ loc' = loc /\ qlock' = w /\ pc[w] = "qwait"
    BY <1>5 DEF AcquireQueue, Step, TypeOK
  <2>2. pc'[w] = "store" => loc[w].op = "submit"
    BY <1>5 DEF AcquireQueue, Step, TypeOK
  <2>3. QED
    BY <2>1, <2>2 DEF Guarded, Replaying, Saving, Proving, Checking
<1>6. CASE Verdict(w) /\ ~Return(w)
  <2>1. /\ pc[w] = "verdict" /\ loc'[w].op = loc[w].op /\ loc'[w].req = loc[w].req
        /\ queue' = queue /\ queue[loc[w].req] = "pending" /\ qlock' = qlock
        /\ \/ pc'[w] = "mark"
           \/ pc'[w] = IF Action[loc[w].req] = "revert" THEN "open" ELSE "rows"
    BY <1>6 DEF Verdict, Step, TypeOK, qvars
  <2>2. loc[w].op = "process"
    BY <2>1 DEF OwnPath, On, Saving, Proving, Checking
  <2>3. qlock = w
    BY <2>1, <2>2 DEF Held, Replaying
  <2>4. QED
    BY <2>1, <2>2, <2>3 DEF Guarded, Replaying, Saving, Proving, Checking
<1>7. CASE Acquire(w)
  <2>1. lock' = w /\ loc' = loc /\ qlock' = qlock /\ queue' = queue
        /\ pc[w] = "wait" /\ pc'[w] \in {"check", "diff"}
    BY <1>7 DEF Acquire, Step, TypeOK, qvars
  <2>2. QED
    BY <2>1 DEF Held, Guarded, Replaying, Saving, Proving, Checking
<1>8. ASSUME lock' = lock, qlock' = qlock, queue' = queue,
             loc'[w].op = loc[w].op, loc'[w].req = loc[w].req,
             Guarded(w)' => Guarded(w), pc'[w] # "store",
             pc[w] \notin {"qwait", "verdict"}
      PROVE  Good
  BY <1>8 DEF Held, Replaying
<1>9. CASE Diff(w) \/ OpenTmp(w) \/ Flush(w)
  <2>1. /\ lock' = lock /\ qlock' = qlock /\ queue' = queue /\ loc' = loc
        /\ pc[w] \in {"diff", "open", "flush"} /\ pc'[w] # "store"
    BY <1>9 DEF Diff, OpenTmp, Flush, Step, TypeOK, qvars
  <2>2. QED
    BY <1>8, <2>1 DEF Guarded, Saving, Proving, Checking
<1>10. CASE (Gate(w) \/ Check(w) \/ Compare(w)) /\ ~Return(w)
  <2>1. /\ lock' = lock /\ qlock' = qlock /\ queue' = queue /\ loc' = loc
        /\ pc[w] \in {"gate", "check", "compare"} /\ pc'[w] # "store"
    BY <1>10 DEF Gate, Check, Compare, Checked, Step, TypeOK, qvars
  <2>2. QED
    BY <1>8, <2>1 DEF Guarded, Saving, Proving, Checking
<1>a. CASE Stat(w)
  <2>1. /\ lock' = lock /\ qlock' = qlock /\ queue' = queue
        /\ loc'[w].op = loc[w].op /\ loc'[w].req = loc[w].req
        /\ \/ pc[w] = "token" /\ pc'[w] = "answer"
           \/ pc[w] \in {"stat", "reply"} /\ pc'[w] # "store"
    BY <1>a DEF Stat, Step, TypeOK, qvars
  <2>2. QED
    BY <1>8, <2>1 DEF Guarded, Saving, Proving, Checking
<1>b. CASE Refuse(w) /\ ~Return(w)
  <2>1. /\ qlock' = qlock /\ queue' = queue /\ pc[w] = "diff" /\ pc'[w] = "mark"
        /\ loc'[w].op = loc[w].op /\ loc'[w].req = loc[w].req /\ loc[w].op = "process"
    BY <1>b DEF Refuse, Step, TypeOK, qvars
  <2>2. QED
    BY <2>1 DEF Held, Guarded, Replaying, Saving, Proving, Checking
<1>11. CASE ReadRows(w)
  <2>1. /\ lock' = lock /\ qlock' = qlock /\ queue' = queue /\ pc[w] = "rows"
    BY <1>11 DEF ReadRows, Step, qvars
  <2>2. CASE loc[w].op = "process"
    <3>1. /\ loc'[w].op = loc[w].op /\ loc'[w].req = loc[w].req
          /\ pc'[w] \in {"mark", "wait"}
      BY <1>11, <2>2 DEF ReadRows, Step, TypeOK
    <3>2. QED
      BY <1>8, <2>1, <3>1 DEF Guarded, Saving, Proving, Checking
  <2>3. CASE loc[w].op # "process"
    <3>1. /\ loc' = [loc EXCEPT ![w] = [@ EXCEPT !.got = live.data, !.put = Kept(live.data)]]
          /\ \E s \in {"open", "token", "end"} : pc' = [pc EXCEPT ![w] = s]
      BY <1>11, <2>3 DEF ReadRows, Step
    <3>2. loc'[w].op = loc[w].op /\ loc'[w].req = loc[w].req /\ pc'[w] # "store"
      BY <3>1 DEF TypeOK
    <3>3. loc[w].op # "save"
      BY <2>1 DEF OwnPath, On, Saving, Proving, Checking
    <3>4. QED
      BY <1>8, <2>1, <2>3, <3>2, <3>3 DEF Guarded
  <2>4. QED
    BY <2>2, <2>3
<1>12. CASE Digest(w) \/ Record(w)
  <2>1. /\ lock' = lock /\ qlock' = qlock /\ queue' = queue
        /\ loc'[w].op = loc[w].op /\ loc'[w].req = loc[w].req
        /\ pc[w] \in {"digest", "record"} /\ pc'[w] # "store"
    BY <1>12 DEF Digest, Record, Step, TypeOK, qvars
  <2>2. QED
    BY <1>8, <2>1 DEF Guarded, Saving, Proving, Checking
<1>13. CASE Reply(w) /\ ~Return(w)
  <2>1. /\ pc[w] = "replied" /\ loc' = loc /\ pc'[w] = "mark"
        /\ qlock' = qlock /\ queue' = queue
    BY <1>13 DEF Reply, Step, TypeOK, qvars
  <2>2. QED
    BY <2>1 DEF Held, Guarded, Replaying, Saving, Proving, Checking
<1>14. ASSUME GiveUp(w), pc[w] \in {"flush", "rename", "reply"}, queue' = queue PROVE Good
  <2>1. CASE loc[w].op \in {"load", "process"}
    <3>1. /\ qlock' = qlock
          /\ pc' = [pc EXCEPT ![w] = IF loc[w].op = "load" THEN "token" ELSE "mark"]
          /\ loc' = [loc EXCEPT ![w].put = loc[w].got, ![w].ok = "failed"]
      BY <1>14, <2>1 DEF GiveUp
    <3>2. /\ pc'[w] = IF loc[w].op = "load" THEN "token" ELSE "mark"
          /\ loc'[w].op = loc[w].op /\ loc'[w].req = loc[w].req
      BY <3>1 DEF TypeOK
    <3>3. QED
      BY <1>14, <2>1, <3>1, <3>2 DEF Held, Guarded, Replaying, Saving, Proving, Checking
  <2>2. CASE loc[w].op \notin {"load", "process"}
    BY <1>1, <1>14, <2>2 DEF GiveUp
  <2>3. QED
    BY <2>1, <2>2
<1>15. CASE Rename(w) /\ tmp # NoFile
  <2>1. /\ lock' = lock /\ qlock' = qlock /\ queue' = queue /\ loc' = loc
        /\ pc[w] = "rename" /\ pc'[w] = "digest"
    BY <1>15 DEF Rename, Step, TypeOK, qvars
  <2>2. QED
    BY <1>8, <2>1 DEF Guarded, Saving, Proving, Checking
<1>16. CASE (Rename(w) /\ tmp = NoFile) \/ WriteFails(w) \/ Aftermath(w)
  BY <1>14, <1>16 DEF Rename, WriteFails, Aftermath, qvars
<1>17. QED
  <2>1. Refuse(w) /\ Return(w) => Good
    BY <1>1
  <2>2. QED
    BY <1>1, <1>3, <1>4, <1>5, <1>6, <1>7, <1>9, <1>10, <1>a, <1>b, <1>11, <1>12, <1>13,
       <1>15, <1>16, <2>1
    DEF Act

\* Every step keeps the locks with who has them.
LEMMA HeldStep == TypeOK /\ OwnPath /\ OwnPath' /\ Held /\ [Next]_vars => Held'
<1> SUFFICES ASSUME TypeOK, OwnPath, OwnPath', Held, [Next]_vars PROVE Held'
  OBVIOUS
<1>1. ASSUME NEW w \in Workers, Act(w), NEW v \in Workers \ {w}
      PROVE  /\ Guarded(v)' => lock' = v
             /\ pc'[v] = "store" \/ Replaying(v)' => qlock' = v
             /\ Replaying(v)' /\ pc'[v] # "verdict" => queue'[loc'[v].req] = "pending"
  <2>1. pc'[v] = pc[v] /\ loc'[v] = loc[v]
    BY <1>1, OthersRest
  <2>2. v # NoOne
    BY CsvAssumption
  <2>3. queue' = queue \/ qlock = w
    <3>1. pc[w] \in {"store", "verdict", "mark"} => qlock = w
      BY DEF Held, OwnPath, On, Saving, Proving, Checking, Replaying
    <3>2. QED
      BY <1>1, <3>1, LockMoves
  <2>4. QED
    BY <1>1, <2>1, <2>2, <2>3, LockMoves DEF Held, Guarded, Replaying
<1>2. ASSUME NEW w \in Workers, Act(w) PROVE Held'
  <2> SUFFICES ASSUME NEW v \in Workers
               PROVE  /\ Guarded(v)' => lock' = v
                      /\ pc'[v] = "store" \/ Replaying(v)' => qlock' = v
                      /\ Replaying(v)' /\ pc'[v] # "verdict" =>
                            queue'[loc'[v].req] = "pending"
    BY DEF Held
  <2>1. CASE v = w
    BY <1>2, <2>1, HeldOwn
  <2>2. CASE v # w
    BY <1>1, <1>2, <2>2
  <2>3. QED
    BY <2>1, <2>2
<1>3. CASE Tick \/ UNCHANGED vars
  BY <1>3 DEF Tick, vars, qvars, Held, Guarded, Replaying
<1>4. CASE Crash
  BY <1>4 DEF Crash, Held, Guarded, Replaying, Saving, Proving, Checking, Idle
<1>5. QED
  BY <1>2, <1>3, <1>4 DEF Next, Act

\* The locks exclude those who take them (file_lock around _save_csv_locked and around
\* _process_approval).
LEMMA LocksHeld == Spec => []Held
<1>1. Init => Held
  BY DEF Init, Held, Guarded, Replaying, Saving, Proving, Checking, Idle
<1>2. QED
  BY <1>1, HeldStep, Typed, PTL DEF Spec
----------------------------------------------------------------------------
(* What is so as long as no writer without the lock has overlapped another. *)

\* Rows that some client has saved or asked for.
Known == SUBSET (Edits \cup known)

\* The rows that worker w has in hand, and those on its screen, are known ones; those
\* it is submitting have the edit in them that they are submitted for.
Knows(w) ==
    /\ loc[w].got \in Known
    /\ IF loc[w].op = "submit"
       THEN /\ loc[w].put \in SUBSET (Edits \cup known \cup {loc[w].req})
            /\ loc[w].req \in loc[w].put
       ELSE loc[w].put \in Known
    /\ view[w] # NoView => view[w].rows \in Known
    /\ loc[w].op = "process" => loc[w].req \in known

Sound ==
    /\ live.data \in Known /\ registry \in Known
    /\ \A w \in Workers : Knows(w)
    /\ \A r \in Requests : payload[r] \in Known
    /\ \A r \in known : r \in payload[r]

\* <csv>.tmp is the file of the worker that is writing it, and is no older than the CSV.
Prepared(w) ==
    /\ pc[w] = "flush" => fd[w] = "tmp" /\ tmp # NoFile /\ tmp.data = Blank
    /\ pc[w] = "rename" =>
          tmp # NoFile /\ tmp.data = loc[w].put /\ tmp.mtime \in live.mtime..clock

\* What a handler process has cached for the CSV's own stamp, the CSV has been since.
Fresh(p) ==
    cache[p] # NoHash =>
        /\ cache[p].mtime <= live.mtime
        /\ cache[p].mtime = live.mtime => cache[p].data \in recent

\* No stamp is of later than the CSV's, and that is not of later than now.
Dated ==
    /\ live.data \in recent /\ live.mtime <= clock
    /\ \A p \in Processes : Fresh(p)
    /\ \A w \in Workers : loc[w].mtime <= live.mtime

Writing == {"open", "flush", "rename"}

\* What worker w has on its screen was the CSV within the second of what is the CSV.
Seen(w) == live.mtime = view[w].mtime /\ view[w].hash \in recent

\* What worker w is about to write goes with the CSV it will replace.
Intent(w) ==
    /\ loc[w].op \in {"load", "cleanup"} /\ pc[w] \in Writing =>
          loc[w].put = Kept(live.data)
    /\ loc[w].op = "process" /\ pc[w] \in Writing \cup {"wait", "diff"} =>
          IF Action[loc[w].req] = "revert" THEN loc[w].put = Original
          ELSE loc[w].req \in loc[w].put
    /\ \/ loc[w].op = "save" /\ pc[w] \in Writing \cup {"diff", "gate"}
       \/ loc[w].op = "revert" /\ pc[w] \in Writing
       => Seen(w)
    /\ pc[w] \in {"stat", "compare"} => live.mtime = view[w].mtime
    /\ pc[w] = "compare" => loc[w].mtime = live.mtime

\* A client's revert has passed the gate.
Reverting(w) == loc[w].op = "revert" /\ pc[w] \in Writing \cup Checking

\* The replay of a request has changed the CSV and is still to be marked.
Replayed(w) ==
    /\ loc[w].op = "process" /\ loc[w].ok = "done"
    /\ pc[w] \in {"digest", "record", "reply", "replied", "mark"}

\* What a save has refused with status 200 was not to revert.
Overlooked ==
    \A w \in Workers :
        loc[w].ok = "unnoticed" => loc[w].op = "process" /\ Action[loc[w].req] # "revert"

InForce(r) ==
    IF Action[r] = "revert" THEN Kept(live.data) = Kept(Original)
    ELSE r \in live.data \cup Expired

\* A pending request keeps the gate closed: to reverts once it is in the CSV, and to all
\* but the removal of expired rows once it has been carried out.
Closed ==
    /\ \A r \in Pending(queue) : r \in live.data => \A v \in Workers : ~Reverting(v)
    /\ \A w \in Workers : Replayed(w) =>
          /\ InForce(loc[w].req)
          /\ \A v \in Workers \ {w} :
                ~Reverting(v) /\ (pc[v] \in Writing => loc[v].op \in {"load", "cleanup"})

Quiet ==
    ~overlap => /\ Sound /\ Dated
                /\ \A w \in Workers : Prepared(w) /\ Intent(w)
                /\ Closed

IInv == TypeOK /\ OwnPath /\ Held /\ Overlooked /\ Quiet

\* Known rows are contents, with an edit more or without the expired ones as well, and
\* what is written into an empty file is what it then holds.
LEMMA KnownRows ==
    ASSUME TypeOK
    PROVE  /\ {} \in Known /\ Original \in Known /\ Known \subseteq Rows
           /\ \A x \in Known : Kept(x) = x \ Expired /\ Kept(x) \in Known
           /\ \A x \in Known : Kept(Kept(x)) = Kept(x)
           /\ \A x \in Known, e \in Edits : Plus(x, e) \in Known
           /\ \A x \in Known, r \in Requests : Plus(x, r) = x \cup {r}
           /\ \A x \in Contents : Over(Blank, x) = x
<1>1. Known \subseteq Rows
  BY DEF Known, Rows, TypeOK
<1>2. {} \in Known /\ Original \in Known
  BY CsvAssumption DEF Known
<1>3. \A x \in Known : Kept(x) = x \ Expired /\ Kept(x) \in Known
  BY <1>1 DEF Kept, Known
<1>4. \A x \in Known : Kept(Kept(x)) = Kept(x)
  BY <1>3
<1>5. \A x \in Known, e \in Edits : Plus(x, e) \in Known
  BY <1>1 DEF Plus, Known
<1>6. \A x \in Known, r \in Requests : Plus(x, r) = x \cup {r}
  BY <1>1 DEF Plus
<1>7. \A x \in Contents : Over(Blank, x) = x
  BY CsvAssumption DEF Over
<1>8. QED
  BY <1>1, <1>2, <1>3, <1>4, <1>5, <1>6, <1>7

\* Which steps change what.
LEMMA Moves ==
    ASSUME NEW w \in Workers, Act(w)
    PROVE  /\ \/ loc' = loc \/ Return(w) \/ GiveUp(w)
              \/ Begin(w) \/ Verdict(w) \/ ReadRows(w) \/ Digest(w) \/ Record(w)
              \/ Stat(w) \/ (Refuse(w) /\ ~Return(w))
           /\ \/ UNCHANGED disk
              \/ (OpenTmp(w) \/ Flush(w) \/ Rename(w) \/ WriteFails(w)) /\ Touch(w)
           /\ view' = view \/ Check(w) \/ Compare(w) \/ Reply(w) \/ Answer(w)
           /\ \/ UNCHANGED <<queue, known, payload>>
              \/ Store(w)
              \/ UNCHANGED <<known, payload>> /\ (Verdict(w) \/ Mark(w))
           /\ registry' = registry \/ Record(w)
           /\ clock' = clock
           /\ cache' = cache \/ (Hashed(w) /\ UNCHANGED disk)
<1>1. CASE Begin(w)
  BY <1>1 DEF Begin, BeginLoad, BeginCleanup, BeginOther, BeginKeep, BeginRevert, BeginSave,
              BeginSubmit, BeginProcess, Start, qvars
<1>2. CASE \/ AcquireQueue(w) \/ Acquire(w) \/ LockTimeout(w) \/ ReadRows(w) \/ End(w)
           \/ Stat(w) \/ Check(w) \/ Compare(w) \/ Refuse(w) \/ Diff(w) \/ Gate(w)
           \/ Digest(w) \/ Record(w) \/ Reply(w) \/ Aftermath(w) \/ Answer(w)
  BY <1>2 DEF AcquireQueue, Acquire, LockTimeout, ReadRows, End, Stat, Check, Compare, Refuse,
              Diff, Gate, Digest, Record, Reply, Aftermath, Answer, qvars, rest
<1>3. CASE Store(w) \/ Verdict(w) \/ Mark(w)
  BY <1>3 DEF Store, Verdict, Mark, Resolve, rest, qvars
<1>4. CASE OpenTmp(w) \/ Flush(w) \/ Rename(w) \/ WriteFails(w)
  BY <1>4 DEF OpenTmp, Flush, Rename, WriteFails, rest, qvars
<1>5. QED
  BY <1>1, <1>2, <1>3, <1>4 DEF Act

\* What was known stays so, and overlaps are not forgotten.
LEMMA Monotone ==
    ASSUME NEW w \in Workers, Act(w)
    PROVE  known \subseteq known' /\ Known \subseteq Known' /\ (overlap => overlap')
<1>1. known \subseteq known'
  BY Moves DEF Store, Submit, qvars
<1>2. overlap => overlap'
  BY Moves DEF disk, Touch
<1>3. QED
  BY <1>1, <1>2 DEF Known

\* Worker w writes and nobody else is near it.
Apart(w) ==
    /\ pc[w] \in Writing
    /\ \A v \in Workers \ {w} : pc[v] \notin Writing \cup Checking /\ ~Guarded(v)

\* Files change in the hands of a worker that is alone with them: two that take the lock
\* exclude each other, and one that does not would overlap.
LEMMA Alone ==
    ASSUME OwnPath, Held, NEW w \in Workers, Act(w), ~overlap'
    PROVE  /\ UNCHANGED disk \/ Apart(w)
           /\ Rename(w) => Apart(w)
<1>1. ASSUME Touch(w), pc[w] \in Writing PROVE Apart(w)
  <2>1. Unlocked(w) \/ Guarded(w)
    BY <1>1 DEF OwnPath, On, Unlocked, Guarded, Writing, Saving
  <2>2. ASSUME NEW v \in Workers \ {w}
        PROVE  pc[v] \notin Writing \cup Checking /\ ~Guarded(v)
    <3>1. ~(Busy(v) /\ (Unlocked(v) \/ Unlocked(w)))
      BY <1>1 DEF Touch
    <3>2. CASE Guarded(v)
      BY <2>1, <3>1, <3>2 DEF Held, Busy
    <3>3. CASE ~Guarded(v) /\ pc[v] \in Writing \cup Checking
      <4>1. Busy(v) /\ ~Unlocked(v)
        BY <3>1, <3>3 DEF Busy, Writing, Checking
      <4>2. On(loc[v].op, pc[v])
        BY DEF OwnPath
      <4>3. loc[v].op \in {"load", "cleanup", "revert", "save", "process"}
        BY <3>3, <4>2 DEF On, Writing, Checking
      <4>4. loc[v].op = "save" \/ (loc[v].op = "process" /\ Action[loc[v].req] # "revert")
        BY <4>1, <4>3 DEF Unlocked
      <4>5. Guarded(v)
        BY <3>3, <4>4 DEF Guarded, Writing, Proving, Saving
      <4>6. QED
        BY <3>3, <4>5
    <3>4. QED
      BY <3>2, <3>3
  <2>3. QED
    BY <1>1, <2>2 DEF Apart
<1>2. ASSUME OpenTmp(w) \/ Flush(w) \/ Rename(w) \/ WriteFails(w)
      PROVE  Touch(w) /\ pc[w] \in Writing
  BY <1>2 DEF OpenTmp, Flush, Rename, WriteFails, Step, Writing
<1>3. QED
  BY <1>1, <1>2, Moves

\* When a prepared worker renames, what it has prepared is the CSV; no other step of one
\* that is prepared changes the CSV.
LEMMA CsvChanges ==
    ASSUME TypeOK, NEW w \in Workers, Act(w), Prepared(w)
    PROVE  \/ live' = live
           \/ /\ live' = tmp /\ tmp.data = loc[w].put
              /\ pc[w] = "rename" /\ pc'[w] = "digest" /\ loc' = loc
<1>1. CASE Flush(w) \/ WriteFails(w)
  BY <1>1 DEF Flush, WriteFails, Step, Put, Prepared
<1>2. CASE Rename(w)
  <2>1. tmp # NoFile
    BY <1>2 DEF Rename, Prepared
  <2>2. QED
    BY <1>2, <2>1 DEF Rename, Prepared, Step, TypeOK
<1>3. CASE OpenTmp(w) \/ UNCHANGED disk
  BY <1>3 DEF OpenTmp, disk
<1>4. QED
  BY <1>1, <1>2, <1>3, Moves

\* What the CSV has been since it got its time stamp changes with it.
LEMMA RecentChanges ==
    ASSUME TypeOK, NEW w \in Workers, Act(w), Prepared(w), live.data \in recent
    PROVE  \/ live' = live /\ recent' = recent
           \/ /\ live' = tmp /\ pc[w] = "rename"
              /\ live'.data \in recent'
              /\ live'.mtime = live.mtime => recent \subseteq recent'
<1>1. CASE Flush(w) \/ WriteFails(w)
  BY <1>1 DEF Flush, WriteFails, Step, Put, Prepared, Stamped
<1>2. CASE Rename(w)
  BY <1>2 DEF Rename, Prepared, Stamped
<1>3. CASE OpenTmp(w) \/ UNCHANGED disk
  BY <1>3 DEF OpenTmp, disk
<1>4. QED
  BY <1>1, <1>2, <1>3, Moves

\* The hash that is looked up for the CSV's own time stamp is of what it has been since
\* (_get_csv_content_hash).
LEMMA HashRecent ==
    ASSUME TypeOK, Dated, NEW w \in Workers, loc[w].mtime = live.mtime
    PROVE  Hash(w) \in recent
BY CsvAssumption DEF Hash, Dated, Fresh

\* Stamps stay in order as long as writers do.
LEMMA DatedStep ==
    ASSUME TypeOK, TypeOK', Dated, NEW w \in Workers, Prepared(w), Act(w)
    PROVE  Dated'
<1> DEFINE m == live.mtime
<1>1. /\ m \in Nat /\ live'.mtime \in Nat /\ clock \in Nat /\ clock' = clock
      /\ \A v \in Workers : loc[v].mtime \in Nat
      /\ \A p \in Processes : cache[p] # NoHash => cache[p].mtime \in Nat
  BY CsvAssumption, Moves DEF TypeOK, Files, Hashes
<1>2. /\ live'.data \in recent' /\ m <= live'.mtime /\ live'.mtime <= clock
      /\ live'.mtime = m => recent \subseteq recent'
  <2>1. CASE live' = live /\ recent' = recent
    BY <1>1, <2>1 DEF Dated
  <2>2. CASE /\ live' = tmp /\ pc[w] = "rename" /\ live'.data \in recent'
             /\ live'.mtime = live.mtime => recent \subseteq recent'
    BY <1>1, <2>2 DEF Prepared
  <2>3. QED
    BY <2>1, <2>2, RecentChanges DEF Dated
<1>3. ASSUME NEW p \in Processes PROVE Fresh(p)'
  <2>1. CASE cache'[p] = cache[p]
    <3>1. Fresh(p)
      BY DEF Dated
    <3>2. CASE cache[p] # NoHash
      BY <1>1, <1>2, <2>1, <3>1, <3>2 DEF Fresh
    <3>3. QED
      BY <2>1, <3>2 DEF Fresh
  <2>2. CASE p = Process[w] /\ Hashed(w) /\ UNCHANGED disk
    <3>1. cache'[p] = [data |-> Hash(w), mtime |-> loc[w].mtime, size |-> loc[w].size]
      BY <2>2 DEF Hashed, TypeOK
    <3>2. cache'[p].mtime = loc[w].mtime /\ cache'[p].data = Hash(w)
      BY <3>1
    <3>3. live' = live /\ recent' = recent
      BY <2>2 DEF disk
    <3>4. loc[w].mtime <= m /\ (loc[w].mtime = m => Hash(w) \in recent)
      BY HashRecent DEF Dated
    <3>5. QED
      BY <3>2, <3>3, <3>4 DEF Fresh
  <2>3. p = Process[w] \/ ~Hashed(w) \/ cache'[p] = cache[p]
    BY CsvAssumption DEF Hashed, TypeOK
  <2>4. QED
    BY <2>1, <2>2, <2>3, Moves
<1>4. ASSUME NEW v \in Workers PROVE loc'[v].mtime <= live'.mtime
  <2>1. loc'[v].mtime \in {0, loc[v].mtime, m}
    <3>1. CASE v # w
      BY <3>1, OthersRest
    <3>2. CASE v = w /\ Return(w)
      BY <3>2, ReturnTyped DEF Idle
    <3>3. CASE v = w /\ GiveUp(w) /\ ~Return(w)
      <4>1. loc'[w] = [loc[w] EXCEPT !.put = loc[w].got, !.ok = "failed"]
        BY <3>3, GiveUpTyped DEF GiveUp
      <4>2. QED
        BY <3>3, <4>1 DEF TypeOK
    <3>4. CASE v = w /\ Begin(w)
      <4>1. \E o, r, put : loc' = [loc EXCEPT ![w] = [Idle EXCEPT !.op = o, !.req = r, !.put = put]]
        BY <3>4 DEF Begin, BeginLoad, BeginCleanup, BeginOther, BeginKeep, BeginRevert,
                    BeginSave, BeginSubmit, BeginProcess, Start
      <4>2. PICK o, r, put : loc' = [loc EXCEPT ![w] = [Idle EXCEPT !.op = o, !.req = r, !.put = put]]
        BY <4>1
      <4>3. loc'[w].mtime = 0
        <5>1. loc'[w] = [Idle EXCEPT !.op = o, !.req = r, !.put = put]
          BY <4>2, OneNote
        <5>2. QED
          BY <5>1 DEF Idle
      <4>4. QED
        BY <3>4, <4>3
    <3>5. CASE /\ v = w /\ ~Return(w)
               /\ \/ Verdict(w) \/ ReadRows(w) \/ Digest(w) \/ Record(w) \/ Refuse(w)
      <4>1. loc'[w].mtime = loc[w].mtime
        <5>1. CASE Verdict(w) \/ Refuse(w)
          BY <3>5, <5>1 DEF Verdict, Refuse, TypeOK
        <5>2. CASE Digest(w) \/ Record(w)
          BY <5>2 DEF Digest, Record, TypeOK
        <5>3. CASE ReadRows(w) /\ loc[w].op = "process"
          BY <5>3 DEF ReadRows, TypeOK
        <5>4. CASE ReadRows(w) /\ loc[w].op # "process"
          <6>1. loc' = [loc EXCEPT ![w] = [@ EXCEPT !.got = live.data, !.put = Kept(live.data)]]
            BY <5>4 DEF ReadRows
          <6>2. QED
            BY <6>1 DEF TypeOK
        <5>5. QED
          BY <3>5, <5>1, <5>2, <5>3, <5>4
      <4>2. QED
        BY <3>5, <4>1
    <3>6. CASE v = w /\ Stat(w)
      <4>1. loc'[w].mtime = m
        BY <3>6 DEF Stat, TypeOK
      <4>2. QED
        BY <3>6, <4>1
    <3>7. QED
      BY <3>1, <3>2, <3>3, <3>4, <3>5, <3>6, Moves
  <2>2. loc[v].mtime <= m
    BY DEF Dated
  <2>3. QED
    BY <1>1, <1>2, <2>1, <2>2
<1>5. QED
  BY <1>1, <1>2, <1>3, <1>4 DEF Dated

\* A worker's own rows stay known ones.
LEMMA KnowsStep ==
    ASSUME TypeOK, TypeOK', OwnPath, Sound, NEW w \in Workers, Act(w)
    PROVE  Knows(w)'
<1> USE KnownRows, Monotone
<1>1. view'[w] # NoView => view'[w].rows \in Known'
  <2>1. CASE view' = view
    BY <2>1 DEF Sound, Knows
  <2>2. CASE (Check(w) \/ Compare(w)) /\ view' # view
    <3>1. /\ pc[w] \in {"check", "compare"}
          /\ \/ view' = [view EXCEPT ![w].mtime = live.mtime]
             \/ view' = [view EXCEPT ![w].hash = Hash(w)]
      BY <2>2 DEF Check, Compare
    <3>2. view[w] # NoView
      BY <3>1 DEF OwnPath, On, Saving, Proving, Checking
    <3>3. view'[w].rows = view[w].rows
      BY <3>1, <3>2 DEF TypeOK
    <3>4. QED
      BY <3>2, <3>3 DEF Sound, Knows
  <2>3. CASE Reply(w)
    <3>1. CASE loc[w].op = "process"
      BY <2>1, <2>3, <3>1 DEF Reply
    <3>2. CASE loc[w].op # "process"
      <4>1. view' = [view EXCEPT ![w] = IF loc[w].op = "revert" THEN NoView
                                        ELSE Token(loc[w].put, w)]
        BY <2>3, <3>2 DEF Reply
      <4>2. view'[w] = NoView \/ view'[w].rows = loc[w].put
        BY <4>1 DEF TypeOK, Token
      <4>3. loc[w].op # "submit"
        BY <2>3 DEF Reply, OwnPath, On, Saving, Proving, Checking
      <4>4. QED
        BY <4>2, <4>3 DEF Sound, Knows
    <3>3. QED
      BY <3>1, <3>2
  <2>4. CASE Answer(w)
    <3>1. pc[w] = "answer"
          /\ view' = [view EXCEPT ![w] = Token(IF loc[w].op = "load" THEN loc[w].put
                                               ELSE @.rows, w)]
      BY <2>4 DEF Answer
    <3>2. view'[w].rows = IF loc[w].op = "load" THEN loc[w].put ELSE view[w].rows
      BY <3>1 DEF TypeOK, Token
    <3>3. loc[w].op = "load" \/ (loc[w].op = "keep" /\ view[w] # NoView)
      BY <3>1 DEF OwnPath, On, Saving, Proving, Checking
    <3>4. QED
      BY <3>2, <3>3 DEF Sound, Knows
  <2>5. QED
    BY <2>1, <2>2, <2>3, <2>4, Moves
<1>2. /\ loc'[w].got \in Known'
      /\ IF loc'[w].op = "submit"
         THEN /\ loc'[w].put \in SUBSET (Edits \cup known' \cup {loc'[w].req})
              /\ loc'[w].req \in loc'[w].put
         ELSE loc'[w].put \in Known'
      /\ loc'[w].op = "process" => loc'[w].req \in known'
  <2> DEFINE Good == /\ loc'[w].got \in Known'
                     /\ IF loc'[w].op = "submit"
                        THEN /\ loc'[w].put \in SUBSET (Edits \cup known' \cup {loc'[w].req})
                             /\ loc'[w].req \in loc'[w].put
                        ELSE loc'[w].put \in Known'
                     /\ loc'[w].op = "process" => loc'[w].req \in known'
  <2>1. CASE loc' = loc
    <3>1. Knows(w) /\ known \subseteq known' /\ Known \subseteq Known'
      BY DEF Sound
    <3>2. CASE loc[w].op = "submit"
      BY <2>1, <3>1, <3>2 DEF Knows
    <3>3. CASE loc[w].op # "submit"
      BY <2>1, <3>1, <3>3 DEF Knows
    <3>4. QED
      BY <3>2, <3>3
  <2>2. CASE Return(w)
    <3>1. loc'[w].op = "none" /\ loc'[w].got = {} /\ loc'[w].put = {}
      BY <2>2, ReturnTyped DEF Idle
    <3>2. {} \in Known'
      BY DEF Known
    <3>3. QED
      BY <3>1, <3>2
  <2>3. CASE GiveUp(w)
    <3>1. CASE loc[w].op \in {"load", "process"}
      <4>1. loc'[w] = [loc[w] EXCEPT !.put = loc[w].got, !.ok = "failed"]
        BY <2>3, <3>1, GiveUpTyped
      <4>2. /\ loc'[w].op = loc[w].op /\ loc'[w].req = loc[w].req
            /\ loc'[w].got = loc[w].got /\ loc'[w].put = loc[w].got
        BY <4>1 DEF TypeOK
      <4>3. QED
        BY <3>1, <4>2 DEF Sound, Knows
    <3>2. CASE loc[w].op \notin {"load", "process"}
      BY <2>2, <2>3, <3>2 DEF GiveUp
    <3>3. QED
      BY <3>1, <3>2
  <2>4. ASSUME NEW o \in Ops, NEW r \in Requests \cup {NoReq}, NEW put, NEW to \in Steps,
               Start(w, o, r, put, to),
               IF o = "submit" THEN put \in SUBSET (Edits \cup known \cup {r}) /\ r \in put
               ELSE put \in Known,
               o = "process" => r \in known
        PROVE  Good
    <3>1. loc' = [loc EXCEPT ![w] = [Idle EXCEPT !.op = o, !.req = r, !.put = put]]
      BY <2>4 DEF Start
    <3>2. loc'[w] = [Idle EXCEPT !.op = o, !.req = r, !.put = put]
      BY <3>1 DEF TypeOK
    <3>3. loc'[w].op = o /\ loc'[w].req = r /\ loc'[w].put = put /\ loc'[w].got = {}
      BY <3>2 DEF Idle
    <3>4. QED
      BY <2>4, <3>3
  <2>5. CASE Begin(w)
    <3>1. CASE \/ BeginLoad(w) \/ BeginCleanup(w) \/ BeginOther(w) \/ BeginKeep(w)
               \/ BeginRevert(w)
      BY <2>4, <3>1
      DEF BeginLoad, BeginCleanup, BeginOther, BeginKeep, BeginRevert, Ops, Steps
    <3>2. ASSUME NEW e \in Edits, BeginSave(w, e) PROVE Good
      <4>1. Plus(view[w].rows, e) \in Known
        BY <3>2 DEF BeginSave, Sound, Knows
      <4>2. QED
        BY <2>4, <3>2, <4>1 DEF BeginSave, Ops, Steps
    <3>3. ASSUME NEW r \in Requests, BeginSubmit(w, r) PROVE Good
      <4>1. /\ Plus(view[w].rows, r) = view[w].rows \cup {r}
            /\ view[w].rows \in Known
        BY <3>3 DEF BeginSubmit, Sound, Knows
      <4>2. Plus(view[w].rows, r) \in SUBSET (Edits \cup known \cup {r})
        BY <4>1 DEF Known
      <4>3. QED
        BY <2>4, <3>3, <4>1, <4>2 DEF BeginSubmit, Ops, Steps
    <3>4. ASSUME NEW r \in Requests, BeginProcess(w, r) PROVE Good
      BY <2>4, <3>4 DEF BeginProcess, Ops, Steps
    <3>5. QED
      BY <2>5, <3>1, <3>2, <3>3, <3>4 DEF Begin
  <2>6. CASE Verdict(w) /\ ~Return(w)
    <3>1. /\ pc[w] = "verdict"
          /\ \/ loc' = [loc EXCEPT ![w].ok = "failed"]
             \/ loc' = [loc EXCEPT ![w].put = Original]
      BY <2>6 DEF Verdict
    <3>2. /\ loc'[w].op = loc[w].op /\ loc'[w].req = loc[w].req /\ loc'[w].got = loc[w].got
          /\ loc'[w].put \in {loc[w].put, Original}
      BY <3>1 DEF TypeOK
    <3>3. loc[w].op = "process"
      BY <3>1 DEF OwnPath, On, Saving, Proving, Checking
    <3>4. QED
      BY <3>2, <3>3 DEF Sound, Knows
  <2>7. CASE ReadRows(w)
    <3>1. loc[w].op # "submit"
      BY <2>7 DEF ReadRows, OwnPath, On, Saving, Proving, Checking
    <3>2. CASE loc[w].op = "process"
      <4>1. \/ loc' = [loc EXCEPT ![w].ok = "failed"]
            \/ loc' = [loc EXCEPT ![w].put =
                          IF Action[loc[w].req] = "merge" THEN Plus(live.data, loc[w].req)
                          ELSE payload[loc[w].req]]
        BY <2>7, <3>2 DEF ReadRows
      <4>2. /\ loc'[w].op = loc[w].op /\ loc'[w].req = loc[w].req
            /\ loc'[w].got = loc[w].got
            /\ loc'[w].put \in {loc[w].put, Plus(live.data, loc[w].req),
                                payload[loc[w].req]}
        BY <4>1 DEF TypeOK
      <4>3. loc[w].req \in known /\ known \subseteq Requests
        BY <3>2 DEF Sound, Knows, TypeOK
      <4>4. Plus(live.data, loc[w].req) \in Known
        BY <4>3 DEF Sound, Known
      <4>5. payload[loc[w].req] \in Known
        BY <4>3 DEF Sound
      <4>6. QED
        BY <3>1, <3>2, <4>2, <4>3, <4>4, <4>5 DEF Sound, Knows
    <3>3. CASE loc[w].op # "process"
      <4>1. loc' = [loc EXCEPT ![w] = [@ EXCEPT !.got = live.data, !.put = Kept(live.data)]]
        BY <2>7, <3>3 DEF ReadRows
      <4>2. /\ loc'[w].op = loc[w].op /\ loc'[w].got = live.data
            /\ loc'[w].put = Kept(live.data)
        BY <4>1 DEF TypeOK
      <4>3. QED
        BY <3>1, <3>3, <4>2 DEF Sound
    <3>4. QED
      BY <3>2, <3>3
  <2>8. CASE Digest(w) \/ Record(w)
    <3>1. \E x \in {live.data, registry, {}} : loc' = [loc EXCEPT ![w].got = x]
      BY <2>8 DEF Digest, Record
    <3>2. /\ loc'[w].op = loc[w].op /\ loc'[w].req = loc[w].req
          /\ loc'[w].put = loc[w].put /\ loc'[w].got \in {live.data, registry, {}}
      BY <3>1 DEF TypeOK
    <3>3. QED
      BY <3>2 DEF Sound, Knows
  <2>9. CASE Stat(w)
    <3>1. /\ loc'[w].op = loc[w].op /\ loc'[w].req = loc[w].req
          /\ loc'[w].put = loc[w].put /\ loc'[w].got = loc[w].got
          /\ UNCHANGED known
      BY <2>9 DEF Stat, TypeOK, qvars
    <3>2. QED
      BY <3>1 DEF Sound, Knows, Known
  <2>10. CASE Refuse(w) /\ ~Return(w)
    <3>1. /\ loc'[w].op = loc[w].op /\ loc'[w].req = loc[w].req
          /\ loc'[w].put = loc[w].put /\ loc'[w].got = loc[w].got
          /\ UNCHANGED known
      BY <2>10 DEF Refuse, TypeOK, qvars
    <3>2. QED
      BY <3>1 DEF Sound, Knows, Known
  <2>11. QED
    BY <2>1, <2>2, <2>3, <2>5, <2>6, <2>7, <2>8, <2>9, <2>10, Moves
<1>3. QED
  BY <1>1, <1>2 DEF Knows

\* Only known rows get into the CSV, the registry, a request or a client's screen.
LEMMA SoundStep ==
    ASSUME TypeOK, TypeOK', OwnPath, Sound, NEW w \in Workers, Prepared(w), Act(w)
    PROVE  Sound'
<1> USE Monotone
<1>1. live'.data \in Known'
  <2>1. CASE live' = live
    BY <2>1 DEF Sound
  <2>2. CASE live' # live
    <3>1. live' = tmp /\ tmp.data = loc[w].put /\ pc[w] = "rename"
      BY <2>2, CsvChanges
    <3>2. loc[w].put \in Known
      BY <3>1 DEF OwnPath, On, Saving, Proving, Checking, Sound, Knows
    <3>3. QED
      BY <3>1, <3>2
  <2>3. QED
    BY <2>1, <2>2
<1>2. registry' \in Known'
  <2>1. CASE Record(w)
    BY <2>1 DEF Record, Sound, Knows
  <2>2. QED
    BY <2>1, Moves DEF Sound
<1>3. ASSUME NEW v \in Workers PROVE Knows(v)'
  <2>1. CASE v = w
    BY <2>1, KnowsStep
  <2>2. CASE v # w
    <3>1. loc'[v] = loc[v] /\ view'[v] = view[v]
      BY <2>2, OthersRest
    <3>2. Knows(v) /\ known \subseteq known' /\ Known \subseteq Known'
      BY DEF Sound
    <3>3. CASE loc[v].op = "submit"
      BY <3>1, <3>2, <3>3 DEF Knows
    <3>4. CASE loc[v].op # "submit"
      BY <3>1, <3>2, <3>4 DEF Knows
    <3>5. QED
      BY <3>3, <3>4
  <2>3. QED
    BY <2>1, <2>2
<1>4. /\ \A r \in Requests : payload'[r] \in Known'
      /\ \A r \in known' : r \in payload'[r]
  <2>1. CASE UNCHANGED <<known, payload>>
    BY <2>1 DEF Sound
  <2>2. CASE Store(w) /\ ~UNCHANGED <<known, payload>>
    <3> DEFINE r == loc[w].req
    <3>1. /\ pc[w] = "store" /\ known' = known \cup {r}
          /\ payload' = [payload EXCEPT ![r] = loc[w].put]
      BY <2>2 DEF Store, Submit, qvars
    <3>2. loc[w].op = "submit" /\ r \in Requests
      BY <3>1 DEF OwnPath, On, Saving, Proving, Checking
    <3>3. loc[w].put \in SUBSET (Edits \cup known \cup {r}) /\ r \in loc[w].put
      BY <3>2 DEF Sound, Knows
    <3>4. loc[w].put \in Known'
      BY <3>1, <3>3 DEF Known
    <3>5. \A s \in Requests : payload'[s] = IF s = r THEN loc[w].put ELSE payload[s]
      BY <3>1, <3>2 DEF TypeOK
    <3>6. known' \subseteq Requests
      BY DEF TypeOK
    <3>7. QED
      BY <3>1, <3>3, <3>4, <3>5, <3>6 DEF Sound
  <2>3. QED
    BY <2>1, <2>2, Moves
<1>5. QED
  BY <1>1, <1>2, <1>3, <1>4 DEF Sound

\* Between opening <csv>.tmp and renaming it, no other worker opens or removes it.
LEMMA PreparedStep ==
    ASSUME TypeOK, TypeOK', OwnPath, Held, Dated, \A v \in Workers : Prepared(v),
           NEW w \in Workers, Act(w), ~overlap', NEW v \in Workers
    PROVE  Prepared(v)'
<1>0. clock' = clock
  BY Moves
<1>1. CASE v # w
  <2>1. pc'[v] = pc[v] /\ loc'[v] = loc[v]
    BY <1>1, OthersRest
  <2>2. CASE UNCHANGED disk
    BY <1>0, <2>1, <2>2 DEF disk, Prepared
  <2>3. CASE Apart(w)
    BY <1>1, <2>1, <2>3 DEF Apart, Prepared, Writing
  <2>4. QED
    BY <2>2, <2>3, Alone
<1>2. CASE v = w
  <2>1. CASE OpenTmp(w)
    <3>1. /\ pc'[w] = "flush" /\ fd'[w] = "tmp"
          /\ tmp' = [data |-> Blank, mtime |-> clock]
      BY <2>1 DEF OpenTmp, Step, TypeOK
    <3>2. tmp' \in Files
      BY <3>1, ContentsTyped DEF TypeOK, Files
    <3>3. QED
      BY <1>2, <3>1, <3>2, CsvAssumption DEF Prepared
  <2>2. CASE Flush(w)
    <3>1. /\ pc[w] = "flush" /\ pc'[w] = "rename" /\ loc' = loc
          /\ tmp' = IF fd[w] = "tmp"
                    THEN [data |-> Over(tmp.data, loc[w].put), mtime |-> clock] ELSE tmp
      BY <2>2 DEF Flush, Put, Step, TypeOK
    <3>2. fd[w] = "tmp" /\ tmp.data = Blank
      BY <3>1 DEF Prepared
    <3>3. loc[w].put \in Contents
      BY DEF TypeOK
    <3>4. tmp' = [data |-> loc[w].put, mtime |-> clock]
      BY <3>1, <3>2, <3>3, KnownRows
    <3>5. tmp' \in Files
      BY <3>3, <3>4 DEF TypeOK, Files
    <3>6. live' = live /\ live.mtime \in Nat /\ clock \in Nat /\ live.mtime <= clock
      BY <2>2, <3>2, CsvAssumption DEF Flush, Put, TypeOK, Files, Dated
    <3>7. tmp'.data = loc[w].put /\ tmp'.mtime = clock
      BY <3>4
    <3>8. clock \in live.mtime..clock
      BY <3>6
    <3>9. QED
      BY <1>0, <1>2, <3>1, <3>5, <3>6, <3>7, <3>8, CsvAssumption DEF Prepared
  <2>3. CASE ~OpenTmp(w) /\ ~Flush(w)
    <3>1. pc'[w] \notin {"flush", "rename"}
      <4>1. CASE Begin(w) \/ Return(w)
        BY <4>1
        DEF Begin, BeginLoad, BeginCleanup, BeginOther, BeginKeep, BeginRevert, BeginSave,
            BeginSubmit, BeginProcess, Start, Step, Return, TypeOK
      <4>2. CASE GiveUp(w)
        BY <4>2, GiveUpTyped
      <4>3. CASE ~Begin(w) /\ ~Return(w) /\ ~GiveUp(w)
        BY <2>3, <4>3
        DEF Act, AcquireQueue, Store, Verdict, Mark, Acquire, LockTimeout, ReadRows, End,
            Stat, Check, Compare, Checked, Refuse, Diff, Gate, Rename, WriteFails, Digest,
            Record, Reply, Aftermath, Answer, Step, TypeOK
      <4>4. QED
        BY <4>1, <4>2, <4>3
    <3>2. QED
      BY <1>2, <3>1 DEF Prepared
  <2>4. QED
    BY <2>1, <2>2, <2>3
<1>3. QED
  BY <1>1, <1>2

\* What a worker goes on to do with the CSV it has decided on while nobody else writes.
LEMMA IntentStep ==
    ASSUME TypeOK, OwnPath, Held, Sound, Dated, \A v \in Workers : Prepared(v) /\ Intent(v),
           NEW w \in Workers, Act(w), ~overlap', NEW v \in Workers
    PROVE  Intent(v)'
<1>1. CASE v # w
  <2>1. pc'[v] = pc[v] /\ loc'[v] = loc[v] /\ view'[v] = view[v]
    BY <1>1, OthersRest
  <2>2. CASE UNCHANGED disk
    BY <2>1, <2>2 DEF disk, Intent, Seen
  <2>3. CASE Apart(w)
    BY <1>1, <2>1, <2>3 DEF Apart, Intent, Guarded, Proving, Checking
  <2>4. QED
    BY <2>2, <2>3, Alone
<1>2. CASE v = w
  <2> SUFFICES Intent(w)'
    BY <1>2
  <2>1. CASE pc'[w] \notin Writing \cup {"wait", "diff", "gate", "stat", "compare"}
    BY <2>1 DEF Intent
  <2>2. CASE Begin(w)
    <3>1. /\ pc'[w] \notin Writing \cup {"diff", "stat", "compare"}
          /\ pc'[w] = "wait" => loc'[w].op = "save"
          /\ pc'[w] = "gate" => loc'[w].op = "revert"
      <4>1. ASSUME NEW o \in Ops, NEW r, NEW put, NEW to \in Steps, Start(w, o, r, put, to)
            PROVE  pc'[w] = to /\ loc'[w].op = o
        <5>1. /\ pc'[w] = to
              /\ loc' = [loc EXCEPT ![w] = [Idle EXCEPT !.op = o, !.req = r, !.put = put]]
          BY <4>1 DEF Start, Step, TypeOK
        <5>2. loc'[w] = [Idle EXCEPT !.op = o, !.req = r, !.put = put]
          BY <5>1 DEF TypeOK
        <5>3. QED
          BY <5>1, <5>2 DEF Idle
      <4>2. QED
        BY <2>2, <4>1
        DEF Begin, BeginLoad, BeginCleanup, BeginOther, BeginKeep, BeginRevert, BeginSave,
            BeginSubmit, BeginProcess, Ops, Steps, Writing
    <3>2. QED
      BY <3>1 DEF Intent, Writing
  <2>3. CASE Acquire(w)
    <3>1. /\ pc[w] = "wait" /\ loc' = loc
          /\ pc'[w] = IF loc[w].op = "save" THEN "check" ELSE "diff"
      BY <2>3 DEF Acquire, Step, TypeOK
    <3>2. QED
      BY <3>1 DEF Intent, OwnPath, On, Saving, Proving, Checking, Writing
  <2>4. CASE Verdict(w) /\ ~Return(w)
    <3>1. CASE loc' = [loc EXCEPT ![w].ok = "failed"] /\ pc' = [pc EXCEPT ![w] = "mark"]
      BY <2>1, <3>1 DEF TypeOK, Writing
    <3>2. CASE /\ loc' = [loc EXCEPT ![w].put = Original]
               /\ pc[w] = "verdict"
               /\ pc' = [pc EXCEPT ![w] = IF Action[loc[w].req] = "revert" THEN "open"
                                          ELSE "rows"]
      <4>1. /\ loc'[w].op = loc[w].op /\ loc'[w].req = loc[w].req /\ loc'[w].put = Original
            /\ pc'[w] = IF Action[loc[w].req] = "revert" THEN "open" ELSE "rows"
        BY <3>2 DEF TypeOK
      <4>2. loc[w].op = "process"
        BY <3>2 DEF OwnPath, On, Saving, Proving, Checking
      <4>3. QED
        BY <4>1, <4>2 DEF Intent, Writing
    <3>3. QED
      BY <2>4, <3>1, <3>2 DEF Verdict, Step
  <2>5. CASE ReadRows(w)
    <3>1. CASE loc[w].op = "process"
      <4>1. CASE pc' = [pc EXCEPT ![w] = "mark"]
        BY <2>1, <4>1 DEF TypeOK, Writing
      <4>2. CASE /\ pc' = [pc EXCEPT ![w] = "wait"]
                 /\ loc' = [loc EXCEPT ![w].put =
                               IF Action[loc[w].req] = "merge"
                               THEN Plus(live.data, loc[w].req) ELSE payload[loc[w].req]]
        <5>1. /\ loc'[w].op = loc[w].op /\ loc'[w].req = loc[w].req
              /\ loc'[w].put = IF Action[loc[w].req] = "merge"
                               THEN Plus(live.data, loc[w].req) ELSE payload[loc[w].req]
              /\ pc'[w] = "wait"
          BY <4>2 DEF TypeOK
        <5>2. loc[w].req \in known /\ loc[w].req \in Requests
          BY <3>1 DEF Sound, Knows, TypeOK
        <5>3. loc[w].req \in payload[loc[w].req]
          BY <5>2 DEF Sound
        <5>4. loc[w].req \in Plus(live.data, loc[w].req)
          BY <5>2, KnownRows DEF Sound
        <5>5. Action[loc[w].req] # "revert"
          BY <2>5, <3>1 DEF ReadRows, OwnPath
        <5>6. QED
          BY <3>1, <5>1, <5>3, <5>4, <5>5 DEF Intent, Writing
      <4>3. QED
        BY <2>5, <3>1, <4>1, <4>2 DEF ReadRows, Step
    <3>2. CASE loc[w].op # "process"
      <4>1. /\ loc' = [loc EXCEPT ![w] = [@ EXCEPT !.got = live.data,
                                                   !.put = Kept(live.data)]]
            /\ live' = live
        BY <2>5, <3>2 DEF ReadRows, disk
      <4>2. loc'[w].op = loc[w].op /\ loc'[w].put = Kept(live.data)
        BY <4>1 DEF TypeOK
      <4>3. loc[w].op \in {"load", "cleanup"}
        BY <2>5, <3>2 DEF ReadRows, OwnPath, On, Saving, Proving, Checking
      <4>4. live'.data = live.data /\ pc'[w] \notin {"stat", "compare"}
        BY <2>5, <4>1 DEF ReadRows, Step, TypeOK
      <4>5. loc'[w].op \in {"load", "cleanup"} /\ loc'[w].put = Kept(live'.data)
        BY <4>2, <4>3, <4>4
      <4>6. QED
        BY <4>4, <4>5 DEF Intent
    <3>3. QED
      BY <3>1, <3>2
  <2>6. CASE Compare(w) /\ ~Return(w)
    <3>1. /\ pc[w] = "compare" /\ loc' = loc /\ view' = view /\ live' = live
          /\ recent' = recent
          /\ pc' = [pc EXCEPT ![w] = IF loc[w].op = "save" THEN "diff" ELSE "open"]
          /\ Hash(w) = view[w].hash
      BY <2>6 DEF Compare, Checked, Step, disk
    <3>2. Seen(w)
      BY <3>1, HashRecent DEF Intent, Seen
    <3>3. loc[w].op \in {"save", "revert"}
      BY <3>1 DEF OwnPath, On, Saving, Proving, Checking
    <3>4. pc'[w] = IF loc[w].op = "save" THEN "diff" ELSE "open"
      BY <3>1 DEF TypeOK
    <3>5. QED
      BY <3>1, <3>2, <3>3, <3>4 DEF Intent, Seen
  <2>a. CASE Check(w) /\ ~Return(w)
    <3>1. /\ pc'[w] = "stat" /\ view' = view /\ live' = live
          /\ live.mtime = view[w].mtime
      BY <2>a DEF Check, Step, disk, TypeOK
    <3>2. QED
      BY <3>1 DEF Intent, Writing
  <2>b. CASE Stat(w)
    <3>1. CASE pc[w] = "stat"
      <4>1. /\ pc'[w] = "compare" /\ view' = view /\ live' = live
            /\ loc'[w].mtime = live.mtime
        BY <2>b, <3>1 DEF Stat, Step, disk, TypeOK
      <4>2. QED
        BY <3>1, <4>1 DEF Intent, Writing
    <3>2. CASE pc[w] # "stat"
      <4>1. pc'[w] \in {"answer", "replied"}
        BY <2>b, <3>2 DEF Stat, Step, TypeOK
      <4>2. QED
        BY <2>1, <4>1 DEF Writing
    <3>3. QED
      BY <3>1, <3>2
  <2>7. CASE \/ Diff(w) \/ OpenTmp(w) \/ Flush(w)
             \/ Gate(w) /\ ~Return(w)
    <3>1. /\ loc' = loc /\ view' = view
          /\ \/ Step(w, "diff", "digest")
             \/ Step(w, "diff", IF loc[w].op = "save" THEN "gate" ELSE "open")
             \/ Step(w, "gate", IF loc[w].op = "save" THEN "open" ELSE "check")
             \/ Step(w, "open", "flush") \/ Step(w, "flush", "rename")
      BY <2>7 DEF Diff, Gate, OpenTmp, Flush, Step
    <3>2. \/ pc'[w] \in {"digest", "check"}
          \/ pc[w] = "diff" /\ loc[w].op = "save" /\ pc'[w] = "gate"
          \/ pc[w] = "diff" /\ loc[w].op # "save" /\ pc'[w] = "open"
          \/ pc[w] = "gate" /\ loc[w].op = "save" /\ pc'[w] = "open"
          \/ pc[w] \in Writing /\ pc'[w] \in Writing
      BY <3>1 DEF Step, TypeOK, Writing
    <3>3. live' = live /\ recent' = recent
      BY <2>7, <3>1, RecentChanges DEF Dated, Diff, Gate, OpenTmp, Flush, Step, disk
    <3>4. pc[w] = "diff" => loc[w].op \in {"save", "process"}
      BY DEF OwnPath, On, Saving, Proving, Checking
    <3>5. QED
      BY <2>1, <3>1, <3>2, <3>3, <3>4 DEF Intent, Seen, Writing
  <2>8. CASE Return(w) \/ GiveUp(w)
    BY <2>1, <2>8, ReturnTyped, GiveUpTyped DEF Writing
  <2>9. CASE /\ ~Return(w) /\ ~GiveUp(w)
             /\ \/ AcquireQueue(w) \/ Store(w) \/ Mark(w) \/ LockTimeout(w) \/ End(w)
                \/ Refuse(w) \/ Rename(w) \/ WriteFails(w) \/ Digest(w) \/ Record(w) \/ Reply(w)
                \/ Aftermath(w) \/ Answer(w)
    <3>1. pc'[w] \notin Writing \cup {"wait", "diff", "gate", "stat", "compare"}
      BY <2>9 DEF AcquireQueue, Store, Mark, LockTimeout, End, Refuse, Rename, WriteFails, Digest,
                  Record, Reply, Aftermath, Answer, Step, TypeOK, Writing
    <3>2. QED
      BY <2>1, <3>1
  <2>10. QED
    BY <2>2, <2>3, <2>4, <2>5, <2>6, <2>a, <2>b, <2>7, <2>8, <2>9 DEF Act
<1>3. QED
  BY <1>1, <1>2

\* A save that goes on to write, and a revert that goes on to check its token, have been
\* through the gate: no request is pending (_get_pending_for_csv).
LEMMA ThroughGate ==
    ASSUME TypeOK, OwnPath, NEW w \in Workers, Act(w)
    PROVE  LET open == Pending(queue) = {} /\ queue' = queue IN
           /\ Reverting(w)' => Reverting(w) \/ open
           /\ loc'[w].op = "save" /\ pc'[w] \in Writing =>
                 (loc[w].op = "save" /\ pc[w] \in Writing) \/ open
<1> DEFINE open == Pending(queue) = {} /\ queue' = queue
           Good == /\ Reverting(w)' => Reverting(w) \/ open
                   /\ loc'[w].op = "save" /\ pc'[w] \in Writing =>
                         (loc[w].op = "save" /\ pc[w] \in Writing) \/ open
<1>1. CASE pc'[w] \notin Writing \cup Checking
  BY <1>1 DEF Reverting
<1>2. CASE Return(w) \/ GiveUp(w)
  BY <1>1, <1>2, ReturnTyped, GiveUpTyped DEF Writing, Checking
<1>3. CASE Begin(w)
  <2>1. pc'[w] \in {"rows", "digest", "qwait", "token", "gate", "wait"}
    BY <1>3 DEF Begin, BeginLoad, BeginCleanup, BeginOther, BeginKeep, BeginRevert,
                BeginSave, BeginSubmit, BeginProcess, Start, Step, TypeOK
  <2>2. QED
    BY <1>1, <2>1 DEF Writing, Checking
<1>4. CASE (Verdict(w) \/ ReadRows(w)) /\ ~Return(w)
  <2>1. loc'[w].op = loc[w].op /\ pc[w] \in {"verdict", "rows"}
    <3>1. CASE Verdict(w)
      <4>1. /\ pc[w] = "verdict"
            /\ \/ loc' = [loc EXCEPT ![w].ok = "failed"]
               \/ loc' = [loc EXCEPT ![w].put = Original]
        BY <1>4, <3>1 DEF Verdict
      <4>2. QED
        BY <4>1 DEF TypeOK
    <3>2. CASE ReadRows(w)
      <4>1. /\ pc[w] = "rows"
            /\ \/ loc' = [loc EXCEPT ![w].ok = "failed"]
               \/ \E x : loc' = [loc EXCEPT ![w].put = x]
               \/ loc' = [loc EXCEPT ![w] = [@ EXCEPT !.got = live.data,
                                                      !.put = Kept(live.data)]]
        BY <3>2 DEF ReadRows
      <4>2. QED
        BY <4>1 DEF TypeOK
    <3>3. QED
      BY <1>4, <3>1, <3>2
  <2>2. loc[w].op \in {"process", "load", "cleanup"}
    BY <2>1 DEF OwnPath, On, Saving, Proving, Checking
  <2>3. QED
    BY <2>1, <2>2 DEF Reverting
<1>5. CASE /\ ~Return(w)
           /\ Acquire(w) \/ Check(w) \/ Compare(w) \/ Diff(w) \/ Gate(w)
  <2>1. /\ loc' = loc
        /\ \/ pc[w] = "wait" /\ pc'[w] = IF loc[w].op = "save" THEN "check" ELSE "diff"
           \/ pc[w] = "check" /\ pc'[w] = "stat"
           \/ pc[w] = "compare" /\ pc'[w] = IF loc[w].op = "save" THEN "diff" ELSE "open"
           \/ /\ pc[w] = "diff"
              /\ \/ pc'[w] = "digest"
                 \/ pc'[w] = IF loc[w].op = "save" THEN "gate" ELSE "open"
           \/ pc[w] = "gate" /\ open
    BY <1>5 DEF Acquire, Check, Compare, Checked, Diff, Gate, Step, TypeOK, qvars
  <2>2. /\ pc[w] = "wait" => loc[w].op # "revert"
        /\ pc[w] = "diff" => loc[w].op # "revert"
    BY DEF OwnPath, On, Saving, Proving, Checking
  <2>3. QED
    BY <2>1, <2>2 DEF Reverting, Writing, Checking
<1>6. CASE OpenTmp(w) \/ Flush(w)
  <2>1. loc' = loc /\ pc[w] \in Writing
    BY <1>6 DEF OpenTmp, Flush, Step, Writing
  <2>2. QED
    BY <2>1 DEF Reverting
<1>7. CASE /\ ~Return(w) /\ ~GiveUp(w)
           /\ \/ AcquireQueue(w) \/ Store(w) \/ Mark(w) \/ LockTimeout(w) \/ End(w)
              \/ Refuse(w) \/ Rename(w) \/ WriteFails(w) \/ Digest(w) \/ Record(w) \/ Reply(w)
              \/ Aftermath(w) \/ Answer(w)
  <2>1. pc'[w] \notin Writing \cup Checking
    BY <1>7 DEF AcquireQueue, Store, Mark, LockTimeout, End, Refuse, Rename, WriteFails, Digest,
                Record, Reply, Aftermath, Answer, Step, TypeOK, Writing,
                Checking
  <2>2. QED
    BY <1>1, <2>1
<1>a. CASE Stat(w)
  <2>1. /\ loc'[w].op = loc[w].op
        /\ \/ pc'[w] \in {"answer", "replied"}
           \/ pc[w] = "stat" /\ pc'[w] = "compare"
    BY <1>a DEF Stat, Step, TypeOK
  <2>2. QED
    BY <2>1 DEF Reverting, Writing, Checking
<1>8. Good
  BY <1>2, <1>3, <1>4, <1>5, <1>6, <1>7, <1>a DEF Act
<1>9. QED
  BY <1>8

\* A request that becomes pending was not known before (_submit_approval).
LEMMA NewlyPending ==
    ASSUME TypeOK, NEW w \in Workers, Act(w), NEW r \in Requests, queue'[r] = "pending"
    PROVE  queue[r] = "pending" \/ r \notin known
<1>1. CASE queue' = queue
  BY <1>1
<1>2. CASE Store(w) /\ queue' # queue
  <2>1. Submit(loc[w].req, {})
    BY <1>2 DEF Store, qvars
  <2>2. CASE r = loc[w].req
    BY <2>1, <2>2 DEF Submit
  <2>3. CASE r # loc[w].req
    BY <2>1, <2>3 DEF Submit, ExpirePending
  <2>4. QED
    BY <2>2, <2>3
<1>3. CASE Verdict(w) \/ Mark(w)
  <2>1. queue' = queue \/ \E s \in Status \ {"pending"} : Resolve(loc[w].req, s)
    BY <1>3 DEF Verdict, Mark, Resolve, qvars
  <2>2. QED
    BY <2>1 DEF Resolve, TypeOK, Queues
<1>4. QED
  BY <1>1, <1>2, <1>3, Moves

\* A replay is carried out when it has replaced the CSV, or found its rows in it.
LEMMA CarriedOut ==
    ASSUME TypeOK, OwnPath, NEW w \in Workers, Act(w), Prepared(w), Replayed(w)'
    PROVE  /\ loc'[w].req = loc[w].req
           /\ loc[w].op = "process"
           /\ \/ Replayed(w) /\ live' = live
              \/ pc[w] = "diff" /\ live' = live /\ live.data = loc[w].put
              \/ Rename(w) /\ live'.data = loc[w].put
<1>1. /\ pc'[w] \in {"digest", "record", "reply", "replied", "mark"}
      /\ loc'[w].op = "process" /\ loc'[w].ok = "done"
  BY DEF Replayed
<1>2. ~Return(w) /\ ~GiveUp(w)
  <2>1. CASE Return(w)
    BY <1>1, <2>1, ReturnTyped
  <2>2. CASE GiveUp(w)
    <3>1. CASE loc[w].op \in {"load", "process"}
      <4>1. loc'[w] = [loc[w] EXCEPT !.put = loc[w].got, !.ok = "failed"]
        BY <2>2, <3>1, GiveUpTyped
      <4>2. loc'[w].ok = "failed"
        BY <4>1 DEF TypeOK
      <4>3. QED
        BY <1>1, <4>2
    <3>2. CASE loc[w].op \notin {"load", "process"}
      BY <1>1, <2>2, <3>2, GiveUpTyped
    <3>3. QED
      BY <3>1, <3>2
  <2>3. QED
    BY <2>1, <2>2
<1>3. CASE Begin(w)
  <2>1. ASSUME NEW o, NEW r, NEW put, NEW to, Start(w, o, r, put, to)
        PROVE  pc'[w] = to /\ loc'[w].op = o
    <3>1. /\ pc'[w] = to
          /\ loc' = [loc EXCEPT ![w] = [Idle EXCEPT !.op = o, !.req = r, !.put = put]]
      BY <2>1 DEF Start, Step, TypeOK
    <3>2. loc'[w] = [Idle EXCEPT !.op = o, !.req = r, !.put = put]
      BY <3>1 DEF TypeOK
    <3>3. QED
      BY <3>1, <3>2 DEF Idle
  <2>2. QED
    BY <1>1, <1>3, <2>1
    DEF Begin, BeginLoad, BeginCleanup, BeginOther, BeginKeep, BeginRevert, BeginSave,
        BeginSubmit, BeginProcess
<1>4. CASE Verdict(w)
  <2>1. \/ loc' = [loc EXCEPT ![w].ok = "failed"]
        \/ pc' = [pc EXCEPT ![w] = IF Action[loc[w].req] = "revert" THEN "open" ELSE "rows"]
    BY <1>2, <1>4 DEF Verdict, Step
  <2>2. QED
    BY <1>1, <2>1 DEF TypeOK
<1>5. CASE ReadRows(w)
  <2>1. \/ loc' = [loc EXCEPT ![w].ok = "failed"]
        \/ \E s \in {"wait", "open", "token", "end"} : pc' = [pc EXCEPT ![w] = s]
    BY <1>5 DEF ReadRows, Step
  <2>2. QED
    BY <1>1, <2>1 DEF TypeOK
<1>6. CASE Digest(w) \/ Record(w)
  <2>1. /\ pc[w] \in {"digest", "record"} /\ live' = live
        /\ \E x : loc' = [loc EXCEPT ![w].got = x]
    BY <1>6 DEF Digest, Record, Step, disk
  <2>2. loc'[w].op = loc[w].op /\ loc'[w].req = loc[w].req /\ loc'[w].ok = loc[w].ok
    BY <2>1 DEF TypeOK
  <2>3. QED
    BY <1>1, <2>1, <2>2 DEF Replayed
<1>7. CASE Reply(w)
  <2>1. pc[w] = "replied" /\ live' = live /\ loc' = loc
    BY <1>2, <1>7 DEF Reply, disk
  <2>2. QED
    BY <1>1, <2>1 DEF Replayed
<1>a. CASE Stat(w)
  <2>1. /\ live' = live /\ loc'[w].op = loc[w].op /\ loc'[w].req = loc[w].req
        /\ loc'[w].ok = loc[w].ok
        /\ pc[w] = "reply" \/ pc'[w] \in {"answer", "compare"}
    BY <1>a DEF Stat, Step, disk, TypeOK
  <2>2. QED
    BY <1>1, <2>1 DEF Replayed
<1>b. CASE Refuse(w)
  <2>1. loc'[w].ok \in {"failed", "unnoticed"}
    BY <1>2, <1>b DEF Refuse, TypeOK
  <2>2. QED
    BY <1>1, <2>1
<1>8. CASE Diff(w)
  <2>1. /\ pc[w] = "diff" /\ live' = live /\ loc' = loc
        /\ pc'[w] = IF live.data = loc[w].put THEN "digest"
                    ELSE IF loc[w].op = "save" THEN "gate" ELSE "open"
    BY <1>8 DEF Diff, Step, disk, TypeOK
  <2>2. QED
    BY <1>1, <2>1
<1>9. CASE Rename(w)
  <2>1. loc' = loc
    BY <1>2, <1>9 DEF Rename
  <2>2. live'.data = loc[w].put
    BY <1>2, <1>9 DEF Rename, Prepared
  <2>3. QED
    BY <1>1, <1>9, <2>1, <2>2
<1>10. CASE \/ AcquireQueue(w) \/ Store(w) \/ Mark(w) \/ Acquire(w) \/ LockTimeout(w)
            \/ End(w) \/ Check(w) \/ Compare(w) \/ Gate(w) \/ OpenTmp(w) \/ Flush(w)
            \/ WriteFails(w) \/ Aftermath(w) \/ Answer(w)
  <2>1. pc'[w] \notin {"digest", "record", "reply", "replied", "mark"}
    BY <1>2, <1>10 DEF AcquireQueue, Store, Mark, Acquire, LockTimeout, End, Check, Compare,
                       Checked, Gate, OpenTmp, Flush, WriteFails, Aftermath, Answer, Step, TypeOK
  <2>2. QED
    BY <1>1, <2>1
<1>11. QED
  BY <1>3, <1>4, <1>5, <1>6, <1>7, <1>a, <1>b, <1>8, <1>9, <1>10 DEF Act

\* No revert is on its way to the CSV while a request that is in it is pending.
LEMMA NoRevertOfPending ==
    ASSUME TypeOK, OwnPath, Held, Sound, Closed, NEW w \in Workers, Prepared(w), Act(w),
           ~overlap', NEW r \in Requests, queue'[r] = "pending", r \in live'.data,
           NEW v \in Workers
    PROVE  ~Reverting(v)'
<1> SUFFICES ASSUME Reverting(v)' PROVE FALSE
  OBVIOUS
<1>1. Reverting(v)
  <2>1. CASE v = w
    BY <2>1, ThroughGate DEF Pending
  <2>2. CASE v # w
    BY <2>2, OthersRest DEF Reverting
  <2>3. QED
    BY <2>1, <2>2
<1>2. live' = live
  <2>1. CASE UNCHANGED disk
    BY <2>1 DEF disk
  <2>2. CASE Apart(w)
    <3>1. v = w
      BY <1>1, <2>2 DEF Apart, Reverting
    <3>2. pc'[w] # "digest"
      BY <3>1 DEF Reverting, Writing, Checking
    <3>3. QED
      BY <3>2, CsvChanges
  <2>3. QED
    BY <2>1, <2>2, Alone
<1>3. r \in known
  BY <1>2, CsvAssumption DEF Sound, Known
<1>4. queue[r] = "pending"
  BY <1>3, NewlyPending
<1>5. QED
  BY <1>1, <1>2, <1>4 DEF Closed, Pending

\* A replay that has just been carried out leaves nothing that would undo it.
LEMMA CarriedOutAlone ==
    ASSUME TypeOK, OwnPath, Held, Closed, \A u \in Workers : Prepared(u) /\ Intent(u),
           NEW w \in Workers, Act(w), ~overlap', Replayed(w)'
    PROVE  /\ InForce(loc[w].req)'
           /\ \A v \in Workers \ {w} :
                 ~Reverting(v) /\ (pc[v] \in Writing => loc[v].op \in {"load", "cleanup"})
<1> DEFINE r == loc[w].req
<1>1. loc[w].op = "process" /\ r \in Requests /\ loc'[w].req = r
  BY CarriedOut DEF OwnPath
<1>2. CASE Replayed(w) /\ live' = live
  BY <1>1, <1>2 DEF Closed, InForce
<1>3. CASE pc[w] = "diff" /\ live' = live /\ live.data = loc[w].put
  <2>1. Action[r] # "revert"
    BY <1>1, <1>3 DEF OwnPath
  <2>2. r \in live.data
    BY <1>1, <1>3, <2>1 DEF Intent
  <2>3. lock = w /\ qlock = w /\ queue[r] = "pending"
    BY <1>1, <1>3, <2>1 DEF Held, Guarded, Replaying
  <2>4. ASSUME NEW v \in Workers \ {w}
        PROVE  ~Reverting(v) /\ (pc[v] \in Writing => loc[v].op \in {"load", "cleanup"})
    <3>1. ~Reverting(v)
      BY <1>1, <2>2, <2>3 DEF Closed, Pending
    <3>2. loc[v].op # "save" \/ pc[v] \notin Writing
      BY <2>3 DEF Held, Guarded, Writing, Saving
    <3>3. loc[v].op # "process" \/ pc[v] \notin Writing
      BY <2>3 DEF Held, Replaying, Writing
    <3>4. QED
      BY <3>1, <3>2, <3>3 DEF OwnPath, On, Saving, Proving, Checking, Writing, Reverting
  <2>5. QED
    BY <1>1, <1>3, <2>1, <2>2, <2>4 DEF InForce
<1>4. CASE Rename(w) /\ live'.data = loc[w].put
  <2>1. pc[w] = "rename"
    BY <1>4 DEF Rename
  <2>2. InForce(r)'
    BY <1>1, <1>4, <2>1, CarriedOut DEF Intent, Writing, InForce
  <2>3. Apart(w)
    BY <1>4, Alone
  <2>4. QED
    BY <2>2, <2>3 DEF Apart, Reverting
<1>5. QED
  BY <1>2, <1>3, <1>4, CarriedOut

\* The gate stays closed while there is a reason for it.
LEMMA ClosedStep ==
    ASSUME TypeOK, OwnPath, OwnPath', Held, Held', Sound, Closed,
           \A u \in Workers : Prepared(u) /\ Intent(u),
           NEW w \in Workers, Act(w), ~overlap'
    PROVE  Closed'
<1>1. ASSUME NEW r \in Requests, queue'[r] = "pending", r \in live'.data,
             NEW v \in Workers
      PROVE  ~Reverting(v)'
  BY <1>1, NoRevertOfPending
<1>2. ASSUME Replayed(w)'
      PROVE  /\ InForce(loc[w].req)'
             /\ \A v \in Workers \ {w} :
                   /\ ~Reverting(v)'
                   /\ pc'[v] \in Writing => loc'[v].op \in {"load", "cleanup"}
  BY <1>2, CarriedOutAlone, OthersRest DEF Reverting
<1>3. ASSUME NEW u \in Workers \ {w}, Replayed(u)'
      PROVE  /\ InForce(loc[u].req)'
             /\ \A v \in Workers \ {u} :
                   /\ ~Reverting(v)'
                   /\ pc'[v] \in Writing => loc'[v].op \in {"load", "cleanup"}
  <2>1. Replayed(u) /\ loc'[u] = loc[u] /\ pc'[u] = pc[u]
    BY <1>3, OthersRest DEF Replayed
  <2>2. qlock = u /\ qlock' = u /\ queue[loc[u].req] = "pending" /\ loc[u].req \in Requests
    BY <2>1 DEF Held, Replayed, Replaying, OwnPath
  <2>3. InForce(loc[u].req)'
    <3>1. CASE live' = live
      BY <2>1, <3>1 DEF Closed, InForce
    <3>2. CASE live' # live
      <4>1. live'.data = loc[w].put /\ pc[w] = "rename"
        BY <3>2, CsvChanges
      <4>2. loc[w].op \in {"load", "cleanup"}
        BY <2>1, <4>1 DEF Closed, Writing
      <4>3. live'.data = Kept(live.data)
        BY <4>1, <4>2 DEF Intent, Writing
      <4>4. live.data \in Known
        BY DEF Sound
      <4>5. InForce(loc[u].req)
        BY <2>1 DEF Closed
      <4>6. CASE Action[loc[u].req] = "revert"
        BY <2>1, <4>3, <4>4, <4>5, <4>6, KnownRows DEF InForce
      <4>7. CASE Action[loc[u].req] # "revert"
        BY <2>1, <4>3, <4>4, <4>5, <4>7, KnownRows DEF InForce
      <4>8. QED
        BY <4>6, <4>7
    <3>3. QED
      BY <3>1, <3>2
  <2>4. ~Reverting(w)'
    BY <2>1, <2>2, ThroughGate DEF Closed, Pending
  <2>5. ASSUME pc'[w] \in Writing PROVE loc'[w].op \in {"load", "cleanup"}
    <3>1. loc'[w].op # "save"
      BY <2>1, <2>2, <2>5, ThroughGate DEF Closed, Pending
    <3>2. loc'[w].op # "process"
      BY <2>2, <2>5 DEF Held, Replaying, Writing
    <3>3. loc'[w].op # "revert"
      BY <2>4, <2>5 DEF Reverting
    <3>4. QED
      BY <2>5, <3>1, <3>2, <3>3 DEF OwnPath, On, Saving, Proving, Checking, Writing
  <2>6. QED
    <3>1. ASSUME NEW v \in Workers \ {u}
          PROVE  /\ ~Reverting(v)'
                 /\ pc'[v] \in Writing => loc'[v].op \in {"load", "cleanup"}
      <4>1. CASE v = w
        BY <2>4, <2>5, <4>1
      <4>2. CASE v # w
        <5>1. pc'[v] = pc[v] /\ loc'[v] = loc[v]
          BY <4>2, OthersRest
        <5>2. QED
          BY <2>1, <5>1 DEF Closed, Reverting
      <4>3. QED
        BY <4>1, <4>2
    <3>2. QED
      BY <2>3, <3>1
<1>4. QED
  BY <1>1, <1>2, <1>3 DEF Closed, Pending

\* Time and restarts disturb none of it.
LEMMA QuietRest ==
    ASSUME TypeOK, TypeOK', OwnPath', Quiet, Tick \/ Crash \/ UNCHANGED vars
    PROVE  Quiet'
<1> SUFFICES ASSUME ~overlap' PROVE /\ Sound' /\ Dated'
                                    /\ \A w \in Workers : Prepared(w)' /\ Intent(w)'
                                    /\ Closed'
  BY DEF Quiet
<1>1. Sound /\ Dated /\ (\A w \in Workers : Prepared(w) /\ Intent(w)) /\ Closed
  BY DEF Quiet, Tick, Crash, vars, disk
<1>a. live.mtime \in Nat /\ clock \in Nat
  BY CsvAssumption DEF TypeOK, Files
<1>2. CASE Tick \/ UNCHANGED vars
  <2>1. /\ UNCHANGED <<queue, known, live, tmp, fd, registry, pc, loc, view, payload, recent,
                       cache>>
        /\ clock' \in {clock, clock + 1}
    BY <1>2 DEF Tick, vars, disk, qvars
  <2>2. Sound'
    BY <1>1, <2>1 DEF Sound, Knows, Known
  <2>3. \A w \in Workers : Prepared(w)' /\ Intent(w)'
    <3>1. ASSUME NEW w \in Workers PROVE Prepared(w)'
      <4>1. \A x : x \in live.mtime..clock => x \in live.mtime..clock'
        BY <1>a, <2>1
      <4>2. Prepared(w)
        BY <1>1
      <4>3. QED
        BY <2>1, <4>1, <4>2 DEF Prepared
    <3>2. ASSUME NEW w \in Workers PROVE Intent(w)'
      BY <1>1, <2>1 DEF Intent, Seen
    <3>3. QED
      BY <3>1, <3>2
  <2>4. Closed'
    BY <1>1, <2>1 DEF Closed, Pending, Reverting, Replayed, InForce
  <2>5. Dated'
    <3>1. live.mtime <= clock'
      BY <1>1, <1>a, <2>1 DEF Dated
    <3>2. QED
      BY <1>1, <2>1, <3>1 DEF Dated, Fresh
  <2>6. QED
    BY <2>2, <2>3, <2>4, <2>5
<1>3. CASE Crash
  <2>1. /\ UNCHANGED <<queue, known, live, tmp, registry, view, payload, recent, clock>>
        /\ \A p \in Processes : cache'[p] = NoHash
        /\ \A w \in Workers : pc'[w] = "idle" /\ loc'[w] = Idle
    BY <1>3 DEF Crash, qvars
  <2>2. /\ Known' = Known
        /\ \A w \in Workers : loc'[w].op = "none" /\ loc'[w].got = {} /\ loc'[w].put = {}
                                                     /\ loc'[w].mtime = 0
    BY <2>1 DEF Known, Idle
  <2>3. \A w \in Workers : Knows(w)'
    BY <1>1, <2>1, <2>2, KnownRows DEF Sound, Knows
  <2>4. Sound'
    BY <1>1, <2>1, <2>2, <2>3 DEF Sound
  <2>5. \A w \in Workers : Prepared(w)' /\ Intent(w)' /\ ~Reverting(w)' /\ ~Replayed(w)'
    BY <2>1, <2>2 DEF Prepared, Intent, Reverting, Replayed, Writing, Checking
  <2>6. Closed'
    BY <1>1, <2>1, <2>5 DEF Closed, Pending
  <2>7. Dated'
    BY <1>1, <1>a, <2>1, <2>2 DEF Dated, Fresh
  <2>8. QED
    BY <2>4, <2>5, <2>6, <2>7
<1>4. QED
  BY <1>2, <1>3

\* As long as there is no overlap, every step keeps all of this.
LEMMA QuietStep ==
    ASSUME TypeOK, TypeOK', OwnPath, OwnPath', Held, Held', Quiet, [Next]_vars
    PROVE  Quiet'
<1>1. ASSUME NEW w \in Workers, Act(w), ~overlap'
      PROVE  /\ Sound' /\ Dated'
             /\ \A v \in Workers : Prepared(v)' /\ Intent(v)'
             /\ Closed'
  <2>1. Sound /\ Dated /\ (\A v \in Workers : Prepared(v) /\ Intent(v)) /\ Closed
    BY <1>1, Monotone DEF Quiet
  <2>2. Sound'
    BY <1>1, <2>1, SoundStep
  <2>3. \A v \in Workers : Prepared(v)'
    BY <1>1, <2>1, PreparedStep
  <2>4. \A v \in Workers : Intent(v)'
    BY <1>1, <2>1, IntentStep
  <2>5. Closed'
    BY <1>1, <2>1, ClosedStep
  <2>6. Dated'
    BY <1>1, <2>1, DatedStep
  <2>7. QED
    BY <2>2, <2>3, <2>4, <2>5, <2>6
<1>2. ASSUME NEW w \in Workers, Act(w) PROVE Quiet'
  BY <1>1, <1>2 DEF Quiet
<1>3. CASE Tick \/ Crash \/ UNCHANGED vars
  BY <1>3, QuietRest
<1>4. QED
  BY <1>2, <1>3 DEF Next, Act

\* A save refuses only what the approval of a save asks of it (_process_approval).
LEMMA NoRevertOverlooked == Spec => []Overlooked
<1>1. Init => Overlooked
  BY DEF Init, Overlooked, Idle
<1>2. ASSUME TypeOK, OwnPath, Overlooked, NEW w \in Workers, Act(w), NEW v \in Workers,
             loc'[v].ok = "unnoticed"
      PROVE  loc'[v].op = "process" /\ Action[loc'[v].req] # "revert"
  <2>1. CASE loc'[v] = loc[v]
    BY <1>2, <2>1 DEF Overlooked
  <2>2. CASE v = w /\ Return(w)
    BY <1>2, <2>2, ReturnTyped DEF Idle
  <2>3. CASE v = w /\ GiveUp(w) /\ ~Return(w)
    <3>1. loc'[w] = [loc[w] EXCEPT !.put = loc[w].got, !.ok = "failed"]
      BY <1>2, <2>3, GiveUpTyped DEF GiveUp
    <3>2. QED
      BY <1>2, <2>3, <3>1 DEF TypeOK
  <2>4. CASE v = w /\ Begin(w)
    <3>1. \E o, r, put : loc' = [loc EXCEPT ![w] = [Idle EXCEPT !.op = o, !.req = r, !.put = put]]
      BY <2>4 DEF Begin, BeginLoad, BeginCleanup, BeginOther, BeginKeep, BeginRevert,
                  BeginSave, BeginSubmit, BeginProcess, Start
    <3>2. PICK o, r, put : loc' = [loc EXCEPT ![w] = [Idle EXCEPT !.op = o, !.req = r, !.put = put]]
      BY <3>1
    <3>3. loc'[w].ok = "done"
      <4>1. loc'[w] = [Idle EXCEPT !.op = o, !.req = r, !.put = put]
        BY <1>2, <2>4, <3>2, OneNote
      <4>2. QED
        BY <4>1 DEF Idle
    <3>4. QED
      BY <1>2, <2>4, <3>3
  <2>5. ASSUME v = w, loc'[w].ok \in {loc[w].ok, "failed"},
               loc'[w].op = loc[w].op, loc'[w].req = loc[w].req
        PROVE  loc'[v].op = "process" /\ Action[loc'[v].req] # "revert"
    BY <1>2, <2>5 DEF Overlooked
  <2>6. CASE v = w /\ ~Return(w) /\ (Verdict(w) \/ Digest(w) \/ Record(w) \/ Stat(w))
    <3>1. /\ loc'[w].ok \in {loc[w].ok, "failed"}
          /\ loc'[w].op = loc[w].op /\ loc'[w].req = loc[w].req
      BY <1>2, <2>6 DEF Verdict, Digest, Record, Stat, TypeOK
    <3>2. QED
      BY <2>5, <2>6, <3>1
  <2>7. CASE v = w /\ ReadRows(w)
    <3>1. CASE loc[w].op = "process"
      BY <1>2, <2>5, <2>7, <3>1 DEF ReadRows, TypeOK
    <3>2. CASE loc[w].op # "process"
      <4>1. loc' = [loc EXCEPT ![w] = [@ EXCEPT !.got = live.data, !.put = Kept(live.data)]]
        BY <2>7, <3>2 DEF ReadRows
      <4>2. QED
        BY <1>2, <2>5, <2>7, <4>1 DEF TypeOK
    <3>3. QED
      BY <3>1, <3>2
  <2>8. CASE v = w /\ Refuse(w) /\ ~Return(w)
    <3>1. /\ loc[w].op = "process" /\ pc[w] = "diff"
          /\ loc'[w].op = loc[w].op /\ loc'[w].req = loc[w].req
      BY <1>2, <2>8 DEF Refuse, Step, TypeOK
    <3>2. QED
      BY <1>2, <2>8, <3>1 DEF OwnPath
  <2>9. QED
    BY <1>2, <2>1, <2>2, <2>3, <2>4, <2>6, <2>7, <2>8, Moves, OthersRest
<1>3. TypeOK /\ OwnPath /\ Overlooked /\ [Next]_vars => Overlooked'
  <2> SUFFICES ASSUME TypeOK, OwnPath, Overlooked, [Next]_vars PROVE Overlooked'
    OBVIOUS
  <2>1. ASSUME NEW w \in Workers, Act(w) PROVE Overlooked'
    BY <1>2, <2>1 DEF Overlooked
  <2>2. CASE Tick \/ Crash \/ UNCHANGED vars
    BY <2>2 DEF Tick, Crash, vars, Overlooked, Idle
  <2>3. QED
    BY <2>1, <2>2 DEF Next, Act
<1>4. QED
  BY <1>1, <1>3, Typed, PTL DEF Spec

\* It is so at the start, and so it is always.
LEMMA Invariant == Spec => []IInv
<1>1. Init => Quiet
  <2> SUFFICES ASSUME Init PROVE Quiet
    OBVIOUS
  <2>1. /\ live.data = Original /\ registry = Original /\ known = {} /\ queue \in Queues
        /\ \A r \in Requests : queue[r] = "absent"
        /\ \A r \in Requests : payload[r] = {}
        /\ \A w \in Workers : pc[w] = "idle" /\ loc[w] = Idle /\ view[w] = NoView
    BY CsvAssumption DEF Init, QInit, Queues
  <2>2. {} \in Known /\ Original \in Known
    BY CsvAssumption DEF Known
  <2>3. \A w \in Workers : Knows(w)
    BY <2>1, <2>2 DEF Knows, Idle
  <2>4. Sound
    BY <2>1, <2>2, <2>3 DEF Sound
  <2>5. \A w \in Workers : Prepared(w) /\ Intent(w) /\ ~Reverting(w) /\ ~Replayed(w)
    BY <2>1 DEF Prepared, Intent, Reverting, Replayed, Writing, Checking, Idle
  <2>6. Closed
    BY <2>5 DEF Closed
  <2>7. Dated
    BY CsvAssumption DEF Init, Dated, Fresh, Idle
  <2>8. QED
    BY <2>4, <2>5, <2>6, <2>7 DEF Quiet
<1>2. TypeOK /\ TypeOK' /\ OwnPath /\ OwnPath' /\ Held /\ Held' /\ Quiet /\ [Next]_vars
      => Quiet'
  BY QuietStep
<1>3. QED
  BY <1>1, <1>2, Typed, LocksHeld, NoRevertOverlooked, PTL DEF Spec, IInv

----------------------------------------------------------------------------
(* The theorems.                                                           *)

\* The CSV is whole, whatever crashes and failed writes leave behind in <csv>.tmp, unless
\* a writer without the lock has overlapped another (write_csv, file_lock).
THEOREM FileIsWhole == Spec => []WholeFile
<1>1. IInv => WholeFile
  BY KnownRows DEF IInv, Quiet, Sound, WholeFile
<1>2. QED
  BY <1>1, Invariant, PTL

\* A save or a revert replaces what its client's token names, or what has come after it
\* within its second (the optimistic check of _save_csv and _revert_csv).
THEOREM ReplacesWhatIsNamed == Spec => ReplacesWhatTokenNames
<1> DEFINE A == \A w \in Workers :
         Replaces(w) /\ loc[w].op \in {"save", "revert"} /\ ~overlap' =>
            live.mtime = view[w].mtime /\ view[w].hash \in recent
<1>1. IInv /\ [Next]_vars => A
  <2> SUFFICES ASSUME IInv, [Next]_vars, NEW w \in Workers, pc[w] = "rename",
                      loc[w].op \in {"save", "revert"}, ~overlap'
               PROVE  Seen(w)
    BY DEF Replaces, Seen
  <2>1. ~overlap
    BY Monotone DEF Next, Act, Tick, Crash, vars, disk
  <2>2. QED
    BY <2>1 DEF IInv, Quiet, Intent, Writing
<1>2. QED
  BY <1>1, Invariant, PTL DEF Spec, ReplacesWhatTokenNames

\* A request is marked approved while its change is in the CSV, unless the save has refused
\* it with status 200 (_process_approval).
THEOREM ApprovedIsDone == Spec => ApprovedIsInForce
<1> DEFINE A == \A r \in Requests :
         queue[r] = "pending" /\ queue'[r] = "approved" /\ ~overlap =>
            IF Action[r] = "revert" THEN Kept(live.data) = Kept(Original)
            ELSE \/ r \in live.data \cup Expired
                 \/ \E w \in Workers :
                       pc[w] = "mark" /\ loc[w].req = r /\ loc[w].ok = "unnoticed"
<1>1. IInv /\ [Next]_vars => A
  <2> SUFFICES ASSUME IInv, [Next]_vars, NEW r \in Requests, queue[r] = "pending",
                      queue'[r] = "approved", ~overlap
               PROVE  \/ InForce(r)
                      \/ /\ Action[r] # "revert"
                         /\ \E w \in Workers :
                               pc[w] = "mark" /\ loc[w].req = r /\ loc[w].ok = "unnoticed"
    BY DEF InForce
  <2>1. PICK w \in Workers : Act(w)
    BY DEF Next, Act, Tick, Crash, vars, qvars
  <2>2. Mark(w) /\ r = loc[w].req /\ loc[w].ok \in {"done", "unnoticed"}
    <3>1. CASE Store(w)
      BY <3>1 DEF Store, Submit, ExpirePending, qvars
    <3>2. CASE Verdict(w)
      <4>1. queue' = queue \/ Resolve(loc[w].req, "rejected")
        BY <3>2 DEF Verdict, qvars
      <4>2. QED
        BY <4>1 DEF Resolve, IInv, TypeOK, Queues
    <3>3. CASE Mark(w)
      <4>1. Resolve(loc[w].req, IF loc[w].ok = "failed" THEN "failed" ELSE "approved")
        BY <3>3 DEF Mark
      <4>2. r = loc[w].req /\ loc[w].ok # "failed"
        BY <4>1 DEF Resolve, IInv, TypeOK, Queues
      <4>3. loc[w].ok \in {"done", "failed", "unnoticed"}
        BY DEF IInv, TypeOK
      <4>4. QED
        BY <3>3, <4>2, <4>3
    <3>4. QED
      BY <2>1, <3>1, <3>2, <3>3, Moves
  <2>3. loc[w].op = "process" /\ pc[w] = "mark"
    BY <2>2 DEF Mark, IInv, OwnPath, On, Saving, Proving, Checking
  <2>4. loc[w].ok = "unnoticed" => Action[r] # "revert"
    BY <2>2 DEF IInv, Overlooked
  <2>5. loc[w].ok = "done" => InForce(r)
    BY <2>2, <2>3 DEF IInv, Quiet, Closed, Replayed
  <2>6. QED
    BY <2>2, <2>3, <2>4, <2>5
<1>2. QED
  BY <1>1, Invariant, PTL DEF Spec, ApprovedIsInForce
=============================================================================
