------------------------- MODULE FileMonitor_proofs -------------------------
(***************************************************************************)
(* Theorems about FileMonitor, for any watched files, any contents, and    *)
(* any number of changes, losses, failures and runs of the script.         *)
(***************************************************************************)
EXTENDS FileMonitor, TLAPS

Bodies == [Files -> Entries]
Steps == {"idle", "key", "fs", "kv", "compare", "hash", "judge", "truncate", "put", "kvput",
          "initialized", "no source", "end", "stuck"}
Thens == {"end", "compare", "initialized", "no source"}
Scans == [cfg : Contents, key : Contents,
          status : {"missing", "corrupt", "ok", "mismatch", "denied"},
          base : Bodies, new : Bodies, todo : SUBSET Files, seen : Readings,
          write : BOOLEAN, both : BOOLEAN, then : Thens]

StoreTypes ==
    /\ fs \in {Missing, Corrupt} \cup Baseline
    /\ kv \in {Missing, Corrupt} \cup Baseline
    /\ denied \in BOOLEAN /\ kvStatus \in {"up", "down", "error", "hangs"}

PastTypes ==
    /\ known \in [Files -> SUBSET Entries] /\ unnamed \subseteq Files
    /\ spoke \in BOOLEAN /\ silent \in BOOLEAN /\ cried \in BOOLEAN /\ rekeyed \in BOOLEAN

TypeInv ==
    /\ actual \in [Files -> Contents] /\ changes \in Nat /\ faults \in Nat
    /\ StoreTypes /\ PastTypes
    /\ pc \in Steps /\ scan \in Scans

Kept(copy) == copy \notin {Missing, Corrupt}
Writing == pc \in {"truncate", "put", "kvput"}
Comparing == pc \in {"compare", "hash", "judge"}

----------------------------------------------------------------------------
(* Types.                                                                  *)

\* The values made of the constants.
LEMMA ConstantTypes ==
    /\ InstanceCfg \in Files /\ Plain \subseteq Files /\ Log \in Files /\ Log \notin Plain
    /\ Absent \in Contents /\ <<1, 1>> \in Contents
    /\ \A f \in Files : Possible(f) \subseteq Contents
    /\ Contents \subseteq Readings /\ Readings \subseteq Entries /\ Unlisted \in Entries
    /\ Nothing \in Bodies /\ Idle \in Scans
  <1>1. /\ InstanceCfg \in Files /\ Plain \subseteq Files /\ Log \in Files /\ Log \notin Plain
        /\ Generations \in Nat \ {0} /\ MaxLength \in Nat \ {0}
    BY MonitorAssumption DEF Files
  <1>2. 1 \in 1..Generations /\ 1 \in 1..MaxLength
    BY <1>1
  <1>3. Absent \in Contents /\ <<1, 1>> \in Contents
    BY <1>2 DEF Contents
  <1>4. \A f \in Files : Possible(f) \subseteq Contents
    BY <1>2 DEF Possible, Contents
  <1>5. Contents \subseteq Readings /\ Readings \subseteq Entries /\ Unlisted \in Entries
    BY DEF Readings, Entries
  <1>6. Nothing \in Bodies
    BY <1>5 DEF Nothing, Bodies
  <1>7. Idle \in Scans
    BY <1>3, <1>5, <1>6 DEF Idle, Scans, Thens
  <1> QED
    BY <1>1, <1>3, <1>4, <1>5, <1>6, <1>7

\* What is read of the log.
LEMMA ReadingTypes ==
    /\ \A c \in Contents : <<0, c[2]>> \in Readings
    /\ \A s \in Readings, c \in Contents : <<Prefix(c, s[2]), s[2]>> \in Readings
  <1>1. Generations \in Nat \ {0} /\ MaxLength \in Nat \ {0}
    BY MonitorAssumption
  <1>2. \A c \in Contents : c[1] \in 0..Generations /\ c[2] \in 0..MaxLength
    BY <1>1 DEF Contents, Absent
  <1>3. \A c \in Contents : c[1] = 0 => c[2] = 0
    BY <1>1 DEF Contents, Absent
  <1>4. \A s \in Readings : s[2] \in 0..MaxLength
    BY <1>1, <1>2 DEF Readings
  <1>5. /\ \A n \in 0..MaxLength : <<0, n>> \in Readings
        /\ \A g \in 1..Generations, n \in 1..MaxLength : <<g, n>> \in Readings
    BY <1>1 DEF Readings, Contents, Absent
  <1>6. ASSUME NEW s \in Readings, NEW c \in Contents
        PROVE  <<Prefix(c, s[2]), s[2]>> \in Readings
    <2> DEFINE n == s[2]
    <2>1. n \in 0..MaxLength /\ c[1] \in 0..Generations /\ c[2] \in 0..MaxLength
      BY <1>2, <1>4
    <2> HIDE DEF n
    <2>2. CASE Prefix(c, n) = 0
      BY <1>5, <2>1, <2>2 DEF n
    <2>3. CASE Prefix(c, n) # 0
      <3>1. Prefix(c, n) = c[1] /\ c[1] # 0 /\ n # 0
        BY <2>3 DEF Prefix
      <3>2. c[1] \in 1..Generations /\ n \in 1..MaxLength
        BY <1>1, <2>1, <3>1
      <3> QED
        BY <1>5, <3>1, <3>2 DEF n
    <2> QED BY <2>2, <2>3
  <1> QED
    BY <1>2, <1>5, <1>6

\* A copy that is in order, or signed with another key, is a baseline.
LEMMA Reads ==
    ASSUME TypeInv
    PROVE  /\ \A copy, key :
                 /\ StatusOf(copy, key) \in {"missing", "corrupt", "ok", "mismatch"}
                 /\ StatusOf(copy, key) \in {"ok", "mismatch"} <=> Kept(copy)
                 /\ StatusOf(copy, key) = "missing" => copy = Missing
                 /\ StatusOf(copy, key) = "mismatch" => copy.key # key
           /\ KvStatus \in {"missing", "corrupt", "ok", "mismatch", "down", "error", "hangs"}
           /\ KvStatus \in {"ok", "mismatch"} => Kept(kv)
           /\ kvStatus = "up" => KvStatus = StatusOf(kv, scan.key)
           /\ Kept(fs) => fs \in Baseline /\ fs.key \in Contents /\ fs.body \in Bodies
           /\ Kept(kv) => kv \in Baseline /\ kv.key \in Contents /\ kv.body \in Bodies
           /\ scan.base \in Bodies /\ Kept(kv) => Merged \in Bodies
  <1>1. \A copy, key :
           /\ StatusOf(copy, key) \in {"missing", "corrupt", "ok", "mismatch"}
           /\ StatusOf(copy, key) \in {"ok", "mismatch"} <=> Kept(copy)
           /\ StatusOf(copy, key) = "missing" => copy = Missing
           /\ StatusOf(copy, key) = "mismatch" => copy.key # key
    BY MonitorAssumption DEF StatusOf, Kept
  <1>2. /\ KvStatus \in {"missing", "corrupt", "ok", "mismatch", "down", "error", "hangs"}
        /\ KvStatus \in {"ok", "mismatch"} => Kept(kv)
        /\ kvStatus = "up" => KvStatus = StatusOf(kv, scan.key)
    <2>1. kvStatus \in {"up", "down", "error", "hangs"}
      BY DEF TypeInv, StoreTypes
    <2> QED
      BY <1>1, <2>1 DEF KvStatus
  <1>3. /\ Kept(fs) => fs \in Baseline
        /\ Kept(kv) => kv \in Baseline
    BY DEF TypeInv, StoreTypes, Kept
  <1>4. \A copy \in Baseline : copy.key \in Contents /\ copy.body \in Bodies
    BY DEF Baseline, Bodies
  <1>5. scan.base \in Bodies /\ Kept(kv) => Merged \in Bodies
    BY <1>3, <1>4 DEF Merged, Bodies
  <1> QED
    BY <1>1, <1>2, <1>3, <1>4, <1>5

\* The fields of a scan.
LEMMA Fields ==
    ASSUME NEW s \in Scans
    PROVE  /\ s.cfg \in Contents /\ s.key \in Contents /\ s.base \in Bodies /\ s.new \in Bodies
           /\ s.todo \subseteq Files /\ s.write \in BOOLEAN /\ s.both \in BOOLEAN
           /\ s.then \in Thens /\ s.seen \in Readings
           /\ s.status \in {"missing", "corrupt", "ok", "mismatch", "denied"}
  BY DEF Scans

\* A run that compares with body, and one that takes the files as they are.
LEMMA ChosenTypes ==
    ASSUME TypeInv
    PROVE  /\ \A body \in Bodies, first \in Steps, resign \in BOOLEAN :
                 Compare(body, first, resign) =>
                    /\ pc = "kv" /\ pc' = first /\ scan' \in Scans
                    /\ scan'.base = body /\ scan'.new = body /\ ~scan'.both
                    /\ scan'.then = "compare" /\ scan'.key = scan.key
                    /\ scan'.cfg = scan.cfg
           /\ \A then \in Thens :
                 Rebuild(then) =>
                    /\ pc = "kv" /\ pc' = "compare" /\ scan' \in Scans
                    /\ scan'.base = Nothing /\ scan'.then = then
                    /\ scan'.both = scan.both /\ scan'.key = scan.key /\ scan'.write
  <1>1. scan \in Scans /\ Nothing \in Bodies
    BY ConstantTypes DEF TypeInv
  <1>2. ASSUME NEW body \in Bodies, NEW first \in Steps, NEW resign \in BOOLEAN,
               Compare(body, first, resign)
        PROVE  /\ pc = "kv" /\ pc' = first /\ scan' \in Scans
               /\ scan'.base = body /\ scan'.new = body /\ ~scan'.both
               /\ scan'.then = "compare" /\ scan'.key = scan.key
               /\ scan'.cfg = scan.cfg
    BY <1>1, <1>2 DEF Compare, Answered, Scans, Thens
  <1>3. ASSUME NEW then \in Thens, Rebuild(then)
        PROVE  /\ pc = "kv" /\ pc' = "compare" /\ scan' \in Scans
               /\ scan'.base = Nothing /\ scan'.then = then
               /\ scan'.both = scan.both /\ scan'.key = scan.key /\ scan'.write
    BY <1>1, <1>3 DEF Rebuild, Answered, Scans
  <1> QED
    BY <1>2, <1>3

\* What a run does when it has read both copies.
Choice ==
    \/ FirstRun \/ Agree \/ Diverge \/ FsAlone \/ Denied \/ KvAlone
    \/ Unverified \/ Unusable \/ NoSource

\* A step reports, and may cry wolf, or does neither; what was said stays said.
LEMMA ReportTypes ==
    ASSUME TypeInv
    PROVE  Report \/ Quiet => spoke' \in BOOLEAN /\ cried' \in BOOLEAN /\ (spoke => spoke')
  <1>1. spoke \in BOOLEAN /\ cried \in BOOLEAN
    BY DEF TypeInv, PastTypes
  <1>2. ASSUME Report PROVE spoke' \in BOOLEAN /\ cried' \in BOOLEAN /\ (spoke => spoke')
    BY <1>1, <1>2 DEF Report
  <1>3. ASSUME Quiet PROVE spoke' \in BOOLEAN /\ cried' \in BOOLEAN /\ (spoke => spoke')
    BY <1>1, <1>3 DEF Quiet
  <1> QED BY <1>2, <1>3

\* The step that chooses keeps the types, and leaves the stores and the past alone.
LEMMA ChoiceTypes ==
    ASSUME TypeInv, Choice
    PROVE  /\ TypeInv' /\ pc = "kv"
           /\ Chosen /\ (spoke => spoke')
  <1>1. /\ scan \in Scans /\ scan.base \in Bodies /\ pc \in Steps
        /\ (KvStatus = "ok" => kv.body \in Bodies /\ Merged \in Bodies)
    BY Reads, Fields DEF TypeInv
  <1>2. ASSUME Chosen, Report \/ Quiet, pc = "kv", pc' \in Steps, scan' \in Scans
        PROVE  /\ TypeInv' /\ pc = "kv" /\ Chosen /\ (spoke => spoke')
    <2>1. spoke' \in BOOLEAN /\ cried' \in BOOLEAN /\ (spoke => spoke')
      BY <1>2, ReportTypes
    <2>2. /\ StoreTypes' /\ actual' \in [Files -> Contents] /\ changes' \in Nat
          /\ faults' \in Nat /\ known' \in [Files -> SUBSET Entries] /\ unnamed' \subseteq Files
          /\ silent' \in BOOLEAN /\ rekeyed' \in BOOLEAN
      BY <1>2 DEF Chosen, TypeInv, StoreTypes, PastTypes, stores
    <2> QED
      BY <1>2, <2>1, <2>2 DEF TypeInv, PastTypes
  <1>3. \A body \in Bodies, first \in Steps, resign \in BOOLEAN :
           Compare(body, first, resign) => pc = "kv" /\ pc' \in Steps /\ scan' \in Scans
    BY ChosenTypes
  <1>4. \A then \in Thens : Rebuild(then) => pc = "kv" /\ pc' \in Steps /\ scan' \in Scans
    BY ChosenTypes DEF Steps
  <1>5. Chosen /\ (Report \/ Quiet)
    BY DEF Choice, FirstRun, Agree, Diverge, FsAlone, Denied, KvAlone, Unverified, Unusable,
           NoSource
  <1> SUFFICES pc = "kv" /\ pc' \in Steps /\ scan' \in Scans
    BY <1>2, <1>5
  <1>6. CASE FirstRun \/ Unusable \/ NoSource
    BY <1>4, <1>6 DEF FirstRun, Unusable, NoSource, Thens
  <1>7. CASE Agree \/ Diverge \/ FsAlone \/ KvAlone \/ Unverified
    BY <1>1, <1>3, <1>7 DEF Agree, Diverge, FsAlone, KvAlone, Unverified, Steps
  <1>8. CASE Denied
    <2>1. CASE KvStatus = "ok"
      BY <1>1, <1>3, <1>8, <2>1 DEF Denied, Steps
    <2>2. CASE KvStatus # "ok"
      BY <1>1, <1>8, <2>2 DEF Denied, Answered, Steps
    <2> QED BY <2>1, <2>2
  <1> QED
    BY <1>6, <1>7, <1>8 DEF Choice

\* The rest of a run.
Rest ==
    \/ Start \/ DeriveKey \/ ReadFs \/ Hang
    \/ (\E f \in Plain : CompareFile(f)) \/ MeasureLog \/ HashLog \/ JudgeLog \/ Compared
    \/ TruncateFs \/ PutFs \/ FsFails \/ PutKv \/ KvFails \/ Rebuilt \/ End

\* An entry noted in the baseline leaves the rest of the scan as it was.
LEMMA NoteTypes ==
    ASSUME TypeInv, NEW f \in Files, NEW entry \in Entries, NEW cur, Note(f, entry, cur)
    PROVE  /\ scan' \in Scans /\ PastTypes'
           /\ scan'.base = scan.base /\ scan'.key = scan.key
           /\ scan'.both = scan.both /\ scan'.then = scan.then /\ (scan.write => scan'.write)
           /\ UNCHANGED <<actual, stores, changes, faults, known, silent, rekeyed>>
  <1>1. scan \in Scans /\ scan.new \in Bodies /\ scan.write \in BOOLEAN /\ PastTypes
        /\ scan.todo \subseteq Files
    BY Fields DEF TypeInv
  <1> DEFINE alarm == Alarming(f, scan.base[f], cur)
  <1>2. alarm \in BOOLEAN
    BY DEF Alarming
  <1>3. /\ scan' = [scan EXCEPT !.todo = @ \ {f}, !.new[f] = entry, !.write = @ \/ alarm]
        /\ spoke' = (spoke \/ alarm) /\ cried' = (cried \/ (alarm /\ ~Anomaly(f, cur)))
        /\ unnamed' = IF Anomaly(f, cur) /\ ~alarm THEN unnamed \cup {f} ELSE unnamed
        /\ UNCHANGED <<actual, stores, changes, faults, known, silent, rekeyed>>
    BY DEF Note
  <1> HIDE DEF alarm
  <1>4. [scan.new EXCEPT ![f] = entry] \in Bodies /\ (scan.write \/ alarm) \in BOOLEAN
    BY <1>1, <1>2 DEF Bodies
  <1>5. /\ scan' \in Scans
        /\ scan'.base = scan.base /\ scan'.key = scan.key
        /\ scan'.both = scan.both /\ scan'.then = scan.then /\ (scan.write => scan'.write)
    BY <1>1, <1>3, <1>4 DEF Scans
  <1>6. spoke' \in BOOLEAN /\ cried' \in BOOLEAN /\ unnamed' \subseteq Files
    BY <1>1, <1>2, <1>3 DEF PastTypes
  <1>7. PastTypes'
    BY <1>1, <1>3, <1>6 DEF PastTypes
  <1> QED
    BY <1>3, <1>5, <1>7

\* A file is noted by two steps of a comparison.
LEMMA NotesIs ==
    ASSUME TypeInv, (\E f \in Plain : CompareFile(f)) \/ JudgeLog
    PROVE  /\ Comparing /\ pc' = "compare"
           /\ \E f \in Files, entry \in Entries : \E cur : Note(f, entry, cur)
  <1>1. CASE \E f \in Plain : CompareFile(f)
    <2>1. PICK f \in Plain : CompareFile(f)
      BY <1>1
    <2>2. /\ f \in Files /\ actual[f] \in Contents /\ Contents \subseteq Entries
          /\ scan.cfg \in Contents
      BY ConstantTypes, Fields DEF TypeInv
    <2>3. /\ Comparing /\ pc' = "compare" /\ \E cur \in Entries : Note(f, cur, cur)
      BY <2>1, <2>2 DEF CompareFile, Goto, Comparing
    <2> QED
      BY <2>2, <2>3
  <1>2. CASE JudgeLog
    <2>1. Comparing /\ pc' = "compare" /\ \E cur : Note(Log, scan.seen, cur)
      BY <1>2 DEF JudgeLog, Goto, Comparing
    <2>2. Log \in Files /\ scan.seen \in Entries
      BY ConstantTypes, Fields DEF TypeInv
    <2> QED
      BY <2>1, <2>2
  <1> QED BY <1>1, <1>2

\* So do the steps of the rest of a run.
LEMMA RestTypes ==
    ASSUME TypeInv, Rest
    PROVE  TypeInv'
  <1>1. /\ scan \in Scans /\ scan.base \in Bodies /\ scan.new \in Bodies /\ pc \in Steps
        /\ scan.key \in Contents /\ scan.then \in Thens /\ scan.cfg \in Contents
        /\ scan.both \in BOOLEAN /\ scan.todo \subseteq Files
        /\ actual \in [Files -> Contents] /\ changes \in Nat /\ faults \in Nat
        /\ StoreTypes /\ PastTypes /\ scan.seen \in Readings
        /\ known \in [Files -> SUBSET Entries] /\ unnamed \subseteq Files
    BY Fields DEF TypeInv, PastTypes
  <1>2. /\ actual[InstanceCfg] \in Contents /\ actual[Log] \in Contents
        /\ Idle \in Scans /\ Absent \in Contents
    BY <1>1, ConstantTypes
  <1>3. CASE Start
    <2>1. scan' \in Scans
      BY <1>2, <1>3 DEF Start, Scans
    <2> QED
      BY <1>1, <1>3, <2>1 DEF Start, Goto, TypeInv, StoreTypes, PastTypes, stores, Steps
  <1>4. CASE DeriveKey
    <2>1. scan' \in Scans
      BY <1>1, <1>2, <1>4 DEF DeriveKey, Scans
    <2> QED
      BY <1>1, <1>4, <2>1 DEF DeriveKey, Goto, TypeInv, StoreTypes, PastTypes, stores,
                              history, Steps
  <1>5. CASE ReadFs
    <2> DEFINE status == IF denied THEN "denied" ELSE StatusOf(fs, scan.key)
    <2>1. /\ status \in {"missing", "corrupt", "ok", "mismatch", "denied"}
          /\ status \in {"ok", "mismatch"} => fs.body \in Bodies
      BY Reads
    <2>2. scan' = [scan EXCEPT !.status = status,
                       !.base = IF status \in {"ok", "mismatch"} THEN fs.body ELSE @]
      BY <1>5 DEF ReadFs
    <2> HIDE DEF status
    <2>3. scan' \in Scans
      BY <1>1, <2>1, <2>2 DEF Scans
    <2> QED
      BY <1>1, <1>5, <2>3 DEF ReadFs, Goto, TypeInv, StoreTypes, PastTypes, stores,
                              history, Steps
  <1> DEFINE Beside == /\ UNCHANGED <<actual, stores, changes, faults>>
                       /\ pc' \in Steps /\ scan' \in Scans /\ PastTypes'
  <1>6. Beside => TypeInv'
    BY <1>1 DEF TypeInv, StoreTypes, stores
  <1>17. CASE (\E f \in Plain : CompareFile(f)) \/ JudgeLog
    <2>1. pc' \in Steps /\ \E f \in Files, entry \in Entries : \E cur : Note(f, entry, cur)
      BY <1>17, NotesIs DEF Steps
    <2> QED
      BY <1>6, <2>1, NoteTypes
  <1>18. CASE MeasureLog \/ HashLog
    <2>1. PICK seen \in Readings : scan' = [scan EXCEPT !.seen = seen]
      BY <1>1, <1>2, <1>18, ReadingTypes DEF MeasureLog, HashLog
    <2>2. scan' \in Scans
      BY <1>1, <2>1 DEF Scans
    <2>3. PastTypes' /\ pc' \in Steps /\ UNCHANGED <<actual, stores, changes, faults>>
      BY <1>1, <1>18 DEF MeasureLog, HashLog, Goto, Steps, PastTypes, history
    <2> QED
      BY <1>6, <2>2, <2>3
  <1>19. CASE Hang
    BY <1>1, <1>19 DEF Hang, TypeInv, StoreTypes, PastTypes, stores, history, Steps
  <1>7. CASE Compared
    <2>1. /\ scan' = [scan EXCEPT !.both = TRUE,
                                  !.then = IF scan.then = "compare" THEN "end" ELSE scan.then]
          /\ (IF scan.then = "compare" THEN "end" ELSE scan.then) \in Thens
      BY <1>1, <1>7 DEF Compared, Thens
    <2>3. scan' \in Scans
      BY <1>1, <2>1 DEF Scans
    <2> QED
      BY <1>1, <1>7, <2>3 DEF Compared, Goto, TypeInv, StoreTypes, PastTypes, stores,
                              history, Steps
  <1>8. CASE TruncateFs
    BY <1>1, <1>8 DEF TruncateFs, Goto, TypeInv, StoreTypes, PastTypes, history, Steps
  <1>9. [key |-> scan.key, body |-> scan.new] \in Baseline
    BY <1>1 DEF Baseline, Bodies
  <1>10. /\ AfterFs \in Steps /\ scan.then \in Steps
         /\ \A first : Taken(first) => known' \in [Files -> SUBSET Entries]
    <2>1. AfterFs \in Steps /\ scan.then \in Steps
      BY <1>1 DEF AfterFs, Thens, Steps
    <2>2. ASSUME NEW first, Taken(first) PROVE known' \in [Files -> SUBSET Entries]
      <3>1. \A f \in Files : ({scan.new[f]} \cup IF first THEN {} ELSE known[f]) \subseteq Entries
        BY <1>1 DEF Bodies
      <3> QED
        BY <2>2, <3>1 DEF Taken
    <2> QED BY <2>1, <2>2
  <1>11. CASE PutFs
    BY <1>1, <1>9, <1>10, <1>11 DEF PutFs, Goto, Taken, TypeInv, StoreTypes, PastTypes
  <1>12. CASE FsFails
    <2>1. spoke' \in BOOLEAN /\ cried' \in BOOLEAN
      BY <1>12, ReportTypes DEF FsFails
    <2>2. faults' \in Nat
      BY <1>1, <1>12 DEF FsFails
    <2> QED
      BY <1>1, <1>10, <1>12, <2>1, <2>2 DEF FsFails, TypeInv, StoreTypes, PastTypes, stores
  <1>13. CASE PutKv
    BY <1>1, <1>9, <1>10, <1>13 DEF PutKv, Goto, Taken, TypeInv, StoreTypes, PastTypes
  <1>14. CASE KvFails
    <2>1. faults' \in Nat
      BY <1>1, <1>14 DEF KvFails
    <2> QED
      BY <1>1, <1>10, <1>14, <2>1 DEF KvFails, Goto, TypeInv, StoreTypes, PastTypes, stores,
                                      history
  <1>15. CASE Rebuilt
    <2>1. spoke' \in BOOLEAN /\ cried' \in BOOLEAN
      BY <1>1, <1>15, ReportTypes DEF Rebuilt, PastTypes
    <2> QED
      BY <1>1, <1>15, <2>1 DEF Rebuilt, TypeInv, StoreTypes, PastTypes, stores, Steps
  <1>16. CASE End
    <2>1. silent' \in BOOLEAN
      BY <1>1, <1>16 DEF End, PastTypes
    <2> QED
      BY <1>1, <1>2, <1>16, <2>1 DEF End, Goto, TypeInv, StoreTypes, PastTypes, stores, Steps
  <1> QED
    BY <1>3, <1>4, <1>5, <1>7, <1>8, <1>11, <1>12, <1>13, <1>14, <1>15, <1>16, <1>17, <1>18,
       <1>19 DEF Rest

\* What happens around the script.
Around ==
    \/ Crash \/ (\E f \in Files : Change(f))
    \/ LoseFs \/ LoseKv \/ Deny \/ Allow \/ KvGoes \/ KvReturns

\* And so does what happens around the script.
LEMMA AroundTypes ==
    ASSUME TypeInv, Around
    PROVE  TypeInv'
  <1>1. /\ pc \in Steps /\ scan \in Scans /\ changes \in Nat
        /\ actual \in [Files -> Contents] /\ faults \in Nat /\ StoreTypes /\ PastTypes
    BY DEF TypeInv
  <1>2. faults + 1 \in Nat /\ changes + 1 \in Nat
    BY <1>1
  <1>3. CASE Crash
    <2>1. unnamed' \subseteq Files
      BY <1>1, <1>3 DEF Crash, PastTypes
    <2> QED
      BY <1>1, <1>2, <1>3, <2>1, ConstantTypes
         DEF Crash, Fault, TypeInv, StoreTypes, PastTypes, stores, Steps
  <1>4. ASSUME NEW f \in Files, Change(f) PROVE TypeInv'
    <2>1. actual' \in [Files -> Contents]
      BY <1>1, <1>4, ConstantTypes DEF Change
    <2>2. rekeyed' \in BOOLEAN
      BY <1>1, <1>4 DEF Change, PastTypes
    <2> QED
      BY <1>1, <1>2, <1>4, <2>1, <2>2 DEF Change, TypeInv, StoreTypes, PastTypes, stores
  <1>5. ASSUME Outside, faults' \in Nat, pc' = pc, StoreTypes' PROVE TypeInv'
    BY <1>1, <1>5 DEF Outside, TypeInv, PastTypes, history
  <1>6. CASE LoseFs \/ LoseKv \/ Deny \/ Allow \/ KvGoes \/ KvReturns
    <2>1. Outside /\ faults' \in Nat /\ pc' = pc
      BY <1>1, <1>2, <1>6 DEF LoseFs, LoseKv, Deny, Allow, KvGoes, KvReturns, Fault
    <2>2. StoreTypes'
      <3>1. CASE LoseFs \/ LoseKv
        BY <1>1, <3>1 DEF LoseFs, LoseKv, StoreTypes
      <3>2. CASE Deny \/ Allow
        BY <1>1, <3>2 DEF Deny, Allow, StoreTypes
      <3>3. CASE KvGoes \/ KvReturns
        <4>1. kvStatus' \in {"up", "down", "error", "hangs"}
          BY <3>3, MonitorAssumption DEF KvGoes, KvReturns
        <4> QED
          BY <1>1, <3>3, <4>1 DEF KvGoes, KvReturns, StoreTypes
      <3> QED BY <1>6, <3>1, <3>2, <3>3
    <2> QED
      BY <1>5, <2>1, <2>2
  <1> QED
    BY <1>3, <1>4, <1>6 DEF Around

\* A step is one of the run or one of its surroundings.
LEMMA StepIs == Next => Choice \/ Rest \/ Around
  BY DEF Next, Run, Choice, Rest, Around

\* The types hold at the start.
LEMMA InitTypes == Init => TypeInv
  <1> SUFFICES ASSUME Init PROVE TypeInv
    OBVIOUS
  <1>1. actual \in [Files -> Contents]
    BY ConstantTypes DEF Init
  <1>2. StoreTypes /\ PastTypes
    BY DEF Init, StoreTypes, PastTypes
  <1> QED
    BY <1>1, <1>2, ConstantTypes DEF Init, TypeInv, Steps

\* The types hold always.
LEMMA TypeInvHolds == Spec => []TypeInv
  <1>1. TypeInv /\ UNCHANGED vars => TypeInv'
    BY DEF TypeInv, StoreTypes, PastTypes, vars, stores, history
  <1>2. TypeInv /\ [Next]_vars => TypeInv'
    BY <1>1, StepIs, ChoiceTypes, RestTypes, AroundTypes
  <1> QED
    BY <1>2, InitTypes, PTL DEF Spec

\* A copy of the baseline is missing or damaged, or lists each file with what was read of
\* it, or not at all (_write_fs_baseline, _write_kv_baseline).
THEOREM TypeCorrect == Spec => []TypeOK
  <1>1. TypeInv => TypeOK
    BY Fields DEF TypeInv, StoreTypes, TypeOK, Bodies
  <1> QED
    BY <1>1, TypeInvHolds, PTL

----------------------------------------------------------------------------
(* No change passes in silence.                                            *)

\* Each file is as some copy of the baseline took it last.
Known(body) == \A f \in Files : body[f] \in known[f]

\* One who compares with what is known names what has changed.
LEMMA ChangeIsNamed ==
    ASSUME TypeInv, NEW body \in Bodies, Known(body), NEW f \in Files, NEW cur,
           Anomaly(f, cur)
    PROVE  Alarming(f, body[f], cur)
  <1>1. body[f] \in known[f]
    BY DEF Known
  <1>2. body[f] # Unlisted /\ Altered(f, body[f], cur)
    BY <1>1 DEF Anomaly
  <1>3. f \in Plain <=> f # Log
    BY ConstantTypes DEF Files
  <1> QED
    BY <1>2, <1>3 DEF Alarming, Altered

\* How a run is to go on, from each of its steps.
ScanInv ==
    /\ pc \in {"key", "fs", "kv"} => scan.both
    /\ Writing \/ Comparing => (scan.both <=> scan.then # "compare")
    /\ pc \in {"initialized", "no source"} => scan.then = pc
    /\ Comparing /\ scan.then # "compare" => scan.write

\* The file holds what some copy took last, as the comparison does unless the condition
\* of the baseline has been reported; and a change that is not named is reported too, or
\* will be when the files have been taken as they are.
SilentInv ==
    /\ ScanInv
    /\ ~silent
    /\ Kept(fs) => Known(fs.body)
    /\ pc = "kv" /\ scan.status = "ok" => Known(scan.base)
    /\ pc \in {"truncate", "put"} /\ scan.then = "compare" => spoke
    /\ (Comparing \/ pc = "kvput") /\ scan.then = "compare" => spoke \/ Known(scan.base)
    /\ Comparing /\ scan.then = "end" => spoke
    /\ pc \in {"idle", "key", "fs", "kv"} => unnamed = {}
    /\ unnamed # {} =>
          \/ spoke
          \/ pc \in {"initialized", "no source"}
          \/ (Writing \/ Comparing \/ pc = "stuck") /\ scan.then \in {"initialized", "no source"}

\* What a run chooses to trust is known, or it has said why it trusts nothing.
LEMMA SilentChoice ==
    ASSUME TypeInv, SilentInv, Choice
    PROVE  SilentInv'
  <1>1. /\ pc = "kv" /\ scan.both /\ unnamed = {} /\ ~silent /\ (Kept(fs) => Known(fs.body))
        /\ scan.status = "ok" => Known(scan.base)
    BY ChoiceTypes DEF SilentInv, ScanInv
  <1>2. fs' = fs /\ known' = known /\ silent' = silent
    BY ChoiceTypes DEF Chosen, stores
  <1>3. /\ scan \in Scans /\ scan.base \in Bodies /\ pc \in Steps
        /\ (KvStatus = "ok" => kv.body \in Bodies /\ Merged \in Bodies)
    BY Reads, Fields DEF TypeInv
  <1>4. ~silent' /\ (Kept(fs') => Known(fs.body)') /\ \A body : Known(body)' <=> Known(body)
    BY <1>1, <1>2 DEF Known
  <1>5. ASSUME NEW body \in Bodies, NEW first \in {"compare", "truncate", "kvput"},
               NEW resign \in BOOLEAN, Compare(body, first, resign),
               spoke' \/ (Known(body) /\ first # "truncate")
        PROVE  SilentInv'
    <2>1. first \in Steps
      BY DEF Steps
    <2>2. /\ pc' = first /\ scan'.base = body /\ ~scan'.both /\ scan'.then = "compare"
      BY <1>5, <2>1, ChosenTypes
    <2>3. unnamed' = {}
      BY <1>1, ChoiceTypes DEF Chosen
    <2>4. ScanInv'
      BY <2>2 DEF ScanInv, Writing, Comparing
    <2> QED
      BY <1>4, <1>5, <2>2, <2>3, <2>4 DEF SilentInv, Comparing
  <1>6. ASSUME NEW then \in {"initialized", "end", "no source"}, Rebuild(then),
               then = "end" => spoke'
        PROVE  SilentInv'
    <2>1. pc' = "compare" /\ scan'.then = then /\ scan'.both /\ scan'.write
      BY <1>1, <1>6, ChosenTypes DEF Thens
    <2>2. ScanInv'
      BY <2>1 DEF ScanInv, Writing, Comparing
    <2>3. unnamed' = {}
      BY <1>1, ChoiceTypes DEF Chosen
    <2> QED
      BY <1>4, <1>6, <2>1, <2>2, <2>3 DEF SilentInv, Writing, Comparing
  <1>7. CASE FirstRun
    BY <1>6, <1>7 DEF FirstRun
  <1>8. CASE Agree
    BY <1>1, <1>3, <1>5, <1>8 DEF Agree
  <1>9. CASE Diverge
    BY <1>3, <1>5, <1>9 DEF Diverge, Report
  <1>10. CASE FsAlone
    BY <1>1, <1>3, <1>5, <1>10 DEF FsAlone
  <1>11. CASE Denied
    <2>1. CASE KvStatus = "ok"
      BY <1>3, <1>5, <1>11, <2>1 DEF Denied, Report
    <2>2. CASE KvStatus # "ok"
      <3>1. pc' = "end" /\ spoke' /\ unnamed' = {}
        BY <1>1, <1>11, <2>2 DEF Denied, Chosen, Report
      <3> QED
        BY <1>4, <3>1 DEF SilentInv, ScanInv, Writing, Comparing
    <2> QED BY <2>1, <2>2
  <1>12. CASE KvAlone
    BY <1>3, <1>5, <1>12 DEF KvAlone, Report
  <1>13. CASE Unverified
    BY <1>3, <1>5, <1>13 DEF Unverified, Report
  <1>14. CASE Unusable
    BY <1>6, <1>14 DEF Unusable, Report
  <1>15. CASE NoSource
    BY <1>6, <1>15 DEF NoSource
  <1> QED
    BY <1>7, <1>8, <1>9, <1>10, <1>11, <1>12, <1>13, <1>14, <1>15 DEF Choice

\* A run that compares a known baseline names what differs, and writes what it has seen.
LEMMA SilentRest ==
    ASSUME TypeInv, SilentInv, Rest
    PROVE  SilentInv'
  <1>1. /\ scan \in Scans /\ scan.base \in Bodies /\ scan.new \in Bodies /\ pc \in Steps
        /\ scan.both \in BOOLEAN /\ scan.then \in Thens
        /\ known \in [Files -> SUBSET Entries] /\ unnamed \subseteq Files
        /\ ScanInv /\ ~silent /\ (Kept(fs) => Known(fs.body))
    BY Fields DEF TypeInv, PastTypes, SilentInv
  <1>2. ASSUME known' = known PROVE \A body : Known(body)' <=> Known(body)
    BY <1>2 DEF Known
  <1>3. CASE Start
    <2>1. /\ pc' = "key" /\ scan'.both /\ fs' = fs /\ known' = known /\ silent' = silent
          /\ unnamed' = {}
      BY <1>1, <1>3 DEF Start, Goto, stores, Idle, SilentInv
    <2>2. ScanInv'
      BY <2>1 DEF ScanInv, Writing, Comparing
    <2> QED
      BY <1>1, <1>2, <2>1, <2>2 DEF SilentInv, Known, Comparing
  <1>4. CASE DeriveKey
    <2>1. /\ pc = "key" /\ pc' = "fs" /\ scan' = [scan EXCEPT !.key = actual[InstanceCfg]]
          /\ fs' = fs /\ known' = known /\ silent' = silent /\ unnamed' = unnamed
      BY <1>4 DEF DeriveKey, Goto, stores, history
    <2>2. scan'.both = scan.both
      BY <1>1, <2>1 DEF Scans
    <2>3. ScanInv' /\ unnamed = {}
      BY <1>1, <2>1, <2>2 DEF ScanInv, Writing, Comparing, SilentInv
    <2> QED
      BY <1>1, <2>1, <2>3 DEF SilentInv, Known, Comparing
  <1>5. CASE ReadFs
    <2> DEFINE status == IF denied THEN "denied" ELSE StatusOf(fs, scan.key)
    <2>1. status = "ok" => Kept(fs)
      BY Reads
    <2>2. /\ pc = "fs" /\ pc' = "kv"
          /\ scan' = [scan EXCEPT !.status = status,
                       !.base = IF status \in {"ok", "mismatch"} THEN fs.body ELSE @]
          /\ fs' = fs /\ known' = known /\ silent' = silent /\ unnamed' = unnamed
      BY <1>5 DEF ReadFs, Goto, stores, history
    <2> HIDE DEF status
    <2>3. /\ scan'.both = scan.both /\ scan'.status = status
          /\ status = "ok" => scan'.base = fs.body
      BY <1>1, <2>2 DEF Scans
    <2>4. ScanInv' /\ unnamed = {}
      BY <1>1, <2>2, <2>3 DEF ScanInv, Writing, Comparing, SilentInv
    <2>5. scan'.status = "ok" => Known(scan.base)'
      BY <1>1, <2>1, <2>2, <2>3 DEF Known
    <2> QED
      BY <1>1, <2>2, <2>4, <2>5 DEF SilentInv, Known, Comparing
  \* A file is noted, in a comparison or of those taken as they are.
  <1>6. ASSUME NEW f \in Files, NEW entry \in Entries, NEW cur, Note(f, entry, cur),
               Comparing, pc' = "compare"
        PROVE  SilentInv'
    <2>1. /\ scan'.base = scan.base /\ scan'.both = scan.both /\ scan'.then = scan.then
          /\ (scan.write => scan'.write)
          /\ fs' = fs /\ known' = known /\ silent' = silent
      BY <1>6, NoteTypes DEF stores
    <2> DEFINE alarm == Alarming(f, scan.base[f], cur)
    <2>2. /\ spoke' = (spoke \/ alarm)
          /\ unnamed' = IF Anomaly(f, cur) /\ ~alarm THEN unnamed \cup {f} ELSE unnamed
      BY <1>6 DEF Note
    <2>3. /\ scan.then = "compare" => spoke \/ Known(scan.base)
          /\ scan.then = "end" => spoke
          /\ unnamed # {} => spoke \/ scan.then \in {"initialized", "no source"}
      BY <1>6 DEF SilentInv, Writing, Comparing
    <2>4. Known(scan.base) => (Anomaly(f, cur) => alarm)
      BY <1>1, ChangeIsNamed
    <2> HIDE DEF alarm
    <2>5. unnamed' # {} => spoke' \/ scan.then \in {"initialized", "no source"}
      BY <1>1, <2>2, <2>3, <2>4 DEF Thens
    <2>6. spoke => spoke'
      BY <2>2
    <2>7. ScanInv'
      BY <1>1, <1>6, <2>1 DEF ScanInv, Writing, Comparing
    <2>8. Known(scan.base)' <=> Known(scan.base)
      BY <2>1 DEF Known
    <2>9. (Kept(fs') => Known(fs.body)') /\ ~silent'
      BY <1>1, <2>1 DEF Known
    <2> QED
      BY <1>6, <2>1, <2>3, <2>5, <2>6, <2>7, <2>8, <2>9 DEF SilentInv, Comparing
  <1>14. CASE (\E f \in Plain : CompareFile(f)) \/ JudgeLog
    BY <1>6, <1>14, NotesIs
  <1>15. CASE MeasureLog \/ HashLog
    <2>1. /\ Comparing /\ pc' \in {"hash", "judge"}
          /\ \E seen : scan' = [scan EXCEPT !.seen = seen]
          /\ fs' = fs /\ known' = known /\ silent' = silent /\ unnamed' = unnamed
          /\ spoke' = spoke
      BY <1>15 DEF MeasureLog, HashLog, Goto, Comparing, stores, history
    <2>2. /\ scan'.base = scan.base /\ scan'.both = scan.both /\ scan'.then = scan.then
          /\ scan'.write = scan.write
      BY <1>1, <2>1 DEF Scans
    <2>3. ScanInv'
      BY <1>1, <2>1, <2>2 DEF ScanInv, Writing, Comparing
    <2> QED
      BY <1>1, <2>1, <2>2, <2>3 DEF SilentInv, Known, Writing, Comparing
  <1>16. CASE Hang
    <2>1. /\ pc \in {"kv", "kvput"} /\ pc' = "stuck" /\ scan' = scan /\ fs' = fs
          /\ known' = known /\ silent' = silent /\ unnamed' = unnamed /\ spoke' = spoke
      BY <1>16 DEF Hang, stores, history
    <2>2. ScanInv'
      BY <2>1 DEF ScanInv, Writing, Comparing
    <2> QED
      BY <1>1, <2>1, <2>2 DEF SilentInv, Known, Writing, Comparing
  <1>7. CASE Compared
    <2>1. /\ pc = "compare" /\ pc' \in {"truncate", "end"}
          /\ scan' = [scan EXCEPT !.both = TRUE,
                                  !.then = IF scan.then = "compare" THEN "end" ELSE scan.then]
          /\ fs' = fs /\ known' = known /\ silent' = silent /\ unnamed' = unnamed
          /\ spoke' = spoke
          /\ pc' = "end" => ~scan.write
      BY <1>7 DEF Compared, Goto, stores, history
    <2>2. /\ scan'.both
          /\ scan'.then = IF scan.then = "compare" THEN "end" ELSE scan.then
      BY <1>1, <2>1 DEF Scans
    <2>3. unnamed # {} => spoke \/ scan.then \in {"initialized", "no source"}
      BY <2>1 DEF SilentInv, Writing, Comparing
    <2>4. pc' = "end" => scan.then = "compare"
      BY <1>1, <2>1 DEF ScanInv, Comparing, Thens
    <2>5. ScanInv'
      <3>1. scan'.both /\ scan'.then # "compare" /\ pc' \in {"truncate", "end"}
        BY <2>1, <2>2
      <3> QED
        BY <3>1 DEF ScanInv, Writing, Comparing
    <2> QED
      BY <1>1, <2>1, <2>2, <2>3, <2>4, <2>5 DEF SilentInv, Known, Writing, Comparing
  <1>8. CASE TruncateFs
    <2>1. /\ pc = "truncate" /\ pc' = "put" /\ scan' = scan /\ ~Kept(fs')
          /\ known' = known /\ silent' = silent /\ unnamed' = unnamed /\ spoke' = spoke
      BY <1>8 DEF TruncateFs, Goto, history, Kept
    <2>2. ScanInv'
      BY <1>1, <2>1 DEF ScanInv, Writing, Comparing
    <2> QED
      BY <1>1, <2>1, <2>2 DEF SilentInv, Writing, Comparing
  <1>9. CASE PutFs
    <2>1. /\ pc = "put" /\ pc' = AfterFs /\ scan' = scan
          /\ fs' = [key |-> scan.key, body |-> scan.new]
          /\ known' = [f \in Files |-> {scan.new[f]} \cup IF scan.both THEN {} ELSE known[f]]
          /\ silent' = silent /\ unnamed' = unnamed /\ spoke' = spoke
      BY <1>9 DEF PutFs, Goto, Taken
    <2>2. Known(fs.body)'
      BY <2>1 DEF Known
    <2>3. CASE scan.both
      <3>1. pc' = "kvput" /\ scan.then # "compare"
        BY <1>1, <2>1, <2>3 DEF AfterFs, ScanInv, Writing, Comparing
      <3>2. ScanInv'
        BY <1>1, <2>1, <2>3, <3>1 DEF ScanInv, Writing, Comparing
      <3> QED
        BY <1>1, <2>1, <2>2, <3>1, <3>2 DEF SilentInv, Writing, Comparing
    <2>4. CASE ~scan.both
      <3>1. pc' = "compare" /\ scan.then = "compare" /\ spoke
        BY <1>1, <2>1, <2>4 DEF AfterFs, ScanInv, Writing, Comparing, SilentInv
      <3>2. ScanInv'
        BY <2>1, <2>4, <3>1 DEF ScanInv, Writing, Comparing
      <3> QED
        BY <1>1, <2>1, <2>2, <3>1, <3>2 DEF SilentInv, Comparing
    <2> QED BY <1>1, <2>3, <2>4
  <1>10. CASE FsFails
    <2>1. /\ pc \in {"truncate", "put"} /\ pc' = AfterFs /\ scan' = scan /\ fs' = fs
          /\ known' = known /\ silent' = silent /\ unnamed' = unnamed
          /\ IF scan.both THEN spoke' = spoke ELSE spoke'
      BY <1>10 DEF FsFails, stores, Quiet, Report
    <2>2. CASE scan.both
      <3>1. pc' = "kvput" /\ scan.then # "compare"
        BY <1>1, <2>1, <2>2 DEF AfterFs, ScanInv, Writing, Comparing
      <3>2. ScanInv'
        BY <1>1, <2>1, <2>2, <3>1 DEF ScanInv, Writing, Comparing
      <3> QED
        BY <1>1, <2>1, <2>2, <3>1, <3>2 DEF SilentInv, Writing, Comparing, Known
    <2>3. CASE ~scan.both
      <3>1. pc' = "compare" /\ scan.then = "compare" /\ spoke'
        BY <1>1, <2>1, <2>3 DEF AfterFs, ScanInv, Writing, Comparing
      <3>2. ScanInv'
        BY <2>1, <2>3, <3>1 DEF ScanInv, Writing, Comparing
      <3> QED
        BY <1>1, <2>1, <3>1, <3>2 DEF SilentInv, Known, Comparing
    <2> QED BY <1>1, <2>2, <2>3
  <1>11. CASE PutKv \/ KvFails
    <2>1. /\ pc = "kvput" /\ pc' = scan.then /\ scan' = scan /\ fs' = fs
          /\ silent' = silent /\ unnamed' = unnamed /\ spoke' = spoke
          /\ \A f \in Files : known[f] \subseteq known'[f]
      BY <1>11 DEF PutKv, KvFails, Goto, Taken, stores, history
    <2>2. \A body : Known(body) => Known(body)'
      BY <2>1 DEF Known
    <2>3. Kept(fs') => Known(fs.body)'
      BY <1>1, <2>1 DEF Known
    <2>4. ScanInv'
      BY <1>1, <2>1 DEF ScanInv, Writing, Comparing, Thens
    <2>5. pc' = "compare" => spoke' \/ Known(scan.base)'
      <3>1. pc' = "compare" => spoke \/ Known(scan.base)
        BY <2>1 DEF SilentInv, Comparing
      <3> QED
        BY <2>1, <3>1 DEF Known
    <2>6. pc' \in {"compare", "end", "initialized", "no source"}
      BY <1>1, <2>1 DEF Thens
    <2>7. unnamed # {} => spoke \/ pc' \in {"initialized", "no source"}
      BY <2>1 DEF SilentInv, Writing, Comparing
    <2> QED
      BY <1>1, <2>1, <2>3, <2>4, <2>5, <2>6, <2>7 DEF SilentInv, Comparing
  <1>12. CASE Rebuilt
    <2>1. /\ pc' = "end" /\ fs' = fs /\ known' = known /\ silent' = silent /\ spoke'
      BY <1>12 DEF Rebuilt, stores, Report
    <2>2. ScanInv'
      BY <2>1 DEF ScanInv, Writing, Comparing
    <2> QED
      BY <1>1, <2>1, <2>2 DEF SilentInv, Known, Comparing
  <1>13. CASE End
    <2>1. /\ pc = "end" /\ pc' = "idle" /\ fs' = fs /\ known' = known /\ unnamed' = {}
          /\ silent' = (silent \/ (unnamed # {} /\ ~spoke))
      BY <1>13 DEF End, Goto, stores
    <2>2. unnamed # {} => spoke
      BY <2>1 DEF SilentInv, Writing, Comparing
    <2>3. ScanInv' /\ ~silent'
      BY <1>1, <2>1, <2>2 DEF ScanInv, Writing, Comparing
    <2> QED
      BY <1>1, <2>1, <2>3 DEF SilentInv, Known, Comparing
  <1> QED
    BY <1>3, <1>4, <1>5, <1>7, <1>8, <1>9, <1>10, <1>11, <1>12, <1>13,
       <1>14, <1>15, <1>16 DEF Rest

\* What happens around the script leaves nothing unsaid.
LEMMA SilentAround ==
    ASSUME TypeInv, SilentInv, Around
    PROVE  SilentInv'
  <1>1. CASE Crash
    <2>1. /\ pc' = "idle" /\ fs' = fs /\ known' = known /\ silent' = silent
          /\ unnamed' = IF spoke \/ scan.then \in {"initialized", "no source"}
                        THEN {} ELSE unnamed
      BY <1>1 DEF Crash, stores
    <2>2. unnamed' = {}
      BY <2>1 DEF SilentInv, ScanInv
    <2>3. ScanInv'
      BY <2>1 DEF ScanInv, Writing, Comparing
    <2> QED
      BY <2>1, <2>2, <2>3 DEF SilentInv, Known, Comparing
  <1>2. CASE ~Crash
    <2>1. /\ pc' = pc /\ scan' = scan /\ known' = known /\ silent' = silent
          /\ unnamed' = unnamed /\ spoke' = spoke
      BY <1>2 DEF Around, Change, LoseFs, LoseKv, Deny, Allow, KvGoes, KvReturns, Outside,
                  history
    <2>2. fs' = fs \/ ~Kept(fs')
      BY <1>2 DEF Around, Change, LoseFs, LoseKv, Deny, Allow, KvGoes, KvReturns, stores, Kept
    <2>3. ScanInv' /\ Writing' = Writing
      BY <2>1 DEF ScanInv, Writing, Comparing, SilentInv
    <2> QED
      BY <2>1, <2>2, <2>3 DEF SilentInv, Known, Comparing
  <1> QED BY <1>1, <1>2

\* A run that compares a file altered since a run last met it, or a log that has lost or
\* changed what it had, does not end without an alert, whichever copy of the baseline was
\* lost, damaged, out of reach, out of date or signed with an old key, wherever the runs
\* before it died, and wherever the log changed between the reads of it; but for files that
\* patterns no longer find, files that a copy of the baseline does not list, and the
\* beginning of a log that shrank while it was read (main).
THEOREM ChangesAreReported == Spec => []NoSilentChange
  <1>1. Init => SilentInv
    BY DEF Init, SilentInv, ScanInv, Writing, Comparing, Kept
  <1>2. TypeInv /\ SilentInv /\ [Next]_vars => SilentInv'
    <2>1. ASSUME SilentInv, UNCHANGED vars PROVE SilentInv'
      <3>1. /\ pc' = pc /\ scan' = scan /\ known' = known /\ silent' = silent
            /\ unnamed' = unnamed /\ spoke' = spoke /\ fs' = fs
        BY <2>1 DEF vars, stores, history
      <3>2. ScanInv' /\ Writing' = Writing
        BY <2>1, <3>1 DEF ScanInv, Writing, Comparing, SilentInv
      <3> QED
        BY <2>1, <3>1, <3>2 DEF SilentInv, Known, Comparing
    <2> QED
      BY <2>1, StepIs, SilentChoice, SilentRest, SilentAround
  <1>3. SilentInv => NoSilentChange
    BY DEF SilentInv, NoSilentChange
  <1> QED
    BY <1>1, <1>2, <1>3, TypeInvHolds, PTL DEF Spec

----------------------------------------------------------------------------
(* No false alarms.                                                        *)

First == <<1, 1>>

\* Until instance.cfg changes, there is one key.
KeyInv ==
    ~rekeyed =>
        /\ actual[InstanceCfg] = First
        /\ pc \notin {"idle", "key"} => scan.key = First
        /\ Kept(fs) => fs.key = First
        /\ Kept(kv) => kv.key = First

\* No step signs or reads with another key before instance.cfg has changed.
LEMMA KeyStep ==
    ASSUME TypeInv, KeyInv, Next
    PROVE  KeyInv'
  <1> SUFFICES ASSUME ~rekeyed'
               PROVE  /\ actual'[InstanceCfg] = First
                      /\ pc' \notin {"idle", "key"} => scan'.key = First
                      /\ Kept(fs') => fs'.key = First
                      /\ Kept(kv') => kv'.key = First
    BY DEF KeyInv
  <1>1. /\ scan \in Scans /\ scan.base \in Bodies /\ actual \in [Files -> Contents]
        /\ pc \in Steps /\ (KvStatus = "ok" => kv.body \in Bodies /\ Merged \in Bodies)
    BY Reads, Fields DEF TypeInv
  <1> DEFINE Same == actual' = actual /\ fs' = fs /\ kv' = kv /\ rekeyed' = rekeyed
  <1>2. ASSUME Same
        PROVE  /\ actual'[InstanceCfg] = First
               /\ pc \notin {"idle", "key"} => scan.key = First
               /\ Kept(fs') => fs'.key = First
               /\ Kept(kv') => kv'.key = First
    BY <1>2 DEF KeyInv
  <1>3. CASE Choice
    <2>1. Same /\ pc = "kv"
      BY <1>3, ChoiceTypes DEF Chosen, stores
    <2>2. scan'.key = scan.key
      <3>1. ASSUME NEW body \in Bodies, NEW first \in {"compare", "truncate", "kvput"},
                   NEW resign \in BOOLEAN, Compare(body, first, resign)
            PROVE  scan'.key = scan.key
        BY <3>1, ChosenTypes DEF Steps
      <3>2. ASSUME NEW then \in {"initialized", "end", "no source"}, Rebuild(then)
            PROVE  scan'.key = scan.key
        BY <3>2, ChosenTypes DEF Thens
      <3>3. CASE FirstRun \/ Unusable \/ NoSource
        BY <3>2, <3>3 DEF FirstRun, Unusable, NoSource
      <3>4. CASE Agree \/ Diverge \/ FsAlone \/ KvAlone \/ Unverified
        BY <1>1, <3>1, <3>4 DEF Agree, Diverge, FsAlone, KvAlone, Unverified
      <3>5. CASE Denied
        BY <1>1, <3>1, <3>5 DEF Denied
      <3> QED BY <1>3, <3>3, <3>4, <3>5 DEF Choice
    <2> QED
      BY <1>2, <2>1, <2>2
  <1>4. CASE Start \/ DeriveKey \/ End
    <2>1. Same /\ (pc' \in {"idle", "key"} \/ scan' = [scan EXCEPT !.key = actual[InstanceCfg]])
      BY <1>4 DEF Start, DeriveKey, End, Goto, stores, history
    <2> QED
      BY <1>1, <1>2, <2>1 DEF Scans
  <1>5. CASE ReadFs \/ Compared \/ MeasureLog \/ HashLog
    <2>1. Same /\ pc \notin {"idle", "key"}
      BY <1>5 DEF ReadFs, Compared, MeasureLog, HashLog, Goto, stores, history
    <2>2. scan'.key = scan.key
      BY <1>1, <1>5 DEF ReadFs, Compared, MeasureLog, HashLog, Scans
    <2> QED
      BY <1>2, <2>1, <2>2
  <1>10. CASE (\E f \in Plain : CompareFile(f)) \/ JudgeLog
    <2>1. /\ pc \notin {"idle", "key"}
          /\ \E f \in Files, entry \in Entries : \E cur : Note(f, entry, cur)
      BY <1>10, NotesIs DEF Comparing
    <2>2. Same /\ scan'.key = scan.key
      BY <2>1, NoteTypes DEF stores
    <2> QED
      BY <1>2, <2>1, <2>2
  <1>6. CASE FsFails \/ KvFails \/ Rebuilt \/ Hang
    <2>1. Same /\ pc \notin {"idle", "key"} /\ scan' = scan
      BY <1>6 DEF FsFails, KvFails, Rebuilt, Hang, Goto, stores, history
    <2> QED
      BY <1>2, <2>1
  <1>7. CASE TruncateFs \/ PutFs \/ PutKv
    <2>1. /\ actual' = actual /\ rekeyed' = rekeyed /\ pc \notin {"idle", "key"}
          /\ scan' = scan
      BY <1>7 DEF TruncateFs, PutFs, PutKv, Goto, Taken, history
    <2>2. scan.key = First
      BY <2>1 DEF KeyInv
    <2>3. /\ Kept(fs') => fs' = fs \/ fs' = [key |-> scan.key, body |-> scan.new]
          /\ Kept(kv') => kv' = kv \/ kv' = [key |-> scan.key, body |-> scan.new]
      BY <1>7 DEF TruncateFs, PutFs, PutKv, Kept
    <2> QED
      BY <2>1, <2>2, <2>3 DEF KeyInv
  <1>8. CASE Crash
    <2>1. Same /\ pc' = "idle"
      BY <1>8 DEF Crash, stores
    <2> QED
      BY <1>2, <2>1
  <1>9. ASSUME NEW f \in Files, Change(f)
        PROVE  /\ actual'[InstanceCfg] = First
               /\ pc' \notin {"idle", "key"} => scan'.key = First
               /\ Kept(fs') => fs'.key = First
               /\ Kept(kv') => kv'.key = First
    <2>1. /\ f # InstanceCfg /\ ~rekeyed /\ pc' = pc /\ scan' = scan /\ fs' = fs /\ kv' = kv
      BY <1>9 DEF Change, stores
    <2>2. actual'[InstanceCfg] = actual[InstanceCfg]
      BY <1>1, <1>9, <2>1, ConstantTypes DEF Change
    <2> QED
      BY <2>1, <2>2 DEF KeyInv
  <1>11. CASE LoseFs \/ LoseKv \/ Deny \/ Allow \/ KvGoes \/ KvReturns
    <2>1. actual' = actual /\ rekeyed' = rekeyed /\ scan' = scan /\ pc' = pc
      BY <1>11 DEF LoseFs, LoseKv, Deny, Allow, KvGoes, KvReturns, Outside, history
    <2>2. (Kept(fs') => fs' = fs) /\ (Kept(kv') => kv' = kv)
      BY <1>11 DEF LoseFs, LoseKv, Deny, Allow, KvGoes, KvReturns, Kept
    <2> QED
      BY <2>1, <2>2 DEF KeyInv
  <1> QED
    BY <1>3, <1>4, <1>5, <1>6, <1>7, <1>8, <1>9, <1>10, <1>11, StepIs DEF Rest, Around

\* Without failures the two copies are the same between writes, all files are known as
\* they have them, and a run compares with that or takes the first snapshot.
TakenAs(f) == IF kv = Missing THEN {} ELSE {kv.body[f]}

CleanInv ==
    faults = 0 =>
        /\ ~cried /\ ~denied /\ kvStatus = "up" /\ kv # Corrupt /\ pc # "no source"
        /\ pc \notin {"put", "kvput"} => fs = kv /\ \A f \in Files : known[f] = TakenAs(f)
        /\ pc \in {"key", "fs", "kv"} => scan.both
        /\ Writing => scan.both /\ scan.then \in {"end", "initialized"}
        /\ pc = "kvput" => /\ fs = [key |-> scan.key, body |-> scan.new]
                           /\ \A f \in Files : known[f] = {scan.new[f]}
        /\ pc = "kv" => /\ scan.status = StatusOf(fs, scan.key)
                        /\ scan.status \in {"ok", "mismatch"} => scan.base = fs.body
        /\ Comparing =>
              \/ scan.then = "compare" /\ kv # Missing /\ scan.base = kv.body
              \/ scan.then = "initialized" /\ scan.both /\ scan.base = Nothing

\* What a run names has changed, if it compares with the one known content.
LEMMA NamedIsChanged ==
    ASSUME TypeInv, NEW body \in Bodies, NEW f \in Files, known[f] = {body[f]},
           NEW cur, Alarming(f, body[f], cur)
    PROVE  Anomaly(f, cur)
  <1>1. body[f] # Unlisted /\ Altered(f, body[f], cur)
    BY ConstantTypes DEF Alarming, Altered, Files
  <1>2. known[f] # {} /\ \A old \in known[f] : old = body[f]
    OBVIOUS
  <1> QED
    BY <1>1, <1>2 DEF Anomaly

\* Without failures no step parts the copies, or reports what has not happened.
LEMMA CleanStep ==
    ASSUME TypeInv, KeyInv, CleanInv, Next
    PROVE  CleanInv'
  <1> DEFINE Clean ==
        /\ ~cried /\ ~denied /\ kvStatus = "up" /\ kv # Corrupt /\ pc # "no source"
        /\ pc \notin {"put", "kvput"} => fs = kv /\ \A f \in Files : known[f] = TakenAs(f)
        /\ pc \in {"key", "fs", "kv"} => scan.both
        /\ Writing => scan.both /\ scan.then \in {"end", "initialized"}
        /\ pc = "kvput" => /\ fs = [key |-> scan.key, body |-> scan.new]
                           /\ \A f \in Files : known[f] = {scan.new[f]}
        /\ pc = "kv" => /\ scan.status = StatusOf(fs, scan.key)
                        /\ scan.status \in {"ok", "mismatch"} => scan.base = fs.body
        /\ Comparing =>
              \/ scan.then = "compare" /\ kv # Missing /\ scan.base = kv.body
              \/ scan.then = "initialized" /\ scan.both /\ scan.base = Nothing
  <1> SUFFICES ASSUME faults' = 0 PROVE Clean'
    BY DEF CleanInv
  <1>1. /\ scan \in Scans /\ scan.base \in Bodies /\ scan.new \in Bodies /\ pc \in Steps
        /\ scan.key \in Contents /\ scan.both \in BOOLEAN /\ scan.then \in Thens
        /\ known \in [Files -> SUBSET Entries] /\ faults \in Nat
    BY Fields DEF TypeInv, PastTypes
  <1>2. faults' = faults \/ faults' = faults + 1
    <2>1. Choice => faults' = faults
      BY ChoiceTypes DEF Chosen
    <2>2. Rest => faults' = faults \/ faults' = faults + 1
      BY DEF Rest, Start, DeriveKey, ReadFs, Hang, CompareFile, MeasureLog, HashLog, JudgeLog,
             Note, Compared, TruncateFs, PutFs, FsFails, PutKv, KvFails, Rebuilt, End
    <2>3. Around => faults' = faults \/ faults' = faults + 1
      BY DEF Around, Crash, Change, LoseFs, LoseKv, Deny, Allow, KvGoes, KvReturns, Fault
    <2> QED BY <2>1, <2>2, <2>3, StepIs
  <1>3. faults = 0 /\ faults' = faults /\ faults' # faults + 1
    BY <1>1, <1>2
  <1>4. Clean
    BY <1>3 DEF CleanInv
  \* What stays as it is when neither copy is written.
  <1> DEFINE Same == UNCHANGED <<fs, kv, denied, kvStatus, known>>
  <1>5. ASSUME Same
        PROVE  /\ ~denied' /\ kvStatus' = "up" /\ kv' # Corrupt
               /\ \A f \in Files : TakenAs(f)' = TakenAs(f) /\ known'[f] = known[f]
    BY <1>4, <1>5 DEF TakenAs
  <1> HIDE DEF Clean
  <1>6. CASE Choice
    <2>1. Same /\ pc = "kv"
      BY <1>6, ChoiceTypes DEF Chosen, stores
    <2>2. /\ fs = kv /\ (\A f \in Files : known[f] = TakenAs(f)) /\ ~cried
          /\ scan.status = StatusOf(fs, scan.key)
          /\ scan.status \in {"ok", "mismatch"} => scan.base = fs.body
          /\ scan.both /\ kvStatus = "up" /\ kv # Corrupt
      BY <1>4, <2>1 DEF Clean
    <2>3. /\ KvStatus = scan.status /\ scan.status # "denied" /\ scan.status # "corrupt"
          /\ scan.status \in {"missing", "ok", "mismatch"}
          /\ scan.status \in {"ok", "mismatch"} => Kept(kv)
          /\ scan.status = "mismatch" => fs.key # scan.key
      <3>1. /\ KvStatus = StatusOf(kv, scan.key) /\ StatusOf(kv, scan.key) # "corrupt"
            /\ StatusOf(kv, scan.key) # "denied"
        BY <2>2, Reads DEF StatusOf
      <3> QED
        BY <2>2, <3>1, Reads
    <2>4. CASE FirstRun
      <3>1. /\ pc' = "compare" /\ scan'.then = "initialized" /\ scan'.both /\ cried' = cried
            /\ scan'.base = Nothing
        BY <2>2, <2>4, ChosenTypes DEF FirstRun, Thens, Quiet
      <3> QED
        BY <1>5, <2>1, <2>2, <3>1 DEF Clean, Writing, Comparing, Nothing
    <2>5. CASE Agree \/ Unverified
      <3>1. \E resign \in BOOLEAN : Compare(scan.base, "compare", resign)
        BY <2>5 DEF Agree, Unverified
      <3>2. pc' = "compare" /\ scan'.base = scan.base /\ scan'.then = "compare"
        BY <1>1, <3>1, ChosenTypes DEF Steps
      <3>3. scan.status \in {"ok", "mismatch"} /\ scan.base = kv.body /\ kv # Missing
        BY <2>2, <2>3, <2>5 DEF Agree, Unverified, Kept
      <3>4. ~cried'
        <4>1. CASE Agree
          BY <2>2, <4>1 DEF Agree, Quiet
        <4>2. CASE Unverified
          <5>1. Report /\ scan.status = "mismatch"
            BY <4>2 DEF Unverified
          <5>2. rekeyed
            BY <2>1, <2>2, <2>3, <5>1 DEF KeyInv
          <5> QED
            BY <2>2, <5>1, <5>2 DEF Report
        <4> QED BY <2>5, <4>1, <4>2
      <3> QED
        BY <1>5, <2>1, <2>2, <3>2, <3>3, <3>4 DEF Clean, Writing, Comparing
    <2>6. ~Diverge
      BY <2>2, <2>3 DEF Diverge
    <2>7. ~FsAlone /\ ~Denied /\ ~KvAlone /\ ~Unusable /\ ~NoSource
      BY <2>3 DEF FsAlone, Denied, KvAlone, Unusable, NoSource
    <2> QED
      BY <1>6, <2>4, <2>5, <2>6, <2>7 DEF Choice
  <1>7. CASE Start \/ DeriveKey \/ ReadFs
    <2>1. Same /\ cried' = cried /\ pc \in {"idle", "key", "fs"} /\ pc' \in {"key", "fs", "kv"}
      BY <1>7 DEF Start, DeriveKey, ReadFs, Goto, stores, history
    <2>2. fs' = kv' /\ \A f \in Files : known'[f] = TakenAs(f)'
      BY <1>4, <1>5, <2>1 DEF Clean
    <2>3. scan'.both
      <3>1. CASE Start
        BY <3>1 DEF Start, Idle
      <3>2. CASE DeriveKey \/ ReadFs
        <4>1. scan.both
          BY <1>4, <3>2 DEF Clean, DeriveKey, ReadFs, Goto
        <4> QED
          BY <1>1, <3>2, <4>1 DEF DeriveKey, ReadFs, Scans
      <3> QED BY <1>7, <3>1, <3>2
    <2>4. pc' = "kv" => /\ scan'.status = StatusOf(fs, scan.key)' /\ scan'.key = scan.key
                        /\ scan'.status \in {"ok", "mismatch"} => scan'.base = fs.body
      <3>1. CASE ReadFs
        <4> DEFINE status == StatusOf(fs, scan.key)
        <4>1. scan' = [scan EXCEPT !.status = status,
                          !.base = IF status \in {"ok", "mismatch"} THEN fs.body ELSE @]
          BY <1>4, <3>1 DEF ReadFs, Clean
        <4> HIDE DEF status
        <4>2. /\ scan'.status = status /\ scan'.key = scan.key
              /\ status \in {"ok", "mismatch"} => scan'.base = fs.body
          BY <1>1, <4>1 DEF Scans
        <4>3. StatusOf(fs, scan.key)' = status
          BY <2>1, <4>2 DEF status, StatusOf
        <4> QED
          BY <4>2, <4>3
      <3>2. CASE Start \/ DeriveKey
        BY <3>2 DEF Start, DeriveKey, Goto
      <3> QED BY <1>7, <3>1, <3>2
    <2> QED
      BY <1>4, <1>5, <2>1, <2>2, <2>3, <2>4 DEF Clean, Writing, Comparing
  <1>8. CASE (\E f \in Plain : CompareFile(f)) \/ JudgeLog
    <2>1. Comparing /\ pc' = "compare"
      BY <1>8, NotesIs
    <2>0. PICK f \in Files, entry \in Entries : \E cur : Note(f, entry, cur)
      BY <1>8, NotesIs
    <2>2. PICK cur : Note(f, entry, cur)
      BY <2>0
    <2>3. /\ scan'.base = scan.base /\ scan'.both = scan.both /\ scan'.then = scan.then /\ Same
      BY <2>2, NoteTypes DEF stores
    <2>4. /\ fs = kv /\ ~cried /\ \A x \in Files : known[x] = TakenAs(x)
          /\ \/ scan.then = "compare" /\ kv # Missing /\ scan.base = kv.body
             \/ scan.then = "initialized" /\ scan.both /\ scan.base = Nothing
      BY <1>4, <2>1 DEF Clean, Comparing
    <2> DEFINE alarm == Alarming(f, scan.base[f], cur)
    <2>5. cried' = (cried \/ (alarm /\ ~Anomaly(f, cur)))
      BY <2>2 DEF Note
    <2>6. alarm => Anomaly(f, cur)
      <3>1. CASE scan.base = Nothing
        <4>1. scan.base[f] = Unlisted
          BY <3>1 DEF Nothing
        <4> QED
          BY <4>1 DEF Alarming
      <3>2. CASE kv # Missing /\ scan.base = kv.body
        <4>1. known[f] = {scan.base[f]}
          BY <2>4, <3>2 DEF TakenAs
        <4> QED
          BY <1>1, <4>1, NamedIsChanged
      <3> QED BY <2>4, <3>1, <3>2
    <2> HIDE DEF alarm
    <2>7. ~cried'
      BY <2>4, <2>5, <2>6
    <2> QED
      BY <1>5, <2>1, <2>3, <2>4, <2>7 DEF Clean, Writing, Comparing
  <1>18. CASE MeasureLog \/ HashLog
    <2>1. /\ Comparing /\ pc' \in {"hash", "judge"} /\ Same /\ cried' = cried
          /\ \E seen : scan' = [scan EXCEPT !.seen = seen]
      BY <1>18 DEF MeasureLog, HashLog, Goto, Comparing, stores, history
    <2>2. scan'.base = scan.base /\ scan'.both = scan.both /\ scan'.then = scan.then
      BY <1>1, <2>1 DEF Scans
    <2> QED
      BY <1>4, <1>5, <2>1, <2>2 DEF Clean, Writing, Comparing
  <1>19. CASE Hang
    <2>1. kvStatus = "hangs"
      BY <1>19 DEF Hang
    <2> QED
      BY <1>4, <2>1 DEF Clean
  <1>9. CASE Compared
    <2>1. /\ pc = "compare" /\ pc' \in {"truncate", "end"} /\ Same /\ cried' = cried
          /\ scan' = [scan EXCEPT !.both = TRUE,
                                  !.then = IF scan.then = "compare" THEN "end" ELSE scan.then]
      BY <1>9 DEF Compared, Goto, stores, history
    <2>2. /\ scan'.both
          /\ scan'.then = IF scan.then = "compare" THEN "end" ELSE scan.then
      BY <1>1, <2>1 DEF Scans
    <2>3. scan'.then \in {"end", "initialized"}
      BY <1>4, <2>1, <2>2 DEF Clean, Comparing
    <2> QED
      BY <1>4, <1>5, <2>1, <2>2, <2>3 DEF Clean, Writing, Comparing
  <1>10. CASE TruncateFs
    <2>1. /\ pc = "truncate" /\ pc' = "put" /\ scan' = scan /\ cried' = cried
          /\ UNCHANGED <<denied, kv, kvStatus>>
      BY <1>10 DEF TruncateFs, Goto, history
    <2> QED
      BY <1>4, <2>1 DEF Clean, Writing, Comparing
  <1>11. CASE PutFs
    <2>1. /\ pc = "put" /\ pc' = AfterFs /\ scan' = scan /\ cried' = cried
          /\ UNCHANGED <<denied, kv, kvStatus>>
          /\ fs' = [key |-> scan.key, body |-> scan.new]
          /\ known' = [f \in Files |-> {scan.new[f]} \cup IF scan.both THEN {} ELSE known[f]]
      BY <1>11 DEF PutFs, Goto, Taken
    <2>2. scan.both /\ scan.then \in {"end", "initialized"}
      BY <1>4, <2>1 DEF Clean, Writing, Comparing
    <2>3. pc' = "kvput" /\ \A f \in Files : known'[f] = {scan.new[f]}
      BY <2>1, <2>2 DEF AfterFs
    <2> QED
      BY <1>4, <2>1, <2>2, <2>3 DEF Clean, Writing, Comparing
  <1>12. CASE PutKv
    <2>1. /\ pc = "kvput" /\ pc' = scan.then /\ scan' = scan /\ cried' = cried
          /\ UNCHANGED <<denied, fs, kvStatus>>
          /\ kv' = [key |-> scan.key, body |-> scan.new]
          /\ known' = [f \in Files |-> {scan.new[f]} \cup known[f]]
      BY <1>12 DEF PutKv, Goto, Taken
    <2>2. /\ scan.then \in {"end", "initialized"} /\ fs = kv'
          /\ \A f \in Files : known[f] = {scan.new[f]}
      BY <1>4, <2>1 DEF Clean, Writing, Comparing
    <2>3. kv' \in Baseline
      BY <1>1, <2>1 DEF Baseline, Bodies
    <2>4. kv' # Missing /\ kv' # Corrupt
      BY <2>3, MonitorAssumption
    <2>5. \A f \in Files : known'[f] = TakenAs(f)'
      BY <2>1, <2>2, <2>4 DEF TakenAs
    <2> QED
      BY <1>4, <2>1, <2>2, <2>4, <2>5 DEF Clean, Writing, Comparing
  <1>13. CASE FsFails \/ KvFails
    BY <1>3, <1>4, <1>13 DEF FsFails, KvFails, Clean
  <1>14. CASE Rebuilt
    <2>1. pc = "initialized" /\ pc' = "end" /\ Same /\ cried' = cried
      BY <1>4, <1>14 DEF Rebuilt, Clean, stores
    <2> QED
      BY <1>4, <1>5, <2>1 DEF Clean, Writing, Comparing
  <1>15. CASE End
    <2>1. pc = "end" /\ pc' = "idle" /\ Same /\ cried' = cried
      BY <1>15 DEF End, Goto, stores
    <2> QED
      BY <1>4, <1>5, <2>1 DEF Clean, Writing, Comparing
  <1>16. ASSUME NEW f \in Files, Change(f) PROVE Clean'
    <2>1. pc' = pc /\ scan' = scan /\ Same /\ cried' = cried
      BY <1>16 DEF Change, stores
    <2>2. /\ Writing' = Writing /\ Comparing' = Comparing
          /\ StatusOf(fs, scan.key)' = StatusOf(fs, scan.key)
      BY <2>1 DEF Writing, Comparing, StatusOf
    <2> QED
      BY <1>4, <1>5, <2>1, <2>2 DEF Clean, Nothing
  <1>17. CASE Crash \/ LoseFs \/ LoseKv \/ Deny \/ Allow \/ KvGoes \/ KvReturns
    BY <1>3, <1>4, <1>17 DEF Crash, LoseFs, LoseKv, Deny, Allow, KvGoes, KvReturns, Fault, Clean
  <1> QED
    BY <1>6, <1>7, <1>8, <1>9, <1>10, <1>11, <1>12, <1>13, <1>14, <1>15, <1>16, <1>17,
       <1>18, <1>19, StepIs
       DEF Rest, Around

\* Without failures nothing is reported that has not happened: no file is named that no
\* one has altered, whenever a log grows, and the copies of the baseline are in doubt only
\* when the key has changed (main).
THEOREM AlarmsAreForCause == Spec => []NoFalseAlarm
  <1> DEFINE Inv == TypeInv /\ KeyInv /\ CleanInv
  <1>1. Init => Inv
    <2> SUFFICES ASSUME Init PROVE Inv
      OBVIOUS
    <2>1. actual[InstanceCfg] = First
      BY MonitorAssumption DEF Init, Files, First
    <2>2. KeyInv
      BY <2>1 DEF Init, KeyInv, Kept
    <2>3. CleanInv
      BY MonitorAssumption DEF Init, CleanInv, TakenAs, Writing, Comparing
    <2> QED
      BY <2>2, <2>3, InitTypes
  <1>2. Inv /\ [Next]_vars => Inv'
    <2>1. ASSUME Inv, UNCHANGED vars PROVE Inv'
      <3>1. TypeInv'
        BY <2>1 DEF TypeInv, StoreTypes, PastTypes, vars, stores, history
      <3>2. KeyInv'
        BY <2>1 DEF KeyInv, Kept, vars, stores, history
      <3>3. /\ UNCHANGED <<fs, kv, denied, kvStatus, known, cried, faults, pc, scan>>
            /\ Writing' = Writing /\ Comparing' = Comparing
            /\ StatusOf(fs, scan.key)' = StatusOf(fs, scan.key)
            /\ \A f \in Files : TakenAs(f)' = TakenAs(f)
        BY <2>1 DEF vars, stores, history, Writing, Comparing, StatusOf, TakenAs
      <3>4. CleanInv'
        BY <2>1, <3>3 DEF CleanInv, Nothing
      <3> QED BY <3>1, <3>2, <3>4
    <2> QED
      BY <2>1, StepIs, ChoiceTypes, RestTypes, AroundTypes, KeyStep, CleanStep
  <1>3. Inv => NoFalseAlarm
    BY DEF CleanInv, NoFalseAlarm
  <1> QED
    BY <1>1, <1>2, <1>3, PTL DEF Spec
=============================================================================
