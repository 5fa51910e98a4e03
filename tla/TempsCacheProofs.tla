-------------------------- MODULE TempsCacheProofs --------------------------
(* Proofs about TempsCache, for any sets of handlers and timers, any number *)
(* of cached days and any bounds.                                           *)
EXTENDS TempsCache, TLAPS

-----------------------------------------------------------------------------
(* Types.                                                                  *)

\* A thread that moves to a location of its own kind keeps the locations typed.
LEMMA GotoType ==
  ASSUME PCTypeOK, NEW t \in Threads, NEW l \in Locations(t), Goto(t, l)
  PROVE  PCTypeOK'
  BY DEF PCTypeOK, Goto, Locations

\* The initial state is well typed.
LEMMA InitType == Init => TypeOK
<1> SUFFICES ASSUME Init PROVE TypeOK
  OBVIOUS
<1> USE CacheAssumption DEF Init
<1>1. files \in [Offsets -> LogFile \cup {NoFile}]
  BY DEF Offsets, LogFile, Shapes
<1>2. data \in [Offsets -> Entry]
  BY DEF NullEntry, Entry
<1>3. PCTypeOK
  BY DEF PCTypeOK, Locations, Threads, HandlerPC, TimerPC, MainPC
<1>4. cur \in [Threads -> Offsets] /\ seen \in [Threads -> Sample]
  BY DEF Offsets, Sample, NoSample
<1>5. QED
  BY <1>1, <1>2, <1>3, <1>4 DEF TypeOK, Threads, Replies

\* Every step of the program and of its environment preserves the types.
LEMMA NextType == TypeOK /\ [Next]_vars => TypeOK'
<1> SUFFICES ASSUME TypeOK, [Next]_vars PROVE TypeOK'
  OBVIOUS
<1> USE CacheAssumption DEF TypeOK, env
<1>a. Handlers \subseteq Threads /\ Timers \subseteq Threads /\ Main \in Threads
  BY DEF Threads
<1>b. /\ \A h \in Handlers : Locations(h) = HandlerPC
      /\ \A t \in Timers : Locations(t) = TimerPC
      /\ Locations(Main) = MainPC
  BY DEF Locations
<1>c. 0 \in Offsets /\ LastOffset \in Offsets
  BY DEF Offsets
<1>d. NoSample \in Sample
  BY DEF NoSample, Sample
<1>e. ASSUME NEW t \in Threads
      PROVE  {"exists", "read", "stamp", AfterPass(t)} \subseteq Locations(t)
  BY DEF Locations, HandlerPC, TimerPC, MainPC, AfterPass
<1>f. ASSUME NEW t \in Threads, NextOffset(t) PROVE PCTypeOK' /\ cur' \in [Threads -> Offsets]
  <2>1. CASE cur[t] = LastOffset
    BY <1>f, <1>e, <2>1, GotoType DEF NextOffset
  <2>2. CASE cur[t] # LastOffset
    <3>1. cur[t] + 1 \in Offsets
      BY <2>2 DEF Offsets
    <3>2. QED
      BY <1>f, <1>e, <2>2, <3>1, GotoType DEF NextOffset
  <2>3. QED
    BY <2>1, <2>2
<1>1. ASSUME NEW t \in Threads, BeginPass(t) PROVE TypeOK'
  <2>1. PCTypeOK'
    BY <1>1, <1>e, GotoType DEF BeginPass
  <2>2. QED
    BY <1>1, <1>c, <2>1 DEF BeginPass
<1>2. ASSUME NEW t \in Threads, FindFile(t) PROVE TypeOK'
  <2>1. EmptyArray \in Entry
    BY DEF EmptyArray, Entry
  <2>2. CASE files[cur[t]] # NoFile
    <3>1. PCTypeOK'
      BY <1>2, <1>e, <2>2, GotoType DEF FindFile
    <3>2. QED
      BY <1>2, <2>2, <3>1 DEF FindFile
  <2>3. CASE files[cur[t]] = NoFile
    <3>1. data' = [data EXCEPT ![cur[t]] = EmptyArray] /\ NextOffset(t)
      BY <1>2, <2>3 DEF FindFile
    <3>2. QED
      BY <1>2, <1>f, <2>1, <3>1 DEF FindFile
  <2>4. QED
    BY <2>2, <2>3
<1>3. ASSUME NEW t \in Threads, ReadFile(t) PROVE TypeOK'
  <2>1. Parsed(files[cur[t]]) \in Entry
    BY <1>3 DEF ReadFile, Unreadable, Readable, Parsed, Entry
  <2>2. QED
    BY <1>3, <1>f, <2>1 DEF ReadFile
<1>4. ASSUME NEW t \in Threads, PassThrows(t) PROVE TypeOK'
  <2>1. CASE t \in Handlers
    <3>1. PCTypeOK'
      BY <1>4, <1>b, <2>1, GotoType DEF PassThrows, HandlerPC
    <3>2. reply' \in [Handlers -> Replies]
      BY <1>4, <2>1 DEF PassThrows, Replies, Cause
    <3>3. QED
      BY <1>4, <1>c, <1>d, <2>1, <3>1, <3>2 DEF PassThrows
  <2>2. CASE t \notin Handlers
    <3>1. PCTypeOK'
      BY <1>4, <2>2 DEF PassThrows, PCTypeOK
    <3>2. QED
      BY <1>4, <1>c, <1>d, <2>2, <3>1 DEF PassThrows
  <2>3. QED
    BY <2>1, <2>2
<1>5. ASSUME NEW t \in Threads, EndPass(t) PROVE TypeOK'
  <2>1. PCTypeOK'
    BY <1>5, <1>e, GotoType DEF EndPass
  <2>2. QED
    BY <1>5, <1>c, <2>1 DEF EndPass
<1>6. ASSUME NEW t \in Handlers \cup Timers, ReadNow(t)
      PROVE  PCTypeOK' /\ seen' \in [Threads -> Sample]
  <2>1. [NoSample EXCEPT !.now = clock] \in Sample
    BY DEF NoSample, Sample
  <2>2. seen' \in [Threads -> Sample]
    BY <1>6, <2>1 DEF ReadNow
  <2>3. PCTypeOK'
    BY <1>6, <1>a, <1>b, GotoType DEF ReadNow, HandlerPC, TimerPC
  <2>4. QED
    BY <2>2, <2>3
<1>s. ASSUME NEW t \in Handlers \cup Timers, SampleLog(t) PROVE TypeOK'
  <2> DEFINE known == t \in Handlers /\ files[0] # NoFile
             day   == IF known THEN files[0].day ELSE 0
  <2>1. PICK b \in CreationTimes :
          seen' = [seen EXCEPT ![t] =
                     [now |-> seen[t].now, known |-> known, born |-> b, day |-> day,
                      life |-> 0]]
    BY <1>s DEF SampleLog
  <2>2. b \in Nat /\ day \in Nat /\ seen[t].now \in Nat
    BY <1>a, <1>c DEF CreationTimes, LogFile, Sample
  <2>3. [now |-> seen[t].now, known |-> known, born |-> b, day |-> day, life |-> 0]
          \in Sample
    BY <2>2 DEF Sample
  <2>4. seen' \in [Threads -> Sample]
    BY <2>1, <2>3
  <2>5. PCTypeOK'
    BY <1>s, <1>a, <1>b, GotoType DEF SampleLog, HandlerPC, TimerPC
  <2>6. QED
    BY <1>s, <2>4, <2>5 DEF SampleLog
<1>7. ASSUME NEW h \in Handlers, HandlerDecides(h) PROVE TypeOK'
  <2>1. seen' \in [Threads -> Sample]
    BY <1>7 DEF HandlerDecides, Sample
  <2>2. PCTypeOK'
    BY <1>7, <1>a, <1>b, GotoType DEF HandlerDecides, HandlerPC
  <2>3. QED
    BY <1>7, <2>1, <2>2 DEF HandlerDecides
<1>8. ASSUME NEW t \in Timers, TimerDecides(t) \/ TimerFires(t) PROVE TypeOK'
  <2>1. CASE TimerDecides(t)
    <3>1. PCTypeOK'
      BY <2>1, <1>a, <1>b, GotoType DEF TimerDecides, TimerPC
    <3>2. QED
      BY <2>1, <1>d, <3>1 DEF TimerDecides
  <2>2. CASE TimerFires(t)
    BY <1>6, <2>2 DEF TimerFires, ReadNow
  <2>3. QED
    BY <1>8, <2>1, <2>2
<1>9. ASSUME NEW h \in Handlers,
             \/ AllTempsRequest(h) \/ ServeAll(h) \/ TempsRequest(h)
             \/ FindDay(h) \/ ReadDay(h)
      PROVE  TypeOK'
  <2>1. CASE AllTempsRequest(h) \/ ServeAll(h)
    <3>1. CASE AllTempsRequest(h)
      BY <1>6, <3>1 DEF AllTempsRequest, ReadNow, Replies
    <3>2. CASE ServeAll(h)
      <4>1. PCTypeOK'
        BY <3>2, <1>a, <1>b, GotoType DEF ServeAll, HandlerPC
      <4>2. QED
        BY <3>2, <1>d, <4>1 DEF ServeAll, Replies
    <3>3. QED
      BY <2>1, <3>1, <3>2
  <2>2. CASE TempsRequest(h)
    <3>1. PCTypeOK'
      BY <2>2, <1>a, <1>b, GotoType DEF TempsRequest, HandlerPC, PCTypeOK
    <3>2. cur' \in [Threads -> Offsets]
      BY <2>2 DEF TempsRequest
    <3>3. reply' \in [Handlers -> Replies]
      BY <2>2 DEF TempsRequest, Replies
    <3>4. QED
      BY <2>2, <3>1, <3>2, <3>3 DEF TempsRequest
  <2>3. CASE FindDay(h) \/ ReadDay(h)
    <3>1. PCTypeOK'
      BY <2>3, <1>a, <1>b, GotoType DEF FindDay, ReadDay, HandlerPC
    <3>2. cur' \in [Threads -> Offsets]
      BY <2>3, <1>c DEF FindDay, ReadDay
    <3>3. reply' \in [Handlers -> Replies]
      BY <2>3 DEF FindDay, ReadDay, Replies, Cause
    <3>4. QED
      BY <2>3, <3>1, <3>2, <3>3 DEF FindDay, ReadDay
  <2>4. QED
    BY <1>9, <2>1, <2>2, <2>3
<1>10. ASSUME NEW seconds \in LifeExpectancies, SetLifeExpectancy(seconds)
       PROVE  TypeOK'
  <2>1. PCTypeOK'
    BY <1>10, <1>a, <1>b, GotoType DEF SetLifeExpectancy, TimerPC
  <2>2. QED
    BY <1>10, <2>1 DEF SetLifeExpectancy
<1>11. CASE ConstructorStartsTimer
  <2>1. PCTypeOK'
    BY <1>11, <1>a, <1>b DEF ConstructorStartsTimer, PCTypeOK, TimerPC, MainPC
  <2>2. QED
    BY <1>11, <2>1 DEF ConstructorStartsTimer
<1>12. CASE Environment
  <2>1. PCTypeOK'
    BY <1>12 DEF Environment, Tick, LogAppend, RotateRename, RotateCreate, PCTypeOK
  <2>2. CASE Tick
    BY <2>1, <2>2 DEF Tick
  <2>3. CASE LogAppend
    BY <2>1, <2>3 DEF LogAppend, LogFile, Shapes
  <2>4. CASE RotateRename
    BY <2>1, <2>4 DEF RotateRename, Offsets
  <2>5. CASE RotateCreate
    <3>1. [day |-> today + 1, born |-> clock, shape |-> "short"] \in LogFile
      BY DEF LogFile, Shapes
    <3>2. files' \in [Offsets -> LogFile \cup {NoFile}]
      BY <2>5, <3>1 DEF RotateCreate
    <3>3. QED
      BY <2>1, <2>5, <3>2 DEF RotateCreate
  <2>6. QED
    BY <1>12, <2>2, <2>3, <2>4, <2>5 DEF Environment
<1>13. CASE UNCHANGED vars
  BY <1>13 DEF vars, PCTypeOK
<1>14. QED
  BY <1>1, <1>2, <1>3, <1>4, <1>5, <1>s, <1>7, <1>8, <1>9, <1>10, <1>11, <1>12,
     <1>13 DEF Next, Pass, HandlerStep, TimerStep

\* The variables keep their types: in particular a loop over the day offsets
\* never leaves the entries of the array (TempsCtrl.cc:294).
THEOREM TypeCorrect == Spec => []TypeOK
<1>1. Init => TypeOK
  BY InitType
<1>2. TypeOK /\ [Next]_vars => TypeOK'
  BY NextType
<1>3. QED
  BY <1>1, <1>2, PTL DEF Spec

-----------------------------------------------------------------------------
(* The mutex and the clock.                                                *)

\* Apart from the passes of updateCache no step touches the array, its date or
\* its mutex, and none moves a thread into or out of a pass.
OutsidePass ==
  /\ UNCHANGED <<data, creationEpochMinutes, cacheMutex, alive, torn>>
  /\ alive
  /\ \A u \in Threads :
       \/ pc'[u] = pc[u] /\ cur'[u] = cur[u]
       \/ {pc[u], pc'[u]} \cap InPass = {}

\* Every step that is not one of updateCache is of that kind.
LEMMA NoPassStep ==
  ASSUME TypeOK, Next, \A t \in Threads : ~ Pass(t)
  PROVE  OutsidePass
<1> USE DEF TypeOK, PCTypeOK, OutsidePass, InPass, InLoop, Goto
<1>a. Handlers \subseteq Threads /\ Timers \subseteq Threads
  BY DEF Threads
<1>0. ASSUME NEW t \in Handlers \cup Timers, ReadNow(t) \/ SampleLog(t),
             pc[t] \in {"idle", "sleeping", "sample"}
      PROVE  OutsidePass
  <2>1. /\ \E l \in {"sample", "decide"} : pc' = [pc EXCEPT ![t] = l]
        /\ alive
        /\ UNCHANGED <<data, creationEpochMinutes, cacheMutex, cur, alive, torn>>
    BY <1>0 DEF ReadNow, SampleLog
  <2>2. QED
    BY <1>a, <1>0, <2>1
<1>1. ASSUME NEW h \in Handlers,
             \/ AllTempsRequest(h) \/ ServeAll(h) \/ TempsRequest(h)
             \/ FindDay(h) \/ ReadDay(h) \/ SampleLog(h) \/ HandlerDecides(h)
      PROVE  OutsidePass
  <2>1. CASE AllTempsRequest(h) \/ ServeAll(h)
    BY <1>a, <1>0, <2>1 DEF AllTempsRequest, ServeAll
  <2>2. CASE TempsRequest(h)
    BY <1>a, <2>2 DEF TempsRequest
  <2>3. CASE FindDay(h) \/ ReadDay(h)
    BY <1>a, <2>3 DEF FindDay, ReadDay
  <2>4. CASE SampleLog(h) \/ HandlerDecides(h)
    <3>1. CASE SampleLog(h)
      BY <1>0, <3>1 DEF SampleLog
    <3>2. CASE HandlerDecides(h)
      BY <1>a, <3>2 DEF HandlerDecides
    <3>3. QED
      BY <2>4, <3>1, <3>2
  <2>5. QED
    BY <1>1, <2>1, <2>2, <2>3, <2>4
<1>2. ASSUME NEW t \in Timers, TimerFires(t) \/ SampleLog(t) \/ TimerDecides(t)
      PROVE  OutsidePass
  <2>1. CASE TimerFires(t) \/ TimerDecides(t)
    BY <1>a, <1>0, <2>1 DEF TimerFires, TimerDecides
  <2>2. CASE SampleLog(t)
    BY <1>0, <2>2 DEF SampleLog
  <2>3. QED
    BY <1>2, <2>1, <2>2
<1>3. CASE ConstructorStartsTimer
  BY <1>a, <1>3, CacheAssumption DEF ConstructorStartsTimer, setCacheTimer
<1>4. ASSUME NEW seconds \in LifeExpectancies, SetLifeExpectancy(seconds)
      PROVE  OutsidePass
  BY <1>a, <1>4 DEF SetLifeExpectancy, setCacheTimer
<1>5. CASE Environment
  BY <1>5 DEF Environment, Tick, LogAppend, RotateRename, RotateCreate
<1>6. QED
  BY <1>1, <1>2, <1>3, <1>4, <1>5 DEF Next, HandlerStep, TimerStep

\* A thread enters updateCache only when no thread is inside, and leaves it
\* releasing the mutex, by the end of the pass or by an exception.
LEMMA NextLock == TypeOK /\ (alive => LockOK) /\ Next => (alive' => LockOK')
<1> SUFFICES ASSUME TypeOK, alive => LockOK, Next, alive' PROVE LockOK'
  OBVIOUS
<1> USE CacheAssumption DEF TypeOK, PCTypeOK, LockOK, InPass, InLoop, env
<1>2. ASSUME NEW t \in Threads, Pass(t) PROVE LockOK'
  <2>1. CASE BeginPass(t)
    BY <2>1 DEF BeginPass, Goto
  <2>2. CASE FindFile(t)
    BY <2>2 DEF FindFile, NextOffset, Goto
  <2>3. CASE ReadFile(t)
    BY <2>3 DEF ReadFile, NextOffset, Goto
  <2>4. CASE PassThrows(t)
    BY <2>4 DEF PassThrows, Goto
  <2>5. CASE EndPass(t)
    BY <2>5 DEF EndPass, AfterPass, Goto
  <2>6. QED
    BY <1>2, <2>1, <2>2, <2>3, <2>4, <2>5 DEF Pass
<1>3. CASE \A t \in Threads : ~ Pass(t)
  <2>1. OutsidePass
    BY <1>3, NoPassStep
  <2>2. QED
    BY <2>1 DEF OutsidePass
<1>4. QED
  BY <1>2, <1>3

\* Whatever is dated or sampled is dated with the present minute.
LEMMA NextClock == TypeOK /\ ClockOK /\ Next => ClockOK'
<1> SUFFICES ASSUME TypeOK, ClockOK, Next PROVE ClockOK'
  OBVIOUS
<1> USE CacheAssumption DEF TypeOK, ClockOK, env
<1>1. Handlers \subseteq Threads /\ Timers \subseteq Threads
  BY DEF Threads
<1>2. ASSUME NEW t \in Threads, Pass(t) PROVE ClockOK'
  BY <1>2 DEF Pass, BeginPass, FindFile, ReadFile, PassThrows, EndPass, NoSample
<1>3. ASSUME NEW t \in Handlers \cup Timers, ReadNow(t) PROVE ClockOK'
  <2>1. /\ seen'[t].now = clock /\ seen'[t].known = FALSE
        /\ \A u \in Threads \ {t} : seen'[u] = seen[u]
    BY <1>1, <1>3 DEF ReadNow, NoSample
  <2>2. QED
    BY <1>3, <2>1 DEF ReadNow
<1>s. ASSUME NEW t \in Handlers \cup Timers, SampleLog(t) PROVE ClockOK'
  <2> DEFINE known == t \in Handlers /\ files[0] # NoFile
             day   == IF known THEN files[0].day ELSE 0
  <2>1. PICK b \in CreationTimes :
          seen' = [seen EXCEPT ![t] =
                     [now |-> seen[t].now, known |-> known, born |-> b, day |-> day,
                      life |-> 0]]
    BY <1>s DEF SampleLog
  <2>2. known => b <= clock
    BY <2>1 DEF CreationTimes, Offsets
  <2>3. /\ seen'[t].now = seen[t].now
        /\ seen'[t].known => seen'[t].born <= clock
        /\ \A u \in Threads \ {t} : seen'[u] = seen[u]
    BY <1>1, <1>s, <2>1, <2>2
  <2>4. QED
    BY <1>1, <1>s, <2>3 DEF SampleLog
<1>4. ASSUME NEW h \in Handlers, HandlerStep(h) PROVE ClockOK'
  <2>1. CASE AllTempsRequest(h)
    BY <1>3, <2>1 DEF AllTempsRequest
  <2>2. CASE ServeAll(h)
    BY <1>1, <2>2 DEF ServeAll, NoSample
  <2>3. CASE TempsRequest(h) \/ FindDay(h) \/ ReadDay(h)
    BY <2>3 DEF TempsRequest, FindDay, ReadDay
  <2>4. CASE HandlerDecides(h)
    <3>1. \A u \in Threads : seen'[u].now = seen[u].now /\ seen'[u].known = seen[u].known
                              /\ seen'[u].born = seen[u].born
      BY <1>1, <2>4 DEF HandlerDecides, Sample
    <3>2. QED
      BY <2>4, <3>1 DEF HandlerDecides
  <2>5. QED
    BY <1>4, <1>s, <2>1, <2>2, <2>3, <2>4 DEF HandlerStep
<1>5. ASSUME NEW t \in Timers, TimerStep(t) PROVE ClockOK'
  <2>1. CASE TimerFires(t)
    BY <1>3, <2>1 DEF TimerFires
  <2>2. CASE TimerDecides(t)
    BY <1>1, <2>2 DEF TimerDecides, NoSample, Sample
  <2>3. QED
    BY <1>5, <1>s, <2>1, <2>2 DEF TimerStep
<1>6. CASE ConstructorStartsTimer
  BY <1>6 DEF ConstructorStartsTimer
<1>7. ASSUME NEW seconds \in LifeExpectancies, SetLifeExpectancy(seconds)
      PROVE  ClockOK'
  BY <1>7 DEF SetLifeExpectancy
<1>8. CASE Environment
  <2>1. CASE Tick
    BY <2>1 DEF Tick, LogFile, Sample
  <2>2. CASE LogAppend
    BY <2>2 DEF LogAppend, LogFile
  <2>3. CASE RotateRename
    BY <2>3 DEF RotateRename, Offsets
  <2>4. CASE RotateCreate
    BY <2>4 DEF RotateCreate
  <2>5. QED
    BY <1>8, <2>1, <2>2, <2>3, <2>4 DEF Environment
<1>9. QED
  BY <1>2, <1>4, <1>5, <1>6, <1>7, <1>8 DEF Next

-----------------------------------------------------------------------------
(* The days of the files and of the entries.                               *)

\* Only the environment touches the files.
LEMMA EnvChange ==
  ASSUME TypeOK, Next, ~ Environment
  PROVE  files' = files /\ today' = today /\ clock' = clock
  BY DEF Next, Pass, BeginPass, FindFile, ReadFile, PassThrows, EndPass, HandlerStep,
     AllTempsRequest, ServeAll, TempsRequest, FindDay, ReadDay, ReadNow, SampleLog,
     HandlerDecides, TimerStep, TimerFires, TimerDecides, ConstructorStartsTimer,
     SetLifeExpectancy, env

\* A rotation moves every log by one offset and makes the newest day one later.
LEMMA NextDays == TypeOK /\ DaysOK /\ Next => DaysOK' /\ Newest' \in Nat /\ Newest <= Newest'
<1> SUFFICES ASSUME TypeOK, DaysOK, Next
             PROVE  DaysOK' /\ Newest' \in Nat /\ Newest <= Newest'
  OBVIOUS
<1> USE CacheAssumption DEF TypeOK, DaysOK, Newest
<1>0. 0 \in Offsets
  BY DEF Offsets
<1>1. CASE ~ Environment
  BY <1>1, EnvChange
<1>2. CASE Tick
  BY <1>2 DEF Tick
<1>3. CASE LogAppend
  <2>1. PICK k \in Offsets, s \in {"whole", "partial"} :
          /\ files[k] # NoFile
          /\ files' = [files EXCEPT ![k] =
                         [day |-> files[k].day, born |-> files[k].born, shape |-> s]]
    BY <1>3 DEF LogAppend
  <2>2. [day |-> files[k].day, born |-> files[k].born, shape |-> s] \in LogFile
    BY <2>1 DEF LogFile, Shapes
  <2>3. today' = today /\ files'[k] # NoFile /\ files'[k].day = files[k].day
    BY <1>3, <2>1, <2>2 DEF LogAppend
  <2>4. \A l \in Offsets \ {k} : files'[l] = files[l]
    BY <2>1
  <2>5. Newest' = Newest
    BY <1>0, <2>1, <2>3, <2>4
  <2>6. QED
    BY <2>1, <2>3, <2>4, <2>5
<1>4. CASE RotateRename
  <2>1. /\ files[0] # NoFile /\ files'[0] = NoFile /\ today' = today
        /\ \A k \in Offsets : k # 0 => k - 1 \in Offsets /\ files'[k] = files[k - 1]
    BY <1>0, <1>4 DEF RotateRename, Offsets
  <2>2. Newest = today /\ Newest' = today + 1
    BY <2>1
  <2>3. ASSUME NEW k \in Offsets, files'[k] # NoFile
        PROVE  files'[k].day + k = Newest'
    <3>1. k # 0 /\ k - 1 \in Offsets /\ files[k - 1] # NoFile /\ files'[k] = files[k - 1]
      BY <2>1, <2>3
    <3>2. files[k - 1].day \in Nat /\ files[k - 1].day + (k - 1) = today
      BY <2>2, <3>1 DEF LogFile
    <3>3. QED
      BY <2>2, <3>1, <3>2 DEF Offsets
  <2>4. QED
    BY <2>2, <2>3
<1>5. CASE RotateCreate
  <2>1. [day |-> today + 1, born |-> clock, shape |-> "short"] \in LogFile
    BY DEF LogFile, Shapes
  <2>2. /\ files[0] = NoFile /\ today' = today + 1
        /\ files'[0].day = today + 1 /\ files'[0] # NoFile
        /\ \A k \in Offsets : k # 0 => files'[k] = files[k]
    BY <1>0, <1>5, <2>1 DEF RotateCreate
  <2>3. Newest = today + 1 /\ Newest' = today + 1
    BY <2>2
  <2>4. QED
    BY <2>2, <2>3
<1>6. QED
  BY <1>1, <1>2, <1>3, <1>4, <1>5 DEF Environment

\* Order is kept when the newest day gets later.
LEMMA OrderedLater ==
  ASSUME NEW d \in [Offsets -> Entry], NEW n \in Int,
         NEW w1 \in Int, NEW w2 \in Int, w1 <= w2, OrderedBelow(d, n, w1)
  PROVE  OrderedBelow(d, n, w2)
  BY CacheAssumption DEF OrderedBelow, Offsets, Entry

\* Order is kept by writing the next entry, if the file it comes from is named
\* by the newest day and its offset: that day is no earlier than any before.
LEMMA OrderedWrite ==
  ASSUME NEW d \in [Offsets -> Entry], NEW c \in Offsets, NEW e \in Entry,
         NEW w \in Int, OrderedBelow(d, c, w),
         e.kind = "temps" => e.day + c = w
  PROVE  OrderedBelow([d EXCEPT ![c] = e], c + 1, w)
<1> DEFINE d2 == [d EXCEPT ![c] = e]
<1>1. d2[c] = e /\ \A j \in Offsets : j # c => d2[j] = d[j]
  OBVIOUS
<1>2. c \in Int /\ \A j \in Offsets : j \in Int /\ (j < c + 1 => j < c \/ j = c)
  BY CacheAssumption DEF Offsets
<1>3. ASSUME NEW j \in Offsets, j < c
      PROVE  /\ d2[j].kind = "temps" => d2[j].day + j <= w
             /\ \A i \in Offsets : i < j => InOrder(d2, i, j)
  <2>1. /\ d[j].kind = "temps" => d[j].day + j <= w
        /\ \A i \in Offsets : i < j => InOrder(d, i, j)
    BY <1>3 DEF OrderedBelow
  <2>2. \A i \in Offsets : i <= j => d2[i] = d[i]
    BY <1>1, <1>2, <1>3
  <2>3. QED
    BY <1>2, <2>1, <2>2 DEF InOrder
<1>4. d2[c].kind = "temps" => d2[c].day + c <= w
  BY <1>1, <1>2 DEF Entry
<1>5. ASSUME NEW i \in Offsets, i < c PROVE InOrder(d2, i, c)
  <2>1. d[i].kind = "temps" => d[i].day + i <= w
    BY <1>5 DEF OrderedBelow
  <2>2. d2[i] = d[i]
    BY <1>1, <1>2, <1>5
  <2>3. QED
    BY <1>1, <2>1, <2>2 DEF InOrder
<1>6. QED
  BY <1>2, <1>3, <1>4, <1>5 DEF OrderedBelow

\* Each entry a pass writes is of the newest day or an earlier one than those
\* before it; a pass that throws marks what it leaves behind as torn.
LEMMA NextOrder ==
  ASSUME TypeOK, DaysOK, alive => LockOK /\ OrderOK, Next, alive'
  PROVE  OrderOK'
<1> USE DEF TypeOK, PCTypeOK
<1>a. DaysOK' /\ Newest' \in Nat /\ Newest <= Newest' /\ Newest \in Nat
  BY NextDays DEF Newest
<1>b. /\ LastOffset + 1 \in Int /\ Offsets \subseteq Int
      /\ 0 \in Offsets /\ LastOffset \in Offsets
  BY CacheAssumption DEF Offsets
<1>1. CASE \A t \in Threads : ~ Pass(t)
  <2>1. OutsidePass
    BY <1>1, NoPassStep
  <2>2. alive /\ OrderOK
    BY <2>1 DEF OutsidePass
  <2>3. \A n \in Int : OrderedBelow(data, n, Newest) => OrderedBelow(data', n, Newest')
    BY <2>1, <1>a, OrderedLater DEF OutsidePass
  <2>4. \A t \in Threads :
          /\ pc'[t] \in InLoop <=> pc[t] \in InLoop
          /\ pc[t] \in InLoop => cur'[t] = cur[t]
          /\ pc'[t] = "stamp" <=> pc[t] = "stamp"
    BY <2>1 DEF OutsidePass, InPass, InLoop
  <2>5. torn' = torn
    BY <2>1 DEF OutsidePass
  <2>6. ASSUME NEW t \in Threads
        PROVE  /\ pc'[t] \in InLoop => OrderedBelow(data', cur'[t], Newest')
               /\ pc'[t] = "stamp" => OrderedBelow(data', LastOffset + 1, Newest')
    <3>1. cur[t] \in Int
      BY <1>b
    <3>2. QED
      <4>1. CASE pc[t] \in InLoop
        <5>1. OrderedBelow(data, cur[t], Newest) /\ cur'[t] = cur[t]
          BY <2>2, <2>4, <4>1 DEF OrderOK
        <5>2. pc'[t] # "stamp"
          BY <2>4, <4>1 DEF InLoop
        <5>3. QED
          BY <2>3, <3>1, <5>1, <5>2
      <4>2. CASE pc[t] = "stamp"
        <5>1. OrderedBelow(data, LastOffset + 1, Newest)
          BY <2>2, <4>2 DEF OrderOK
        <5>2. pc'[t] \notin InLoop
          BY <2>4, <4>2 DEF InLoop
        <5>3. QED
          BY <1>b, <2>3, <5>1, <5>2
      <4>3. QED
        BY <2>4, <4>1, <4>2
  <2>7. ASSUME ~ torn', \A t \in Threads : pc'[t] \in InLoop => cur'[t] = 0
        PROVE  OrderedBelow(data', LastOffset + 1, Newest')
    <3>1. ASSUME NEW t \in Threads, pc[t] \in InLoop PROVE cur[t] = 0
      <4>1. pc'[t] \in InLoop /\ cur'[t] = cur[t]
        BY <2>4, <3>1
      <4>2. QED
        BY <2>7, <4>1
    <3>2. QED
      BY <1>b, <2>2, <2>3, <2>5, <2>7, <3>1 DEF OrderOK
  <2>8. QED
    BY <2>6, <2>7 DEF OrderOK
<1>2. ASSUME NEW t \in Threads, Pass(t) PROVE OrderOK'
  <2>1. alive /\ LockOK /\ OrderOK
    BY <1>2 DEF Pass, BeginPass, FindFile, ReadFile, PassThrows, EndPass
  <2>2. ~ Environment \/ UNCHANGED env
    BY <1>2 DEF Pass, BeginPass, FindFile, ReadFile, PassThrows, EndPass
  <2>3. Newest' = Newest
    BY <1>2 DEF Pass, BeginPass, FindFile, ReadFile, PassThrows, EndPass, env, Newest
  <2>4. \A u \in Threads : u # t => pc'[u] = pc[u] /\ cur'[u] = cur[u]
    BY <1>2 DEF Pass, BeginPass, FindFile, ReadFile, PassThrows, EndPass, NextOffset, Goto
  <2>5. ASSUME pc[t] \in InPass
        PROVE  \A u \in Threads : u # t => pc'[u] \notin InPass
    BY <2>1, <2>4, <2>5 DEF LockOK
  <2>6. CASE BeginPass(t)
    <3>1. \A u \in Threads : pc[u] \notin InPass
      BY <2>1, <2>6, CacheAssumption DEF BeginPass, LockOK
    <3>2. pc'[t] = "exists" /\ cur'[t] = 0 /\ data' = data /\ torn' = torn
      BY <2>6 DEF BeginPass, Goto
    <3>3. ~ torn => OrderedBelow(data, LastOffset + 1, Newest)
      BY <2>1, <3>1 DEF OrderOK, InPass
    <3>4. OrderedBelow(data', 0, Newest')
      BY CacheAssumption DEF OrderedBelow, Offsets
    <3>5. QED
      BY <2>3, <2>4, <3>1, <3>2, <3>3, <3>4 DEF OrderOK, InPass, InLoop
  <2>7. ASSUME pc[t] \in InLoop, NEW e \in Entry,
               data' = [data EXCEPT ![cur[t]] = e], NextOffset(t),
               e.kind = "temps" => e.day + cur[t] = Newest
        PROVE  OrderOK'
    <3>0. OrderedBelow(data, cur[t], Newest)
      BY <2>1, <2>7 DEF OrderOK
    <3>1. OrderedBelow(data', cur[t] + 1, Newest')
      <4>1. cur[t] \in Offsets /\ Newest \in Int
        BY <1>a
      <4>2. OrderedBelow([data EXCEPT ![cur[t]] = e], cur[t] + 1, Newest)
        BY <2>7, <3>0, <4>1, OrderedWrite
      <4>3. QED
        BY <2>3, <2>7, <4>2
    <3>2. \A u \in Threads : u # t => pc'[u] \notin InPass
      BY <2>5, <2>7 DEF InPass
    <3>3. CASE cur[t] = LastOffset
      <4>1. pc'[t] = "stamp"
        BY <2>7, <3>3 DEF NextOffset, Goto
      <4>2. QED
        BY <3>1, <3>2, <3>3, <4>1 DEF OrderOK, InPass, InLoop
    <3>4. CASE cur[t] # LastOffset
      <4>1. pc'[t] = "exists" /\ cur'[t] = cur[t] + 1 /\ cur'[t] # 0
        BY <2>7, <3>4 DEF NextOffset, Goto, Offsets
      <4>2. QED
        BY <3>1, <3>2, <4>1 DEF OrderOK, InPass, InLoop
    <3>5. QED
      BY <3>3, <3>4
  <2>8. CASE FindFile(t)
    <3>1. pc[t] = "exists"
      BY <2>8 DEF FindFile
    <3>2. CASE files[cur[t]] # NoFile
      <4>1. pc'[t] = "read" /\ cur' = cur /\ data' = data /\ torn' = torn
        BY <2>8, <3>2 DEF FindFile, Goto
      <4>2. QED
        BY <2>1, <2>3, <2>4, <3>1, <4>1 DEF OrderOK, InLoop
    <3>3. CASE files[cur[t]] = NoFile
      <4>1. data' = [data EXCEPT ![cur[t]] = EmptyArray] /\ NextOffset(t)
        BY <2>8, <3>3 DEF FindFile
      <4>2. EmptyArray \in Entry /\ EmptyArray.kind # "temps"
        BY DEF EmptyArray, Entry
      <4>3. QED
        BY <2>7, <3>1, <4>1, <4>2 DEF InLoop
    <3>4. QED
      BY <3>2, <3>3
  <2>9. CASE ReadFile(t)
    <3>1. files[cur[t]] # NoFile
      BY <2>9, CacheAssumption DEF ReadFile, Unreadable, Readable, LogFile, Shapes
    <3>2. files[cur[t]] \in LogFile /\ files[cur[t]].day + cur[t] = Newest
      BY <3>1 DEF DaysOK
    <3>3. /\ Parsed(files[cur[t]]) \in Entry
          /\ Parsed(files[cur[t]]).kind = "temps"
               => Parsed(files[cur[t]]).day = files[cur[t]].day
      BY <3>2 DEF Parsed, Entry, LogFile
    <3>4. QED
      BY <2>7, <2>9, <3>2, <3>3 DEF ReadFile, InLoop
  <2>10. CASE PassThrows(t)
    <3>1. pc[t] = "read" /\ data' = data /\ torn' = (torn \/ cur[t] # 0)
      BY <2>10 DEF PassThrows
    <3>2. \A u \in Threads : u # t => pc'[u] \notin InPass /\ pc[u] \notin InPass
      BY <2>4, <2>5, <3>1 DEF InPass, InLoop
    <3>3. pc'[t] = "idle"
      BY <2>10 DEF PassThrows, Goto
    <3>4. ~ torn' => OrderedBelow(data, LastOffset + 1, Newest)
      BY <2>1, <3>1, <3>2 DEF OrderOK, InPass
    <3>5. QED
      BY <2>3, <3>1, <3>2, <3>3, <3>4 DEF OrderOK, InPass, InLoop
  <2>11. CASE EndPass(t)
    <3>1. pc[t] = "stamp" /\ data' = data /\ pc'[t] \notin InPass
      BY <2>11 DEF EndPass, Goto, AfterPass, InPass, InLoop
    <3>2. \A u \in Threads : u # t => pc'[u] \notin InPass
      BY <2>5, <3>1 DEF InPass
    <3>3. QED
      BY <2>1, <2>3, <3>1, <3>2 DEF OrderOK, InPass, InLoop
  <2>12. QED
    BY <1>2, <2>6, <2>8, <2>9, <2>10, <2>11 DEF Pass
<1>3. QED
  BY <1>1, <1>2

-----------------------------------------------------------------------------
(* Freshness.                                                              *)

\* A request decides to serve a cache that is fresh; a pass it has waited for,
\* its own or another thread's, dates the cache later than the check.
LEMMA NextFresh ==
  ASSUME TypeOK, ClockOK, alive => FreshOK, Next, alive'
  PROVE  FreshOK'
<1> USE DEF TypeOK, PCTypeOK
<1>a. Handlers \subseteq Threads
  BY DEF Threads
<1>1. alive
  BY DEF Next, Pass, BeginPass, FindFile, ReadFile, PassThrows, EndPass, HandlerStep,
     AllTempsRequest, ServeAll, TempsRequest, FindDay, ReadDay, ReadNow, SampleLog,
     HandlerDecides, TimerStep, TimerFires, TimerDecides, ConstructorStartsTimer,
     SetLifeExpectancy, Environment, Tick, LogAppend, RotateRename, RotateCreate
<1>2. creationEpochMinutes <= creationEpochMinutes' /\ creationEpochMinutes' \in Nat
  <2>1. ASSUME NEW t \in Threads, EndPass(t)
        PROVE  creationEpochMinutes' = clock
    BY <2>1 DEF EndPass
  <2>2. ASSUME NEW t \in Threads, Pass(t), ~ EndPass(t)
        PROVE  creationEpochMinutes' = creationEpochMinutes
    BY <2>2 DEF Pass, BeginPass, FindFile, ReadFile, PassThrows
  <2>3. ASSUME \A t \in Threads : ~ Pass(t)
        PROVE  creationEpochMinutes' = creationEpochMinutes
    BY <2>3, NoPassStep DEF OutsidePass
  <2>4. QED
    BY <2>1, <2>2, <2>3 DEF ClockOK
<1>3. ASSUME NEW h \in Handlers, pc'[h] = "serve",
             pc[h] = "serve" /\ seen'[h] = seen[h]
      PROVE  Fresh(h)'
  <2>1. Fresh(h)
    BY <1>1, <1>3 DEF FreshOK
  <2>2. seen[h] \in Sample /\ (seen[h].life \div 60) \in Int
    BY <1>a DEF Sample
  <2>3. QED
    BY <1>2, <1>3, <2>1, <2>2 DEF Fresh, Sample
<1>4. ASSUME NEW h \in Handlers, HandlerDecides(h), pc'[h] = "serve"
      PROVE  Fresh(h)'
  <2>1. ~ isCacheExpired(h)
    BY <1>a, <1>4 DEF HandlerDecides, Goto
  <2>2. seen[h] \in Sample /\ lifeExpectancy \in Nat
    BY <1>a, CacheAssumption
  <2>3. /\ seen'[h].now = seen[h].now /\ seen'[h].known = seen[h].known
        /\ seen'[h].born = seen[h].born /\ seen'[h].life = lifeExpectancy
        /\ creationEpochMinutes' = creationEpochMinutes
    BY <1>a, <1>4, <2>2 DEF HandlerDecides, Sample
  <2>4. QED
    BY <2>1, <2>2, <2>3 DEF Fresh, isCacheExpired, Sample
<1>5. ASSUME NEW h \in Handlers, EndPass(h) PROVE Fresh(h)'
  <2>1. creationEpochMinutes' = clock /\ seen' = seen
    BY <1>5 DEF EndPass
  <2>2. seen[h].now <= clock /\ (seen[h].known => seen[h].born <= clock)
    BY <1>a DEF ClockOK
  <2>3. seen[h] \in Sample
    BY <1>a
  <2>4. QED
    BY <2>1, <2>2, <2>3 DEF Fresh, Sample
<1>6. ASSUME NEW h \in Handlers, pc'[h] = "serve"
      PROVE  \/ pc[h] = "serve" /\ seen'[h] = seen[h]
             \/ HandlerDecides(h)
             \/ EndPass(h)
  <2>1. ASSUME NEW t \in Threads, Pass(t), ~ (t = h /\ EndPass(h))
        PROVE  pc[h] = "serve" /\ seen'[h] = seen[h]
    BY <1>a, <1>6, <2>1 DEF Pass, BeginPass, FindFile, ReadFile, PassThrows, EndPass,
       NextOffset, Goto
  <2>2. ASSUME NEW g \in Handlers, HandlerStep(g), ~ (g = h /\ HandlerDecides(h))
        PROVE  pc[h] = "serve" /\ seen'[h] = seen[h]
    <3>1. CASE AllTempsRequest(g)
      <4>1. pc' = [pc EXCEPT ![g] = "sample"] /\ \E v : seen' = [seen EXCEPT ![g] = v]
        BY <3>1 DEF AllTempsRequest, ReadNow, Goto
      <4>2. QED
        BY <1>a, <1>6, <4>1
    <3>2. CASE ServeAll(g)
      BY <1>a, <1>6, <3>2 DEF ServeAll, Goto
    <3>3. CASE TempsRequest(g)
      BY <1>a, <1>6, <3>3 DEF TempsRequest, Goto
    <3>4. CASE FindDay(g) \/ ReadDay(g)
      BY <1>a, <1>6, <3>4 DEF FindDay, ReadDay, Goto
    <3>5. CASE HandlerDecides(g)
      BY <1>a, <1>6, <2>2, <3>5 DEF HandlerDecides, Goto
    <3>6. CASE SampleLog(g)
      <4>1. pc' = [pc EXCEPT ![g] = "decide"] /\ \E v : seen' = [seen EXCEPT ![g] = v]
        BY <3>6 DEF SampleLog, Goto
      <4>2. QED
        BY <1>a, <1>6, <4>1
    <3>7. QED
      BY <2>2, <3>1, <3>2, <3>3, <3>4, <3>5, <3>6 DEF HandlerStep
  <2>3. ASSUME NEW t \in Timers, TimerStep(t)
        PROVE  pc[h] = "serve" /\ seen'[h] = seen[h]
    <3>1. t # h /\ t \in Threads
      BY CacheAssumption DEF Threads
    <3>2. CASE TimerFires(t)
      <4>1. pc' = [pc EXCEPT ![t] = "sample"] /\ \E v : seen' = [seen EXCEPT ![t] = v]
        BY <3>2 DEF TimerFires, ReadNow, Goto
      <4>2. QED
        BY <1>a, <1>6, <3>1, <4>1
    <3>3. CASE TimerDecides(t)
      BY <1>a, <1>6, <3>1, <3>3 DEF TimerDecides, Goto
    <3>4. CASE SampleLog(t)
      <4>1. pc' = [pc EXCEPT ![t] = "decide"] /\ \E v : seen' = [seen EXCEPT ![t] = v]
        BY <3>4 DEF SampleLog, Goto
      <4>2. QED
        BY <1>a, <1>6, <3>1, <4>1
    <3>5. QED
      BY <2>3, <3>2, <3>3, <3>4 DEF TimerStep
  <2>4. CASE ConstructorStartsTimer
    BY <1>a, <1>6, <2>4, CacheAssumption DEF ConstructorStartsTimer
  <2>5. ASSUME NEW seconds \in LifeExpectancies, SetLifeExpectancy(seconds)
        PROVE  pc[h] = "serve" /\ seen'[h] = seen[h]
    BY <1>a, <1>6, <2>5 DEF SetLifeExpectancy, Goto
  <2>6. CASE Environment
    BY <1>6, <2>6 DEF Environment, Tick, LogAppend, RotateRename, RotateCreate
  <2>7. QED
    BY <2>1, <2>2, <2>3, <2>4, <2>5, <2>6 DEF Next
<1>7. QED
  BY <1>3, <1>4, <1>5, <1>6 DEF FreshOK

-----------------------------------------------------------------------------
(* The inductive invariant and what follows from it.                       *)

\* The invariant holds when the constructor is about to fill the cache.
LEMMA InitIInv == Init => IInv
<1> SUFFICES ASSUME Init PROVE IInv
  OBVIOUS
<1>1. TypeOK
  BY InitType
<1>2. ClockOK
  BY <1>1, CacheAssumption DEF Init, ClockOK, NoSample
<1>3. Newest = LastOffset
  BY CacheAssumption DEF Init, Newest, Offsets, LogFile, Shapes
<1>4. DaysOK
  BY <1>3, CacheAssumption DEF Init, DaysOK, Offsets
<1>5. \A t \in Threads : pc[t] \in {"idle", "unborn", "lock"}
  BY DEF Init
<1>6. LockOK
  BY <1>5, CacheAssumption DEF Init, LockOK, InPass, InLoop
<1>7. OrderedBelow(data, LastOffset + 1, Newest)
  BY DEF Init, OrderedBelow, InOrder, NullEntry
<1>8. OrderOK
  BY <1>5, <1>7 DEF OrderOK, InLoop
<1>9. FreshOK
  BY <1>5, CacheAssumption DEF FreshOK, Threads
<1>10. QED
  BY <1>1, <1>2, <1>4, <1>6, <1>8, <1>9 DEF IInv

\* Every step of a thread or of the environment keeps the invariant.
LEMMA NextIInv == IInv /\ [Next]_vars => IInv'
<1> SUFFICES ASSUME IInv, [Next]_vars PROVE IInv'
  OBVIOUS
<1>1. CASE Next
  <2>1. TypeOK /\ TypeOK'
    BY NextType DEF IInv
  <2>2. ClockOK' /\ DaysOK'
    BY <1>1, NextClock, NextDays DEF IInv
  <2>3. alive' => LockOK'
    BY <1>1, NextLock DEF IInv
  <2>4. alive' => OrderOK'
    BY <1>1, NextOrder DEF IInv
  <2>5. alive' => FreshOK'
    BY <1>1, NextFresh DEF IInv
  <2>6. QED
    BY <2>1, <2>2, <2>3, <2>4, <2>5 DEF IInv
<1>2. CASE UNCHANGED vars
  BY <1>2 DEF vars, IInv, TypeOK, PCTypeOK, ClockOK, DaysOK, Newest, LockOK, OrderOK,
     FreshOK, Fresh
<1>3. QED
  BY <1>1, <1>2

\* The mutex of updateCache, the days of files and entries, and the freshness a
\* request relies on between its check and its answer, in every reachable state
\* (TempsCtrl.cc:291-326).
THEOREM Invariance == Spec => []IInv
  BY InitIInv, NextIInv, PTL DEF Spec

\* Only ServeAll answers a request for the whole array, and it holds the mutex.
LEMMA AnswerStep ==
  ASSUME IInv, Next, NEW h \in Handlers, Answers(h)
  PROVE  alive /\ cacheMutex = NoThread
<1> USE DEF IInv, TypeOK, PCTypeOK, Answers
<1>a. Handlers \subseteq Threads
  BY DEF Threads
<1>1. ASSUME NEW t \in Threads, Pass(t) PROVE FALSE
  BY <1>a, <1>1 DEF Pass, BeginPass, FindFile, ReadFile, PassThrows, EndPass,
     NextOffset, Goto, AfterPass
<1>2. ASSUME NEW g \in Handlers, HandlerStep(g), ~ ServeAll(h) PROVE FALSE
  <2>1. CASE AllTempsRequest(g)
    BY <1>a, <2>1 DEF AllTempsRequest, ReadNow, Goto
  <2>2. CASE ServeAll(g)
    BY <1>a, <1>2, <2>2 DEF ServeAll, Goto
  <2>3. CASE TempsRequest(g)
    BY <1>a, <2>3 DEF TempsRequest, Goto
  <2>4. CASE FindDay(g) \/ ReadDay(g)
    BY <1>a, <2>4 DEF FindDay, ReadDay, Goto
  <2>5. CASE HandlerDecides(g)
    BY <1>a, <2>5 DEF HandlerDecides, Goto
  <2>6. CASE SampleLog(g)
    BY <1>a, <2>6 DEF SampleLog, Goto
  <2>7. QED
    BY <1>2, <2>1, <2>2, <2>3, <2>4, <2>5, <2>6 DEF HandlerStep
<1>3. ASSUME NEW t \in Timers, TimerStep(t) PROVE FALSE
  BY <1>a, <1>3, CacheAssumption DEF TimerStep, TimerFires, ReadNow, SampleLog, TimerDecides,
     Goto
<1>4. CASE ConstructorStartsTimer
  BY <1>a, <1>4 DEF ConstructorStartsTimer
<1>5. ASSUME NEW seconds \in LifeExpectancies, SetLifeExpectancy(seconds) PROVE FALSE
  BY <1>a, <1>5 DEF SetLifeExpectancy, Goto
<1>6. CASE Environment
  BY <1>6 DEF Environment, Tick, LogAppend, RotateRename, RotateCreate
<1>7. QED
  BY <1>1, <1>2, <1>3, <1>4, <1>5, <1>6 DEF Next, ServeAll

\* An answer of /all_temps leaves no day out, whatever rotations and passes run
\* while it is prepared (TempsCtrl.cc:294-306, 320-323).
THEOREM DaysServedInOrder == Spec => NoDaySkipped
<1>1. ASSUME IInv, [Next]_vars
      PROVE  [\A h \in Handlers :
                Answers(h) =>
                  torn \/ \A i, j \in Offsets : i < j => InOrder(data, i, j)]_vars
  <2>1. SUFFICES ASSUME Next, NEW h \in Handlers, Answers(h), ~ torn,
                        NEW i \in Offsets, NEW j \in Offsets, i < j
                 PROVE  InOrder(data, i, j)
    BY <1>1
  <2>2. alive /\ cacheMutex = NoThread
    BY <1>1, <2>1, AnswerStep
  <2>3. \A t \in Threads : pc[t] \notin InPass
    BY <1>1, <2>2, CacheAssumption DEF IInv, LockOK
  <2>4. OrderedBelow(data, LastOffset + 1, Newest)
    BY <1>1, <2>1, <2>2, <2>3 DEF IInv, OrderOK, InPass
  <2>5. QED
    BY <2>1, <2>4, CacheAssumption DEF OrderedBelow, Offsets
<1>2. QED
  BY <1>1, Invariance, PTL DEF Spec, NoDaySkipped

\* The cache that is served was fresh enough when the request checked it, and
\* has not been dated back since (TempsCtrl.cc:314-321, 338-370).
THEOREM AnswersAreFresh == Spec => ServedFresh
<1>1. ASSUME IInv, [Next]_vars
      PROVE  [\A h \in Handlers : Answers(h) => Fresh(h)]_vars
  <2>1. SUFFICES ASSUME Next, NEW h \in Handlers, Answers(h)
                 PROVE  Fresh(h)
    BY <1>1
  <2>2. alive
    BY <1>1, <2>1, AnswerStep
  <2>3. QED
    BY <1>1, <2>1, <2>2 DEF IInv, FreshOK, Answers
<1>2. QED
  BY <1>1, Invariance, PTL DEF Spec, ServedFresh

-----------------------------------------------------------------------------
(* The two thresholds.                                                     *)

\* A timer finds the cache due at least a minute before a request that sees the same
\* active log finds it expired, for every life expectancy of a minute or more and
\* whatever the rounding to whole minutes does to 95% of it (TempsCtrl.cc:338-404;
\* the object at the end of D-Bus refuses less than 60 s).
THEOREM DueBeforeExpired ==
  ASSUME TypeOK, lifeExpectancy >= 60,
         NEW h \in Threads, isCacheExpired(h),
         NEW t \in Threads, seen[t].born = seen[h].born, seen[t].now + 1 >= seen[h].now
  PROVE  isCacheNeedingUpdate(t)
<1> DEFINE minutes == lifeExpectancy \div 60
           due == (95 * minutes) \div 100
<1>1. /\ lifeExpectancy \in Nat /\ creationEpochMinutes \in Nat
      /\ seen[t].now \in Nat /\ seen[h].now \in Nat
  BY CacheAssumption DEF TypeOK, Sample
<1>2. minutes \in Nat /\ minutes >= 1
  BY <1>1
<1> HIDE DEF minutes
<1>3. due \in Nat /\ due + 1 <= minutes
  BY <1>2
<1> HIDE DEF due
<1>4. CASE creationEpochMinutes < seen[h].born
  BY <1>4 DEF isCacheNeedingUpdate
<1>5. CASE seen[h].now >= creationEpochMinutes + minutes
  <2>1. seen[t].now >= creationEpochMinutes + due
    BY <1>1, <1>2, <1>3, <1>5
  <2>2. QED
    BY <2>1 DEF isCacheNeedingUpdate, minutes, due
<1>6. QED
  BY <1>4, <1>5 DEF isCacheExpired, minutes

\* What a request takes for expired, a timer that has seen the same takes for due:
\* no request makes a refresh that a timer awake at that time would have declined
\* (TempsCtrl.cc:338-404).
THEOREM ExpiredIsDue ==
  ASSUME TypeOK, NEW t \in Threads, isCacheExpired(t)
  PROVE  isCacheNeedingUpdate(t)
<1> DEFINE minutes == lifeExpectancy \div 60
           due == (95 * minutes) \div 100
<1>1. lifeExpectancy \in Nat /\ creationEpochMinutes \in Nat /\ seen[t].now \in Nat
  BY CacheAssumption DEF TypeOK, Sample
<1>2. minutes \in Nat
  BY <1>1
<1> HIDE DEF minutes
<1>3. due \in Nat /\ due <= minutes
  BY <1>2
<1> HIDE DEF due
<1>4. QED
  BY <1>1, <1>2, <1>3 DEF isCacheExpired, isCacheNeedingUpdate, minutes, due
=============================================================================
