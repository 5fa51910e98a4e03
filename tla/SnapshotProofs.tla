--------------------------- MODULE SnapshotProofs ---------------------------
(* TempsCache implements SnapshotCache, for any sets of handlers and        *)
(* timers, any number of cached days and any bounds.                        *)
EXTENDS TempsCacheProofs

\* The locations at which a handler is occupied with a request for the week.
WeekPC == {"sample", "decide", "lock", "exists", "read", "stamp", "serve"}

\* A thread that moves changes what one client is waiting for, if it is a handler.
LEMMA AskedSet ==
  ASSUME PCTypeOK, NEW t \in Threads, NEW l, Goto(t, l)
  PROVE  /\ t \in Handlers => Asked' = [Asked EXCEPT ![t] = RequestAt(l)]
         /\ t \notin Handlers => Asked' = Asked
<1>1. \A h \in Handlers : pc'[h] = IF h = t THEN l ELSE pc[h]
  BY DEF PCTypeOK, Goto, Threads
<1>2. QED
  BY <1>1 DEF Asked

\* A thread on its way through a request for the week leaves the client waiting.
LEMMA AskedSame ==
  ASSUME PCTypeOK, NEW t \in Threads, NEW l, Goto(t, l),
         t \in Handlers => pc[t] \in WeekPC /\ l \in WeekPC
  PROVE  Asked' = Asked
<1>1. \A h \in Handlers : RequestAt(pc'[h]) = RequestAt(pc[h])
  BY DEF PCTypeOK, Goto, Threads, WeekPC, RequestAt
<1>2. QED
  BY <1>1 DEF Asked

\* A reply is all that changes in the answers.
LEMMA AnswerSet ==
  ASSUME TypeOK, NEW h \in Handlers, NEW r, reply' = [reply EXCEPT ![h] = r]
  PROVE  Answer' = [Answer EXCEPT ![h] = AnswerOf(r)]
<1>1. \A g \in Handlers : reply'[g] = IF g = h THEN r ELSE reply[g]
  BY DEF TypeOK
<1>2. \A g \in Handlers :
        AnswerOf(reply'[g]) = IF g = h THEN AnswerOf(r) ELSE AnswerOf(reply[g])
  BY <1>1
<1>3. QED
  BY <1>2 DEF Answer

\* The order of a whole array is what SnapshotCache calls consecutive.
LEMMA OrderedIsConsecutive ==
  ASSUME TypeOK, OrderedBelow(data, LastOffset + 1, Newest)
  PROVE  Snapshot!Consecutive(data)
<1>1. \A j \in Offsets : j < LastOffset + 1
  BY CacheAssumption DEF Offsets
<1>2. QED
  BY <1>1 DEF OrderedBelow, InOrder, Snapshot!Consecutive, Snapshot!Offsets, Offsets

\* The initial state is one of SnapshotCache: nothing asked, nothing cached.
LEMMA InitSnapshot == Init => Snapshot!Init
<1> SUFFICES ASSUME Init PROVE Snapshot!Init
  OBVIOUS
<1> USE CacheAssumption DEF Init
<1>1. Newest = LastOffset
  <2>1. PICK n \in Offsets :
          files = [k \in Offsets |->
                     IF k <= n
                     THEN [day |-> LastOffset - k, born |-> 0, shape |-> "whole"]
                     ELSE NoFile]
    OBVIOUS
  <2>2. 0 \in Offsets /\ 0 <= n
    BY DEF Offsets
  <2>3. files[0] = [day |-> LastOffset, born |-> 0, shape |-> "whole"]
    BY <2>1, <2>2
  <2>4. files[0] \in LogFile
    BY <2>3 DEF LogFile, Shapes
  <2>5. QED
    BY <2>4 DEF Newest
<1>2. data = [k \in Snapshot!Offsets |-> [kind |-> "null", day |-> 0]]
  BY DEF Snapshot!Offsets, Offsets, NullEntry
<1>3. Asked = [c \in Handlers |-> "none"]
  BY DEF Asked, RequestAt, Threads
<1>4. Answer = [c \in Handlers |-> "none"]
  BY DEF Answer, AnswerOf
<1>5. QED
  BY <1>1, <1>2, <1>3, <1>4 DEF Snapshot!Init

\* A step of updateCache is a step of a refresh.
LEMMA PassSnapshot ==
  ASSUME IInv, Next, NEW t \in Threads, Pass(t)
  PROVE  [Snapshot!Next]_(Snapshot!vars)
<1> USE DEF IInv
<1>a. PCTypeOK /\ TypeOK'
  BY NextType DEF TypeOK
<1>b. data' \in Snapshot!Weeks
  BY <1>a DEF TypeOK, Snapshot!Weeks, Snapshot!Entry, Entry, Snapshot!Offsets, Offsets
<1>c. alive
  BY DEF Pass, BeginPass, FindFile, ReadFile, PassThrows, EndPass
<1>d. pc[t] \in InPass => cacheMutex = t /\ cacheMutex # NoThread
  BY <1>c, CacheAssumption DEF LockOK
<1>1. CASE BeginPass(t)
  <2>1. Asked' = Asked
    BY <1>1, <1>a, AskedSame DEF BeginPass, WeekPC
  <2>2. Snapshot!Begin
    BY <1>1, <2>1, CacheAssumption DEF BeginPass, env, Newest, Answer, Snapshot!Begin
  <2>3. QED
    BY <1>c, <2>2 DEF Snapshot!Next
<1>2. CASE FindFile(t) \/ ReadFile(t)
  <2>1. /\ pc[t] \in InLoop /\ \E l \in {"read", "stamp", "exists"} : Goto(t, l)
        /\ UNCHANGED <<env, cacheMutex, reply, alive, torn>>
    BY <1>2 DEF FindFile, ReadFile, NextOffset, InLoop
  <2>2. Asked' = Asked
    BY <1>a, <2>1, AskedSame DEF InLoop, WeekPC
  <2>3. Snapshot!Write
    BY <1>b, <1>d, <2>1, <2>2 DEF InPass, env, Newest, Answer, Snapshot!Write
  <2>4. QED
    BY <1>c, <2>3 DEF Snapshot!Next
<1>3. CASE PassThrows(t)
  <2>1. /\ pc[t] = "read" /\ cacheMutex' = NoThread
        /\ torn' = (torn \/ cur[t] # 0)
        /\ UNCHANGED <<env, data>>
    BY <1>3 DEF PassThrows
  <2>2. Newest' = Newest
    BY <2>1 DEF env, Newest
  <2>3. ~ torn' => Snapshot!Consecutive(data)
    <3>1. SUFFICES ASSUME ~ torn, cur[t] = 0 PROVE Snapshot!Consecutive(data)
      BY <2>1
    <3>2. \A u \in Threads : pc[u] \in InLoop => u = t
      BY <1>c, <1>d, <2>1 DEF LockOK, InPass, InLoop
    <3>3. OrderedBelow(data, LastOffset + 1, Newest)
      BY <1>c, <3>1, <3>2 DEF OrderOK
    <3>4. QED
      BY <3>3, OrderedIsConsecutive
  <2>4. torn' \in {torn, TRUE}
    BY <2>1 DEF TypeOK
  <2>5. \/ /\ \E c \in Handlers : Asked[c] = "week" /\ Snapshot!Settle(c, "error")
           /\ UNCHANGED alive
        \/ /\ alive' = FALSE
           /\ UNCHANGED <<Asked, Answer>>
    <3>1. CASE t \in Handlers
      <4>1. Goto(t, "idle") /\ reply' = [reply EXCEPT ![t] = Cause(cur[t])] /\ alive' = alive
        BY <1>3, <3>1 DEF PassThrows
      <4>2. Asked[t] = "week" /\ Asked' = [Asked EXCEPT ![t] = "none"]
        BY <1>a, <2>1, <3>1, <4>1, AskedSet DEF Asked, RequestAt
      <4>3. Answer' = [Answer EXCEPT ![t] = "error"]
        <5>1. AnswerOf(Cause(cur[t])) = "error"
          BY DEF Cause, AnswerOf
        <5>2. QED
          BY <3>1, <4>1, <5>1, AnswerSet
      <4>4. QED
        BY <3>1, <4>1, <4>2, <4>3 DEF Snapshot!Settle
    <3>2. CASE t \notin Handlers
      BY <1>3, <3>2 DEF PassThrows, Asked, Answer
    <3>3. QED
      BY <3>1, <3>2
  <2>6. Snapshot!Fail
    <3>1. (cacheMutex # NoThread) /\ (cacheMutex' # NoThread) = FALSE
      BY <1>d, <2>1 DEF InPass, InLoop
    <3>2. UNCHANGED <<Newest, data>>
      BY <2>1, <2>2
    <3>3. QED
      BY <2>3, <2>4, <2>5, <3>1, <3>2, Zenon DEF Snapshot!Fail
  <2>7. QED
    BY <1>c, <2>6 DEF Snapshot!Next
<1>4. CASE EndPass(t)
  <2>1. Asked' = Asked
    <3>1. t \in Handlers => AfterPass(t) \in WeekPC
      BY DEF AfterPass, WeekPC
    <3>2. QED
      BY <1>4, <1>a, <3>1, AskedSame DEF EndPass, WeekPC
  <2>2. Snapshot!Consecutive(data)
    BY <1>4, <1>c, OrderedIsConsecutive DEF EndPass, OrderOK
  <2>3. Snapshot!Finish
    BY <1>4, <1>d, <2>1, <2>2 DEF EndPass, InPass, env, Newest, Answer, Snapshot!Finish
  <2>4. QED
    BY <1>c, <2>3 DEF Snapshot!Next
<1>5. QED
  BY <1>1, <1>2, <1>3, <1>4 DEF Pass

\* A step of a request handler is a step of a request, or not seen by its client.
LEMMA HandlerSnapshot ==
  ASSUME IInv, Next, NEW h \in Handlers, HandlerStep(h)
  PROVE  [Snapshot!Next]_(Snapshot!vars)
<1> USE DEF IInv
<1>a. PCTypeOK /\ h \in Threads
  BY DEF TypeOK, Threads
<1>b. alive
  BY DEF HandlerStep, AllTempsRequest, ReadNow, ServeAll, TempsRequest, FindDay,
     ReadDay, SampleLog, HandlerDecides
<1>c. Asked[h] = RequestAt(pc[h])
  BY DEF Asked
<1>1. CASE AllTempsRequest(h)
  <2>1. /\ pc[h] = "idle" /\ Goto(h, "sample") /\ reply' = [reply EXCEPT ![h] = "none"]
        /\ UNCHANGED <<env, data, cacheMutex, alive, torn>>
    BY <1>1 DEF AllTempsRequest, ReadNow
  <2>2. Asked[h] = "none" /\ Asked' = [Asked EXCEPT ![h] = "week"]
    BY <1>a, <1>c, <2>1, AskedSet DEF RequestAt
  <2>3. Answer' = [Answer EXCEPT ![h] = "none"]
    BY <2>1, AnswerSet DEF AnswerOf
  <2>4. Snapshot!Ask(h)
    BY <2>1, <2>2, <2>3 DEF env, Newest, Snapshot!Ask, Snapshot!Requests
  <2>5. QED
    BY <1>b, <2>4 DEF Snapshot!Next
<1>2. CASE ServeAll(h)
  <2>1. /\ pc[h] = "serve" /\ cacheMutex = NoThread
        /\ Goto(h, "idle") /\ reply' = [reply EXCEPT ![h] = "all"]
        /\ UNCHANGED <<env, data, cacheMutex, alive, torn>>
    BY <1>2 DEF ServeAll
  <2>2. Asked[h] = "week" /\ Asked' = [Asked EXCEPT ![h] = "none"]
    BY <1>a, <1>c, <2>1, AskedSet DEF RequestAt
  <2>3. Answer' = [Answer EXCEPT ![h] = "week"]
    BY <2>1, AnswerSet DEF AnswerOf
  <2>4. ~ torn => Snapshot!Consecutive(data)
    <3>1. \A t \in Threads : pc[t] \notin InPass
      BY <1>b, <2>1, CacheAssumption DEF LockOK
    <3>2. ~ torn => OrderedBelow(data, LastOffset + 1, Newest)
      BY <1>b, <3>1 DEF OrderOK, InPass
    <3>3. QED
      BY <3>2, OrderedIsConsecutive
  <2>5. Snapshot!AnswerWeek(h)
    BY <2>1, <2>2, <2>3, <2>4 DEF env, Newest, Snapshot!AnswerWeek, Snapshot!Settle
  <2>6. QED
    BY <1>b, <2>5 DEF Snapshot!Next
<1>3. CASE TempsRequest(h)
  <2>1. /\ pc[h] = "idle"
        /\ UNCHANGED <<env, data, cacheMutex, alive, torn>>
    BY <1>3 DEF TempsRequest
  <2>2. Asked[h] = "none"
    BY <1>c, <2>1 DEF RequestAt
  <2>3. CASE reply' = [reply EXCEPT ![h] = "badOffset"] /\ pc' = pc
    <3>1. Asked' = [Asked EXCEPT ![h] = "none"]
      BY <2>2, <2>3 DEF Asked
    <3>2. Answer' = [Answer EXCEPT ![h] = "error"]
      <4>1. AnswerOf("badOffset") = "error"
        BY DEF AnswerOf
      <4>2. QED
        BY <2>3, <4>1, AnswerSet
    <3>3. Snapshot!Refuse(h)
      BY <2>1, <2>2, <3>1, <3>2 DEF env, Newest, Snapshot!Refuse, Snapshot!Settle
    <3>4. QED
      BY <1>b, <3>3 DEF Snapshot!Next
  <2>4. CASE reply' = [reply EXCEPT ![h] = "none"] /\ Goto(h, "dayExists")
    <3>1. Asked' = [Asked EXCEPT ![h] = "day"]
      BY <1>a, <2>4, AskedSet DEF RequestAt
    <3>2. Answer' = [Answer EXCEPT ![h] = "none"]
      BY <2>4, AnswerSet DEF AnswerOf
    <3>3. Snapshot!Ask(h)
      BY <2>1, <2>2, <3>1, <3>2 DEF env, Newest, Snapshot!Ask, Snapshot!Requests
    <3>4. QED
      BY <1>b, <3>3 DEF Snapshot!Next
  <2>5. QED
    BY <1>3, <2>3, <2>4 DEF TempsRequest
<1>4. CASE FindDay(h) \/ ReadDay(h)
  <2>1. /\ pc[h] \in {"dayExists", "dayRead"}
        /\ UNCHANGED <<env, data, cacheMutex, alive, torn>>
    BY <1>4 DEF FindDay, ReadDay
  <2>2. Asked[h] = "day"
    BY <1>c, <2>1 DEF RequestAt
  <2>3. CASE Goto(h, "dayRead") /\ reply' = reply
    <3>1. Asked' = [Asked EXCEPT ![h] = "day"]
      BY <1>a, <2>3, AskedSet DEF RequestAt
    <3>2. Asked' = Asked
      BY <2>2, <3>1 DEF Asked
    <3>3. QED
      BY <2>1, <2>3, <3>2 DEF env, Newest, Answer, Snapshot!vars
  <2>4. CASE /\ Goto(h, "idle")
             /\ \E r \in {"missing", "gone", "parse", "day"} : reply' = [reply EXCEPT ![h] = r]
    <3>1. Asked' = [Asked EXCEPT ![h] = "none"]
      BY <1>a, <2>4, AskedSet DEF RequestAt
    <3>2. \/ Answer' = [Answer EXCEPT ![h] = "error"]
          \/ Answer' = [Answer EXCEPT ![h] = "day"]
      BY <2>4, AnswerSet DEF AnswerOf
    <3>3. Snapshot!AnswerDay(h)
      BY <2>1, <2>2, <3>1, <3>2 DEF env, Newest, Snapshot!AnswerDay, Snapshot!Settle
    <3>4. QED
      BY <1>b, <3>3 DEF Snapshot!Next
  <2>5. QED
    BY <1>4, <2>3, <2>4 DEF FindDay, ReadDay, Cause
<1>5. CASE SampleLog(h) \/ HandlerDecides(h)
  <2>1. Asked' = Asked
    BY <1>5, <1>a, AskedSame DEF SampleLog, HandlerDecides, WeekPC
  <2>2. QED
    BY <1>5, <2>1 DEF SampleLog, HandlerDecides, env, Newest, Answer, Snapshot!vars
<1>6. QED
  BY <1>1, <1>2, <1>3, <1>4, <1>5 DEF HandlerStep

\* Every step is one of SnapshotCache, or is not seen by any client.
LEMMA NextSnapshot == IInv /\ [Next]_vars => [Snapshot!Next]_(Snapshot!vars)
<1> SUFFICES ASSUME IInv, [Next]_vars PROVE [Snapshot!Next]_(Snapshot!vars)
  OBVIOUS
<1> USE DEF IInv
<1>a. PCTypeOK
  BY DEF TypeOK
<1>b. \A t \in Timers \cup {Main} : t \in Threads /\ t \notin Handlers
  BY CacheAssumption DEF Threads
<1>1. CASE \E t \in Threads : Pass(t)
  BY <1>1, PassSnapshot DEF Next
<1>2. CASE \E h \in Handlers : HandlerStep(h)
  BY <1>2, HandlerSnapshot DEF Next
<1>3. ASSUME NEW t \in Timers, TimerStep(t) PROVE UNCHANGED Snapshot!vars
  <2>1. \E l : Goto(t, l)
    BY <1>3 DEF TimerStep, TimerFires, ReadNow, SampleLog, TimerDecides
  <2>2. Asked' = Asked
    BY <1>a, <1>b, <2>1, AskedSet
  <2>3. QED
    BY <1>3, <2>2 DEF TimerStep, TimerFires, ReadNow, SampleLog, TimerDecides, env,
       Newest, Answer, Snapshot!vars
<1>4. CASE ConstructorStartsTimer
  <2>1. Asked' = Asked
    <3>1. \A h \in Handlers : pc'[h] = pc[h]
      BY <1>a, <1>b, <1>4 DEF ConstructorStartsTimer, PCTypeOK, Threads
    <3>2. QED
      BY <3>1 DEF Asked
  <2>2. QED
    BY <1>4, <2>1 DEF ConstructorStartsTimer, env, Newest, Answer, Snapshot!vars
<1>5. ASSUME NEW seconds \in LifeExpectancies, SetLifeExpectancy(seconds)
      PROVE  UNCHANGED Snapshot!vars
  <2>1. Asked' = Asked
    BY <1>a, <1>b, <1>5, AskedSet DEF SetLifeExpectancy
  <2>2. QED
    BY <1>5, <2>1 DEF SetLifeExpectancy, env, Newest, Answer, Snapshot!vars
<1>6. CASE Environment
  <2>1. /\ UNCHANGED <<data, cacheMutex, pc, reply, alive, torn>>
        /\ alive
    BY <1>6 DEF Environment, Tick, LogAppend, RotateRename, RotateCreate
  <2>2. Asked' = Asked /\ Answer' = Answer
    BY <2>1 DEF Asked, Answer
  <2>3. Newest' = Newest \/ Newest' = Newest + 1
    <3>1. CASE Tick
      BY <3>1 DEF Tick, Newest
    <3>2. CASE LogAppend
      <4>1. \/ files'[0] = files[0]
            \/ files[0] # NoFile /\ files'[0] \in LogFile
        BY <3>2 DEF LogAppend, TypeOK, LogFile, Shapes, Offsets
      <4>2. QED
        BY <3>2, <4>1, CacheAssumption DEF LogAppend, Newest
    <3>3. CASE RotateRename
      <4>1. files'[0] = NoFile
        BY <3>3, CacheAssumption DEF RotateRename, Offsets
      <4>2. QED
        BY <3>3, <4>1 DEF RotateRename, Newest
    <3>4. CASE RotateCreate
      <4>1. files'[0] \in LogFile
        BY <3>4, CacheAssumption DEF RotateCreate, TypeOK, LogFile, Shapes, Offsets
      <4>2. QED
        BY <3>4, <4>1, CacheAssumption DEF RotateCreate, Newest
    <3>5. QED
      BY <1>6, <3>1, <3>2, <3>3, <3>4 DEF Environment
  <2>4. CASE Newest' = Newest
    BY <2>1, <2>2, <2>4 DEF Snapshot!vars
  <2>5. CASE Newest' = Newest + 1
    <3>1. Snapshot!Rotate
      BY <2>1, <2>2, <2>5 DEF Snapshot!Rotate
    <3>2. QED
      BY <2>1, <3>1 DEF Snapshot!Next
  <2>6. QED
    BY <2>3, <2>4, <2>5
<1>7. CASE UNCHANGED vars
  BY <1>7 DEF vars, Newest, Asked, Answer, Snapshot!vars
<1>8. QED
  BY <1>1, <1>2, <1>3, <1>4, <1>5, <1>6, <1>7 DEF Next

\* The threads, files, clocks and the mutex of TempsCtrl implement the cache of
\* whole weeks that its clients are promised (TempsCtrl.cc:70-95, 291-326).
THEOREM CacheImplementsSnapshot == Spec => ImplementsSnapshot
  BY InitSnapshot, NextSnapshot, Invariance, PTL DEF Spec, ImplementsSnapshot, Snapshot!Spec
=============================================================================
