------------------------------ MODULE TempsCache ------------------------------
(***************************************************************************)
(* The cache of TempsCtrl (TempsCtrl.cc): the JSON of the last seven daily *)
(* log files, filled by updateCache and served by /all_temps, next to      *)
(* /temps?dayOffset=k, which reads one log file directly.                  *)
(*                                                                         *)
(* Threads.  Handlers are the HTTP threads that run the two request        *)
(* handlers; Timers are the detached threads that setCacheTimer starts (a  *)
(* new one each time it is called, the older ones keep going); Main is the *)
(* thread that constructs TempsCtrl.  The environment moves the clock,     *)
(* appends to the logs, rotates them, and delivers changes of the cache    *)
(* life expectancy.                                                        *)
(*                                                                         *)
(* Abstractions.  A log file is its day, its creation minute and what      *)
(* parsing it would do: "short" (fewer bytes than maxjobs, answered with   *)
(* an error object), "whole", or "partial" (a line with a date but no      *)
(* temperature, on which logFile2Json throws).  A sleeping timer may fire  *)
(* at any moment.  The wall clock never goes back.                         *)
(***************************************************************************)
EXTENDS Integers

CONSTANTS
  Handlers,          \* HTTP threads
  Timers,            \* threads started by setCacheTimer
  Main,              \* the thread running the constructor
  NoThread,          \* owner of a free mutex
  NoFile,            \* what a path names when no file is there
  LastOffset,        \* the highest cached day offset: 6 in the code
  LifeExpectancies,  \* cache life expectancies, in seconds
  MaxClock,          \* bound on the wall clock, in minutes
  MaxDay             \* bound on the number of the newest day

Threads == Handlers \cup Timers \cup {Main}
Offsets == 0..LastOffset

Shapes  == {"short", "whole", "partial"}
LogFile == [day : Nat, born : Nat, shape : Shapes]

ASSUME CacheAssumption ==
  /\ Handlers \cap Timers = {}
  /\ Main \notin Handlers \cup Timers
  /\ NoThread \notin Threads
  /\ NoFile \notin LogFile
  /\ LastOffset \in Nat
  /\ LifeExpectancies \subseteq Nat
  /\ MaxClock \in Nat
  /\ MaxDay \in Nat

VARIABLES
  clock,                 \* the wall clock, in minutes
  today,                 \* the day of the newest log ever created
  files,                 \* files[k]: what the path of day offset k names
  data,                  \* cache.data
  creationEpochMinutes,  \* cache.creationEpochMinutes
  cacheMutex,            \* the thread that holds cacheMutex
  lifeExpectancy,        \* m_cacheLifeExpectancySeconds
  pc,                    \* where each thread is
  cur,                   \* the day offset each thread is working on
  seen,                  \* what each thread's expiry check has read
  reply,                 \* the kind of each handler's latest answer
  alive,                 \* FALSE once an exception has ended the process
  torn                   \* history: the last pass to write data failed midway

env  == <<clock, today, files>>
vars == <<clock, today, files, data, creationEpochMinutes, cacheMutex,
          lifeExpectancy, pc, cur, seen, reply, alive, torn>>

-----------------------------------------------------------------------------
(* JSON values held by the cache.                                          *)

Entry == [kind : {"null", "array", "error", "temps"}, day : Nat]

NullEntry  == [kind |-> "null",  day |-> 0]
EmptyArray == [kind |-> "array", day |-> 0]

\* What logFile2Json returns for a file it can parse.
Parsed(f) == IF f.shape = "short" THEN [kind |-> "error", day |-> 0]
                                  ELSE [kind |-> "temps", day |-> f.day]

\* logFile2Json throws: the file is gone, or extractMatches meets the partial line.
Readable == [day : Nat, born : Nat, shape : {"short", "whole"}]
Unreadable(k) == files[k] \notin Readable

Sample == [now : Nat, known : BOOLEAN, born : Nat, day : Nat, life : Nat]
NoSample == [now |-> 0, known |-> FALSE, born |-> 0, day |-> 0, life |-> 0]

Replies == {"none", "all", "day", "missing", "badOffset", "gone", "parse"}

HandlerPC == {"idle", "sample", "decide", "lock", "exists", "read", "stamp", "serve",
              "dayExists", "dayRead"}
TimerPC   == {"unborn", "sleeping", "sample", "decide", "lock", "exists", "read",
              "stamp"}
MainPC    == {"lock", "exists", "read", "stamp", "startTimer", "done"}

Locations(t) ==
  IF t \in Handlers THEN HandlerPC ELSE IF t \in Timers THEN TimerPC ELSE MainPC

PCTypeOK ==
  /\ pc \in [Threads -> HandlerPC \cup TimerPC \cup MainPC]
  /\ \A t \in Threads : pc[t] \in Locations(t)

TypeOK ==
  /\ clock \in Nat
  /\ today \in Nat
  /\ files \in [Offsets -> LogFile \cup {NoFile}]
  /\ data \in [Offsets -> Entry]
  /\ creationEpochMinutes \in Nat
  /\ cacheMutex \in Threads \cup {NoThread}
  /\ lifeExpectancy \in LifeExpectancies
  /\ PCTypeOK
  /\ cur \in [Threads -> Offsets]
  /\ seen \in [Threads -> Sample]
  /\ reply \in [Handlers -> Replies]
  /\ alive \in BOOLEAN
  /\ torn \in BOOLEAN

\* main.cc has checked that the base log exists; how many rotated ones there
\* are is open.  The constructor is about to run its first updateCache.
Init ==
  /\ clock = 1
  /\ today = LastOffset
  /\ \E n \in Offsets :
       files = [k \in Offsets |->
                  IF k <= n
                  THEN [day |-> LastOffset - k, born |-> 0, shape |-> "whole"]
                  ELSE NoFile]
  /\ data = [k \in Offsets |-> NullEntry]
  /\ creationEpochMinutes = 0
  /\ cacheMutex = NoThread
  /\ lifeExpectancy \in LifeExpectancies
  /\ pc = [t \in Threads |-> IF t \in Handlers THEN "idle"
                             ELSE IF t \in Timers THEN "unborn" ELSE "lock"]
  /\ cur = [t \in Threads |-> 0]
  /\ seen = [t \in Threads |-> NoSample]
  /\ reply = [h \in Handlers |-> "none"]
  /\ alive = TRUE
  /\ torn = FALSE

-----------------------------------------------------------------------------
(* The environment.  Nothing is modelled after the end of the process.     *)

Tick ==
  /\ alive
  /\ clock < MaxClock
  /\ clock' = clock + 1
  /\ UNCHANGED <<today, files, data, creationEpochMinutes, cacheMutex,
                 lifeExpectancy, pc, cur, seen, reply, alive, torn>>

\* The logger writes to the active log; a line may reach the file in two parts,
\* the second of them after the file has been renamed.
LogAppend ==
  /\ alive
  /\ \E k \in Offsets, s \in {"whole", "partial"} :
       /\ files[k] # NoFile
       /\ files[k].shape # s
       /\ k = 0 \/ files[k].shape = "partial"
       /\ files' = [files EXCEPT ![k] =
                      [day |-> files[k].day, born |-> files[k].born, shape |-> s]]
  /\ UNCHANGED <<clock, today, data, creationEpochMinutes, cacheMutex,
                 lifeExpectancy, pc, cur, seen, reply, alive, torn>>

\* A rotation renames every log to the next offset and then creates a new
\* active log: for a moment there is none.
RotateRename ==
  /\ alive
  /\ files[0] # NoFile
  /\ today < MaxDay
  /\ files' = [k \in Offsets |-> IF k = 0 THEN NoFile ELSE files[k - 1]]
  /\ UNCHANGED <<clock, today, data, creationEpochMinutes, cacheMutex,
                 lifeExpectancy, pc, cur, seen, reply, alive, torn>>

RotateCreate ==
  /\ alive
  /\ files[0] = NoFile
  /\ today' = today + 1
  /\ files' = [files EXCEPT ![0] =
                 [day |-> today + 1, born |-> clock, shape |-> "short"]]
  /\ UNCHANGED <<clock, data, creationEpochMinutes, cacheMutex,
                 lifeExpectancy, pc, cur, seen, reply, alive, torn>>

-----------------------------------------------------------------------------
(* updateCache: one pass over the day offsets under cacheMutex.            *)

Goto(t, l) == pc' = [pc EXCEPT ![t] = l]

\* Where updateCache returns to.
AfterPass(t) == IF t \in Handlers THEN "serve"
                ELSE IF t \in Timers THEN "sleeping" ELSE "startTimer"

\* Mutant: the loop bound is one too high.
NextOffset_Overruns(t) ==
  IF cur[t] > LastOffset
  THEN Goto(t, "stamp") /\ UNCHANGED cur
  ELSE Goto(t, "exists") /\ cur' = [cur EXCEPT ![t] = @ + 1]

\* The for loop of updateCache moves on from the current offset.
NextOffset(t) ==
  IF cur[t] = LastOffset
  THEN Goto(t, "stamp") /\ UNCHANGED cur
  ELSE Goto(t, "exists") /\ cur' = [cur EXCEPT ![t] = @ + 1]

\* Mutant: updateCache does not take the mutex.
BeginPass_NoLock(t) ==
  /\ alive
  /\ pc[t] = "lock"
  /\ cacheMutex' = t
  /\ cur' = [cur EXCEPT ![t] = 0]
  /\ Goto(t, "exists")
  /\ UNCHANGED <<env, data, creationEpochMinutes, lifeExpectancy, seen, reply,
                 alive, torn>>

BeginPass(t) ==
  /\ alive
  /\ pc[t] = "lock"
  /\ cacheMutex = NoThread
  /\ cacheMutex' = t
  /\ cur' = [cur EXCEPT ![t] = 0]
  /\ Goto(t, "exists")
  /\ UNCHANGED <<env, data, creationEpochMinutes, lifeExpectancy, seen, reply,
                 alive, torn>>

\* offset2LogFilePath asks whether the file exists, before it is opened.
FindFile(t) ==
  /\ alive
  /\ pc[t] = "exists"
  /\ \/ /\ files[cur[t]] # NoFile
        /\ Goto(t, "read")
        /\ UNCHANGED <<data, cur>>
     \/ /\ files[cur[t]] = NoFile
        /\ data' = [data EXCEPT ![cur[t]] = EmptyArray]
        /\ NextOffset(t)
  /\ UNCHANGED <<env, creationEpochMinutes, cacheMutex, lifeExpectancy, seen,
                 reply, alive, torn>>

ReadFile(t) ==
  /\ alive
  /\ pc[t] = "read"
  /\ ~ Unreadable(cur[t])
  /\ data' = [data EXCEPT ![cur[t]] = Parsed(files[cur[t]])]
  /\ NextOffset(t)
  /\ UNCHANGED <<env, creationEpochMinutes, cacheMutex, lifeExpectancy, seen,
                 reply, alive, torn>>

Cause(k) == IF files[k] = NoFile THEN "gone" ELSE "parse"

\* Mutant: unlock() is written at the end of the pass instead of a lock_guard.
PassThrows_KeepsMutex(t) ==
  /\ alive
  /\ pc[t] = "read"
  /\ Unreadable(cur[t])
  /\ torn' = (torn \/ cur[t] # 0)
  /\ cur' = [cur EXCEPT ![t] = 0]
  /\ seen' = [seen EXCEPT ![t] = NoSample]
  /\ IF t \in Handlers
     THEN /\ Goto(t, "idle")
          /\ reply' = [reply EXCEPT ![t] = Cause(cur[t])]
          /\ UNCHANGED alive
     ELSE /\ alive' = FALSE
          /\ UNCHANGED <<pc, reply>>
  /\ UNCHANGED <<env, data, creationEpochMinutes, cacheMutex, lifeExpectancy>>

\* logFile2Json throws out of updateCache.  lock_guard releases the mutex; the
\* HTTP framework turns an exception of a handler into an error answer, but
\* nothing catches one of a timer thread or of the constructor.
PassThrows(t) ==
  /\ alive
  /\ pc[t] = "read"
  /\ Unreadable(cur[t])
  /\ cacheMutex' = NoThread
  /\ torn' = (torn \/ cur[t] # 0)
  /\ cur' = [cur EXCEPT ![t] = 0]
  /\ seen' = [seen EXCEPT ![t] = NoSample]
  /\ IF t \in Handlers
     THEN /\ Goto(t, "idle")
          /\ reply' = [reply EXCEPT ![t] = Cause(cur[t])]
          /\ UNCHANGED alive
     ELSE /\ alive' = FALSE
          /\ UNCHANGED <<pc, reply>>
  /\ UNCHANGED <<env, data, creationEpochMinutes, lifeExpectancy>>

\* The pass ends: the cache is dated with the time at the end of the pass.
EndPass(t) ==
  /\ alive
  /\ pc[t] = "stamp"
  /\ creationEpochMinutes' = clock
  /\ cacheMutex' = NoThread
  /\ torn' = FALSE
  /\ cur' = [cur EXCEPT ![t] = 0]
  /\ Goto(t, AfterPass(t))
  /\ UNCHANGED <<env, data, lifeExpectancy, seen, reply, alive>>

-----------------------------------------------------------------------------
(* isCacheExpired and isCacheNeedingUpdate: neither takes cacheMutex.      *)
(*                                                                         *)
(* Each reads creationEpochMinutes twice.  It only grows, so a pass that   *)
(* ends between the two reads leads to the decision that one read of both  *)
(* would have led to, before the pass or after it: one step stands for     *)
(* both reads.                                                             *)

\* getActiveLogFileCreationTimeMinutes: when the active log is missing, statx
\* fails and the buffer is uninitialised.  Any value may come of it; it is only
\* compared with creationEpochMinutes, so one below and one above stand for all.
CreationTimes == IF files[0] # NoFile THEN {files[0].born} ELSE {0, MaxClock + 1}

\* The check begins and reads the clock.
ReadNow(t) ==
  /\ alive
  /\ seen' = [seen EXCEPT ![t] = [NoSample EXCEPT !.now = clock]]
  /\ Goto(t, "sample")
  /\ UNCHANGED <<env, data, creationEpochMinutes, cacheMutex, lifeExpectancy,
                 cur, alive, torn>>

\* Then it reads the creation time of the active log, which may have been rotated
\* since.  What a request has found is noted for the properties.
SampleLog(t) ==
  /\ alive
  /\ pc[t] = "sample"
  /\ LET known == t \in Handlers /\ files[0] # NoFile IN
       \E b \in CreationTimes :
         seen' = [seen EXCEPT ![t] =
                    [now |-> seen[t].now, known |-> known, born |-> b,
                     day |-> IF known THEN files[0].day ELSE 0, life |-> 0]]
  /\ Goto(t, "decide")
  /\ UNCHANGED <<env, data, creationEpochMinutes, cacheMutex, lifeExpectancy,
                 cur, reply, alive, torn>>

\* Mutant: the cache is still good in the minute in which it expires.
isCacheExpired_Late(t) ==
  \/ creationEpochMinutes < seen[t].born
  \/ seen[t].now > creationEpochMinutes + (lifeExpectancy \div 60)

isCacheExpired(t) ==
  \/ creationEpochMinutes < seen[t].born
  \/ seen[t].now >= creationEpochMinutes + (lifeExpectancy \div 60)

isCacheNeedingUpdate(t) ==
  \/ creationEpochMinutes < seen[t].born
  \/ seen[t].now >= creationEpochMinutes + ((95 * (lifeExpectancy \div 60)) \div 100)

HandlerDecides(h) ==
  /\ alive
  /\ pc[h] = "decide"
  /\ seen' = [seen EXCEPT ![h].life = lifeExpectancy]
  /\ Goto(h, IF isCacheExpired(h) THEN "lock" ELSE "serve")
  /\ UNCHANGED <<env, data, creationEpochMinutes, cacheMutex, lifeExpectancy,
                 cur, reply, alive, torn>>

TimerDecides(t) ==
  /\ alive
  /\ pc[t] = "decide"
  /\ seen' = [seen EXCEPT ![t] = NoSample]
  /\ Goto(t, IF isCacheNeedingUpdate(t) THEN "lock" ELSE "sleeping")
  /\ UNCHANGED <<env, data, creationEpochMinutes, cacheMutex, lifeExpectancy,
                 cur, reply, alive, torn>>

-----------------------------------------------------------------------------
(* handleAllTempsRequest and handleTempsRequest.                           *)

AllTempsRequest(h) ==
  /\ pc[Main] = "done"
  /\ pc[h] = "idle"
  /\ reply' = [reply EXCEPT ![h] = "none"]
  /\ ReadNow(h)

\* Mutant: the array is copied without the mutex.
ServeAll_Unlocked(h) ==
  /\ alive
  /\ pc[h] = "serve"
  /\ Goto(h, "idle")
  /\ reply' = [reply EXCEPT ![h] = "all"]
  /\ seen' = [seen EXCEPT ![h] = NoSample]
  /\ UNCHANGED <<env, data, creationEpochMinutes, cacheMutex, lifeExpectancy,
                 cur, alive, torn>>

\* The answer is built from the whole array under the mutex.
ServeAll(h) ==
  /\ alive
  /\ pc[h] = "serve"
  /\ cacheMutex = NoThread
  /\ Goto(h, "idle")
  /\ reply' = [reply EXCEPT ![h] = "all"]
  /\ seen' = [seen EXCEPT ![h] = NoSample]
  /\ UNCHANGED <<env, data, creationEpochMinutes, cacheMutex, lifeExpectancy,
                 cur, alive, torn>>

\* A day offset that stoul rejects is answered at once.
TempsRequest(h) ==
  /\ alive
  /\ pc[Main] = "done"
  /\ pc[h] = "idle"
  /\ \/ /\ reply' = [reply EXCEPT ![h] = "badOffset"]
        /\ UNCHANGED <<pc, cur>>
     \/ /\ \E k \in Offsets : cur' = [cur EXCEPT ![h] = k]
        /\ reply' = [reply EXCEPT ![h] = "none"]
        /\ Goto(h, "dayExists")
  /\ UNCHANGED <<env, data, creationEpochMinutes, cacheMutex, lifeExpectancy,
                 seen, alive, torn>>

FindDay(h) ==
  /\ alive
  /\ pc[h] = "dayExists"
  /\ \/ /\ files[cur[h]] # NoFile
        /\ Goto(h, "dayRead")
        /\ UNCHANGED <<cur, reply>>
     \/ /\ files[cur[h]] = NoFile
        /\ Goto(h, "idle")
        /\ cur' = [cur EXCEPT ![h] = 0]
        /\ reply' = [reply EXCEPT ![h] = "missing"]
  /\ UNCHANGED <<env, data, creationEpochMinutes, cacheMutex, lifeExpectancy,
                 seen, alive, torn>>

ReadDay(h) ==
  /\ alive
  /\ pc[h] = "dayRead"
  /\ Goto(h, "idle")
  /\ cur' = [cur EXCEPT ![h] = 0]
  /\ reply' = [reply EXCEPT ![h] =
                 IF Unreadable(cur[h]) THEN Cause(cur[h]) ELSE "day"]
  /\ UNCHANGED <<env, data, creationEpochMinutes, cacheMutex, lifeExpectancy,
                 seen, alive, torn>>

-----------------------------------------------------------------------------
(* Timers and the life expectancy.                                         *)

\* setCacheTimer starts one more interval thread and stops none.
setCacheTimer(t) == pc[t] = "unborn"

\* The constructor ends by starting the first cache timer.
ConstructorStartsTimer ==
  /\ alive
  /\ pc[Main] = "startTimer"
  /\ \E t \in Timers :
       setCacheTimer(t) /\ pc' = [pc EXCEPT ![Main] = "done", ![t] = "sleeping"]
  /\ UNCHANGED <<env, data, creationEpochMinutes, cacheMutex, lifeExpectancy,
                 cur, seen, reply, alive, torn>>

TimerFires(t) ==
  /\ pc[t] = "sleeping"
  /\ ReadNow(t)
  /\ UNCHANGED reply

\* The part of setCacheLifeExpectancy that the cache sees.  The ZMQ thread that
\* calls it runs from the start of the constructor.  The bound on the number of
\* timers is here; it leaves one to the constructor.
SetLifeExpectancy(seconds) ==
  /\ alive
  /\ lifeExpectancy' = seconds
  /\ \E t \in Timers :
       /\ setCacheTimer(t)
       /\ pc[Main] = "done" \/ \E u \in Timers \ {t} : setCacheTimer(u)
       /\ Goto(t, "sleeping")
  /\ UNCHANGED <<env, data, creationEpochMinutes, cacheMutex, cur, seen, reply,
                 alive, torn>>

-----------------------------------------------------------------------------
Pass(t) == BeginPass(t) \/ FindFile(t) \/ ReadFile(t) \/ PassThrows(t) \/ EndPass(t)

HandlerStep(h) ==
  \/ AllTempsRequest(h) \/ ServeAll(h)
  \/ TempsRequest(h) \/ FindDay(h) \/ ReadDay(h)
  \/ SampleLog(h) \/ HandlerDecides(h)

TimerStep(t) == TimerFires(t) \/ SampleLog(t) \/ TimerDecides(t)

Environment == Tick \/ LogAppend \/ RotateRename \/ RotateCreate

Next ==
  \/ \E t \in Threads : Pass(t)
  \/ \E h \in Handlers : HandlerStep(h)
  \/ \E t \in Timers : TimerStep(t)
  \/ ConstructorStartsTimer
  \/ \E seconds \in LifeExpectancies : SetLifeExpectancy(seconds)
  \/ Environment

\* A thread that can run does run.  The mutex is free for long stretches, since
\* a timer sleeps at least ten seconds between two passes: a thread that waits
\* for it is not passed over for ever.  Requests, timer expiries and the
\* environment are owed nothing.
Fairness ==
  /\ \A t \in Threads :
       /\ SF_vars(BeginPass(t))
       /\ WF_vars(FindFile(t) \/ ReadFile(t) \/ PassThrows(t) \/ EndPass(t))
  /\ \A h \in Handlers :
       /\ SF_vars(ServeAll(h))
       /\ WF_vars(SampleLog(h) \/ HandlerDecides(h) \/ FindDay(h) \/ ReadDay(h))
  /\ \A t \in Timers : WF_vars(SampleLog(t) \/ TimerDecides(t))
  /\ WF_vars(ConstructorStartsTimer)

Spec == Init /\ [][Next]_vars /\ Fairness

-----------------------------------------------------------------------------
(* Properties.                                                             *)

Answers(h) == pc[h] = "serve" /\ pc'[h] = "idle"

\* The cache is no older than the active log that the request of h has seen, and
\* was younger than the life expectancy when it looked.
Fresh(h) ==
  /\ seen[h].known => creationEpochMinutes >= seen[h].born
  /\ \/ creationEpochMinutes >= seen[h].now
     \/ seen[h].now < creationEpochMinutes + (seen[h].life \div 60)

\* In the array d, the entries at the offsets i < j leave no day out between them.
InOrder(d, i, j) ==
  d[i].kind = "temps" /\ d[j].kind = "temps" => d[i].day + i <= d[j].day + j

\* An answer of /all_temps leaves no day out: between two days it shows, k
\* offsets apart, there are at most k days.  Passes of updateCache overlap
\* with rotations, with the passes of other threads and with the copying of
\* the array; a rotation in the middle of a pass may show a day twice, but
\* never skips one.  The exception is an array that a pass left half written
\* when it threw: the code serves it.
NoDaySkipped ==
  [][\A h \in Handlers :
       Answers(h) => torn \/ \A i, j \in Offsets : i < j => InOrder(data, i, j)]_vars

\* The cache that is served is no older than the active log was when the
\* request checked it, and at that moment it was younger than the life
\* expectancy then in force, whatever the timers, the other requests and
\* changes of the life expectancy do between the check and the answer.
ServedFresh == [][\A h \in Handlers : Answers(h) => Fresh(h)]_vars

\* Every request is answered, with data or with an error, unless an exception
\* outside a request ends the process: no thread waits for cacheMutex for ever,
\* although passes throw while they hold it.
RequestAnswered ==
  \A h \in Handlers : pc[h] # "idle" ~> (pc[h] = "idle" \/ ~ alive)

\* The day that the log at offset 0 is, or will be when the rotation under way
\* has created it.
Newest == IF files[0] = NoFile THEN today + 1 ELSE today

\* The first n entries of the array d leave no day out, and none is of a later
\* day than its offset allows when the newest log is that of day newest.
OrderedBelow(d, n, newest) ==
  \A j \in Offsets :
    j < n => /\ d[j].kind = "temps" => d[j].day + j <= newest
             /\ \A i \in Offsets : i < j => InOrder(d, i, j)

InLoop == {"exists", "read"}
InPass == InLoop \cup {"stamp"}

\* The threads inside updateCache are the holders of its mutex: there is one at most.
LockOK == \A t \in Threads : pc[t] \in InPass <=> cacheMutex = t

\* Nothing is dated later than now.
ClockOK ==
  /\ creationEpochMinutes <= clock
  /\ \A k \in Offsets : files[k] # NoFile => files[k].born <= clock
  /\ \A t \in Threads :
       /\ seen[t].now <= clock
       /\ seen[t].known => seen[t].born <= clock

\* Every path names the log of the day its offset says, counted from the newest.
DaysOK == \A k \in Offsets : files[k] # NoFile => files[k].day + k = Newest

\* A pass has put the entries behind it in order; it finds the whole array in
\* order unless an earlier one threw, and so does every reader outside a pass.
OrderOK ==
  /\ \A t \in Threads :
       /\ pc[t] \in InLoop => OrderedBelow(data, cur[t], Newest)
       /\ pc[t] = "stamp" => OrderedBelow(data, LastOffset + 1, Newest)
  /\ ~ torn /\ (\A t \in Threads : pc[t] \in InLoop => cur[t] = 0)
       => OrderedBelow(data, LastOffset + 1, Newest)

\* From the decision to serve until the answer, the cache stays fresh enough.
FreshOK == \A h \in Handlers : pc[h] = "serve" => Fresh(h)

\* The inductive invariant behind NoDaySkipped and ServedFresh: who is inside
\* updateCache, how the days of the files and of the entries written so far
\* relate, and what a request may rely on between its check and its answer.
IInv ==
  /\ TypeOK
  /\ ClockOK
  /\ DaysOK
  /\ alive => LockOK /\ OrderOK /\ FreshOK

\* What a client of the server sees of all this: what a handler at location l is
\* working on for it, and what kind of answer the reply r is.
RequestAt(l) ==
  IF l = "idle" THEN "none"
  ELSE IF l \in {"dayExists", "dayRead"} THEN "day" ELSE "week"

AnswerOf(r) ==
  IF r \in {"none", "day"} THEN r ELSE IF r = "all" THEN "week" ELSE "error"

Asked  == [h \in Handlers |-> RequestAt(pc[h])]
Answer == [h \in Handlers |-> AnswerOf(reply[h])]

Snapshot == INSTANCE SnapshotCache WITH
  Clients <- Handlers,
  newest <- Newest,
  week <- data,
  refreshing <- (cacheMutex # NoThread),
  asked <- Asked,
  answer <- Answer

\* The threads, the mutex and the files together implement SnapshotCache: to a
\* client a refresh is one step, however many of them overlap with rotations and
\* requests; the week it is shown is whole, or was left by a refresh that failed.
ImplementsSnapshot == Snapshot!Spec

\* What the message of isCacheExpired says (TempsCtrl.cc:344): "cache expired,
\* log files have been rotated".  An answer of /all_temps does not show an older
\* active log than the one the request found when it checked for a rotation.
RotationNoticed ==
  [][\A h \in Handlers :
       Answers(h) /\ seen[h].known /\ data[0].kind = "temps"
         => data[0].day >= seen[h].day]_vars
=============================================================================
