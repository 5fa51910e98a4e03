-------------------------- MODULE ConfigStoreProofs --------------------------
(* Theorems about ConfigStore, for any set of timers, any values and any    *)
(* delays.                                                                  *)
EXTENDS ConfigStore, FiniteSetTheorems, TLAPS

\* Every step says what becomes of the history variables, most of them that they stay.
USE DEF history

-----------------------------------------------------------------------------
(* Type correctness.                                                       *)

\* A value has between one and ten digits.
LEMMA DigitsType == \A v \in Values : Digits(v) \in 1..10
<1> SUFFICES ASSUME NEW v \in Values PROVE Digits(v) \in 1..10
  OBVIOUS
<1> DEFINE D == {k \in 1..9 : v >= 10^k}
<1>1. IsFiniteSet(1..9) /\ Cardinality(1..9) = 9
  <2>1. 1 \in Int /\ 9 \in Int
    OBVIOUS
  <2>2. IsFiniteSet(1..9) /\ Cardinality(1..9) = IF 1 > 9 THEN 0 ELSE 9 - 1 + 1
    BY <2>1, FS_Interval, Zenon
  <2>3. QED
    BY <2>2
<1>2. IsFiniteSet(D) /\ Cardinality(D) <= 9
  BY <1>1, FS_Subset
<1>3. Cardinality(D) \in Nat
  BY <1>2, FS_CardinalityType
<1>4. Digits(v) = 1 + Cardinality(D)
  BY DEF Digits
<1> HIDE DEF D
<1>5. QED
  BY <1>2, <1>3, <1>4

\* What a write leaves is a text.
LEMMA OverwriteType ==
  ASSUME NEW f \in Text \cup {Absent, Empty}, NEW v \in Values
  PROVE  Overwrite(f, v) \in Text
<1>1. Digits(v) \in 1..10
  BY DigitsType
<1>2. f \in Text => f.digits \in 1..10
  BY DEF Text
<1>3. QED
  BY <1>1, <1>2 DEF Overwrite, Text

\* Where the threads are.
PCOK ==
  /\ pc \in [Threads -> MainPC \cup ZmqPC \cup TimerPC]
  /\ pc[Main] \in MainPC /\ pc[Zmq] \in ZmqPC
  /\ \A t \in Timers : pc[t] \in TimerPC

\* A thread that moves to a place of its own keeps all threads in theirs.
LEMMA GotoType ==
  ASSUME PCOK, NEW s \in Threads, NEW l, Goto(s, l),
         s = Main => l \in MainPC, s = Zmq => l \in ZmqPC, s \in Timers => l \in TimerPC
  PROVE  PCOK' /\ (\A t \in Threads : pc'[t] = IF t = s THEN l ELSE pc[t])
<1>1. l \in MainPC \cup ZmqPC \cup TimerPC
  BY DEF Threads
<1>2. Main \in Threads /\ Zmq \in Threads /\ Timers \subseteq Threads
  BY DEF Threads
<1>3. QED
  BY <1>1, <1>2 DEF PCOK, Goto

LEMMA InitType == Init => TypeOK
<1> SUFFICES ASSUME Init PROVE TypeOK
  OBVIOUS
<1>1. DefaultLife \in Values /\ MaxDelay \in Nat /\ MaxBusy \in Nat
  BY ConfigAssumption DEF Values
<1>2. file \in Text \cup {Absent, Empty}
  BY DigitsType DEF Init, Text
<1>3. PCOK
  BY ConfigAssumption DEF Init, PCOK, Threads, MainPC, ZmqPC, TimerPC
<1>4. 0 \in 0..MaxDelay /\ 0 \in 0..MaxBusy
  BY <1>1
<1>5. /\ usable \in BOOLEAN /\ changed \in BOOLEAN /\ raced \in BOOLEAN
      /\ asked \in Values
      /\ saveConfigMutex \in {Main, Zmq, NoThread}
      /\ m_config \in Values /\ lifeExpectancy \in Values
      /\ value \in [Threads -> Values]
  BY <1>1 DEF Init
<1>6. /\ age \in 0..MaxDelay /\ duration \in 0..MaxDelay
      /\ left \in [Timers -> 0..MaxDelay] /\ spent \in [Threads -> 0..MaxBusy]
  BY <1>4 DEF Init
<1>7. QED
  BY <1>2, <1>3, <1>5, <1>6 DEF TypeOK, PCOK

\* The clock.
LEMMA TickType == TypeOK /\ Tick => TypeOK'
<1> SUFFICES ASSUME TypeOK, Tick PROVE TypeOK'
  OBVIOUS
<1>a. MaxDelay \in Nat /\ MaxBusy \in Nat
  BY ConfigAssumption
<1>1. age' \in 0..MaxDelay
  BY <1>a DEF Tick, TypeOK, Smaller
<1>2. left' \in [Timers -> 0..MaxDelay]
  BY <1>a DEF Tick, TypeOK
<1>3. spent' \in [Threads -> 0..MaxBusy]
  BY <1>a DEF Tick, TypeOK
<1>4. QED
  BY <1>1, <1>2, <1>3 DEF Tick, TypeOK

\* The start and the end of the process.
LEMMA ProcessType == TypeOK /\ (Stop \/ Launch) => TypeOK'
<1> SUFFICES ASSUME TypeOK, Stop \/ Launch PROVE TypeOK'
  OBVIOUS
<1>a. DefaultLife \in Values /\ MaxDelay \in Nat /\ MaxBusy \in Nat
  BY ConfigAssumption DEF Values
<1>1. PCOK'
  BY ConfigAssumption DEF Stop, Launch, TypeOK, PCOK, Threads, MainPC, ZmqPC, TimerPC
<1>2. 0 \in 0..MaxDelay /\ 0 \in 0..MaxBusy
  BY <1>a
<1>3. /\ m_config' \in Values /\ lifeExpectancy' \in Values
      /\ value' \in [Threads -> Values]
      /\ saveConfigMutex' \in {Main, Zmq, NoThread}
  BY <1>a DEF Stop, Launch, TypeOK
<1>4. /\ age' \in 0..MaxDelay /\ duration' \in 0..MaxDelay
      /\ left' \in [Timers -> 0..MaxDelay] /\ spent' \in [Threads -> 0..MaxBusy]
  BY <1>2 DEF Stop, Launch, TypeOK
<1>5. QED
  BY <1>1, <1>3, <1>4 DEF Stop, Launch, TypeOK, PCOK

\* The constructor.
LEMMA ConstructorType == TypeOK /\ Constructor => TypeOK'
<1> SUFFICES ASSUME TypeOK, Constructor PROVE TypeOK'
  OBVIOUS
<1>a. Main \in Threads /\ Main # Zmq /\ Main \notin Timers /\ DefaultLife \in Values
  BY ConfigAssumption DEF Threads, Values
<1>b. PCOK
  BY DEF TypeOK, PCOK
<1>1. PCOK'
  <2>1. PICK l \in MainPC : Goto(Main, l)
    BY DEF Constructor, LoadConfig, AdoptConfig, PutInForce, UseDefault, LockToCreate,
       MainPC, Saving
  <2>2. QED
    BY <1>a, <1>b, <2>1, GotoType
<1>2. value' \in [Threads -> Values] /\ m_config' \in Values
  <2>1. file \in Text => file.value \in Values
    BY DEF Text
  <2>2. value[Main] \in Values
    BY <1>a DEF TypeOK
  <2>3. QED
    BY <1>a, <2>1, <2>2 DEF Constructor, LoadConfig, AdoptConfig, PutInForce, UseDefault,
       LockToCreate, TypeOK
<1>3. QED
  BY <1>1, <1>2 DEF Constructor, LoadConfig, AdoptConfig, PutInForce, UseDefault,
     LockToCreate, TypeOK, PCOK

\* A change, up to the decision when to save it.
LEMMA ChangeType ==
  ASSUME TypeOK, Change \/ \E v \in Lives : setCacheLifeExpectancy(v)
  PROVE  TypeOK'
<1>a. /\ Zmq \in Threads /\ Zmq # Main /\ Zmq \notin Timers /\ Lives \subseteq Values
      /\ MaxBusy \in Nat /\ MaxDelay \in Nat /\ MinDelay \in Nat /\ MaxBusy <= MaxDelay
      /\ MinDelay <= MaxDelay
  BY ConfigAssumption DEF Threads, Values
<1>b. PCOK
  BY DEF TypeOK, PCOK
<1>1. ASSUME \E v \in Lives : setCacheLifeExpectancy(v) PROVE TypeOK'
  <2>1. PICK v \in Lives : setCacheLifeExpectancy(v)
    BY <1>1
  <2>2. PCOK'
    BY <1>a, <1>b, <2>1, GotoType DEF setCacheLifeExpectancy, ZmqPC
  <2>3. spent' \in [Threads -> 0..MaxBusy]
    BY <1>a, <2>1 DEF setCacheLifeExpectancy, TypeOK
  <2>4. raced' \in BOOLEAN /\ asked' \in Values
    <3>1. raced' = Loading /\ asked' = v
      BY <2>1 DEF setCacheLifeExpectancy
    <3>2. Loading \in BOOLEAN
      BY DEF Loading
    <3>3. QED
      BY <1>a, <3>1, <3>2
  <2>5. QED
    BY <1>a, <2>1, <2>2, <2>3, <2>4 DEF setCacheLifeExpectancy, TypeOK, PCOK
<1>2. ASSUME CopyToConfig \/ ReadClock \/ SaveNow PROVE TypeOK'
  <2>1. PCOK'
    BY <1>2, <1>a, <1>b, GotoType DEF CopyToConfig, ReadClock, SaveNow, ZmqPC, Saving
  <2>2. spent' \in [Threads -> 0..MaxBusy]
    BY <1>2, <1>a DEF CopyToConfig, ReadClock, SaveNow, TypeOK
  <2>3. age' \in 0..MaxDelay /\ duration' \in 0..MaxDelay
    <3>1. spent[Zmq] \in 0..MaxBusy
      BY <1>a DEF TypeOK
    <3>2. QED
      BY <1>2, <1>a, <3>1 DEF CopyToConfig, ReadClock, SaveNow, TypeOK
  <2>4. QED
    BY <1>2, <2>1, <2>2, <2>3 DEF CopyToConfig, ReadClock, SaveNow, TypeOK, PCOK
<1>3. ASSUME DeferSave PROVE TypeOK'
  <2>1. PICK t \in Timers :
          /\ pc' = [pc EXCEPT ![Zmq] = "idle", ![t] = "sleeping"]
          /\ left' = [left EXCEPT ![t] = Larger(MaxDelay - duration, MinDelay)]
    BY <1>3 DEF DeferSave
  <2>2. PCOK'
    BY <1>a, <1>b, <2>1, ConfigAssumption DEF PCOK, ZmqPC, TimerPC, Threads
  <2>3. left' \in [Timers -> 0..MaxDelay]
    <3>1. Larger(MaxDelay - duration, MinDelay) \in 0..MaxDelay
      BY <1>a DEF Larger, TypeOK
    <3>2. QED
      BY <2>1, <3>1 DEF TypeOK
  <2>4. duration' \in 0..MaxDelay
    BY <1>3, <1>a DEF DeferSave
  <2>5. QED
    BY <1>3, <2>2, <2>3, <2>4 DEF DeferSave, TypeOK, PCOK
<1>4. QED
  BY <1>1, <1>2, <1>3 DEF Change

\* A timer, and the steps of save_config.
LEMMA SaverType ==
  ASSUME TypeOK,
         (\E t \in Timers : SaveTimerFires(t)) \/ \E s \in Threads : SaveStep(s)
  PROVE  TypeOK'
<1>a. /\ MaxBusy \in Nat /\ MaxDelay \in Nat /\ DefaultLife \in Values
      /\ 0 \in 0..MaxDelay /\ 0 \in 0..MaxBusy
  BY ConfigAssumption DEF Values
<1>b. PCOK
  BY DEF TypeOK, PCOK
<1>1. ASSUME NEW t \in Timers, SaveTimerFires(t) PROVE TypeOK'
  <2>1. t \in Threads /\ t # Main /\ t # Zmq
    BY ConfigAssumption DEF Threads
  <2>2. PCOK'
    BY <1>1, <1>b, <2>1, GotoType DEF SaveTimerFires, TimerPC, Saving
  <2>3. spent' \in [Threads -> 0..MaxBusy] /\ age' \in 0..MaxDelay
    BY <1>1, <1>a DEF SaveTimerFires, TypeOK
  <2>4. QED
    BY <1>1, <2>2, <2>3 DEF SaveTimerFires, TypeOK, PCOK
<1>2. ASSUME NEW s \in Threads, SaveStep(s) PROVE TypeOK'
  <2>1. s = Main \/ s = Zmq \/ s \in Timers
    BY DEF Threads
  <2>2. PCOK'
    <3>1. PICK l \in Saving \cup {IF s = Main THEN "up" ELSE IF s = Zmq THEN "idle"
                                  ELSE "unborn"} : Goto(s, l)
      BY <1>2 DEF SaveStep, FindConfig, CreateConfig, ParseConfig, SetValue, TruncateFile,
         WriteFile, SaveReturns, Saving
    <3>2. Main # Zmq /\ Main \notin Timers /\ Zmq \notin Timers
      BY ConfigAssumption
    <3>3. QED
      BY <1>b, <2>1, <3>1, <3>2, GotoType DEF MainPC, ZmqPC, TimerPC
  <2>3. /\ saveConfigMutex' \in {Main, Zmq, NoThread}
        /\ spent' \in [Threads -> 0..MaxBusy]
    BY <1>2, <1>a DEF SaveStep, FindConfig, CreateConfig, ParseConfig, SetValue,
       TruncateFile, WriteFile, SaveReturns, TypeOK
  <2>4. value' \in [Threads -> Values]
    BY <1>2, <1>a DEF SaveStep, FindConfig, CreateConfig, ParseConfig, SetValue,
       TruncateFile, WriteFile, TypeOK
  <2>5. file' \in Text \cup {Absent, Empty}
    <3>1. Overwrite(file, value[s]) \in Text
      BY OverwriteType DEF TypeOK
    <3>2. QED
      BY <1>2, <3>1 DEF SaveStep, FindConfig, CreateConfig, ParseConfig, SetValue,
         TruncateFile, WriteFile, TypeOK
  <2>6. QED
    BY <1>2, <2>2, <2>3, <2>4, <2>5 DEF SaveStep, FindConfig, CreateConfig, ParseConfig,
       SetValue, TruncateFile, WriteFile, TypeOK, PCOK
<1>3. QED
  BY <1>1, <1>2

LEMMA NextType == TypeOK /\ [Next]_vars => TypeOK'
<1>1. TypeOK /\ UNCHANGED vars => TypeOK'
  BY DEF vars, TypeOK
<1>2. QED
  BY <1>1, TickType, ProcessType, ConstructorType, ChangeType, SaverType DEF Next

\* Every variable keeps its type; the timeout of a deferred save lies between nothing
\* and the delay between saves (TempsCtrl.cc:415-425), never below.
THEOREM TypeCorrect == Spec => []TypeOK
  BY InitType, NextType, PTL DEF Spec

-----------------------------------------------------------------------------
(* The value in force.                                                     *)

\* The constructor, while no change has come: m_config holds the default until a
\* loaded value is adopted, and lifeExpectancy until that value is put in force.
\* Afterwards a change is first in lifeExpectancy, then in m_config.
ForceOK ==
  /\ pc[Main] = "down" =>
       /\ pc[Zmq] = "down" /\ ~ changed
       /\ m_config = DefaultLife /\ lifeExpectancy = DefaultLife
  /\ Loading /\ ~ raced =>
       /\ pc[Zmq] = "idle" /\ ~ changed /\ lifeExpectancy = DefaultLife
       /\ pc[Main] # "in force" => m_config = DefaultLife
  /\ Up /\ ~ Loading /\ ~ raced =>
       /\ pc[Zmq] # "copy" => lifeExpectancy = m_config
       /\ changed => lifeExpectancy = asked

ForceInv == TypeOK /\ ForceOK

LEMMA InitForce == Init => ForceInv
<1>1. ASSUME Init PROVE ForceOK
  <2>1. Main \in Threads /\ Zmq \in Threads /\ Main # Zmq
    BY ConfigAssumption DEF Threads
  <2>2. pc[Main] = "load" /\ pc[Zmq] = "idle"
    BY <1>1, <2>1 DEF Init
  <2>3. QED
    BY <1>1, <2>2 DEF Init, ForceOK, Up, Loading
<1>2. QED
  BY <1>1, InitType DEF ForceInv

LEMMA NextForce == ForceInv /\ [Next]_vars => ForceInv'
<1> SUFFICES ASSUME ForceInv, [Next]_vars PROVE ForceOK'
  BY NextType DEF ForceInv
<1>a. /\ Main \in Threads /\ Zmq \in Threads /\ Main # Zmq
      /\ Main \notin Timers /\ Zmq \notin Timers /\ PCOK
  BY ConfigAssumption DEF Threads, ForceInv, TypeOK, PCOK
<1> USE DEF ForceInv
<1>1. CASE Tick \/ UNCHANGED vars
  <2>1. UNCHANGED <<pc, raced, changed, asked, lifeExpectancy, m_config>>
    BY <1>1 DEF Tick, vars
  <2>2. QED
    BY <2>1 DEF ForceOK, Up, Loading
<1>2. CASE Stop \/ Launch
  <2>1. CASE Stop
    <3>1. /\ pc'[Main] = "down" /\ pc'[Zmq] = "down" /\ changed' = FALSE
          /\ m_config' = DefaultLife /\ lifeExpectancy' = DefaultLife
      BY <1>a, <2>1 DEF Stop
    <3>2. QED
      BY <3>1 DEF ForceOK, Up, Loading
  <2>2. CASE Launch
    <3>1. /\ pc[Main] = "down" /\ pc'[Main] = "load" /\ pc'[Zmq] = "idle"
          /\ UNCHANGED <<changed, m_config, lifeExpectancy>>
      BY <1>a, <2>2 DEF Launch, PCOK
    <3>2. QED
      BY <3>1 DEF ForceOK, Up, Loading
  <2>3. QED
    BY <1>2, <2>1, <2>2
<1>3. CASE Constructor
  <2>1. UNCHANGED <<raced, changed, asked>> /\ pc'[Zmq] = pc[Zmq]
    BY <1>3, <1>a DEF Constructor, LoadConfig, AdoptConfig, PutInForce, UseDefault,
       LockToCreate, Goto, PCOK
  <2>2. CASE LoadConfig \/ AdoptConfig
    <3>1. /\ pc[Main] \in {"load", "adopt"} /\ lifeExpectancy' = lifeExpectancy
          /\ pc'[Main] \in {"adopt", "default", "create default", "in force"}
          /\ m_config' = m_config \/ pc'[Main] = "in force"
      BY <2>2, <1>a DEF LoadConfig, AdoptConfig, Goto, PCOK
    <3>2. QED
      BY <2>1, <3>1 DEF ForceOK, Up, Loading
  <2>3. CASE PutInForce
    <3>1. /\ pc[Main] = "in force" /\ pc'[Main] = "up"
          /\ lifeExpectancy' = m_config /\ m_config' = m_config
      BY <2>3, <1>a DEF PutInForce, Goto, PCOK
    <3>2. QED
      BY <2>1, <3>1 DEF ForceOK, Up, Loading
  <2>4. CASE UseDefault
    <3>1. /\ pc[Main] \in {"default", "create default"} /\ pc'[Main] \in {"up", "lock"}
          /\ lifeExpectancy' = lifeExpectancy /\ m_config' = DefaultLife
      BY <2>4, <1>a DEF UseDefault, Goto, PCOK
    <3>2. QED
      BY <2>1, <3>1 DEF ForceOK, Up, Loading
  <2>5. CASE LockToCreate
    <3>1. /\ pc[Main] = "lock" /\ pc'[Main] = "find"
          /\ lifeExpectancy' = lifeExpectancy /\ m_config' = m_config
      BY <2>5, <1>a DEF LockToCreate, Goto, PCOK
    <3>2. QED
      BY <2>1, <3>1 DEF ForceOK, Up, Loading
  <2>6. QED
    BY <1>3, <2>2, <2>3, <2>4, <2>5 DEF Constructor
<1>4. CASE \E v \in Lives : setCacheLifeExpectancy(v)
  <2>1. /\ pc'[Zmq] = "copy" /\ pc'[Main] = pc[Main] /\ pc[Zmq] = "idle"
        /\ raced' = Loading /\ lifeExpectancy' = asked'
    BY <1>4, <1>a DEF setCacheLifeExpectancy, Goto, PCOK
  <2>2. QED
    BY <2>1 DEF ForceOK, Up, Loading
<1>5. CASE Change
  <2>1. /\ pc'[Main] = pc[Main] /\ pc[Zmq] \notin {"idle", "down"} /\ pc'[Zmq] # "copy"
        /\ UNCHANGED <<raced, changed, asked, lifeExpectancy>>
        /\ m_config' = lifeExpectancy \/ (m_config' = m_config /\ pc[Zmq] # "copy")
    BY <1>5, <1>a DEF Change, CopyToConfig, ReadClock, DeferSave, SaveNow, Goto, PCOK
  <2>2. QED
    BY <2>1 DEF ForceOK, Up, Loading
<1>6. CASE \E t \in Timers : SaveTimerFires(t)
  <2>1. /\ pc'[Main] = pc[Main] /\ pc'[Zmq] = pc[Zmq]
        /\ UNCHANGED <<raced, changed, asked, lifeExpectancy, m_config>>
    BY <1>6, <1>a DEF SaveTimerFires, Goto, PCOK
  <2>2. QED
    BY <2>1 DEF ForceOK, Up, Loading
<1>7. CASE \E s \in Threads : SaveStep(s)
  <2>1. PICK s \in Threads : SaveStep(s)
    BY <1>7
  <2>2. UNCHANGED <<raced, changed, asked, lifeExpectancy, m_config>> /\ pc[s] \in Saving
    BY <2>1 DEF SaveStep, FindConfig, CreateConfig, ParseConfig, SetValue, TruncateFile,
       WriteFile, Saving
  <2>3. PICK l \in Saving \cup {IF s = Main THEN "up" ELSE IF s = Zmq THEN "idle"
                                ELSE "unborn"} : Goto(s, l)
    BY <2>1 DEF SaveStep, FindConfig, CreateConfig, ParseConfig, SetValue, TruncateFile,
       WriteFile, SaveReturns, Saving
  <2>4. /\ pc'[Main] = IF s = Main THEN l ELSE pc[Main]
        /\ pc'[Zmq] = IF s = Zmq THEN l ELSE pc[Zmq]
    BY <1>a, <2>3 DEF Goto, PCOK
  <2>5. CASE s = Main
    BY <1>a, <2>2, <2>3, <2>4, <2>5 DEF ForceOK, Up, Loading, Saving
  <2>6. CASE s = Zmq
    BY <1>a, <2>2, <2>3, <2>4, <2>6 DEF ForceOK, Up, Loading, Saving
  <2>7. CASE s \notin {Main, Zmq}
    BY <2>2, <2>4, <2>7 DEF ForceOK, Up, Loading
  <2>8. QED
    BY <2>5, <2>6, <2>7
<1>8. QED
  BY <1>1, <1>2, <1>3, <1>4, <1>5, <1>6, <1>7 DEF Next

\* Between changes the value in force is the one that will be saved and the one that
\* was asked for last, however the constructor, the ZMQ thread, the savers and crashes
\* follow one another (TempsCtrl.cc:29-46, 406-413), unless the last change came
\* while the constructor loaded the file.
THEOREM ForceIsConfigured == Spec => []InForceIsConfigured
<1>1. ForceInv => InForceIsConfigured
  BY DEF ForceInv, ForceOK, Up, Loading, InForceIsConfigured
<1>2. QED
  BY <1>1, InitForce, NextForce, PTL DEF Spec

-----------------------------------------------------------------------------
(* No change is lost.                                                      *)

\* A process that is down has left nothing but the file.
DownOK ==
  pc[Main] = "down" =>
    /\ age = 0 /\ spent[Main] = 0 /\ ~ changed
    /\ pc[Zmq] = "down" /\ \A t \in Timers : pc[t] = "unborn"

\* Zmq has taken a change and not yet decided when to save it.
Deciding == pc[Zmq] \in {"copy", "clock", "lock"}

\* No save but that of the constructor begins before the constructor has ended: the
\* delay of a deferred save is longer than what is left of the constructor's time.
LaunchOK ==
  Launching =>
    /\ pc[Zmq] = "idle" \/ Deciding
    /\ age <= spent[Main]
    /\ pc[Zmq] = "lock" => duration <= spent[Main]
    /\ \A t \in Timers :
         pc[t] = "unborn" \/ (pc[t] = "sleeping" /\ left[t] + spent[Main] > MaxBusy)
    /\ changed => Deciding \/ \E t \in Timers : pc[t] = "sleeping"

\* While a timer saves, the last save to be noted is not much older than its own.
AgeOK == \A s \in Timers : pc[s] \in Saving => age <= spent[s] + MaxBusy

\* s is about to write a value that has been changed since s has read it.
Outdated(s) == pc[s] \in {"truncate", "write"} /\ value[s] # m_config

\* It ends before a sleeping timer can fire, or before the timer of a change that Zmq
\* is at work on can.
OutdatedOK ==
  pc[Main] = "up" =>
    /\ ~ Outdated(Zmq)
    /\ \A s \in Timers : Outdated(s) =>
         \/ pc[Zmq] \in {"copy", "clock"}
         \/ pc[Zmq] = "lock" /\ duration <= spent[s] + MaxBusy
         \/ \E t \in Timers : pc[t] = "sleeping" /\ left[t] + spent[s] > MaxBusy

\* s will write the value of m_config, unless the file does not parse.
WillSave(s) ==
  \/ pc[s] \in {"sleeping", "find", "create", "parse", "set"}
  \/ pc[s] \in {"truncate", "write"} /\ value[s] = m_config

SavePending == Deciding \/ \E s \in Timers \cup {Zmq} : WillSave(s)

Saved == Holds(file, m_config) \/ ~ Parses(file)

PendingOK == pc[Main] = "up" /\ usable /\ changed => SavePending \/ Saved

SavedOK  == DownOK /\ LaunchOK /\ AgeOK /\ OutdatedOK /\ PendingOK
SavedInv == TypeOK /\ SavedOK

\* The threads differ, and the times are numbers.
LEMMA ConfigFacts ==
  /\ Main \in Threads /\ Zmq \in Threads /\ Timers \subseteq Threads
  /\ Main # Zmq /\ Main \notin Timers /\ Zmq \notin Timers
  /\ MaxBusy \in Nat /\ MaxDelay \in Nat /\ MinDelay \in Nat
  /\ MinDelay <= MaxDelay /\ 2 * MaxBusy < MaxDelay
  BY ConfigAssumption DEF Threads

LEMMA TimesTyped ==
  ASSUME TypeOK
  PROVE  /\ PCOK
         /\ age \in Nat /\ age <= MaxDelay /\ duration \in Nat /\ duration <= MaxDelay
         /\ \A t \in Timers : left[t] \in Nat
         /\ \A t \in Threads : spent[t] \in Nat /\ spent[t] <= MaxBusy
  BY ConfigFacts DEF TypeOK, PCOK

\* A step leaves the threads other than s where they are.
LEMMA GotoOthers ==
  ASSUME PCOK, NEW s \in Threads, NEW l, Goto(s, l)
  PROVE  /\ pc'[s] = l
         /\ \A t \in Threads : t # s => pc'[t] = pc[t]
  BY DEF PCOK, Goto

LEMMA InitSaved == Init => SavedOK
<1> SUFFICES ASSUME Init PROVE SavedOK
  OBVIOUS
<1>1. /\ pc[Main] = "load" /\ pc[Zmq] = "idle" /\ \A t \in Timers : pc[t] = "unborn"
      /\ age = 0 /\ spent[Main] = 0 /\ ~ changed
  BY ConfigFacts DEF Init
<1>2. QED
  BY <1>1 DEF SavedOK, DownOK, LaunchOK, AgeOK, OutdatedOK, PendingOK, Launching, Saving

\* The clock runs for all of them at the same pace.
LEMMA TickSaved == SavedInv /\ Tick => SavedOK'
<1> SUFFICES ASSUME SavedInv, Tick PROVE SavedOK'
  OBVIOUS
<1> USE ConfigFacts, TimesTyped DEF SavedInv, SavedOK
<1>1. /\ pc[Main] # "down"
      /\ UNCHANGED <<usable, file, m_config, pc, value, duration, changed>>
      /\ age' \in Nat /\ age' <= age + 1
  BY DEF Tick, Up, Smaller
<1>2. /\ \A t \in Timers : left'[t] = IF left[t] > 0 THEN left[t] - 1 ELSE 0
      /\ \A t \in Threads : ~ Resting(t) => spent'[t] = spent[t] + 1 /\ spent[t] < MaxBusy
  BY DEF Tick
<1>3. \A t \in Timers : pc[t] \in Saving => ~ Resting(t)
  BY DEF Resting, Saving
<1>4. Launching => ~ Resting(Main)
  BY DEF Launching, Resting, PCOK, MainPC, Saving
<1>5. DownOK'
  BY <1>1 DEF DownOK
<1>6. LaunchOK'
  <2>1. CASE Launching
    <3>1. spent'[Main] = spent[Main] + 1 /\ spent[Main] < MaxBusy
      BY <1>2, <1>4, <2>1
    <3>2. age' <= spent'[Main] /\ (pc[Zmq] = "lock" => duration <= spent'[Main])
      BY <1>1, <2>1, <3>1 DEF LaunchOK, TypeOK
    <3>3. \A t \in Timers : left[t] + spent[Main] > MaxBusy
                              => left'[t] + spent'[Main] > MaxBusy
      BY <1>2, <3>1
    <3>4. QED
      BY <1>1, <2>1, <3>2, <3>3 DEF LaunchOK, Launching, Deciding
  <2>2. CASE ~ Launching
    BY <1>1, <2>2 DEF LaunchOK, Launching
  <2>3. QED
    BY <2>1, <2>2
<1>7. AgeOK'
  <2> SUFFICES ASSUME NEW s \in Timers, pc[s] \in Saving PROVE age' <= spent'[s] + MaxBusy
    BY <1>1 DEF AgeOK
  <2>1. spent'[s] = spent[s] + 1 /\ age <= spent[s] + MaxBusy
    BY <1>2, <1>3 DEF AgeOK
  <2>2. QED
    BY <1>1, <2>1 DEF TypeOK
<1>8. OutdatedOK'
  <2> SUFFICES ASSUME pc[Main] = "up" PROVE OutdatedOK'
    BY <1>1 DEF OutdatedOK
  <2>1. ~ Outdated(Zmq)' /\ \A s \in Timers : Outdated(s)' => Outdated(s) /\ pc[s] \in Saving
    BY <1>1 DEF Outdated, OutdatedOK, Saving
  <2>2. ASSUME NEW s \in Timers, Outdated(s)
        PROVE  \/ pc[Zmq] \in {"copy", "clock"}
               \/ pc[Zmq] = "lock" /\ duration <= spent'[s] + MaxBusy
               \/ \E t \in Timers : pc[t] = "sleeping" /\ left'[t] + spent'[s] > MaxBusy
    <3>1. spent'[s] = spent[s] + 1 /\ spent[s] < MaxBusy
      BY <1>2, <1>3, <2>2 DEF Outdated, Saving
    <3>2. \A t \in Timers : left[t] + spent[s] > MaxBusy => left'[t] + spent'[s] > MaxBusy
      BY <1>2, <3>1
    <3>3. duration <= spent[s] + MaxBusy => duration <= spent'[s] + MaxBusy
      BY <3>1
    <3>4. QED
      BY <2>2, <3>2, <3>3 DEF OutdatedOK
  <2>3. QED
    BY <1>1, <2>1, <2>2 DEF OutdatedOK
<1>9. PendingOK'
  BY <1>1 DEF PendingOK, SavePending, Deciding, WillSave, Saved
<1>10. QED
  BY <1>5, <1>6, <1>7, <1>8, <1>9

LEMMA ProcessSaved == SavedInv /\ (Stop \/ Launch) => SavedOK'
<1> SUFFICES ASSUME SavedInv, Stop \/ Launch PROVE SavedOK'
  OBVIOUS
<1> USE ConfigFacts, TimesTyped DEF SavedInv, SavedOK
<1>1. CASE Stop
  <2>1. /\ pc'[Main] = "down" /\ pc'[Zmq] = "down" /\ \A t \in Timers : pc'[t] = "unborn"
        /\ age' = 0 /\ spent'[Main] = 0 /\ changed' = FALSE
    BY <1>1 DEF Stop
  <2>2. QED
    BY <2>1 DEF DownOK, LaunchOK, AgeOK, OutdatedOK, PendingOK, Launching, Saving
<1>2. CASE Launch
  <2>1. /\ pc'[Main] = "load" /\ pc'[Zmq] = "idle" /\ \A t \in Timers : pc'[t] = "unborn"
        /\ age' = 0 /\ spent'[Main] = 0 /\ ~ changed'
    BY <1>2 DEF Launch, DownOK, PCOK
  <2>2. QED
    BY <2>1 DEF DownOK, LaunchOK, AgeOK, OutdatedOK, PendingOK, Launching, Saving
<1>3. QED
  BY <1>1, <1>2

\* The constructor, its save included: what is pending when it ends is a timer or Zmq.
LEMMA LaunchingSaved ==
  ASSUME SavedInv, Launching, NEW l \in MainPC \ {"down"}, Goto(Main, l),
         UNCHANGED <<age, duration, left, changed>>, spent' = spent \/ l = "up"
  PROVE  SavedOK'
<1> USE ConfigFacts, TimesTyped DEF SavedInv, SavedOK
<1>1. /\ pc'[Main] = l /\ pc'[Zmq] = pc[Zmq] /\ \A t \in Timers : pc'[t] = pc[t]
  BY GotoOthers
<1>2. DownOK'
  BY <1>1 DEF DownOK
<1>3. LaunchOK'
  BY <1>1 DEF LaunchOK, Launching, Deciding
<1>4. \A t \in Timers : pc[t] \notin Saving
  BY DEF LaunchOK, Saving
<1>5. pc[Zmq] \notin {"truncate", "write"}
  BY DEF LaunchOK, Deciding
<1>6. AgeOK' /\ OutdatedOK'
  BY <1>1, <1>4, <1>5 DEF AgeOK, OutdatedOK, Outdated, Saving
<1>7. PendingOK'
  BY <1>1 DEF LaunchOK, PendingOK, SavePending, Deciding, WillSave
<1>8. QED
  BY <1>2, <1>3, <1>6, <1>7

LEMMA ConstructorSaved == SavedInv /\ Constructor => SavedOK'
<1> SUFFICES ASSUME SavedInv, Constructor PROVE SavedOK'
  OBVIOUS
<1>1. \E l \in MainPC \ {"down"} : Goto(Main, l)
  BY DEF Constructor, LoadConfig, AdoptConfig, PutInForce, UseDefault, LockToCreate, MainPC,
     Saving
<1>2. Launching /\ UNCHANGED <<age, duration, left, changed, spent>>
  BY DEF Constructor, LoadConfig, AdoptConfig, PutInForce, UseDefault, LockToCreate, Launching
<1>3. QED
  BY <1>1, <1>2, LaunchingSaved

\* A change, until its save is decided: Zmq itself is what is pending.
LEMMA DecidingSaved ==
  ASSUME SavedInv, (\E v \in Lives : setCacheLifeExpectancy(v)) \/ CopyToConfig \/ ReadClock
  PROVE  SavedOK'
<1> USE ConfigFacts, TimesTyped DEF SavedInv, SavedOK
<1>1. PICK l \in {"copy", "clock", "lock"} :
        /\ Goto(Zmq, l)
        /\ l = "copy" => pc[Zmq] = "idle" /\ m_config' = m_config
        /\ l = "clock" => pc[Zmq] = "copy"
        /\ l = "lock" => pc[Zmq] = "clock" /\ duration' = age /\ m_config' = m_config
  BY DEF setCacheLifeExpectancy, CopyToConfig, ReadClock
<1>2. /\ UNCHANGED <<usable, file, age, left, value>>
      /\ \A t \in Threads : t # Zmq => spent'[t] = spent[t]
  BY DEF setCacheLifeExpectancy, CopyToConfig, ReadClock, TypeOK
<1>3. pc'[Zmq] = l /\ pc'[Main] = pc[Main] /\ \A t \in Timers : pc'[t] = pc[t]
  BY <1>1, GotoOthers
<1>4. DownOK'
  BY <1>1, <1>3 DEF DownOK
<1>5. LaunchOK'
  BY <1>1, <1>2, <1>3 DEF LaunchOK, Launching, Deciding
<1>6. AgeOK'
  BY <1>2, <1>3 DEF AgeOK
<1>7. OutdatedOK'
  <2>1. ~ Outdated(Zmq)'
    BY <1>1, <1>3 DEF Outdated
  <2>2. ASSUME l = "lock", NEW s \in Timers, Outdated(s)'
        PROVE  duration' <= spent'[s] + MaxBusy
    BY <1>1, <1>2, <1>3, <2>2 DEF Outdated, AgeOK, Saving
  <2>3. QED
    BY <1>1, <1>2, <1>3, <2>1, <2>2 DEF OutdatedOK
<1>8. PendingOK'
  BY <1>1, <1>3 DEF PendingOK, SavePending, Deciding
<1>9. QED
  BY <1>4, <1>5, <1>6, <1>7, <1>8

\* The timer that is started outlasts the constructor, and every save of an older value.
LEMMA DeferSaved == SavedInv /\ DeferSave => SavedOK'
<1> SUFFICES ASSUME SavedInv, DeferSave PROVE SavedOK'
  OBVIOUS
<1> USE ConfigFacts, TimesTyped DEF SavedInv, SavedOK
<1>1. PICK t \in Timers :
        /\ pc[t] = "unborn"
        /\ pc' = [pc EXCEPT ![Zmq] = "idle", ![t] = "sleeping"]
        /\ left' = [left EXCEPT ![t] = Larger(MaxDelay - duration, MinDelay)]
  BY DEF DeferSave
<1>2. /\ pc[Zmq] = "lock"
      /\ UNCHANGED <<usable, file, m_config, age, value, spent, changed>>
  BY DEF DeferSave
<1>3. /\ pc'[Zmq] = "idle" /\ pc'[Main] = pc[Main] /\ pc'[t] = "sleeping"
      /\ \A u \in Timers : u # t => pc'[u] = pc[u] /\ left'[u] = left[u]
      /\ left'[t] \in Int /\ left'[t] + duration >= MaxDelay
  BY <1>1 DEF TypeOK, PCOK, Larger
<1>4. DownOK'
  BY <1>2, <1>3 DEF DownOK
<1>5. LaunchOK'
  <2>1. Launching => duration <= spent[Main]
    BY <1>2 DEF LaunchOK
  <2>2. Launching => left'[t] + spent'[Main] > MaxBusy
    BY <1>2, <1>3, <2>1
  <2>3. QED
    BY <1>2, <1>3, <2>2 DEF LaunchOK, Launching
<1>6. AgeOK'
  BY <1>2, <1>3 DEF AgeOK, Saving
<1>7. OutdatedOK'
  <2> SUFFICES ASSUME pc[Main] = "up", NEW s \in Timers, Outdated(s)'
               PROVE  \E u \in Timers : pc'[u] = "sleeping" /\ left'[u] + spent'[s] > MaxBusy
    BY <1>3 DEF OutdatedOK, Outdated
  <2>1. s # t /\ Outdated(s)
    BY <1>2, <1>3 DEF Outdated
  <2>2. CASE duration <= spent[s] + MaxBusy
    <3>1. left'[t] + spent[s] > MaxBusy
      BY <1>3, <2>2
    <3>2. QED
      BY <1>2, <1>3, <3>1
  <2>3. CASE \E u \in Timers : pc[u] = "sleeping" /\ left[u] + spent[s] > MaxBusy
    BY <1>1, <1>2, <1>3, <2>3
  <2>4. QED
    BY <1>2, <2>1, <2>2, <2>3 DEF OutdatedOK
<1>8. PendingOK'
  BY <1>3 DEF PendingOK, SavePending, WillSave
<1>9. QED
  BY <1>4, <1>5, <1>6, <1>7, <1>8

\* Zmq saves at once only so long after the last save that no older one goes on.
LEMMA SaveNowSaved == SavedInv /\ SaveNow => SavedOK'
<1> SUFFICES ASSUME SavedInv, SaveNow PROVE SavedOK'
  OBVIOUS
<1> USE ConfigFacts, TimesTyped DEF SavedInv, SavedOK
<1>1. /\ pc[Zmq] = "lock" /\ duration = MaxDelay /\ age' = spent[Zmq] /\ Goto(Zmq, "find")
      /\ UNCHANGED <<usable, file, m_config, value, left, spent, changed>>
  BY DEF SaveNow
<1>2. pc'[Zmq] = "find" /\ pc'[Main] = pc[Main] /\ \A t \in Timers : pc'[t] = pc[t]
  BY <1>1, GotoOthers
<1>3. pc[Main] = "up"
  BY <1>1 DEF DownOK, LaunchOK, Launching
<1>4. DownOK' /\ LaunchOK'
  BY <1>2, <1>3 DEF DownOK, LaunchOK, Launching
<1>5. AgeOK'
  BY <1>1, <1>2 DEF AgeOK
<1>6. \A s \in Timers : ~ (duration <= spent[s] + MaxBusy)
  BY <1>1
<1>7. OutdatedOK'
  BY <1>1, <1>2, <1>3, <1>6 DEF OutdatedOK, Outdated
<1>8. PendingOK'
  BY <1>2 DEF PendingOK, SavePending, WillSave
<1>9. QED
  BY <1>4, <1>5, <1>7, <1>8

\* A timer that fires reads m_config later than any change in it, and none that an
\* older save relies on fires before its time.
LEMMA FiresSaved == \A t \in Timers : SavedInv /\ SaveTimerFires(t) => SavedOK'
<1> SUFFICES ASSUME NEW t \in Timers, SavedInv, SaveTimerFires(t) PROVE SavedOK'
  OBVIOUS
<1> USE ConfigFacts, TimesTyped DEF SavedInv, SavedOK
<1>1. /\ pc[t] = "sleeping" /\ left[t] = 0 /\ age' = 0 /\ Goto(t, "find")
      /\ UNCHANGED <<usable, file, m_config, value, duration, left, changed>>
      /\ \A u \in Threads : spent'[u] = IF u = t THEN 0 ELSE spent[u]
  BY DEF SaveTimerFires, TypeOK
<1>2. /\ pc'[t] = "find" /\ pc'[Main] = pc[Main] /\ pc'[Zmq] = pc[Zmq]
      /\ \A u \in Timers : u # t => pc'[u] = pc[u]
  BY <1>1, GotoOthers
<1>3. pc[Main] = "up"
  BY <1>1 DEF DownOK, LaunchOK, Launching
<1>4. DownOK' /\ LaunchOK'
  BY <1>2, <1>3 DEF DownOK, LaunchOK, Launching
<1>5. AgeOK'
  BY <1>1, <1>2 DEF AgeOK
<1>6. OutdatedOK'
  <2>1. \A s \in Timers : Outdated(s)' => s # t /\ Outdated(s)
    BY <1>1, <1>2 DEF Outdated
  <2>2. \A s \in Timers : ~ (left[t] + spent[s] > MaxBusy)
    BY <1>1
  <2>3. QED
    BY <1>1, <1>2, <1>3, <2>1, <2>2 DEF OutdatedOK, Outdated
<1>7. PendingOK'
  BY <1>2 DEF PendingOK, SavePending, WillSave
<1>8. QED
  BY <1>4, <1>5, <1>6, <1>7

\* A write leaves the value it writes, or a file that does not parse.
LEMMA OverwriteHolds ==
  ASSUME NEW f \in Text \cup {Absent, Empty}, NEW v \in Values
  PROVE  Holds(Overwrite(f, v), v) \/ ~ Parses(Overwrite(f, v))
<1>1. Overwrite(f, v) \in Text
  BY OverwriteType
<1>2. Overwrite(f, v).value = v
  BY DEF Overwrite
<1>3. QED
  BY <1>1, <1>2 DEF Holds

\* A step of a save leaves the saver about to write m_config, or the file written or
\* given up; or else what it has read is outdated, and another save will follow.
LEMMA SaveStepSaved == \A s \in Threads : SavedInv /\ SaveStep(s) => SavedOK'
<1> SUFFICES ASSUME NEW s \in Threads, SavedInv, SaveStep(s) PROVE SavedOK'
  OBVIOUS
<1> USE ConfigFacts, TimesTyped DEF SavedInv, SavedOK
<1> USE DEF SaveStep, FindConfig, CreateConfig, ParseConfig, SetValue, TruncateFile, WriteFile
<1>1. pc[s] \in Saving /\ UNCHANGED <<usable, m_config, age, duration, left, changed>>
  BY DEF Saving
<1>2. CASE s = Main
  <2>1. Launching
    BY <1>1, <1>2 DEF Launching, Saving
  <2>2. PICK l \in Saving \cup {"up"} : Goto(s, l) /\ (spent' = spent \/ l = "up")
    BY <1>2 DEF SaveReturns, Saving
  <2>3. l \in MainPC \ {"down"}
    BY DEF MainPC, Saving
  <2>4. QED
    BY <1>1, <1>2, <2>1, <2>2, <2>3, LaunchingSaved
<1>3. CASE s # Main
  <2>1. s = Zmq \/ s \in Timers
    BY <1>3 DEF Threads
  <2>2. PICK l : Goto(s, l) /\ l = pc'[s]
    BY DEF SaveReturns, Goto, PCOK
  <2>3. pc'[s] = l /\ \A u \in Threads : u # s => pc'[u] = pc[u]
    BY <2>2, GotoOthers
  <2>4. pc[Main] = "up" /\ pc'[Main] = "up"
    <3>1. pc[Main] \notin {"down"}
      BY <1>1, <2>1 DEF DownOK, Saving
    <3>2. ~ Launching
      BY <1>1, <2>1 DEF LaunchOK, Deciding, Saving
    <3>3. QED
      BY <1>3, <2>3, <3>1, <3>2 DEF Launching
  <2>5. /\ l \notin {"copy", "clock", "lock", "sleeping"}
        /\ l \in Saving => spent'[s] = spent[s]
        /\ \A u \in Threads : u # s => spent'[u] = spent[u] /\ value'[u] = value[u]
    <3>1. Goto(s, pc'[s])
      BY <2>2
    <3>2. spent' = spent \/ (spent' = [spent EXCEPT ![s] = 0] /\ l \notin Saving)
      BY <1>3, <2>3, <2>2 DEF SaveReturns, Saving, Goto, PCOK
    <3>3. l \notin {"copy", "clock", "lock", "sleeping"}
      BY <1>3, <2>3 DEF SaveReturns, Goto, PCOK
    <3>4. QED
      BY <3>2, <3>3 DEF TypeOK
  <2>6. \A u \in Timers \cup {Zmq} : Outdated(u)' => Outdated(u)
    <3>1. \A u \in Timers \cup {Zmq} : u # s => (Outdated(u)' <=> Outdated(u))
      BY <1>1, <2>3, <2>5 DEF Outdated
    <3>2. Outdated(s)' => Outdated(s)
      <4>1. CASE SetValue(s)
        BY <1>1, <2>3, <4>1 DEF Outdated, TypeOK
      <4>2. CASE TruncateFile(s)
        BY <1>1, <2>3, <4>2 DEF Outdated
      <4>3. CASE FindConfig(s) \/ CreateConfig(s) \/ ParseConfig(s) \/ WriteFile(s)
        BY <1>3, <2>3, <4>3 DEF Outdated, SaveReturns, Goto, PCOK
      <4>4. QED
        BY <4>1, <4>2, <4>3
    <3>3. QED
      BY <3>1, <3>2
  <2>7. DownOK' /\ LaunchOK'
    BY <2>4 DEF DownOK, LaunchOK, Launching
  <2>8. AgeOK'
    BY <1>1, <2>3, <2>5 DEF AgeOK
  <2>9. ASSUME NEW u \in Timers, Outdated(u)
        PROVE  \/ pc'[Zmq] \in {"copy", "clock"}
               \/ pc'[Zmq] = "lock" /\ duration <= spent[u] + MaxBusy
               \/ \E t \in Timers : pc'[t] = "sleeping" /\ left[t] + spent[u] > MaxBusy
    <3>1. \/ pc[Zmq] \in {"copy", "clock"}
          \/ pc[Zmq] = "lock" /\ duration <= spent[u] + MaxBusy
          \/ \E t \in Timers : pc[t] = "sleeping" /\ left[t] + spent[u] > MaxBusy
      BY <2>4, <2>9 DEF OutdatedOK
    <3>2. pc[s] \notin {"copy", "clock", "lock", "sleeping"}
      BY <1>1 DEF Saving
    <3>3. QED
      BY <2>3, <3>1, <3>2
  <2>10. OutdatedOK'
    <3>1. \A u \in Timers : Outdated(u)' => spent'[u] = spent[u]
      BY <2>3, <2>5 DEF Outdated, Saving
    <3>2. QED
      BY <1>1, <2>4, <2>6, <2>9, <3>1 DEF OutdatedOK
  <2>11. PendingOK'
    <3> SUFFICES ASSUME usable, changed PROVE SavePending' \/ Saved'
      BY <1>1 DEF PendingOK
    <3>1. CASE Outdated(s)
      <4>1. s \in Timers
        BY <2>1, <2>4, <3>1 DEF OutdatedOK
      <4>2. QED
        BY <2>9, <3>1, <4>1 DEF SavePending, Deciding, WillSave
    <3>2. CASE ~ Outdated(s) /\ WriteFile(s)
      <4>1. value[s] = m_config /\ file' = Overwrite(file, value[s])
        BY <3>2 DEF Outdated
      <4>2. QED
        BY <1>1, <4>1, OverwriteHolds DEF Saved, TypeOK
    <3>3. CASE ParseConfig(s) /\ ~ Parses(file)
      BY <3>3 DEF Saved
    <3>4. CASE ~ Outdated(s) /\ (FindConfig(s) \/ CreateConfig(s)
                 \/ (ParseConfig(s) /\ Parses(file)) \/ SetValue(s) \/ TruncateFile(s))
      <4>1. WillSave(s)'
        BY <1>1, <2>3, <3>4 DEF WillSave, Outdated, Goto, PCOK, TypeOK
      <4>2. QED
        BY <2>1, <4>1 DEF SavePending
    <3>5. QED
      BY <3>1, <3>2, <3>3, <3>4
  <2>12. QED
    BY <2>7, <2>8, <2>10, <2>11
<1>4. QED
  BY <1>2, <1>3

LEMMA NextSaved == SavedInv /\ [Next]_vars => SavedInv'
<1> SUFFICES ASSUME SavedInv, [Next]_vars PROVE SavedOK'
  BY NextType DEF SavedInv
<1>1. CASE UNCHANGED vars
  BY <1>1 DEF vars, SavedInv, SavedOK, DownOK, LaunchOK, AgeOK, OutdatedOK, PendingOK,
     Launching, Deciding, Outdated, SavePending, WillSave, Saved
<1>2. QED
  BY <1>1, TickSaved, ProcessSaved, ConstructorSaved, DecidingSaved, DeferSaved,
     SaveNowSaved, FiresSaved, SaveStepSaved DEF Next, Change

\* Once nothing is going on and no timer sleeps, the file holds the value asked for
\* last, or is spoilt: for any number of deferred saves, which take no lock
\* (TempsCtrl.cc:406-434), if a save takes less than half the delay between saves and
\* the last change did not come while the constructor loaded the file.
THEOREM NothingLost == Spec => []NoLostChange
<1>1. Init => SavedInv /\ ForceInv
  BY InitType, InitSaved, InitForce DEF SavedInv
<1>2. ASSUME SavedInv, ForceInv PROVE NoLostChange
  <2> SUFFICES ASSUME usable, changed, ~ raced, pc[Main] = "up", pc[Zmq] = "idle",
                      \A t \in Timers : pc[t] = "unborn", Parses(file)
               PROVE  Holds(file, asked)
    BY DEF NoLostChange
  <2>1. m_config = asked
    BY <1>2 DEF ForceInv, ForceOK, Up, Loading
  <2>2. Saved
    BY <1>2 DEF SavedInv, SavedOK, PendingOK, SavePending, Deciding, WillSave
  <2>3. QED
    BY <2>1, <2>2 DEF Saved
<1>3. QED
  BY <1>1, <1>2, NextSaved, NextForce, PTL DEF Spec

-----------------------------------------------------------------------------
(* When the file parses.                                                   *)

\* The lengths of the values that may be saved differ by one digit at most.
SimilarLengths == \A v, w \in Values : Digits(v) <= Digits(w) + 1

\* The text in the file is as long as that of some value.
LengthOK == file \in Text => \E w \in Values : file.digits = Digits(w)

LengthInv == TypeOK /\ LengthOK

LEMMA OverwriteLength ==
  ASSUME NEW v \in Values, LengthOK
  PROVE  \E w \in Values : Overwrite(file, v).digits = Digits(w)
  BY DEF LengthOK, Overwrite

LEMMA NextLength == LengthInv /\ [Next]_vars => LengthInv'
<1> SUFFICES ASSUME LengthInv, [Next]_vars PROVE LengthOK'
  BY NextType DEF LengthInv
<1>1. CASE file' = file
  BY <1>1 DEF LengthInv, LengthOK
<1>2. CASE file' = Empty
  BY <1>2, ConfigAssumption DEF LengthOK
<1>3. CASE \E s \in Threads : WriteFile(s)
  <2>1. PICK s \in Threads : file' = Overwrite(file, value[s])
    BY <1>3 DEF WriteFile
  <2>2. value[s] \in Values
    BY DEF LengthInv, TypeOK
  <2>3. QED
    BY <2>1, <2>2, OverwriteLength DEF LengthInv, LengthOK
<1>4. QED
  BY <1>1, <1>2, <1>3 DEF Next, vars, Tick, Stop, Launch, Constructor, LoadConfig,
     AdoptConfig, PutInForce, UseDefault, LockToCreate, setCacheLifeExpectancy, Change,
     CopyToConfig, ReadClock, DeferSave, SaveNow, SaveTimerFires, SaveStep, FindConfig,
     CreateConfig, ParseConfig, SetValue, TruncateFile

LEMMA FileParses ==
  ASSUME SimilarLengths
  PROVE  Spec => []Parses(file)
<1>1. Init => LengthInv
  <2>1. ASSUME Init PROVE LengthOK
    BY <2>1, ConfigAssumption DEF Init, LengthOK
  <2>2. QED
    BY <2>1, InitType DEF LengthInv
<1>2. LengthInv => Parses(file)
  <2>1. ASSUME LengthInv, file \in Text PROVE file.digits <= Digits(file.value) + 1
    <3>1. PICK w \in Values : file.digits = Digits(w)
      BY <2>1 DEF LengthInv, LengthOK
    <3>2. file.value \in Values
      BY <2>1 DEF Text
    <3>3. QED
      BY <3>1, <3>2 DEF SimilarLengths
  <2>2. QED
    BY <2>1 DEF Parses
<1>3. QED
  BY <1>1, <1>2, NextLength, PTL DEF Spec

\* As long as the values have similar lengths, savers that overlap do not spoil the
\* file (configuration.hpp:175-229): the tail that one leaves behind the other is a
\* newline.  The run that refutes WrittenFileParses has values of two and four digits.
THEOREM SimilarValuesParse ==
  ASSUME SimilarLengths
  PROVE  Spec => WrittenFileParses
<1>1. Parses(file)' =>
        [\A s \in Threads : pc[s] = "write" /\ Up' => Parses(file') \/ pc'[s] = "write"]_vars
  OBVIOUS
<1>2. QED
  BY <1>1, FileParses, PTL DEF WrittenFileParses

\* With such values the one asked for last is always saved, and not lost to a file
\* that is spoilt either (configuration.hpp:194-206, 221-229), unless it came while
\* the constructor loaded the file.
THEOREM SimilarValuesSaved ==
  ASSUME SimilarLengths
  PROVE  Spec => [](usable /\ changed /\ ~ raced /\ pc[Main] = "up" /\ pc[Zmq] = "idle"
                      /\ (\A t \in Timers : pc[t] = "unborn") => Holds(file, asked))
<1>1. NoLostChange /\ Parses(file) =>
        (usable /\ changed /\ ~ raced /\ pc[Main] = "up" /\ pc[Zmq] = "idle"
           /\ (\A t \in Timers : pc[t] = "unborn") => Holds(file, asked))
  BY DEF NoLostChange
<1>2. QED
  BY <1>1, NothingLost, FileParses, PTL
=============================================================================
