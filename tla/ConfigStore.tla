----------------------------- MODULE ConfigStore -----------------------------
(***************************************************************************)
(* How the cache life expectancy reaches the configuration file and comes  *)
(* back at the next launch: setCacheLifeExpectancy, saveCurrentConfig and  *)
(* the constructor of TempsCtrl (TempsCtrl.cc), load_config and save_config*)
(* (configuration.hpp).                                                    *)
(*                                                                         *)
(* Threads.  Main runs the constructor; Zmq is the thread that receives    *)
(* the changes, and it runs from the start of the constructor; Timers are  *)
(* the threads of setSaveConfigTimer, one for each deferred save.  Main    *)
(* and Zmq save under saveConfigMutex, the timers under no lock.           *)
(*                                                                         *)
(* Abstractions.  The file is missing, empty, or a setting with the length *)
(* of its text in digits: writeFile truncates the file and then writes     *)
(* from its start, so of two writers that have both truncated it the       *)
(* shorter one leaves the tail of the longer one behind.  Time is measured *)
(* in ages and in time left, in units of which MinDelay is the shortest    *)
(* timeout (1 s in the code) and MaxDelay the one between saves (5 s).     *)
(* A save, and the constructor, take at most MaxBusy units: a save of some *)
(* milliseconds against a delay of seconds.  The process may stop at any   *)
(* step; only the file survives.                                           *)
(***************************************************************************)
EXTENDS Integers, FiniteSets

CONSTANTS
  Main, Zmq, Timers,   \* threads
  NoThread,            \* owner of the free mutex
  Absent, Empty,       \* the file is missing; it is there, with no setting
  Lives,               \* the cache life expectancies users ask for, in seconds
  DefaultLife,         \* DefaultConfig.cache_life_expectancy
  MinDelay, MaxDelay,  \* shortest timeout, MAX_DELAY_BETWEEN_SAVES_MS
  MaxBusy              \* the longest a save or the constructor takes

Threads == {Main, Zmq} \cup Timers
Values  == Lives \cup {DefaultLife}
Text    == [value : Values, digits : 1..10]

ASSUME ConfigAssumption ==
  /\ Main # Zmq /\ {Main, Zmq} \cap Timers = {}
  /\ NoThread \notin Threads
  /\ Absent # Empty /\ {Absent, Empty} \cap Text = {}
  /\ Values \subseteq Nat \ {0}
  /\ {MinDelay, MaxDelay, MaxBusy} \subseteq Nat
  /\ MinDelay <= MaxDelay /\ 2 * MaxBusy < MaxDelay

VARIABLES
  usable,           \* /srv/rpi-fan-serve exists or can be created
  file,             \* the configuration file
  m_config,         \* m_config.cache_life_expectancy
  lifeExpectancy,   \* m_cacheLifeExpectancySeconds
  age,              \* time since lastConfigSave, at most MaxDelay
  saveConfigMutex,  \* the thread that holds it
  pc,               \* where each thread is
  value,            \* the value each saver is about to write, or Main has parsed
  duration,         \* durationMs in the saveCurrentConfig of Zmq
  left,             \* how long each timer has still to sleep
  spent,            \* time since each thread last read the clock
  changed,          \* history: the value has been changed since the launch
  raced,            \* history: the last change came while the file was loaded
  asked             \* history: the value asked for last

history == <<changed, raced, asked>>
vars == <<usable, file, m_config, lifeExpectancy, age, saveConfigMutex, pc,
          value, duration, left, spent, history>>

-----------------------------------------------------------------------------
Saving == {"find", "create", "parse", "set", "truncate", "write"}

MainPC  == {"down", "load", "adopt", "default", "create default", "in force",
            "lock", "up"} \cup Saving
ZmqPC   == {"down", "idle", "copy", "clock", "lock"} \cup Saving
TimerPC == {"unborn", "sleeping"} \cup Saving

TypeOK ==
  /\ usable \in BOOLEAN
  /\ file \in Text \cup {Absent, Empty}
  /\ m_config \in Values
  /\ lifeExpectancy \in Values
  /\ age \in 0..MaxDelay
  /\ saveConfigMutex \in {Main, Zmq, NoThread}
  /\ pc \in [Threads -> MainPC \cup ZmqPC \cup TimerPC]
  /\ pc[Main] \in MainPC /\ pc[Zmq] \in ZmqPC
  /\ \A t \in Timers : pc[t] \in TimerPC
  /\ value \in [Threads -> Values]
  /\ duration \in 0..MaxDelay
  /\ left \in [Timers -> 0..MaxDelay]
  /\ spent \in [Threads -> 0..MaxBusy]
  /\ changed \in BOOLEAN
  /\ raced \in BOOLEAN
  /\ asked \in Values

Digits(v) == 1 + Cardinality({k \in 1..9 : v >= 10^k})

\* The text left by writing the setting v from the start of the file.
Overwrite(f, v) ==
  [value  |-> v,
   digits |-> IF f \in Text /\ f.digits > Digits(v) THEN f.digits ELSE Digits(v)]

\* One character of an older text left behind is a second newline; more of them
\* are digits on a line of their own, and libconfig throws a ParseException.
Parses(f) == f \in Text => f.digits <= Digits(f.value) + 1

Holds(f, v) == f \in Text /\ Parses(f) /\ f.value = v

\* The first launch finds no file, or one written by an earlier launch.
Init ==
  /\ usable \in BOOLEAN
  /\ file \in {Absent} \cup
        (IF usable THEN {[value |-> v, digits |-> Digits(v)] : v \in Values} ELSE {})
  /\ m_config = DefaultLife
  /\ lifeExpectancy = DefaultLife
  /\ age = 0
  /\ saveConfigMutex = NoThread
  /\ pc = [t \in Threads |-> IF t = Main THEN "load"
                             ELSE IF t = Zmq THEN "idle" ELSE "unborn"]
  /\ value = [t \in Threads |-> DefaultLife]
  /\ duration = 0
  /\ left = [t \in Timers |-> 0]
  /\ spent = [t \in Threads |-> 0]
  /\ changed = FALSE
  /\ raced = FALSE
  /\ asked = DefaultLife

Up == pc[Main] # "down"
Launching == pc[Main] \notin {"down", "up"}
Loading == pc[Main] \in {"load", "adopt", "in force", "default", "create default"}
Resting(t) == pc[t] \in {"down", "up", "idle", "unborn", "sleeping"}

Goto(t, l) == pc' = [pc EXCEPT ![t] = l]

-----------------------------------------------------------------------------
(* The process and its clock.                                              *)

Smaller(a, b) == IF a <= b THEN a ELSE b
Larger(a, b)  == IF a >= b THEN a ELSE b

Tick ==
  /\ Up
  /\ \A t \in Threads : Resting(t) \/ spent[t] < MaxBusy
  /\ age' = Smaller(age + 1, MaxDelay)
  /\ left' = [t \in Timers |-> IF left[t] > 0 THEN left[t] - 1 ELSE 0]
  /\ spent' = [t \in Threads |-> IF Resting(t) THEN 0 ELSE spent[t] + 1]
  /\ UNCHANGED <<usable, file, m_config, lifeExpectancy, saveConfigMutex, pc,
                 value, duration, history>>

\* A crash, a signal or the end of an exit: every thread is gone, the sleeping
\* timers too.
Stop ==
  /\ Up
  /\ pc' = [t \in Threads |-> IF t \in Timers THEN "unborn" ELSE "down"]
  /\ saveConfigMutex' = NoThread
  /\ m_config' = DefaultLife
  /\ lifeExpectancy' = DefaultLife
  /\ age' = 0
  /\ value' = [t \in Threads |-> DefaultLife]
  /\ duration' = 0
  /\ left' = [t \in Timers |-> 0]
  /\ spent' = [t \in Threads |-> 0]
  /\ changed' = FALSE
  /\ raced' = FALSE
  /\ asked' = DefaultLife
  /\ UNCHANGED <<usable, file>>

\* The constructor starts the thread of Zmq before it loads the configuration.
Launch ==
  /\ pc[Main] = "down"
  /\ pc' = [pc EXCEPT ![Main] = "load", ![Zmq] = "idle"]
  /\ UNCHANGED <<usable, file, m_config, lifeExpectancy, age, saveConfigMutex,
                 value, duration, left, spent, history>>

-----------------------------------------------------------------------------
(* The constructor.                                                        *)

\* load_config: the outcomes LOAD_SUCCESS, NO_CONFIG, and INVALID_CONFIG or ERROR.
LoadConfig ==
  /\ pc[Main] = "load"
  /\ \/ /\ file \in Text /\ Parses(file)
        /\ value' = [value EXCEPT ![Main] = file.value]
        /\ Goto(Main, "adopt")
     \/ /\ file = Absent /\ usable
        /\ Goto(Main, "create default")
        /\ UNCHANGED value
     \/ /\ (file = Absent /\ ~ usable) \/ file = Empty \/ ~ Parses(file)
        /\ Goto(Main, "default")
        /\ UNCHANGED value
  /\ UNCHANGED <<usable, file, m_config, lifeExpectancy, age, saveConfigMutex,
                 duration, left, spent, history>>

AdoptConfig ==
  /\ pc[Main] = "adopt"
  /\ m_config' = value[Main]
  /\ value' = [value EXCEPT ![Main] = DefaultLife]
  /\ Goto(Main, "in force")
  /\ UNCHANGED <<usable, file, lifeExpectancy, age, saveConfigMutex, duration,
                 left, spent, history>>

\* Mutant: the loaded value is never put in force.
PutInForce_Forgets ==
  /\ pc[Main] = "in force"
  /\ Goto(Main, "up")
  /\ UNCHANGED <<usable, file, m_config, lifeExpectancy, age, saveConfigMutex,
                 value, duration, left, spent, history>>

PutInForce ==
  /\ pc[Main] = "in force"
  /\ lifeExpectancy' = m_config
  /\ Goto(Main, "up")
  /\ UNCHANGED <<usable, file, m_config, age, saveConfigMutex, value, duration,
                 left, spent, history>>

\* The default is saved only when there was no file.
UseDefault ==
  /\ pc[Main] \in {"default", "create default"}
  /\ m_config' = DefaultLife
  /\ Goto(Main, IF pc[Main] = "default" THEN "up" ELSE "lock")
  /\ UNCHANGED <<usable, file, lifeExpectancy, age, saveConfigMutex, value,
                 duration, left, spent, history>>

LockToCreate ==
  /\ pc[Main] = "lock"
  /\ saveConfigMutex = NoThread
  /\ saveConfigMutex' = Main
  /\ Goto(Main, "find")
  /\ UNCHANGED <<usable, file, m_config, lifeExpectancy, age, value, duration,
                 left, spent, history>>

-----------------------------------------------------------------------------
(* setCacheLifeExpectancy and saveCurrentConfig.                           *)

\* A change arrives.  The bound on the number of timer threads is here.
setCacheLifeExpectancy(v) ==
  /\ pc[Zmq] = "idle"
  /\ \E t \in Timers : pc[t] = "unborn"
  /\ lifeExpectancy' = v
  /\ changed' = TRUE
  /\ raced' = Loading
  /\ asked' = v
  /\ Goto(Zmq, "copy")
  /\ spent' = [spent EXCEPT ![Zmq] = 0]
  /\ UNCHANGED <<usable, file, m_config, age, saveConfigMutex, value, duration, left>>

CopyToConfig ==
  /\ pc[Zmq] = "copy"
  /\ m_config' = lifeExpectancy
  /\ Goto(Zmq, "clock")
  /\ UNCHANGED <<usable, file, lifeExpectancy, age, saveConfigMutex, value,
                 duration, left, spent, history>>

ReadClock ==
  /\ pc[Zmq] = "clock"
  /\ duration' = age
  /\ spent' = [spent EXCEPT ![Zmq] = 0]
  /\ Goto(Zmq, "lock")
  /\ UNCHANGED <<usable, file, m_config, lifeExpectancy, age, saveConfigMutex,
                 value, left, history>>

\* Mutant: a change that comes too soon after a save is not saved later.
DeferSave_Drops ==
  /\ pc[Zmq] = "lock"
  /\ saveConfigMutex = NoThread
  /\ duration < MaxDelay
  /\ Goto(Zmq, "idle")
  /\ UNCHANGED <<usable, file, m_config, lifeExpectancy, age, saveConfigMutex,
                 value, duration, left, spent, history>>

\* Mutant: the time that has passed is what is left, less the delay.
DeferSave_Reversed ==
  /\ pc[Zmq] = "lock"
  /\ saveConfigMutex = NoThread
  /\ duration < MaxDelay
  /\ \E t \in Timers :
       /\ pc[t] = "unborn"
       /\ pc' = [pc EXCEPT ![Zmq] = "idle", ![t] = "sleeping"]
       /\ left' = [left EXCEPT ![t] = duration - MaxDelay]
  /\ duration' = 0
  /\ UNCHANGED <<usable, file, m_config, lifeExpectancy, age, saveConfigMutex,
                 value, spent, history>>

\* Within the delay the save is left to a timer, which sleeps at least MinDelay.
DeferSave ==
  /\ pc[Zmq] = "lock"
  /\ saveConfigMutex = NoThread
  /\ duration < MaxDelay
  /\ \E t \in Timers :
       /\ pc[t] = "unborn"
       /\ pc' = [pc EXCEPT ![Zmq] = "idle", ![t] = "sleeping"]
       /\ left' = [left EXCEPT ![t] = Larger(MaxDelay - duration, MinDelay)]
  /\ duration' = 0
  /\ UNCHANGED <<usable, file, m_config, lifeExpectancy, age, saveConfigMutex,
                 value, spent, history>>

SaveNow ==
  /\ pc[Zmq] = "lock"
  /\ saveConfigMutex = NoThread
  /\ duration = MaxDelay
  /\ saveConfigMutex' = Zmq
  /\ age' = spent[Zmq]
  /\ duration' = 0
  /\ Goto(Zmq, "find")
  /\ UNCHANGED <<usable, file, m_config, lifeExpectancy, value, left, spent,
                 history>>

\* Mutant: the time of the save is noted only by the saves of Zmq.
SaveTimerFires_Unnoted(t) ==
  /\ pc[t] = "sleeping"
  /\ left[t] = 0
  /\ spent' = [spent EXCEPT ![t] = 0]
  /\ Goto(t, "find")
  /\ UNCHANGED <<usable, file, m_config, lifeExpectancy, age, saveConfigMutex,
                 value, duration, left, history>>

\* saveCurrentConfig(false): it takes no lock.
SaveTimerFires(t) ==
  /\ pc[t] = "sleeping"
  /\ left[t] = 0
  /\ age' = 0
  /\ spent' = [spent EXCEPT ![t] = 0]
  /\ Goto(t, "find")
  /\ UNCHANGED <<usable, file, m_config, lifeExpectancy, saveConfigMutex, value,
                 duration, left, history>>

-----------------------------------------------------------------------------
(* save_config, run by any thread.                                         *)

\* save_config returns, to the constructor, to Zmq or to the end of a timer thread.
SaveReturns(s) ==
  /\ Goto(s, IF s = Main THEN "up" ELSE IF s = Zmq THEN "idle" ELSE "unborn")
  /\ saveConfigMutex' = IF saveConfigMutex = s THEN NoThread ELSE saveConfigMutex
  /\ spent' = [spent EXCEPT ![s] = 0]

FindConfig(s) ==
  /\ pc[s] = "find"
  /\ Goto(s, IF file = Absent THEN "create" ELSE "parse")
  /\ UNCHANGED <<usable, file, m_config, lifeExpectancy, age, saveConfigMutex,
                 value, duration, left, spent, history>>

\* The file is created empty, or emptied if another thread has created it since.
CreateConfig(s) ==
  /\ pc[s] = "create"
  /\ \/ /\ usable
        /\ file' = Empty
        /\ Goto(s, "parse")
        /\ UNCHANGED <<saveConfigMutex, spent>>
     \/ /\ ~ usable
        /\ SaveReturns(s)
        /\ UNCHANGED file
  /\ UNCHANGED <<usable, m_config, lifeExpectancy, age, value, duration, left,
                 history>>

\* A file that does not parse is left as it is.
ParseConfig(s) ==
  /\ pc[s] = "parse"
  /\ \/ /\ Parses(file)
        /\ Goto(s, "set")
        /\ UNCHANGED <<saveConfigMutex, spent>>
     \/ /\ ~ Parses(file)
        /\ SaveReturns(s)
  /\ UNCHANGED <<usable, file, m_config, lifeExpectancy, age, value, duration,
                 left, history>>

SetValue(s) ==
  /\ pc[s] = "set"
  /\ value' = [value EXCEPT ![s] = m_config]
  /\ Goto(s, "truncate")
  /\ UNCHANGED <<usable, file, m_config, lifeExpectancy, age, saveConfigMutex,
                 duration, left, spent, history>>

TruncateFile(s) ==
  /\ pc[s] = "truncate"
  /\ file' = Empty
  /\ Goto(s, "write")
  /\ UNCHANGED <<usable, m_config, lifeExpectancy, age, saveConfigMutex, value,
                 duration, left, spent, history>>

WriteFile(s) ==
  /\ pc[s] = "write"
  /\ file' = Overwrite(file, value[s])
  /\ value' = [value EXCEPT ![s] = DefaultLife]
  /\ SaveReturns(s)
  /\ UNCHANGED <<usable, m_config, lifeExpectancy, age, duration, left, history>>

-----------------------------------------------------------------------------
Constructor == LoadConfig \/ AdoptConfig \/ PutInForce \/ UseDefault \/ LockToCreate

Change == CopyToConfig \/ ReadClock \/ DeferSave \/ SaveNow

SaveStep(s) ==
  \/ FindConfig(s) \/ CreateConfig(s) \/ ParseConfig(s)
  \/ SetValue(s) \/ TruncateFile(s) \/ WriteFile(s)

Next ==
  \/ Tick \/ Stop \/ Launch
  \/ Constructor
  \/ \E v \in Lives : setCacheLifeExpectancy(v)
  \/ Change
  \/ \E t \in Timers : SaveTimerFires(t)
  \/ \E s \in Threads : SaveStep(s)

\* Time passes, timers fire, and a thread that can run does run.  Nobody owes
\* the program a change, a stop or a launch.
Fairness ==
  /\ WF_vars(Tick)
  /\ WF_vars(Constructor)
  /\ WF_vars(Change)
  /\ \A t \in Timers : WF_vars(SaveTimerFires(t))
  /\ \A s \in Threads : WF_vars(SaveStep(s))

Spec == Init /\ [][Next]_vars /\ Fairness

-----------------------------------------------------------------------------
(* Properties.                                                             *)

\* Once nothing is going on and no timer sleeps, the file holds the value that
\* was asked for last, although deferred saves run without a lock and in any
\* order: a saver that has read an older value finishes before the timer that
\* the newer change has started.  Three things the code gives up are excepted: a
\* last change that came while the constructor loaded the file, which it may
\* overwrite with what it has loaded or with the default (raced); a file that two
\* savers have spoilt; and a directory that cannot be written.
NoLostChange ==
  usable /\ changed /\ ~ raced /\ pc[Main] = "up" /\ pc[Zmq] = "idle"
         /\ (\A t \in Timers : pc[t] = "unborn") /\ Parses(file)
    => Holds(file, asked)

\* When no change is under way, the value in force is the one that will be saved,
\* and it is the one asked for last, if any has been since the launch.  Excepted
\* is a last change that came while the constructor loaded the file: the thread
\* that receives changes runs before the load.
InForceIsConfigured ==
  pc[Main] = "up" /\ pc[Zmq] = "idle" /\ ~ raced
    => lifeExpectancy = m_config /\ (changed => m_config = asked)

\* When changes stop coming and the process keeps running, the file ends up
\* holding the value asked for last, for good.  Excepted are a last change that
\* came while the constructor loaded the file and a file that ends up spoilt, on
\* which every later save gives up.
EventuallySaved ==
  <>[](usable /\ Up /\ changed /\ ~ raced /\ pc[Zmq] = "idle" /\ Parses(file))
    => <>[]Holds(file, asked)

\* What save_config reports (configuration.hpp:223): "config written to" the file.
\* A file that has been written parses.
WrittenFileParses ==
  [][\A s \in Threads : pc[s] = "write" /\ Up' => Parses(file') \/ pc'[s] = "write"]_vars

\* The behaviours that begin with a launch that finds a configuration in the file.
SpecOnConfig == Spec /\ file \in Text

\* What the messages of check_config_file_system imply (configuration.hpp:95-96):
\* only without its directory does the program lose the configuration "on next
\* launch".  As long as the directory can be used, no launch that follows one that
\* has found a value in the file falls back to the default.
PreservedOnNextLaunch ==
  [][pc[Main] = "load" /\ pc'[Main] \in {"default", "create default"} => ~ usable]_vars
=============================================================================
