# rpi-fan-serve: a TLA+ verification project

rpi-fan-serve is an HTTP server that publishes the temperatures written by the
rpi-fan service of a Raspberry Pi. It reads the daily log files of rpi-fan,
caches the JSON of the last seven of them, and lets a D-Bus daemon change the
life expectancy of that cache at run time. This directory holds TLA+ modules
that model its components, TLC configurations that check them on small
instances, and theorems proved with TLAPS.

Source references below are relative to `src/`.

## 1. Inventory

### The parts and how they interact

```
 rpi-fan-serve-ctrl --D-Bus--> rpi-fan-serve-dbus --ZMQ PUB/SUB over a socket file-->
     rpi-fan-serve:  ZMQ thread --setCacheLifeExpectancy--> TempsCtrl
                     HTTP threads --> TempsCtrl --> cache --> log files  <-- rpi-fan, logrotate
                     timer threads -> TempsCtrl --> cache, configuration file
```

| Component | Source | State | Operations |
|---|---|---|---|
| Temperature cache and requests | `TempsCtrl.cc`, `TempsCtrl.h` | `cache.data` (7 JSON values), `cache.creationEpochMinutes`, `cacheMutex`, `m_cacheLifeExpectancySeconds`, timer threads | `updateCache`, `isCacheExpired`, `isCacheNeedingUpdate`, `handleAllTempsRequest`, `handleTempsRequest`, `setCacheTimer` |
| Persistent configuration | `configuration.hpp`, `TempsCtrl.cc:406-434` | `/srv/rpi-fan-serve/config.cfg`, `m_config`, `lastConfigSave`, `saveConfigMutex`, pending timers | `load_config`, `save_config`, `saveCurrentConfig`, `setSaveConfigTimer` |
| Single instance and socket | `socket_locker.hpp`, `main.cc:74-77`, `dbus/main.cpp:39-42` | two lock files, the socket directory, the socket path, `m_lockFd` | `checkAndTryLock` and everything it calls, the destructor |
| Log parsing | `TempsCtrl.cc:97-237` | chunks, asynchronous tasks | `logFile2Json`, `linesChunk2TempsChunk`, `extractMatches` |
| Control path | `tools/rpi-fan-serve-ctrl.cc`, `dbus/*`, `zmq_dbus_server.hpp`, `TempsCtrl.h:28-45` | D-Bus property, concurrent queue, ZMQ sockets | range checks, `queue_send`, `trySendCallback`, `run`, `parse_message`, `receiveCallback` |
| Thread life cycle | `zmq_pair_thread.hpp`, `dbus/zmq_pair_qthread.hpp` | `m_running`, the thread | `start`, `stop`, destructors |
| Signals of the daemon | `dbus/SignalHandler.cpp`, `dbus/main.cpp` | two socket pairs | handlers, slots |
| Command line | `main.cc`, `SharedConfig.hpp` | `SharedConfig` | option checks |
| Not program logic | `subprojects/argparse`, `debug.hpp`, `zmq_constants.hpp`, `config.json`, `models/`, build and packaging files, `test/` | | |

### What is hard

- **Threads.** HTTP threads, one interval thread per `setCacheTimer` call (never
  stopped), one thread per deferred save, the ZMQ thread (started first thing in
  the constructor) and the constructor itself share the cache and the
  configuration. `cacheMutex` covers a whole refresh and the copy for an answer,
  but not the checks that decide whether to refresh; deferred saves take no lock.
- **Other processes.** logrotate renames the logs while they are read; rpi-fan
  appends to them; two servers, or a server and the daemon, prepare the same
  paths at the same time.
- **Failures.** `logFile2Json` throws in the middle of a refresh, in threads where
  nobody catches it and in requests where the HTTP framework does. Files survive
  crashes in whatever state they were.
- **Time.** Minute-granular dates, timers that race with new changes.

### What makes each component correct

- *Cache*: what `/all_temps` answers is fresh with respect to the check the
  request made, comes from one consistent refresh, and leaves no day out; every
  request is answered; mutual exclusion of refreshes.
- *Configuration*: the last change reaches the file; what is in force is what will
  be saved; the file is always one the next launch can read.
- *Locker*: one instance per lock; the socket path belongs to the server that is
  bound to it; whoever is told that the socket is ready can use it.
- *Parsing*: at most `maxjobs` tasks, the points of the file in its order and
  nothing else, and an end whatever the tasks do: the caller holds `cacheMutex`.
- *Control path*: a value the tool accepts is accepted by the object; changes are
  applied in order, none twice, with the value that was accepted; a change that is
  queued on a live link arrives.
- *Life cycle and signals*: a daemon that has received a signal ends, wherever it
  was and whatever its client thread does.

`PROJECT.json` lists the hazards at their lines, with the properties that are
about them.

## 2. Modules

| Module | Models |
|---|---|
| `SnapshotCache` | abstract: what the cache promises to clients |
| `TempsCache` | the cache, its refreshes, timers and requests, log rotation; implements `SnapshotCache` |
| `LogChunks` | reading one log file: chunks, tasks, exceptions |
| `ConfigStore` | the configuration file, immediate and deferred saves, launches |
| `SocketLocker` | lock files, socket directory and socket path of several processes |
| `ChangeChannel` | abstract: what the control path promises to those who change the life expectancy |
| `ControlPath` | tool, D-Bus daemon, its threads and signals, ZMQ link, receipt in the server; implements `ChangeChannel` |
| `TempsCacheProofs`, `SnapshotProofs`, `LogChunksProofs`, `ConfigStoreProofs`, `SocketLockerProofs`, `ControlPathProofs`, `ChannelProofs` | theorems |
| `KeptProofs` | lemmas about the loop that keeps the points of a chunk |
| `MC...` | values of the constants for TLC |

Each module stops where another one begins. `LogChunks` is one step of `TempsCache`
(the outcomes of `logFile2Json`: an error, points, an exception). `ControlPath`
ends with the call of `setCacheLifeExpectancy`, which is where `ConfigStore` (what
it saves) and `TempsCache` (what it changes in the cache) begin; each of them lets a change come at
any moment with any value, which is more than `ControlPath` delivers.
`SocketLocker` decides which processes run; `ControlPath` lets them start and end
at any point.

Definitions whose name ends in `_Something` after the name of an action (for
example `BeginPass_NoLock`) are mutants: the action with a plausible bug. They
are used by no specification; each shows that a property notices that bug.

### TempsCache

A thread is a program counter `pc[t]`, the day offset it is working on, `cur[t]`,
and what its expiry check has read, `seen[t]`. The steps follow the code's
accesses to shared state:

| Actions | Code |
|---|---|
| `ReadNow` (part of `AllTempsRequest` and of `TimerFires`), `SampleLog`, then `HandlerDecides` or `TimerDecides` | `isCacheExpired` / `isCacheNeedingUpdate`: the clock is read first, then the creation time of the active log, then the cache and the life expectancy, none under the mutex (`TempsCtrl.cc:338-404`) |
| `BeginPass`, `FindFile`, `ReadFile` or `PassThrows`, ..., `EndPass` | `updateCache`: lock, per offset a test for existence and a separate open, the stamp at the end (`:291-307`) |
| `AllTempsRequest`, `ServeAll` | `handleAllTempsRequest` (`:309-326`) |
| `TempsRequest`, `FindDay`, `ReadDay` | `handleTempsRequest` (`:70-95`), which bypasses the cache |
| `TimerFires`, `ConstructorStartsTimer`, `SetLifeExpectancy` | `setCacheTimer`, the end of the constructor, `setCacheLifeExpectancy` |
| `Tick`, `LogAppend`, `RotateRename`, `RotateCreate` | the clock, rpi-fan, logrotate |

A log file is its day, its creation minute, and what parsing it would do: return
an error object, return points, or throw. An entry of the cache is empty, an
error or the points of a day. Data are abstracted to days because the question
is which file an entry comes from and when. `torn` is a history variable: the last pass
that wrote data ended with an exception after its first offset.

Each of the two checks reads `creationEpochMinutes` twice; the module argues why
one read gives the same outcomes. When the active log is missing, `statx` fails
and the code reads an uninitialised buffer: `CreationTimes` lets any outcome of
the comparison happen.

### SnapshotCache

A cache for clients, with no threads, files, clocks or mutexes: a client asks for
the week or for one day and gets one answer; the week is answered only while
nobody refreshes it, from one array whose days follow one another; a refresh that fails
costs at most the client it was made for its answer, or ends the server. `TempsCache` states at its
end which of its variables stand for which (`Snapshot == INSTANCE SnapshotCache
WITH ...`): a client waits while its handler is not idle, the array is being
written while `cacheMutex` is held, the newest day is that of the newest log.

### LogChunks

`size` is read once (`Measure`, `TempsCtrl.cc:199-206`), `left` is what `getline`
has not read and may grow (`Grow`). `GetLine` is one round of the loop with its
cut (`:212-222`), `EndOfFile` the last chunk (`:223-227`), `TaskEnds` a task
(`:184-193` with `extractMatches`), `Join` and `Return` the loop of `wait` and `get`
(`:228-235`), `Unwind` what the destructors of the futures do when `get` throws.

A line is its number of bytes and what each regular expression finds in it. From
these the module computes whether the line is a point, is skipped, or throws
(`Throws`, `IsPoint`, and `LevelDigits` for the odd arithmetic of `:165-170`). `Kept`
is the loop that appends the points of a chunk (`:186-191`), as a recursive function,
so that it can be reasoned about. Levels are
modelled up to twelve digits: what the code cuts out of a longer one may or may not fit
into an `int`. The
contents of the file are not fixed beforehand: each `getline` finds any line that fits
into what is left. `Runs` is what `main` checks of the command line; it lets
`maxjobs` 0 through.

### ConfigStore

`file` is missing, empty, or a setting with the number of digits of its text.
The digits matter: `writeFile` truncates and then writes from the start, so the
texts of two overlapping saves may be mixed. `save_config` is six steps: find,
create, parse, set (reading `m_config`), truncate, write. Main and the ZMQ thread
run them under `saveConfigMutex`, a timer under nothing. `Stop` ends the process
at any point and keeps only the file; `Launch` starts it again.

Time: `age` (since `lastConfigSave`), `left` (of each timer's sleep) and `spent`
(of a save) count in units; `Tick` advances all of them together, so the
computation `MAX_DELAY_BETWEEN_SAVES_MS - durationMs` of `saveCurrentConfig` is
modelled with its numbers.

Three history variables remember what the program does not: `asked` is the value asked
for last since the launch, `changed` whether there was one, `raced` whether it came while the
constructor loaded the file (`Loading`). In that case the constructor may overwrite it, in force or in
`m_config`, with what it has loaded or with the default: the change is then lost, which the
properties except by name. `m_config` alone would not show it.

### SocketLocker

One step per file-system call of `socket_locker.hpp`, for any number of servers and
daemons; `remove_all` of the directory (`DeleteDir`) and the unlink and bind inside libzmq
(`Bind`) are one step each. A file is
an inode with a mode and an flock holder, so that a deleted lock file may stay
locked while another one takes its path. After its checks a server binds the
path, closes it, or ends at any point.

`m_lockFd` is not the descriptor of the lock file: `try_lock` returns 0 where its
comment says the descriptor (`socket_locker.hpp:154-156, 179`), so the destructor
closes standard input and the lock lives until the process ends. The model keeps the
lock until `Exit` for this reason.

### ControlPath

| Actions | Code |
|---|---|
| `ToolCalls`, `OtherCalls` | the check of `rpi-fan-serve-ctrl` and its call; any other D-Bus client, which checks nothing |
| `StartDaemon`, `InstallHandlers`, `BuildServer` | `dbus/main.cpp`, the constructor of `DbusServer` with or without a system bus |
| `HandleCall` | `RpiFanServeObject::setCacheLifeExpectancy`, its signal, the slot that reads the property back and queues it |
| `Signal`, `HandleSignal`, `LeaveLoop` | `SignalHandler`: one byte into a self-pipe, the slot of its notifier, `quit()` |
| `DestroyQueue`, `ClearRunning`, `JoinThread` | the destructors in their order: `CtrlDbusClient` with its queue, then `ZmqPairQThread`, which clears `m_running` and waits |
| `ClientConnect`, `SendHello`, `CheckRunning`, `SendQueued`, `SentAll`, `SendDestroyed` | `ZmqDbusClient::run` and `trySendCallback` |
| `Subscribe`, `Transfer` | libzmq |
| `Receive` | `ZmqDbusServer::run`, `parse_message`, `receiveCallback` |
| `LaunchServer`, `ServerEnds`, `DaemonCrash` | restarts; nothing in the daemon survives one |

A message is the number of the change and its value. Its text is not taken apart:
only the daemon publishes, and what it writes is what `parse_message` reads, except
for its greeting, of which `parse_message` makes nothing (`Hello`). The uninitialised property
(`RpiFanServeObject.h:20`) is any member of `Garbage` in every new daemon.

### ChangeChannel

A channel that delivers changes, with no threads, queues, sockets or signals: it knows
the values accepted, the numbers of the changes on the way, the last one applied and the
value in force. The oldest on the way is applied next. While the channel is connected, a
change is lost only when `Limit` of them are on the way (`Overflow`), or with the server
(`Stop`, which loses the oldest ones: those it has received or was receiving); `Disconnect` loses the
newest ones, and while the channel is not connected any may be lost (`Drop`). `Start` of the
server falls back to the default or to a value that was accepted no later than the last one
applied (lost ones included: which of them the configuration file holds is the matter of
`ConfigStore`), never to one that is still on the way.

`ControlPath` states its refinement mapping at its end (`Channel == INSTANCE
ChangeChannel WITH ...`): on the way are the changes in inbox, pipe and queue; connected
is a daemon that takes calls and whose subscription has arrived; `Limit` is libzmq's
high-water mark for the messages that wait at one end. With a limit of one more TLC finds the
refinement violated, so the mapping promises as much as it can.

## 3. Runs

All runs take under five minutes with two workers. Properties are defined at the
end of each module, with the behaviour they are about.

| Run | Checks | Instance | Result |
|---|---|---|---|
| `cache_safety` | `TypeOK`, `IInv`, `NoDaySkipped`, `ServedFresh`, `ImplementsSnapshot` | 1 HTTP thread, constructor, 2 timers, 2 offsets, 1 rotation, clock 1..2, life 60 or 120 s | holds, 1.9 M states (timers interchangeable) |
| `cache_liveness` | `RequestAnswered` | 1 HTTP thread, 1 timer, life 60 s | holds, 110,988 states |
| `cache_rotation` | `RotationNoticed` | same | violated |
| `log_chunks` | `TypeOK`, `TasksBounded`, `AnswerIsFile`, `Terminates` | files of up to 9 bytes that grow by up to 2, 4 kinds of lines, 0..3 jobs | holds, 633,141 states |
| `config_saves` | `TypeOK`, `NoLostChange`, `InForceIsConfigured`, `EventuallySaved` | 3 save timers, values of 2 and 4 digits, delay of 3 units | holds, 179,476 states |
| `config_garbled` | `WrittenFileParses` | as `config_saves` | violated |
| `config_next_launch` | `PreservedOnNextLaunch` | as `config_saves`, from a file that holds a value (`SpecOnConfig`) | violated |
| `locker_servers` | `TypeOK`, `OneInstance`, `BoundSocketStays`, `DirReady` | 2 servers, good or no lock files, any directory | holds, 17,862 states |
| `locker_repair` | `LockInPlace` | 1 server, 1 daemon, lock files in any state | holds, 689,522 states |
| `locker_bad_lock` | `OneInstance` | 2 servers, lock files in any state | violated |
| `locker_socket` | `SocketReady` | 1 server, 1 daemon | violated |
| `control_path` | `TypeOK`, `AppliedInOrder`, `AppliesAccepted`, `ToolIsHeard`, `ImplementsChannel`, `Delivered`, `EndsOnSignal` | 2 changes of 3 boundary values, high-water mark 2, 2 signals | holds, 108,804 states |

`CHECK_DEADLOCK FALSE` stands where the system really stops: in the cache runs,
because the process may die of an exception, after which nothing is modelled, and because
the clock and the number of rotations are bounded; in `log_chunks`, because the call
ends; in `control_path`, because the bounded changes are used up and nobody has to
start anything. The other models never stop.

### What the violated runs show

- `RotationNoticed`: the cache is dated with the minute in which a pass ends, and a
  rotation counts only if the new log was created in a *later* minute
  (`TempsCtrl.cc:343`). A rotation between the reading of offset 0 and the end of
  that minute is missed; yesterday's log is then served as today's until the life
  expectancy is over.
- `WrittenFileParses`: two deferred saves overlap (`TempsCtrl.cc:430-433`); when
  their values differ by two digits or more the file no longer parses, although
  the log says that the configuration has been written. From then on every save gives up
  on reading the file (`configuration.hpp:201`).
- `PreservedOnNextLaunch`: the file holds a value, a later save truncates it, and a stop
  before the write leaves it empty; the next launch falls back to the default without
  repairing it.
- `OneInstance` with a lock file of a wrong mode, or one that is no regular file: check, deletion and creation
  of the lock file are separate calls by path, so two servers may each lock a file of
  their own.
- `SocketReady`: the daemon and the server prepare the same directory and path under
  different locks. The daemon may delete the socket that the server has just bound
  and report it ready.

Other consequences of two locks for one path are in the model without a run of
their own: a process that finds the directory missing and creates it second refuses
to run (`socket_locker.hpp:233-236`, `CreateDir`), and `DirReady` and
`BoundSocketStays`, which hold between servers, do not hold beside a starting daemon.

### What the passing runs leave out, in their statements

- `NoDaySkipped` and `ImplementsSnapshot` except answers given after a pass that threw
  midway (`torn`): the code keeps such an array and serves it if the life
  expectancy is then raised.
- `TasksBounded` speaks of a file that does not grow while it is read: the size comes
  from before, and lines appended meanwhile may make more tasks than `maxjobs`.
- `AnswerIsFile` speaks of levels of one or two digits, which is what rpi-fan
  writes: a level of three digits loses its line (`TempsCtrl.cc:167`).
- `Delivered` holds while daemon and server are linked. A change that is published
  before the subscription is there is dropped, and so is the first change after the bus
  has started the daemon for it, if the client thread sends it at once.
- `InForceIsConfigured`, `NoLostChange` and `EventuallySaved` except a last change that
  comes while the constructor loads the file (`raced`): the ZMQ thread starts first
  (`TempsCtrl.cc:29`), and what the constructor assigns (`:32-33`, `:45`) may overwrite the
  change, which is then neither in force nor saved.
- `NoLostChange` and `EventuallySaved` also except a file that overlapping saves have spoilt, on
  which every later save gives up (`configuration.hpp:197-206`; `config_garbled`), and a directory
  that cannot be used.
- `ServedFresh` and `IInv` say nothing of a check that ran while the active log was missing: what
  the code then compares with is not initialised (`TempsCtrl.cc:255`).
- `RequestAnswered` excuses a process that an exception has ended (`PassThrows`).

### Bounds

- *Cache.* With two offsets there is a pair of neighbouring entries, and one
  rotation in the middle of a pass moves a log from the first to the second:
  the shortest way to skip or repeat a day. Two clock values separate "same minute" from
  "later minute". Two timers (the second one started by a change of the life
  expectancy) and the constructor make passes while a request is between its check and
  its answer. The theorems of section 4 remove all these bounds.
- *Configuration.* Three timers are what it takes for two of them to overlap while
  a third is pending, and for the spoilt file; with two the spoilt file is not reached.
  Values of two and four digits differ by the two digits that matter. `MaxDelay` is 3
  units with `MaxBusy` 1 (the module assumes `2 * MaxBusy < MaxDelay`, and in the
  code a save of milliseconds stands against 5 s). The number of timer threads bounds
  the number of pending changes, not of all changes: a thread that has ended is used again.
- *Locker.* Five inodes: one per lock path and one deleted file per process. Two
  servers compete for a lock, and restart any number of times.
- *Log parsing.* Nine bytes hold three lines of the longest kind or nine blank ones: enough
  for three jobs to get chunks of several lines, of one line and a tail, with and
  without a last newline; sizes below the number of jobs give a chunk size of 0. The
  four kinds of lines are a point, a blank line, one whose conversion fails and is
  caught, one that throws. Growth by two bytes continues a last line or adds one.
- *Control path.* 59, 60 and 100 are the values at which tool and object differ. Two
  changes are what order needs; with a greeting they overfill a high-water mark of 2. One
  call may wait at the bus. One unread byte per signal: a second one changes nothing
  before the first is read.

### Fairness

- `TempsCache`: a thread that can take its next step does (weak fairness). Taking
  `cacheMutex` is strongly fair: `std::mutex` promises nothing, but a timer sleeps at
  least ten seconds between two passes (`TempsCtrl.cc:269-272`), so the mutex is free for
  long stretches and a waiting thread is not passed over for ever. Requests, timer
  expiries, the clock and rotations are owed nothing.
- `ConfigStore`: time passes, timers fire, threads run; changes, stops and
  launches are owed nothing. `EventuallySaved` is about behaviours in which changes
  stop coming and the process stays up.
- `LogChunks`: the reading thread runs, and some task that can end does. The logger owes
  nothing, and is bounded: a line takes it a minute and a half (`test/rpi-fan`), reading it no time.
- `ControlPath`: the main thread and the client thread run, the event loop serves calls and
  signals, libzmq subscribes and moves messages while both ends are up, the server reads. Calls, signals,
  starts, crashes and ends are owed nothing.
- `SocketLocker`: no liveness, no fairness.

## 4. Proofs

The theorems hold for all values of the constants: any sets of threads, processes
and signals, any number of cached days, any life expectancies, sizes and limits, any
bounds on clock, rotations and changes. They rest on the named assumptions of the modules
(`CacheAssumption`, `ChunksAssumption`, `ConfigAssumption`, `LockerAssumption`,
`ControlAssumption`: sets that are disjoint, sentinels that stand outside, numbers that
are naturals, delays in the order of the code's), which TLC evaluates in every run,
and on what the table names.

| Module | Theorem | States |
|---|---|---|
| `TempsCacheProofs` | `TypeCorrect`, `Invariance` | `Spec => []TypeOK`, `Spec => []IInv` |
| | `DaysServedInOrder` | `Spec => NoDaySkipped` |
| | `AnswersAreFresh` | `Spec => ServedFresh` |
| | `ExpiredIsDue`, `DueBeforeExpired` | what `isCacheExpired` takes for expired, `isCacheNeedingUpdate` takes for due, and a minute earlier at the latest |
| `SnapshotProofs` | `CacheImplementsSnapshot` | `Spec => ImplementsSnapshot` |
| `LogChunksProofs` | `TypeCorrect` | `Spec => []TypeOK` |
| | `NoMoreTasks` | `Spec => []TasksBounded` |
| | `AnswerComplete` | `Spec => []AnswerIsFile` |
| `ConfigStoreProofs` | `TypeCorrect` | `Spec => []TypeOK` |
| | `ForceIsConfigured` | `Spec => []InForceIsConfigured` |
| | `NothingLost` | `Spec => []NoLostChange` |
| | `SimilarValuesParse` | `Spec => WrittenFileParses`, if the values differ in length by one digit at most (`SimilarLengths`) |
| | `SimilarValuesSaved` | `NoLostChange` without its exception for a spoilt file, under the same hypothesis |
| `SocketLockerProofs` | `TypeCorrect` | `Spec => []TypeOK` |
| | `LocksStayInPlace`, `OnlyOneInstance` | `Spec => []LockInPlace`, `[]OneInstance`, if no lock file needs repair (`NoRepair`) |
| | `RepairLeavesLockInPlace` | `Spec => []LockInPlace`, with lock files in any state, for one process of each kind (`EachAlone`) |
| | `PathStays`, `DirectoryStays` | `Spec => []BoundSocketStays`, `[]DirReady`, if no lock file needs repair and there are no daemons |
| `ControlPathProofs` | `TypeCorrect` | `Spec => []TypeOK` |
| | `ChangesInOrder`, `ValuesAsAccepted` | `Spec => AppliedInOrder`, `Spec => AppliesAccepted` |
| | `ToolNeverRefused` | `Spec => ToolIsHeard` |
| `ChannelProofs` | `PathImplementsChannel` | `Spec => ImplementsChannel` |

The hypotheses are of two sorts. `NoRepair`, `EachAlone` and `Daemons = {}` say which processes
run and what they find: the violated runs `locker_bad_lock` and `locker_socket` show that
the conclusions fail without them. `SimilarLengths` likewise separates the values for which
`config_garbled` finds a spoilt file from those for which there is none. TLC agrees on
values of three and four digits (191,998 states).

### The arguments

*Cache.* Neither property is inductive. `NoDaySkipped` is about pairs of
entries of one array, but a pass fills the array entry by entry while rotations move the
files. What a pass preserves is `OrderedBelow(data, cur[t], Newest)`: the entries
behind the pass are in order among themselves, and none is of a later day than its offset
allows given the newest log. Since a rotation only makes the newest day
later (`DaysOK`, lemma `NextDays`), the next entry read is of a day no earlier than any entry
before it asks for (lemma `OrderedWrite`). At the end of the pass the whole array is in
order; outside passes it stays so, because only the holder of `cacheMutex` writes
(`LockOK`). A pass that throws after its first offset leaves `torn`.
`ServedFresh` needs that dates only grow: everything dated or sampled is
dated no later than the clock (`ClockOK`), so a pass that ends after a request's
check dates the cache at or after the minute of that check (`FreshOK`, lemma `NextFresh`).
`IInv` is the conjunction of these parts; lemmas `InitIInv` and `NextIInv` show it
inductive, one lemma per part. It is also checked by TLC (`cache_safety`).

*Refinement.* With `IInv`, `InitSnapshot` maps initial states, `PassSnapshot` maps the
steps of `updateCache` to `Begin`, `Write`, `Finish` and `Fail`, and
`HandlerSnapshot` those of requests to `Ask`, `Refuse`, `AnswerWeek` and `AnswerDay`, or to
stuttering. That an answer comes from an array that is not being written, and whose days
are consecutive, is `LockOK` and `OrderOK`.

*Number of tasks.* A chunk that has been cut has consumed `chunk_size` bytes and one
newline at least, because newlines do not count towards its size. So
`(chunk_size + 1) * Len(tasks)`, the current chunk and what is left never exceed the size of the file
(`BudgetOK`; the last newline may be missing), while
`maxjobs` times `chunk_size + 1` is more than that size (`RoundedDown`). What remains is
that so many pieces fit into less than `maxjobs` pieces (`FewerPieces`): there is
room for the chunk of the rest.

*Answer.* The invariant `AnswerInv` keeps, as a witness, where the file has been cut
(`Cutting`): the i-th task has the lines from one cut to the next, the current chunk
those behind the last cut, and what has been gathered is what is kept of the lines up to the
cut of the last task joined, of which none throws. `Join` then needs that what is kept of two
neighbouring parts is what is kept of the two together. This is an
induction over the lines, which the provers cannot be asked for directly; `KeptProofs` does it by
least counterexample: a set of numbers has a least member (`LeastNat`, from the
well-foundedness of `<`), so a prefix at which the claim fails would have a
shortest one, and the step before it gives the contradiction. The same argument shows that the
recursive function is there at all and has its equations. `TasksOK`
relates the states of the tasks to their lines and to `pc`.

*Value in force.* The invariant `ForceOK` follows the constructor: until a loaded value
is adopted everything holds the default, and a change that comes then is `raced`; once it is up,
a change that is not `raced` is in force (`asked`), and in `m_config` as soon as it has been copied.

*No lost change.* `NoLostChange` is about quiet states only. In between, `SavedInv` says that
a change that is not in the file is in the hands of somebody: of the ZMQ thread, which has not
yet decided, or of a saver that will write it (`PendingOK`). Savers run without a lock, so
one that has read an older value (`Outdated`) may write after a newer one has been
written. It does no harm while a timer sleeps that will save afterwards, and that is a
matter of time (`OutdatedOK`): the timer sleeps for the rest of the delay since
`lastConfigSave`, the outdated saver began at about the time of `lastConfigSave` (`AgeOK`),
and it is done within `MaxBusy`. `LaunchOK` says the same of the
constructor, whose own save begins while changes arrive. The argument
needs `2 * MaxBusy < MaxDelay`, once for the age of `lastConfigSave` and once for the save itself.
All this is about `m_config`; that it is the value asked for last is the previous invariant.

*Files that parse.* `LengthOK`: the text in the file always has the length of some value. With
`SimilarLengths` the longer text left behind a shorter one leaves its trailing newline at most, which
libconfig accepts.

*One instance.* `LockInv`: without a lock file to replace nobody reaches the
deletion, so the file at the lock path stays the one that was opened; who is past `flock` holds it,
and only one can. The same invariant shows that of the servers only one
touches the directory and the socket path (`PathAlone`).

*Repair.* For a process that is alone at its lock file, the file may be in any state. Behind
`clean_lock` the file at the path is good, if there is one, and from `try_lock` on it is the one
that is open (`RepairDone`): nobody else deletes or replaces it, because the lock
files of the two kinds are different inodes (`FilesDiffer`) and only one process is at each.

*Order of changes.* Along the way inbox, pipe, queue the numbers of the changes
increase, and all are greater than the last applied one and stand for the value accepted with that
number (`PathOK`). A greeting has no place in the order. Losing
a part of the way (`DropPath`, `PartKeeps`) keeps the order; publishing, moving and
receiving take the first of one sequence to the end of the next (`LinkPath`).

*Channel.* `ControlInv` gives the order; two more facts are needed. `GreetOK`: the pipe of a
daemon holds one greeting at most. So when a change overflows, the other messages
of the full pipe are changes, and with the one that finds no room there are as many on
the way as the pipe holds messages (`FullChannel`: the positions of the pipe map one to one
to changes, the place of the greeting standing for the change that is
dropped). And what goes away is the right end of the way: with the daemon its queue and its
pipe, the newest; with the server what it has received and the first part of the pipe, the oldest (`DaemonEndsChannel`, `ServerChannel`).
One lemma per group of actions maps its steps to a step of the channel or to
stuttering; `NextChannel` collects them.

### Only model-checked

- Liveness, which is out of the prover's reach: `RequestAnswered`, `EventuallySaved`,
  `Terminates`, `Delivered`, `EndsOnSignal`.
- Not proved because not true: `LockInPlace` and `OneInstance` with several processes of a
  kind and lock files to repair (`locker_bad_lock`), the socket beside a daemon
  (`locker_socket`), `RotationNoticed`, `PreservedOnNextLaunch`.

## 5. Assumptions about what is outside `src/`

- *drogon* constructs the controller before it listens, runs handlers in its
  I/O threads, and turns an exception of a handler into an error answer.
- *timercpp* (an empty submodule here): each `setInterval` and `setTimeout` starts
  a new detached thread, sleeps, calls the function; nothing catches its
  exceptions and nothing in `src/` stops it.
- *logrotate*: every rotation renames each log to the next offset, then creates a
  new active log. The renames are one step: a pass that sees them one by one is not
  modelled.
- The wall clock never goes back. Aligned words read without a lock are read whole.
- *libconfig* truncates the file when it opens it for writing and writes the text with
  one call. A trailing newline more is accepted, digits on a line of their own are not.
- *libzmq* unlinks the socket path when it binds and when it closes. A publisher
  drops what it sends before the subscriber's subscription has arrived; from then on it
  keeps up to the high-water mark of messages for it, in order, also while it is away, and
  drops what comes on top. (It returns credit to the sender in batches, so while messages are on
  their way the real limit may be somewhat lower; this is not modelled.) With linger 0 what has not been sent is gone on close.
- *Qt*: `quit()` does nothing when no event loop runs; a `QSocketNotifier` fires as
  long as there is something to read; slots of one thread are called directly by the signal. `QThread::wait`
  returns when the thread has ended or was never started.
- *D-Bus* starts the daemon for the first call and hands it the calls that wait. A
  daemon that ends takes them with it.
- A thread that calls a pure virtual function of an object under destruction ends the
  process, or reads an empty queue (`SendDestroyed`): undefined behaviour, of which these
  are the outcomes the build can have.
- `std::async` gets its threads; the destructor of its future waits.
- A save takes well under the five seconds between saves, a constructor too.
- File-system calls fail only where something at the path makes them fail.

## 6. Not modelled, and why

- The stop of the server's ZMQ thread (`zmq_pair_thread.hpp`): the controller that
  owns it lives as long as the process, so it is one step with the end of the server
  (`ServerEnds`). That is why the component is "partly" modelled.
- The text of the command line: of `main.cc` the accepted ranges are in `LogChunks!Runs`,
  the lock is in `SocketLocker`; argparse (third party) is used once before anything runs.
- File-system calls that fail for reasons outside the path (permissions, full disk),
  threads that cannot be created.
- The D-Bus adaptor and proxy (generated), `config.json` and `models/` (templates the
  program does not load), `debug.hpp`, `zmq_constants.hpp`, build files: no behaviour of
  their own.
- `test/test.nix` deploys the service and makes requests; it holds no assertion about
  the answers.

## 7. Plan

Done: `TempsCache`, `ConfigStore`, `SocketLocker`, `ControlPath`, `LogChunks`, the abstract
`SnapshotCache` and `ChangeChannel` with their refinements, and the theorems of section 4, which
state every safety property that a passing run checks.

Left, in order of worth:

1. The steps of the liveness arguments that are safety: that a thread that holds
   `cacheMutex` can always take a step (`RequestAnswered`), that each `getline` and each task
   comes nearer to the end (`Terminates`).
2. The daemon's shutdown as a ranking of its program counter (`EndsOnSignal`), for any signals.
3. The directory between a server and a daemon, when both find a directory at the path:
   `DirReady` without the hypothesis that there are no daemons.
