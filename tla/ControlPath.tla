------------------------------ MODULE ControlPath ------------------------------
(***************************************************************************)
(* The way of a new cache life expectancy from a user to the server:       *)
(* rpi-fan-serve-ctrl or any other D-Bus client, the D-Bus daemon with its *)
(* object, its queue and its ZMQ client thread (dbus/), the PUB/SUB socket *)
(* pair, and the ZMQ thread of the server (zmq_dbus_server.hpp,            *)
(* TempsCtrl.h).  The life of the daemon is part of it: start on the first *)
(* call, signals, event loop, destruction beside the running thread.       *)
(*                                                                         *)
(* Abstractions.  A change is numbered when the object accepts it, and a   *)
(* message is that number with the value it carries.  Only the daemon      *)
(* publishes.  The socket path names the server's socket (SocketLocker).   *)
(* What setCacheLifeExpectancy does in the server is one step here (see    *)
(* ConfigStore and TempsCache).                                            *)
(*                                                                         *)
(* libzmq: a publisher has nothing to send to until the subscription of    *)
(* the server has reached it, and drops; from then on it keeps up to       *)
(* HighWaterMark messages for the server, also while the server is away,   *)
(* and drops what comes on top.  It learns in batches of what the server   *)
(* has taken, so while messages move it may drop a little earlier: this is *)
(* not modelled.  A server that ends takes with it what it has not read    *)
(* and what was on the way.                                                *)
(***************************************************************************)
EXTENDS Integers, Sequences

CONSTANTS
  Values,         \* values D-Bus clients send, in seconds
  Garbage,        \* what the uninitialised property may hold
  DefaultLife,    \* the life expectancy of a server without configuration
  HighWaterMark,  \* ZMQ_SNDHWM and ZMQ_RCVHWM: 1000 in libzmq
  Signals,        \* the signals the daemon handles: SIGINT and SIGTERM
  MaxSignals,     \* bound on the unread bytes of each self-pipe
  MaxChanges,     \* bound on the number of changes
  MaxCalls        \* bound on the calls that wait at the bus

ASSUME ControlAssumption ==
  /\ Values \subseteq Int /\ Garbage \subseteq Int /\ DefaultLife \in Int
  /\ {HighWaterMark, MaxSignals, MaxChanges, MaxCalls} \subseteq Nat

VARIABLES
  calls,     \* Set calls the daemon has not handled yet
  daemon,    \* where the main thread of the daemon is
  property,  \* RpiFanServeObject::m_CacheLifeExpectancy
  bytes,     \* bytes[s]: unread bytes in the self-pipe of signal s
  queue,     \* CtrlDbusClient::m_messages
  client,    \* where the ZMQ client thread is
  link,      \* the PUB socket: "none", "connecting" or "subscribed"
  pipe,      \* messages libzmq keeps for the server
  server,    \* the server process: "off" or "up"
  inbox,     \* messages the SUB socket has received
  inForce,   \* m_cacheLifeExpectancySeconds
  accepted,  \* history: the value of each change, in order of acceptance
  applied    \* history: the number of the last change the server has applied

serving == <<server, inbox, inForce, applied>>
vars == <<calls, daemon, property, bytes, queue, client, link, pipe, serving, accepted>>

-----------------------------------------------------------------------------
ToolAccepts(v) == v >= 100 /\ v <= 100000

\* Mutant: the object asks for a longer life expectancy than the tool.
ObjectAccepts_Narrow(v) == v > 100 /\ v <= 100000

ObjectAccepts(v) == v >= 60 /\ v <= 100000

Call    == [value : Values, from : {"tool", "other"}]
Message == [change : Nat, value : Int]

\* parse_message makes nothing of it: its text does not begin with the key.
Hello == [change |-> 0, value |-> 0]

\* In the destructor of the daemon: the queue is gone, the thread is not.
Destroying == {"destroyed", "joining"}

TypeOK ==
  /\ calls \in Seq(Call)
  /\ daemon \in {"off", "starting", "building", "deaf", "serving", "quitting",
                 "leaving"} \cup Destroying
  /\ property \in Int
  /\ bytes \in [Signals -> 0..MaxSignals]
  /\ queue \in Seq(Message)
  /\ client \in {"none", "connect", "hello", "check", "send", "ended"}
  /\ link \in {"none", "connecting", "subscribed"}
  /\ pipe \in Seq(Message) /\ Len(pipe) <= HighWaterMark
  /\ server \in {"off", "up"}
  /\ inbox \in Seq(Message) /\ Len(inbox) <= HighWaterMark
  /\ inForce \in Int
  /\ accepted \in Seq(Int)
  /\ applied \in 0..Len(accepted)

Init ==
  /\ calls = <<>>
  /\ daemon = "off"
  /\ property \in Garbage
  /\ bytes = [s \in Signals |-> 0]
  /\ queue = <<>>
  /\ client = "none" /\ link = "none" /\ pipe = <<>>
  /\ server = "off" /\ inbox = <<>> /\ inForce = DefaultLife
  /\ accepted = <<>> /\ applied = 0

-----------------------------------------------------------------------------
(* D-Bus clients.                                                          *)

SendCall(v, from) ==
  /\ Len(calls) < MaxCalls
  /\ Len(calls) + Len(accepted) < MaxChanges
  /\ calls' = Append(calls, [value |-> v, from |-> from])
  /\ UNCHANGED <<daemon, property, bytes, queue, client, link, pipe, serving, accepted>>

\* rpi-fan-serve-ctrl: what it refuses never leaves it.  It waits a second for
\* the answer; when it gives up, the call is handled all the same.
ToolCalls(v) == ToolAccepts(v) /\ SendCall(v, "tool")

OtherCalls(v) == SendCall(v, "other")

-----------------------------------------------------------------------------
(* The main thread of the daemon.                                          *)

\* The bus, or the service manager, starts it; SocketLocker lets it in.
StartDaemon ==
  /\ daemon = "off"
  /\ daemon' = "starting"
  /\ UNCHANGED <<calls, property, bytes, queue, client, link, pipe, serving, accepted>>

\* SignalHandler makes the self-pipes, then the handlers are installed.
InstallHandlers ==
  /\ daemon = "starting"
  /\ daemon' = "building"
  /\ UNCHANGED <<calls, property, bytes, queue, client, link, pipe, serving, accepted>>

\* The constructor of DbusServer.  Without the system bus it calls quit() before
\* there is an event loop to quit: the daemon stays, with no object.
BuildServer ==
  /\ daemon = "building"
  /\ \/ /\ property' \in Garbage
        /\ client' = "connect"
        /\ daemon' = "serving"
     \/ /\ daemon' = "deaf"
        /\ UNCHANGED <<property, client>>
  /\ UNCHANGED <<calls, bytes, queue, link, pipe, serving, accepted>>

\* Mutant: the signal is emitted before the value is assigned.
HandleCall_EmitsFirst ==
  /\ daemon \in {"serving", "quitting"}
  /\ calls # <<>>
  /\ LET v == Head(calls).value IN
       IF ObjectAccepts(v)
       THEN /\ property' = v
            /\ accepted' = Append(accepted, v)
            /\ queue' = Append(queue, [change |-> Len(accepted) + 1, value |-> property])
       ELSE UNCHANGED <<property, accepted, queue>>
  /\ calls' = Tail(calls)
  /\ UNCHANGED <<daemon, bytes, client, link, pipe, serving>>

\* Mutant: the slot does not wait for the thread that empties the queue.
HandleCall_TriesQueue ==
  /\ daemon \in {"serving", "quitting"}
  /\ calls # <<>>
  /\ LET v == Head(calls).value IN
       IF ObjectAccepts(v)
       THEN /\ property' = v
            /\ accepted' = Append(accepted, v)
            /\ queue' = IF client = "send" THEN queue
                        ELSE Append(queue, [change |-> Len(accepted) + 1, value |-> v])
       ELSE UNCHANGED <<property, accepted, queue>>
  /\ calls' = Tail(calls)
  /\ UNCHANGED <<daemon, bytes, client, link, pipe, serving>>

\* setCacheLifeExpectancy of the object, and the slot its signal calls at once:
\* the slot reads the property back and queues what it finds.
HandleCall ==
  /\ daemon \in {"serving", "quitting"}
  /\ calls # <<>>
  /\ LET v == Head(calls).value IN
       IF ObjectAccepts(v)
       THEN /\ property' = v
            /\ accepted' = Append(accepted, v)
            /\ queue' = Append(queue, [change |-> Len(accepted) + 1, value |-> property'])
       ELSE UNCHANGED <<property, accepted, queue>>
  /\ calls' = Tail(calls)
  /\ UNCHANGED <<daemon, bytes, client, link, pipe, serving>>

\* The handler runs in whatever the main thread is doing and writes one byte.
Signal(s) ==
  /\ daemon \notin {"off", "starting"}
  /\ bytes[s] < MaxSignals
  /\ bytes' = [bytes EXCEPT ![s] = @ + 1]
  /\ UNCHANGED <<calls, daemon, property, queue, client, link, pipe, serving, accepted>>

\* Mutant: the slot runs although there is nothing to read.
HandleSignal_Spurious(s) ==
  /\ daemon \in {"serving", "quitting", "deaf"}
  /\ bytes' = [bytes EXCEPT ![s] = @ - 1]
  /\ daemon' = IF daemon = "deaf" THEN "leaving" ELSE "quitting"
  /\ UNCHANGED <<calls, property, queue, client, link, pipe, serving, accepted>>

\* The slot of the notifier, in the event loop: it reads one byte and quits.
HandleSignal(s) ==
  /\ daemon \in {"serving", "quitting", "deaf"}
  /\ bytes[s] > 0
  /\ bytes' = [bytes EXCEPT ![s] = @ - 1]
  /\ daemon' = IF daemon = "deaf" THEN "leaving" ELSE "quitting"
  /\ UNCHANGED <<calls, property, queue, client, link, pipe, serving, accepted>>

\* The event loop ends after the round in which quit() was called.
LeaveLoop ==
  /\ daemon = "quitting"
  /\ daemon' = "leaving"
  /\ UNCHANGED <<calls, property, bytes, queue, client, link, pipe, serving, accepted>>

\* ~CtrlDbusClient destroys the queue; ~ZmqPairQThread has still to come.
DestroyQueue ==
  /\ daemon = "leaving"
  /\ daemon' = "destroyed"
  /\ queue' = <<>>
  /\ UNCHANGED <<calls, property, bytes, client, link, pipe, serving, accepted>>

\* ~ZmqPairQThread: m_running is false from here on.
ClearRunning ==
  /\ daemon = "destroyed"
  /\ daemon' = "joining"
  /\ UNCHANGED <<calls, property, bytes, queue, client, link, pipe, serving, accepted>>

\* The process is gone, with the calls it was given and what it had not sent.
DaemonEnds ==
  /\ daemon' = "off"
  /\ calls' = <<>>
  /\ bytes' = [s \in Signals |-> 0]
  /\ queue' = <<>>
  /\ client' = "none" /\ link' = "none" /\ pipe' = <<>>
  /\ UNCHANGED <<property, serving, accepted>>

\* wait() returns when the thread has ended, or if it was never started.
JoinThread ==
  /\ daemon = "joining"
  /\ client \in {"none", "ended"}
  /\ DaemonEnds

\* A crash, or a signal before its handler is installed.
DaemonCrash == daemon # "off" /\ DaemonEnds

-----------------------------------------------------------------------------
(* The ZMQ client thread of the daemon: ZmqDbusClient::run.                *)

Publish(m) ==
  pipe' = IF link = "subscribed" /\ Len(pipe) < HighWaterMark
          THEN Append(pipe, m) ELSE pipe

ClientConnect ==
  /\ client = "connect"
  /\ client' = "hello"
  /\ link' = "connecting"
  /\ UNCHANGED <<calls, daemon, property, bytes, queue, pipe, serving, accepted>>

SendHello ==
  /\ client = "hello"
  /\ client' = "check"
  /\ Publish(Hello)
  /\ UNCHANGED <<calls, daemon, property, bytes, queue, link, serving, accepted>>

\* Mutant: the loop does not look at m_running.
CheckRunning_Ignores ==
  /\ client = "check"
  /\ client' = "send"
  /\ UNCHANGED <<calls, daemon, property, bytes, queue, link, pipe, serving, accepted>>

\* The head of the loop, after a second of sleep but for the first time; the
\* socket is closed without linger.
CheckRunning ==
  /\ client = "check"
  /\ \/ /\ daemon # "joining"
        /\ client' = "send"
        /\ UNCHANGED <<link, pipe>>
     \/ /\ daemon = "joining"
        /\ client' = "ended"
        /\ link' = "none" /\ pipe' = <<>>
  /\ UNCHANGED <<calls, daemon, property, bytes, queue, serving, accepted>>

\* Mutant: the newest message is taken first.
SendQueued_Newest ==
  /\ client = "send"
  /\ daemon \notin Destroying
  /\ queue # <<>>
  /\ Publish(queue[Len(queue)])
  /\ queue' = SubSeq(queue, 1, Len(queue) - 1)
  /\ UNCHANGED <<calls, daemon, property, bytes, client, link, serving, accepted>>

\* Mutant: the callback sends the first message and clears the queue.
SendQueued_Clears ==
  /\ client = "send"
  /\ daemon \notin Destroying
  /\ queue # <<>>
  /\ Publish(Head(queue))
  /\ queue' = <<>>
  /\ UNCHANGED <<calls, daemon, property, bytes, client, link, serving, accepted>>

\* One round of the loop in trySendCallback.
SendQueued ==
  /\ client = "send"
  /\ daemon \notin Destroying
  /\ queue # <<>>
  /\ Publish(Head(queue))
  /\ queue' = Tail(queue)
  /\ UNCHANGED <<calls, daemon, property, bytes, client, link, serving, accepted>>

SentAll ==
  /\ client = "send"
  /\ daemon \notin Destroying
  /\ queue = <<>>
  /\ client' = "check"
  /\ UNCHANGED <<calls, daemon, property, bytes, queue, link, pipe, serving, accepted>>

\* The object is half destroyed: trySendCallback is pure virtual by now, which
\* ends the process, or its loop finds in the place of the queue nothing to send.
SendDestroyed ==
  /\ client = "send"
  /\ daemon \in Destroying
  /\ \/ DaemonEnds
     \/ /\ client' = "check"
        /\ UNCHANGED <<calls, daemon, property, bytes, queue, link, pipe, serving, accepted>>

-----------------------------------------------------------------------------
(* libzmq and the server.                                                  *)

Subscribe ==
  /\ link = "connecting"
  /\ server = "up"
  /\ link' = "subscribed"
  /\ UNCHANGED <<calls, daemon, property, bytes, queue, client, pipe, serving, accepted>>

Transfer ==
  /\ link = "subscribed" /\ server = "up"
  /\ pipe # <<>> /\ Len(inbox) < HighWaterMark
  /\ inbox' = Append(inbox, Head(pipe))
  /\ pipe' = Tail(pipe)
  /\ UNCHANGED <<calls, daemon, property, bytes, queue, client, link, server, inForce,
                 applied, accepted>>

\* ZmqDbusServer::run takes one message and hands it to receiveCallback.
Receive ==
  /\ server = "up"
  /\ inbox # <<>>
  /\ inbox' = Tail(inbox)
  /\ IF Head(inbox) = Hello
     THEN UNCHANGED <<inForce, applied>>
     ELSE inForce' = Head(inbox).value /\ applied' = Head(inbox).change
  /\ UNCHANGED <<calls, daemon, property, bytes, queue, client, link, pipe, server, accepted>>

\* The server comes up with the default or with a value it has saved.  Which one is
\* ConfigStore's matter: here it is any value accepted no later than the last one
\* applied, also those that were lost, which is more than the file may hold.
LaunchServer ==
  /\ server = "off"
  /\ server' = "up"
  /\ inForce' \in {DefaultLife} \cup {accepted[i] : i \in 1..applied}
  /\ UNCHANGED <<calls, daemon, property, bytes, queue, client, link, pipe, inbox,
                 applied, accepted>>

\* stop() or a crash: the oldest messages in the pipe may have been on the way.
ServerEnds ==
  /\ server = "up"
  /\ server' = "off"
  /\ inbox' = <<>>
  /\ \E n \in 1..Len(pipe) + 1 : pipe' = SubSeq(pipe, n, Len(pipe))
  /\ UNCHANGED <<calls, daemon, property, bytes, queue, client, link, inForce, applied,
                 accepted>>

-----------------------------------------------------------------------------
Clients == \E v \in Values : ToolCalls(v) \/ OtherCalls(v)

MainThread ==
  \/ InstallHandlers \/ BuildServer
  \/ LeaveLoop \/ DestroyQueue \/ ClearRunning \/ JoinThread

ClientThread ==
  ClientConnect \/ SendHello \/ CheckRunning \/ SendQueued \/ SentAll \/ SendDestroyed

Next ==
  \/ Clients
  \/ StartDaemon \/ MainThread \/ HandleCall \/ DaemonCrash
  \/ \E s \in Signals : Signal(s) \/ HandleSignal(s)
  \/ ClientThread
  \/ Subscribe \/ Transfer \/ Receive
  \/ LaunchServer \/ ServerEnds

\* Threads run, the event loop serves every source, libzmq moves what it can.
\* Calls, signals, starts and ends are owed nothing.
Fairness ==
  /\ WF_vars(MainThread) /\ WF_vars(HandleCall)
  /\ \A s \in Signals : WF_vars(HandleSignal(s))
  /\ WF_vars(ClientThread)
  /\ WF_vars(Subscribe) /\ WF_vars(Transfer) /\ WF_vars(Receive)

Spec == Init /\ [][Next]_vars /\ Fairness

-----------------------------------------------------------------------------
(* Properties.                                                             *)

\* The server applies changes in the order in which the object accepted them and
\* none twice, through the queue, two sockets and any number of restarts of
\* either side: a lost change stays lost, and an old one never comes back.
AppliedInOrder == [][applied' # applied => applied' > applied]_vars

\* What the server puts in force for a change is the value that the object
\* accepted, in the range it checks: never what the property held before, nor the
\* value of another change, nor the uninitialised memory it starts with.
AppliesAccepted ==
  [][applied' # applied => /\ applied' \in DOMAIN accepted
                           /\ inForce' = accepted[applied']
                           /\ ObjectAccepts(inForce')]_vars

\* The daemon publishes to a server that listens.
Linked == daemon = "serving" /\ link = "subscribed" /\ server = "up"

\* A change that is queued reaches the server and is put in force, or a newer one
\* is, as long as daemon and server stay linked and libzmq has room.  Before the
\* link is there a change is dropped without a word.
Delivered ==
  \A i \in 1..MaxChanges :
    (\E j \in DOMAIN queue : queue[j].change = i)
      ~> (applied >= i \/ ~ Linked \/ Len(pipe) = HighWaterMark)

\* A daemon that has received a signal ends: whether the signal came before the
\* event loop, in it or in the destructors, with or without a system bus, and
\* whatever the client thread is doing.
EndsOnSignal == \A s \in Signals : bytes[s] > 0 ~> daemon = "off"

\* A call of the tool that the daemon handles changes the value: the object
\* ignores a value it refuses and answers without an error all the same, so the
\* tool must let none through that the object refuses.
ToolIsHeard ==
  [][calls # <<>> /\ calls' = Tail(calls) /\ Head(calls).from = "tool" /\ daemon' # "off"
       => accepted' = Append(accepted, Head(calls).value)]_vars

\* What a user of the path sees of it: the changes that are on their way, and
\* whether the daemon takes changes for a server it has found.
Changes(ms) == {ms[i].change : i \in DOMAIN ms} \ {0}
OnTheWay == Changes(inbox) \cup Changes(pipe) \cup Changes(queue)

Channel == INSTANCE ChangeChannel WITH
  Range <- {v \in Values : ObjectAccepts(v)},
  Limit <- HighWaterMark,
  pending <- OnTheWay,
  connected <- (daemon = "serving" /\ link = "subscribed"),
  up <- (server = "up")

\* The object, the queue, its thread, libzmq and the server together are one channel:
\* what is lost of it without a disconnection is lost to the high-water mark or with
\* the server, and in that order; the rest arrives oldest first.
ImplementsChannel == Channel!Spec
=============================================================================
