-------------------------- MODULE ControlPathProofs --------------------------
(* Theorems about ControlPath, for any values and signals, any high-water   *)
(* mark, any number of changes and any number of restarts.                  *)
EXTENDS ControlPath, TLAPS

-----------------------------------------------------------------------------
(* What travels from the object to the server.                             *)

\* A message on its way is a greeting, or one of the accepted changes acc that comes
\* after the last applied one, with the value it was accepted with.
Sound(m, acc, last) ==
  \/ m = Hello
  \/ /\ m.change \in 1..Len(acc) /\ m.change > last
     /\ m.value = acc[m.change]
     /\ ObjectAccepts(m.value)

\* Of two changes m is the older; a greeting has no place in the order.
Older(m, n) == m.change = 0 \/ n.change = 0 \/ m.change < n.change

AllSound(s, acc, last) == \A i \in DOMAIN s : Sound(s[i], acc, last)
Sorted(s) == \A i, j \in DOMAIN s : i < j => Older(s[i], s[j])
Before(s, t) == \A i \in DOMAIN s, j \in DOMAIN t : Older(s[i], t[j])

\* Changes are in order along the whole way: the server's socket, libzmq, the queue.
PathOK ==
  /\ AllSound(inbox, accepted, applied)
  /\ AllSound(pipe, accepted, applied)
  /\ AllSound(queue, accepted, applied)
  /\ Sorted(inbox) /\ Sorted(pipe) /\ Sorted(queue)
  /\ Before(inbox, pipe) /\ Before(inbox, queue) /\ Before(pipe, queue)

\* What the tool has sent is for the object to accept.
CallsOK ==
  \A i \in DOMAIN calls : calls[i].from = "tool" => ObjectAccepts(calls[i].value)

ControlInv == TypeOK /\ PathOK /\ CallsOK

-----------------------------------------------------------------------------
(* Type correctness.                                                       *)

LEMMA HelloType == Hello \in Message
  BY DEF Hello, Message

\* What is published is a message.
LEMMA PublishType ==
  ASSUME pipe \in Seq(Message), Len(pipe) <= HighWaterMark, NEW m \in Message, Publish(m)
  PROVE  pipe' \in Seq(Message) /\ Len(pipe') <= HighWaterMark
<1>1. HighWaterMark \in Nat
  BY ControlAssumption
<1>2. CASE link = "subscribed" /\ Len(pipe) < HighWaterMark
  <2>1. pipe' = Append(pipe, m)
    BY <1>2 DEF Publish
  <2>2. QED
    BY <1>1, <1>2, <2>1
<1>3. CASE ~ (link = "subscribed" /\ Len(pipe) < HighWaterMark)
  BY <1>3 DEF Publish
<1>4. QED
  BY <1>2, <1>3

LEMMA InitType == Init => TypeOK
<1> SUFFICES ASSUME Init PROVE TypeOK
  OBVIOUS
<1>1. property \in Int /\ inForce \in Int
  BY ControlAssumption DEF Init
<1>2. bytes \in [Signals -> 0..MaxSignals]
  BY ControlAssumption DEF Init
<1>3. /\ calls \in Seq(Call) /\ queue \in Seq(Message) /\ accepted \in Seq(Int)
      /\ pipe \in Seq(Message) /\ Len(pipe) <= HighWaterMark
      /\ inbox \in Seq(Message) /\ Len(inbox) <= HighWaterMark
  BY ControlAssumption DEF Init
<1>4. applied \in 0..Len(accepted)
  BY DEF Init
<1>5. QED
  BY <1>1, <1>2, <1>3, <1>4 DEF Init, TypeOK

\* The end of the daemon keeps the types.
LEMMA DaemonEndsType == TypeOK /\ DaemonEnds => TypeOK'
<1> SUFFICES ASSUME TypeOK, DaemonEnds PROVE TypeOK'
  OBVIOUS
<1>1. bytes' \in [Signals -> 0..MaxSignals]
  BY ControlAssumption DEF DaemonEnds
<1>2. /\ calls' \in Seq(Call) /\ queue' \in Seq(Message)
      /\ pipe' \in Seq(Message) /\ Len(pipe') <= HighWaterMark
  BY ControlAssumption DEF DaemonEnds
<1>3. QED
  BY <1>1, <1>2 DEF TypeOK, DaemonEnds, serving

\* The steps of the main thread and of those who call it.
LEMMA MainType ==
  ASSUME TypeOK,
         Clients \/ StartDaemon \/ MainThread \/ HandleCall \/ DaemonCrash
           \/ \E s \in Signals : Signal(s) \/ HandleSignal(s)
  PROVE  TypeOK'
<1>1. ASSUME Clients PROVE TypeOK'
  <2>1. PICK v \in Values, f \in {"tool", "other"} : SendCall(v, f)
    BY <1>1 DEF Clients, ToolCalls, OtherCalls
  <2>2. calls' \in Seq(Call)
    BY <2>1 DEF SendCall, TypeOK, Call
  <2>3. QED
    BY <2>1, <2>2 DEF SendCall, TypeOK, serving
<1>2. ASSUME StartDaemon \/ InstallHandlers \/ LeaveLoop \/ ClearRunning PROVE TypeOK'
  BY <1>2 DEF StartDaemon, InstallHandlers, LeaveLoop, ClearRunning, TypeOK, Destroying,
     serving
<1>3. ASSUME BuildServer PROVE TypeOK'
  <2>1. property' \in Int
    BY <1>3, ControlAssumption DEF BuildServer, TypeOK
  <2>2. QED
    BY <1>3, <2>1 DEF BuildServer, TypeOK, serving
<1>4. ASSUME DestroyQueue PROVE TypeOK'
  BY <1>4 DEF DestroyQueue, TypeOK, Destroying, serving
<1>5. ASSUME JoinThread \/ DaemonCrash PROVE TypeOK'
  BY <1>5, DaemonEndsType DEF JoinThread, DaemonCrash
<1>6. ASSUME HandleCall PROVE TypeOK'
  <2>1. /\ calls # <<>> /\ calls' = Tail(calls)
        /\ UNCHANGED <<daemon, bytes, client, link, pipe, serving>>
    BY <1>6 DEF HandleCall
  <2>2. calls' \in Seq(Call) /\ Head(calls) \in Call
    BY <2>1 DEF TypeOK
  <2>3. Head(calls).value \in Int
    BY <2>2, ControlAssumption DEF Call
  <2>4. /\ property' \in Int /\ accepted' \in Seq(Int) /\ queue' \in Seq(Message)
        /\ Len(accepted') >= Len(accepted)
    <3>1. CASE ObjectAccepts(Head(calls).value)
      <4>1. /\ property' = Head(calls).value
            /\ accepted' = Append(accepted, Head(calls).value)
            /\ queue' = Append(queue, [change |-> Len(accepted) + 1, value |-> property'])
        BY <1>6, <3>1 DEF HandleCall
      <4>2. [change |-> Len(accepted) + 1, value |-> property'] \in Message
        BY <2>3, <4>1 DEF Message, TypeOK
      <4>3. QED
        BY <2>3, <4>1, <4>2 DEF TypeOK
    <3>2. CASE ~ ObjectAccepts(Head(calls).value)
      BY <1>6, <3>2 DEF HandleCall, TypeOK
    <3>3. QED
      BY <3>1, <3>2
  <2>5. applied' \in 0..Len(accepted')
    BY <2>1, <2>4 DEF TypeOK, serving
  <2>6. QED
    BY <2>1, <2>2, <2>4, <2>5 DEF TypeOK, serving
<1>7. ASSUME NEW s \in Signals, Signal(s) \/ HandleSignal(s) PROVE TypeOK'
  <2>1. bytes' \in [Signals -> 0..MaxSignals]
    <3>1. bytes[s] \in 0..MaxSignals /\ MaxSignals \in Nat
      BY ControlAssumption DEF TypeOK
    <3>2. \E b \in 0..MaxSignals : bytes' = [bytes EXCEPT ![s] = b]
      BY <1>7, <3>1 DEF Signal, HandleSignal
    <3>3. QED
      BY <3>2 DEF TypeOK
  <2>2. QED
    BY <1>7, <2>1 DEF Signal, HandleSignal, TypeOK, serving
<1>8. QED
  BY <1>1, <1>2, <1>3, <1>4, <1>5, <1>6, <1>7 DEF MainThread

\* The steps of the client thread, of libzmq and of the server.
LEMMA LinkType ==
  ASSUME TypeOK, AllSound(inbox, accepted, applied),
         ClientThread \/ Subscribe \/ Transfer \/ Receive \/ LaunchServer \/ ServerEnds
  PROVE  TypeOK'
<1>1. ASSUME ClientConnect \/ SentAll \/ Subscribe PROVE TypeOK'
  BY <1>1 DEF ClientConnect, SentAll, Subscribe, TypeOK, serving
<1>2. ASSUME SendHello PROVE TypeOK'
  <2>1. pipe' \in Seq(Message) /\ Len(pipe') <= HighWaterMark
    BY <1>2, HelloType, PublishType DEF SendHello, TypeOK
  <2>2. QED
    BY <1>2, <2>1 DEF SendHello, TypeOK, serving
<1>3. ASSUME CheckRunning PROVE TypeOK'
  <2>1. pipe' = pipe \/ pipe' = <<>>
    BY <1>3 DEF CheckRunning
  <2>a. pipe' \in Seq(Message) /\ Len(pipe') <= HighWaterMark
    <3>1. HighWaterMark \in Nat
      BY ControlAssumption
    <3>2. CASE pipe' = pipe
      BY <3>2 DEF TypeOK
    <3>3. CASE pipe' = <<>>
      BY <3>1, <3>3
    <3>4. QED
      BY <2>1, <3>2, <3>3
  <2>2. QED
    BY <1>3, <2>a DEF CheckRunning, TypeOK, serving
<1>4. ASSUME SendQueued PROVE TypeOK'
  <2>1. queue # <<>> /\ queue' = Tail(queue) /\ Publish(Head(queue))
        /\ UNCHANGED <<calls, daemon, property, bytes, client, link, serving, accepted>>
    BY <1>4 DEF SendQueued
  <2>2. Head(queue) \in Message /\ queue' \in Seq(Message)
    BY <2>1 DEF TypeOK
  <2>3. pipe' \in Seq(Message) /\ Len(pipe') <= HighWaterMark
    BY <2>1, <2>2, PublishType DEF TypeOK
  <2>4. QED
    BY <2>1, <2>2, <2>3 DEF TypeOK, serving
<1>5. ASSUME SendDestroyed PROVE TypeOK'
  <2>1. CASE DaemonEnds
    BY <2>1, DaemonEndsType
  <2>2. CASE ~ DaemonEnds
    BY <1>5, <2>2 DEF SendDestroyed, TypeOK, serving
  <2>3. QED
    BY <2>1, <2>2
<1>6. ASSUME Transfer PROVE TypeOK'
  <2>1. /\ pipe # <<>> /\ Len(inbox) < HighWaterMark
        /\ inbox' = Append(inbox, Head(pipe)) /\ pipe' = Tail(pipe)
    BY <1>6 DEF Transfer
  <2>2. /\ Head(pipe) \in Message /\ pipe' \in Seq(Message) /\ Len(pipe') <= HighWaterMark
    BY <2>1, ControlAssumption DEF TypeOK
  <2>3. inbox' \in Seq(Message) /\ Len(inbox') <= HighWaterMark
    BY <2>1, <2>2, ControlAssumption DEF TypeOK
  <2>4. QED
    BY <1>6, <2>2, <2>3 DEF Transfer, TypeOK
<1>7. ASSUME LaunchServer PROVE TypeOK'
  <2>1. \A i \in 1..applied : accepted[i] \in Int
    BY DEF TypeOK
  <2>2. inForce' \in Int
    BY <1>7, <2>1, ControlAssumption DEF LaunchServer
  <2>3. QED
    BY <1>7, <2>2 DEF LaunchServer, TypeOK
<1>8. ASSUME ServerEnds PROVE TypeOK'
  <2>1. PICK n \in 1..Len(pipe) + 1 : pipe' = SubSeq(pipe, n, Len(pipe))
    BY <1>8 DEF ServerEnds
  <2>2. pipe' \in Seq(Message) /\ Len(pipe') <= HighWaterMark
    <3>1. pipe \in Seq(Message) /\ Len(pipe) <= HighWaterMark /\ HighWaterMark \in Nat
      BY ControlAssumption DEF TypeOK
    <3>2. pipe' \in Seq(Message)
      BY <2>1, <3>1
    <3>3. Len(pipe') <= Len(pipe)
      BY <2>1, <3>1
    <3>4. QED
      BY <3>1, <3>2, <3>3
  <2>3. inbox' \in Seq(Message) /\ Len(inbox') <= HighWaterMark
    BY <1>8, ControlAssumption DEF ServerEnds
  <2>4. QED
    BY <1>8, <2>2, <2>3 DEF ServerEnds, TypeOK
<1>9. ASSUME Receive PROVE TypeOK'
  <2>1. inbox # <<>> /\ inbox' = Tail(inbox)
        /\ UNCHANGED <<calls, daemon, property, bytes, queue, client, link, pipe, server,
                       accepted>>
    BY <1>9 DEF Receive
  <2>2. inbox' \in Seq(Message) /\ Len(inbox') <= HighWaterMark
    BY <2>1, ControlAssumption DEF TypeOK
  <2>3. Head(inbox) \in Message /\ Sound(Head(inbox), accepted, applied)
    BY <2>1 DEF TypeOK, AllSound
  <2>4. inForce' \in Int /\ applied' \in 0..Len(accepted)
    <3>1. CASE Head(inbox) = Hello
      BY <1>9, <3>1 DEF Receive, TypeOK
    <3>2. CASE Head(inbox) # Hello
      <4>1. inForce' = Head(inbox).value /\ applied' = Head(inbox).change
        BY <1>9, <3>2 DEF Receive
      <4>2. Head(inbox).change \in 1..Len(accepted)
        BY <2>3, <3>2 DEF Sound
      <4>3. Head(inbox).value \in Int
        BY <2>3 DEF Message
      <4>4. QED
        BY <4>1, <4>2, <4>3
    <3>3. QED
      BY <3>1, <3>2
  <2>5. QED
    BY <2>1, <2>2, <2>4 DEF TypeOK
<1>10. QED
  BY <1>1, <1>2, <1>3, <1>4, <1>5, <1>6, <1>7, <1>8, <1>9 DEF ClientThread

-----------------------------------------------------------------------------
(* Order on the way.                                                       *)

\* What holds of a sequence holds of a part of it in the same order.
LEMMA PartKeeps ==
  ASSUME NEW s \in Seq(Message), NEW n \in 1..Len(s) + 1,
         NEW part, part = SubSeq(s, n, Len(s))
  PROVE  /\ \A acc, last : AllSound(s, acc, last) => AllSound(part, acc, last)
         /\ Sorted(s) => Sorted(part)
         /\ \A t : Before(s, t) => Before(part, t)
         /\ \A t : Before(t, s) => Before(t, part)
<1>1. DOMAIN part = 1..(Len(s) - n + 1)
  OBVIOUS
<1>2. \A i \in DOMAIN part : /\ i + n - 1 \in DOMAIN s
                             /\ part[i] = s[i + n - 1]
  BY <1>1
<1>3. DOMAIN part \subseteq Int
  BY <1>1
<1>4. \A i, j \in DOMAIN part : i < j => i + n - 1 < j + n - 1
  BY <1>3
<1>5. QED
  BY <1>2, <1>4 DEF AllSound, Sorted, Before

\* The first message of a sorted sequence is older than the rest.
LEMMA HeadTail ==
  ASSUME NEW s \in Seq(Message), s # <<>>, NEW acc, NEW last,
         AllSound(s, acc, last), Sorted(s)
  PROVE  /\ Head(s) \in Message /\ Sound(Head(s), acc, last)
         /\ AllSound(Tail(s), acc, last) /\ Sorted(Tail(s))
         /\ \A i \in DOMAIN Tail(s) : Older(Head(s), Tail(s)[i])
         /\ \A t : Before(s, t) => /\ Before(Tail(s), t)
                                   /\ \A i \in DOMAIN t : Older(Head(s), t[i])
         /\ \A t : Before(t, s) => /\ Before(t, Tail(s))
                                   /\ \A i \in DOMAIN t : Older(t[i], Head(s))
<1>1. /\ 1 \in DOMAIN s /\ Head(s) = s[1]
      /\ \A i \in DOMAIN Tail(s) : i + 1 \in DOMAIN s /\ Tail(s)[i] = s[i + 1] /\ 1 < i + 1
      /\ \A i, j \in DOMAIN Tail(s) : i < j => i + 1 < j + 1
  OBVIOUS
<1>2. QED
  BY <1>1 DEF AllSound, Sorted, Before

\* A message that is newer than a sequence continues it.
LEMMA AppendKeeps ==
  ASSUME NEW s \in Seq(Message), NEW m \in Message, NEW acc, NEW last,
         AllSound(s, acc, last), Sorted(s), Sound(m, acc, last),
         \A i \in DOMAIN s : Older(s[i], m)
  PROVE  /\ AllSound(Append(s, m), acc, last) /\ Sorted(Append(s, m))
         /\ \A t : Before(s, t) /\ (\A i \in DOMAIN t : Older(m, t[i])) => Before(Append(s, m), t)
         /\ \A t : Before(t, s) /\ (\A i \in DOMAIN t : Older(t[i], m)) => Before(t, Append(s, m))
<1>1. /\ \A i \in DOMAIN Append(s, m) :
           (i \in DOMAIN s /\ Append(s, m)[i] = s[i]) \/ (i = Len(s) + 1 /\ Append(s, m)[i] = m)
      /\ \A i \in DOMAIN s : i < Len(s) + 1
      /\ \A i, j \in DOMAIN Append(s, m) : i < j => i \in DOMAIN s
  OBVIOUS
<1>2. QED
  BY <1>1 DEF AllSound, Sorted, Before

\* Nothing is on the way in an empty sequence.
LEMMA EmptyOK ==
  /\ \A acc, last : AllSound(<<>>, acc, last)
  /\ Sorted(<<>>)
  /\ \A t : Before(<<>>, t) /\ Before(t, <<>>)
<1>1. DOMAIN <<>> = {}
  OBVIOUS
<1>2. QED
  BY <1>1 DEF AllSound, Sorted, Before

-----------------------------------------------------------------------------
(* The invariant.                                                          *)

LEMMA InitControl == Init => ControlInv
<1> SUFFICES ASSUME Init PROVE ControlInv
  OBVIOUS
<1>1. inbox = <<>> /\ pipe = <<>> /\ queue = <<>> /\ calls = <<>>
  BY DEF Init
<1>2. PathOK
  BY <1>1, EmptyOK DEF PathOK
<1>3. CallsOK
  BY <1>1 DEF CallsOK
<1>4. QED
  BY <1>2, <1>3, InitType DEF ControlInv

\* What is sound stays so when another change is accepted.
LEMMA SoundGrows ==
  ASSUME NEW s, NEW acc \in Seq(Int), NEW v \in Int, NEW last, AllSound(s, acc, last)
  PROVE  AllSound(s, Append(acc, v), last)
<1>1. /\ Len(acc) \in Nat /\ Len(Append(acc, v)) = Len(acc) + 1
      /\ \A c \in 1..Len(acc) : Append(acc, v)[c] = acc[c] /\ c \in 1..(Len(acc) + 1)
  OBVIOUS
<1>2. QED
  BY <1>1 DEF AllSound, Sound

\* What is newer than a change is still to come when that change is applied.
LEMMA SoundApplied ==
  ASSUME NEW s, NEW acc \in Seq(Int), NEW last, NEW m, m.change # 0,
         AllSound(s, acc, last), \A i \in DOMAIN s : Older(m, s[i])
  PROVE  AllSound(s, acc, m.change)
<1> SUFFICES ASSUME NEW i \in DOMAIN s, s[i] # Hello PROVE Sound(s[i], acc, m.change)
  BY DEF AllSound, Sound
<1>1. s[i].change \in 1..Len(acc) /\ s[i].value = acc[s[i].change] /\ ObjectAccepts(s[i].value)
  BY DEF AllSound, Sound
<1>2. m.change < s[i].change
  BY <1>1 DEF Older
<1>3. s[i].change > m.change
  BY <1>2
<1>4. QED
  BY <1>1, <1>3 DEF Sound

\* A greeting fits anywhere.
LEMMA HelloFits ==
  \A acc, last, m : Sound(Hello, acc, last) /\ Older(Hello, m) /\ Older(m, Hello)
<1>1. Hello.change = 0
  BY DEF Hello
<1>2. QED
  BY <1>1 DEF Sound, Older

\* Publishing what is older than the queue and newer than what is on the way.
LEMMA PublishPath ==
  ASSUME TypeOK, PathOK, NEW m \in Message, Publish(m), Sound(m, accepted, applied),
         \A i \in DOMAIN inbox : Older(inbox[i], m),
         \A i \in DOMAIN pipe : Older(pipe[i], m),
         NEW q, Before(inbox, q), Before(pipe, q), \A i \in DOMAIN q : Older(m, q[i])
  PROVE  /\ AllSound(pipe', accepted, applied) /\ Sorted(pipe')
         /\ Before(inbox, pipe') /\ Before(pipe', q)
<1>1. CASE pipe' = pipe
  BY <1>1 DEF PathOK
<1>2. CASE pipe' = Append(pipe, m)
  BY <1>2, AppendKeeps DEF PathOK, TypeOK
<1>3. QED
  BY <1>1, <1>2 DEF Publish

LEMMA DaemonEndsPath == TypeOK /\ PathOK /\ DaemonEnds => PathOK'
<1> SUFFICES ASSUME PathOK, DaemonEnds PROVE PathOK'
  OBVIOUS
<1>1. pipe' = <<>> /\ queue' = <<>> /\ UNCHANGED <<inbox, accepted, applied>>
  BY DEF DaemonEnds, serving
<1>2. QED
  BY <1>1, EmptyOK DEF PathOK

\* A change is accepted: it is newer than all that are on the way.
LEMMA HandleCallPath == TypeOK /\ PathOK /\ HandleCall => PathOK'
<1> SUFFICES ASSUME TypeOK, PathOK, HandleCall PROVE PathOK'
  OBVIOUS
<1>1. UNCHANGED <<pipe, inbox, applied>> /\ calls # <<>>
  BY DEF HandleCall, serving
<1> DEFINE v == Head(calls).value
           m == [change |-> Len(accepted) + 1, value |-> v]
<1>2. CASE ObjectAccepts(v)
  <2>1. accepted' = Append(accepted, v) /\ queue' = Append(queue, m)
    BY <1>2 DEF HandleCall
  <2>2. v \in Int
    <3>1. Head(calls) \in Call
      BY <1>1 DEF TypeOK
    <3>2. QED
      BY <3>1, ControlAssumption DEF Call
  <2>3. m \in Message /\ m.change = Len(accepted) + 1 /\ m.value = v
    BY <2>2 DEF Message, TypeOK
  <2>4. Sound(m, accepted', applied)
    <3>1. /\ Len(accepted') = Len(accepted) + 1 /\ accepted'[Len(accepted) + 1] = v
          /\ Len(accepted) + 1 \in 1..Len(accepted') /\ Len(accepted) + 1 > applied
      BY <2>1, <2>2 DEF TypeOK
    <3>2. QED
      BY <1>2, <2>3, <3>1 DEF Sound
  <2>5. ASSUME NEW s, AllSound(s, accepted, applied)
        PROVE  /\ AllSound(s, accepted', applied)
               /\ \A i \in DOMAIN s : Older(s[i], m)
    <3>1. AllSound(s, accepted', applied)
      BY <2>1, <2>2, <2>5, SoundGrows DEF TypeOK
    <3>2. ASSUME NEW i \in DOMAIN s PROVE Older(s[i], m)
      <4>1. CASE s[i] = Hello
        BY <4>1, HelloFits
      <4>2. CASE s[i] # Hello
        <5>1. s[i].change \in 1..Len(accepted) /\ Len(accepted) \in Nat
          BY <2>5, <4>2 DEF AllSound, Sound, TypeOK
        <5>2. s[i].change < Len(accepted) + 1
          BY <5>1
        <5>3. QED
          BY <2>3, <5>2 DEF Older
      <4>3. QED
        BY <4>1, <4>2
    <3>3. QED
      BY <3>1, <3>2
  <2> HIDE DEF m, v
  <2>6. /\ AllSound(queue', accepted', applied) /\ Sorted(queue')
        /\ Before(inbox, queue') /\ Before(pipe, queue')
    BY <2>1, <2>3, <2>4, <2>5, AppendKeeps DEF PathOK, TypeOK
  <2>7. QED
    BY <1>1, <2>5, <2>6 DEF PathOK
<1>3. CASE ~ ObjectAccepts(v)
  BY <1>1, <1>3 DEF HandleCall, PathOK
<1>4. QED
  BY <1>2, <1>3

\* Sending, moving and receiving keep the order, and so does a loss at either end.
LEMMA LinkPath ==
  ASSUME TypeOK, PathOK, SendHello \/ SendQueued \/ Transfer \/ Receive \/ ServerEnds
  PROVE  PathOK'
<1>a. /\ inbox \in Seq(Message) /\ pipe \in Seq(Message) /\ queue \in Seq(Message)
      /\ accepted \in Seq(Int)
  BY DEF TypeOK
<1>1. CASE SendHello
  <2>1. /\ AllSound(pipe', accepted, applied) /\ Sorted(pipe')
        /\ Before(inbox, pipe') /\ Before(pipe', queue)
    BY <1>1, HelloType, HelloFits, PublishPath DEF SendHello, PathOK
  <2>2. QED
    BY <1>1, <2>1 DEF SendHello, PathOK, serving
<1>2. CASE SendQueued
  <2>1. queue # <<>> /\ queue' = Tail(queue) /\ Publish(Head(queue))
        /\ UNCHANGED <<inbox, accepted, applied>>
    BY <1>2 DEF SendQueued, serving
  <2>2. /\ Head(queue) \in Message /\ Sound(Head(queue), accepted, applied)
        /\ AllSound(queue', accepted, applied) /\ Sorted(queue')
        /\ \A i \in DOMAIN queue' : Older(Head(queue), queue'[i])
        /\ \A t : Before(t, queue) => /\ Before(t, queue')
                                      /\ \A i \in DOMAIN t : Older(t[i], Head(queue))
    BY <1>a, <2>1, HeadTail DEF PathOK
  <2>3. Before(inbox, queue') /\ Before(pipe, queue')
    BY <2>2 DEF PathOK
  <2>4. /\ AllSound(pipe', accepted, applied) /\ Sorted(pipe')
        /\ Before(inbox, pipe') /\ Before(pipe', queue')
    BY <2>1, <2>2, <2>3, PublishPath DEF PathOK
  <2>5. QED
    BY <2>1, <2>2, <2>3, <2>4 DEF PathOK
<1>3. CASE Transfer
  <2>1. pipe # <<>> /\ pipe' = Tail(pipe) /\ inbox' = Append(inbox, Head(pipe))
        /\ UNCHANGED <<queue, accepted, applied>>
    BY <1>3 DEF Transfer
  <2>2. /\ Head(pipe) \in Message /\ Sound(Head(pipe), accepted, applied)
        /\ AllSound(pipe', accepted, applied) /\ Sorted(pipe')
        /\ \A i \in DOMAIN pipe' : Older(Head(pipe), pipe'[i])
        /\ \A t : Before(pipe, t) => /\ Before(pipe', t)
                                     /\ \A i \in DOMAIN t : Older(Head(pipe), t[i])
        /\ \A t : Before(t, pipe) => /\ Before(t, pipe')
                                     /\ \A i \in DOMAIN t : Older(t[i], Head(pipe))
    BY <1>a, <2>1, HeadTail DEF PathOK
  <2>3. /\ Before(pipe', queue) /\ Before(inbox, pipe')
        /\ \A i \in DOMAIN queue : Older(Head(pipe), queue[i])
        /\ \A i \in DOMAIN inbox : Older(inbox[i], Head(pipe))
    BY <2>2 DEF PathOK
  <2>4. /\ AllSound(inbox', accepted, applied) /\ Sorted(inbox')
        /\ Before(inbox', pipe') /\ Before(inbox', queue)
    BY <1>a, <2>1, <2>2, <2>3, AppendKeeps DEF PathOK
  <2>5. QED
    BY <2>1, <2>2, <2>3, <2>4 DEF PathOK
<1>4. CASE Receive
  <2>1. inbox # <<>> /\ inbox' = Tail(inbox) /\ UNCHANGED <<pipe, queue, accepted>>
    BY <1>4 DEF Receive
  <2>2. /\ Head(inbox) \in Message /\ Sound(Head(inbox), accepted, applied)
        /\ AllSound(inbox', accepted, applied) /\ Sorted(inbox')
        /\ \A i \in DOMAIN inbox' : Older(Head(inbox), inbox'[i])
        /\ \A t : Before(inbox, t) => /\ Before(inbox', t)
                                      /\ \A i \in DOMAIN t : Older(Head(inbox), t[i])
    BY <1>a, <2>1, HeadTail DEF PathOK
  <2>3. Before(inbox', pipe) /\ Before(inbox', queue)
    BY <2>2 DEF PathOK
  <2>4. CASE Head(inbox) = Hello
    BY <1>4, <2>1, <2>2, <2>3, <2>4 DEF Receive, PathOK
  <2>5. CASE Head(inbox) # Hello
    <3>1. applied' = Head(inbox).change /\ Head(inbox).change # 0
      BY <1>4, <2>2, <2>5 DEF Receive, Sound
    <3>2. /\ AllSound(inbox', accepted, applied') /\ AllSound(pipe, accepted, applied')
          /\ AllSound(queue, accepted, applied')
      BY <1>a, <2>2, <3>1, SoundApplied DEF PathOK
    <3>3. QED
      BY <2>1, <2>2, <2>3, <3>2 DEF PathOK
  <2>6. QED
    BY <2>4, <2>5
<1>5. CASE ServerEnds
  <2>1. PICK n \in 1..Len(pipe) + 1 : pipe' = SubSeq(pipe, n, Len(pipe))
    BY <1>5 DEF ServerEnds
  <2>2. inbox' = <<>> /\ UNCHANGED <<queue, accepted, applied>>
    BY <1>5 DEF ServerEnds
  <2>3. AllSound(pipe', accepted, applied) /\ Sorted(pipe') /\ Before(pipe', queue)
    BY <1>a, <2>1, PartKeeps DEF PathOK
  <2>4. QED
    BY <2>2, <2>3, EmptyOK DEF PathOK
<1>6. QED
  BY <1>1, <1>2, <1>3, <1>4, <1>5

\* A queue that is destroyed, or a socket that is closed, takes with it what is in it.
LEMMA DropPath ==
  ASSUME PathOK, UNCHANGED <<inbox, accepted, applied>>,
         queue' = queue \/ queue' = <<>>, pipe' = pipe \/ pipe' = <<>>
  PROVE  PathOK'
  BY EmptyOK DEF PathOK

\* Calls come from the tool after its check, and go in their order.
LEMMA NextCalls ==
  ASSUME TypeOK, CallsOK, [Next]_vars
  PROVE  CallsOK'
<1>1. ASSUME NEW v \in Values, ToolCalls(v) \/ OtherCalls(v) PROVE CallsOK'
  <2>1. PICK f \in {"tool", "other"} : /\ calls' = Append(calls, [value |-> v, from |-> f])
                                       /\ f = "tool" => ToolAccepts(v)
    BY <1>1 DEF ToolCalls, OtherCalls, SendCall
  <2>2. ToolAccepts(v) => ObjectAccepts(v)
    <3>1. v \in Int
      BY ControlAssumption
    <3>2. v >= 100 => v >= 60
      BY <3>1
    <3>3. QED
      BY <3>2 DEF ToolAccepts, ObjectAccepts
  <2>3. \A i \in DOMAIN calls' :
          (i \in DOMAIN calls /\ calls'[i] = calls[i]) \/ calls'[i] = [value |-> v, from |-> f]
    BY <2>1 DEF TypeOK
  <2>4. QED
    BY <2>1, <2>2, <2>3 DEF CallsOK
<1>2. CASE HandleCall
  <2>1. calls # <<>> /\ calls' = Tail(calls)
    BY <1>2 DEF HandleCall
  <2>2. \A i \in DOMAIN calls' : i + 1 \in DOMAIN calls /\ calls'[i] = calls[i + 1]
    BY <2>1 DEF TypeOK
  <2>3. QED
    BY <2>2 DEF CallsOK
<1>3. CASE DaemonEnds
  <2>1. DOMAIN calls' = {}
    BY <1>3 DEF DaemonEnds
  <2>2. QED
    BY <2>1 DEF CallsOK
<1>4. CASE calls' = calls
  BY <1>4 DEF CallsOK
<1>5. QED
  BY <1>1, <1>2, <1>3, <1>4
     DEF Next, Clients, StartDaemon, MainThread, InstallHandlers, BuildServer, LeaveLoop,
         DestroyQueue, ClearRunning, JoinThread, DaemonCrash, Signal, HandleSignal,
         ClientThread, ClientConnect, SendHello, CheckRunning, SendQueued, SentAll,
         SendDestroyed, Subscribe, Transfer, Receive, LaunchServer, ServerEnds, vars

\* Every step keeps the order on the way.
LEMMA NextPath ==
  ASSUME TypeOK, PathOK, [Next]_vars
  PROVE  PathOK'
<1>1. CASE DestroyQueue \/ CheckRunning
  <2>1. /\ UNCHANGED <<inbox, accepted, applied>>
        /\ queue' = queue \/ queue' = <<>>
        /\ pipe' = pipe \/ pipe' = <<>>
    BY <1>1 DEF DestroyQueue, CheckRunning, serving
  <2>2. QED
    BY <2>1, DropPath
<1>2. CASE UNCHANGED <<inbox, pipe, queue, accepted, applied>>
  BY <1>2, DropPath
<1>3. QED
  BY <1>1, <1>2, DaemonEndsPath, HandleCallPath, LinkPath
     DEF Next, Clients, ToolCalls, OtherCalls, SendCall, StartDaemon, MainThread,
         InstallHandlers, BuildServer, LeaveLoop, ClearRunning, JoinThread, DaemonCrash,
         Signal, HandleSignal, ClientThread, ClientConnect, SentAll, SendDestroyed,
         Subscribe, LaunchServer, serving, vars

LEMMA NextControl == ControlInv /\ [Next]_vars => ControlInv'
<1> SUFFICES ASSUME ControlInv, [Next]_vars PROVE ControlInv'
  OBVIOUS
<1>1. TypeOK'
  <2>1. AllSound(inbox, accepted, applied)
    BY DEF ControlInv, PathOK
  <2>2. CASE UNCHANGED vars
    BY <2>2 DEF vars, serving, TypeOK, ControlInv
  <2>3. CASE Next
    BY <2>1, <2>3, MainType, LinkType DEF ControlInv, Next
  <2>4. QED
    BY <2>2, <2>3
<1>2. QED
  BY <1>1, NextPath, NextCalls DEF ControlInv

-----------------------------------------------------------------------------
(* Theorems.                                                               *)

\* Every variable keeps its type: above all, libzmq never holds more than the
\* high-water mark, and no change is applied that was not accepted.
THEOREM TypeCorrect == Spec => []TypeOK
<1>1. ControlInv => TypeOK
  BY DEF ControlInv
<1>2. QED
  BY InitControl, NextControl, <1>1, PTL DEF Spec

\* Only Receive changes what is applied, and it applies the first change in the inbox.
LEMMA AppliedByReceive ==
  ASSUME ControlInv, [Next]_vars, applied' # applied
  PROVE  /\ accepted' = accepted
         /\ applied' \in 1..Len(accepted) /\ applied' > applied
         /\ inForce' = accepted[applied'] /\ ObjectAccepts(inForce')
<1>1. Receive
  BY DEF Next, Clients, ToolCalls, OtherCalls, SendCall, StartDaemon, MainThread,
     InstallHandlers, BuildServer, LeaveLoop, DestroyQueue, ClearRunning, JoinThread,
     DaemonCrash, DaemonEnds, HandleCall, Signal, HandleSignal, ClientThread,
     ClientConnect, SendHello, CheckRunning, SendQueued, SentAll, SendDestroyed,
     Subscribe, Transfer, LaunchServer, ServerEnds, serving, vars
<1>2. inbox # <<>> /\ inbox \in Seq(Message) /\ AllSound(inbox, accepted, applied)
  BY <1>1 DEF Receive, ControlInv, TypeOK, PathOK
<1>3. Sound(Head(inbox), accepted, applied)
  BY <1>2 DEF AllSound
<1>4. Head(inbox) # Hello /\ inForce' = Head(inbox).value /\ applied' = Head(inbox).change
  BY <1>1 DEF Receive
<1>5. accepted' = accepted
  BY <1>1 DEF Receive
<1>6. QED
  BY <1>3, <1>4, <1>5 DEF Sound

\* The server applies changes in the order in which the object accepted them
\* (RpiFanServeObject.cpp:13-19 to zmq_dbus_server.hpp:59-84), through lost messages
\* and restarts of either side.
THEOREM ChangesInOrder == Spec => AppliedInOrder
<1>1. ControlInv /\ [Next]_vars => (applied' # applied => applied' > applied)
  BY AppliedByReceive
<1>2. QED
  BY InitControl, NextControl, <1>1, PTL DEF Spec, AppliedInOrder

\* What is put in force for a change is the value the object accepted for it, in the
\* range it checks.
THEOREM ValuesAsAccepted == Spec => AppliesAccepted
<1>1. ControlInv /\ [Next]_vars =>
        (applied' # applied => /\ applied' \in DOMAIN accepted
                               /\ inForce' = accepted[applied']
                               /\ ObjectAccepts(inForce'))
  BY AppliedByReceive DEF ControlInv, TypeOK
<1>2. QED
  BY InitControl, NextControl, <1>1, PTL DEF Spec, AppliesAccepted

\* The object refuses nothing that the tool lets through: the tool's range
\* (rpi-fan-serve-ctrl.cc) lies within the object's, and calls keep their order.
THEOREM ToolNeverRefused == Spec => ToolIsHeard
<1>1. ASSUME ControlInv, [Next]_vars, calls # <<>>, calls' = Tail(calls),
             Head(calls).from = "tool", daemon' # "off"
      PROVE  accepted' = Append(accepted, Head(calls).value)
  <2>1. calls \in Seq(Call) /\ Len(calls') = Len(calls) - 1
    BY <1>1 DEF ControlInv, TypeOK
  <2>2. \A c \in Call : Len(Append(calls, c)) = Len(calls) + 1
    BY <2>1
  <2>3. HandleCall
    <3>1. calls' # calls /\ Len(calls') # Len(calls) + 1
      BY <2>1
    <3>2. ~ Clients
      <4>1. ASSUME NEW v \in Values, NEW f \in {"tool", "other"}, SendCall(v, f)
            PROVE  FALSE
        <5>1. calls' = Append(calls, [value |-> v, from |-> f])
          BY <4>1 DEF SendCall
        <5>2. [value |-> v, from |-> f] \in Call
          BY DEF Call
        <5>3. QED
          BY <2>2, <3>1, <5>1, <5>2
      <4>2. QED
        BY <4>1 DEF Clients, ToolCalls, OtherCalls
    <3>3. ~ DaemonEnds
      BY <1>1 DEF DaemonEnds
    <3>4. QED
      BY <1>1, <3>1, <3>2, <3>3
         DEF Next, StartDaemon, MainThread, InstallHandlers, BuildServer, LeaveLoop,
             DestroyQueue, ClearRunning, JoinThread, DaemonCrash, Signal, HandleSignal,
             ClientThread, ClientConnect, SendHello, CheckRunning, SendQueued, SentAll,
             SendDestroyed, Subscribe, Transfer, Receive, LaunchServer, ServerEnds, vars
  <2>4. ObjectAccepts(Head(calls).value)
    <3>1. 1 \in DOMAIN calls /\ Head(calls) = calls[1]
      BY <1>1, <2>1
    <3>2. QED
      BY <1>1, <3>1 DEF ControlInv, CallsOK
  <2>5. QED
    BY <2>3, <2>4 DEF HandleCall
<1>2. QED
  BY InitControl, NextControl, <1>1, PTL DEF Spec, ToolIsHeard
=============================================================================
