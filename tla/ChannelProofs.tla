----------------------------- MODULE ChannelProofs -----------------------------
(* ControlPath implements ChangeChannel, for any values and signals, any    *)
(* high-water mark and any number of changes and restarts.                  *)
EXTENDS ControlPathProofs, FiniteSetTheorems

\* A daemon greets once: its greeting is the only message that takes the room of a
\* change in libzmq.
GreetOK ==
  /\ daemon \in {"off", "starting", "building"} => client = "none"
  /\ client \in {"none", "connect", "hello"} => \A i \in DOMAIN pipe : pipe[i].change # 0
  /\ \A i, j \in DOMAIN pipe : pipe[i].change = 0 /\ pipe[j].change = 0 => i = j
  /\ \A i \in DOMAIN queue : queue[i].change # 0

ChannelInv == ControlInv /\ GreetOK

-----------------------------------------------------------------------------
(* The numbers of the changes in a sequence of messages.                   *)

LEMMA ChangesEmpty == Changes(<<>>) = {}
<1>1. DOMAIN <<>> = {}
  OBVIOUS
<1>2. QED
  BY <1>1 DEF Changes

LEMMA ChangesAppend ==
  ASSUME NEW s \in Seq(Message), NEW m \in Message
  PROVE  Changes(Append(s, m)) = Changes(s) \cup ({m.change} \ {0})
<1>1. /\ DOMAIN Append(s, m) = DOMAIN s \cup {Len(s) + 1}
      /\ Append(s, m)[Len(s) + 1] = m
      /\ \A i \in DOMAIN s : Append(s, m)[i] = s[i]
  OBVIOUS
<1>2. QED
  BY <1>1 DEF Changes

LEMMA ChangesTail ==
  ASSUME NEW s \in Seq(Message), s # <<>>
  PROVE  Changes(s) = ({Head(s).change} \ {0}) \cup Changes(Tail(s))
<1>1. /\ 1 \in DOMAIN s /\ Head(s) = s[1]
      /\ \A i \in DOMAIN Tail(s) : i + 1 \in DOMAIN s /\ Tail(s)[i] = s[i + 1]
      /\ \A i \in DOMAIN s : i = 1 \/ (i - 1 \in DOMAIN Tail(s) /\ Tail(s)[i - 1] = s[i])
  OBVIOUS
<1>2. QED
  BY <1>1 DEF Changes

\* What is cut off at the front of a sorted sequence is older than the rest.
LEMMA ChangesPart ==
  ASSUME NEW s \in Seq(Message), NEW n \in 1..Len(s) + 1,
         NEW part, part = SubSeq(s, n, Len(s)), Sorted(s)
  PROVE  /\ Changes(part) \subseteq Changes(s)
         /\ \A j \in Changes(s) \ Changes(part), k \in Changes(part) : j < k
<1>1. /\ \A i \in DOMAIN part : i + n - 1 \in DOMAIN s /\ i + n - 1 >= n
                                /\ part[i] = s[i + n - 1]
      /\ \A i \in DOMAIN s : i < n \/ (i - n + 1 \in DOMAIN part /\ part[i - n + 1] = s[i])
      /\ DOMAIN s \subseteq Nat
  OBVIOUS
<1>2. Changes(part) \subseteq Changes(s)
  BY <1>1 DEF Changes
<1>3. ASSUME NEW j \in Changes(s) \ Changes(part), NEW k \in Changes(part)
      PROVE  j < k
  <2>1. PICK a \in DOMAIN s : s[a].change = j /\ j # 0
    BY DEF Changes
  <2>2. PICK i \in DOMAIN part : part[i].change = k /\ k # 0
    BY DEF Changes
  <2>3. a < n
    BY <1>1, <2>1 DEF Changes
  <2>4. PICK b \in DOMAIN s : b >= n /\ s[b].change = k
    BY <1>1, <2>2
  <2>5. a < b
    BY <1>1, <2>3, <2>4
  <2>6. QED
    BY <2>1, <2>2, <2>4, <2>5 DEF Sorted, Older
<1>4. QED
  BY <1>2, <1>3

\* What comes before is older.
LEMMA ChangesBefore ==
  ASSUME NEW s, NEW t, Before(s, t)
  PROVE  \A j \in Changes(s), k \in Changes(t) : j < k
  BY DEF Changes, Before, Older

\* The first is the oldest.
LEMMA ChangesHead ==
  ASSUME NEW s \in Seq(Message), s # <<>>, Sorted(s), Head(s).change # 0
  PROVE  \A k \in Changes(Tail(s)) : Head(s).change < k
<1>1. /\ 1 \in DOMAIN s /\ Head(s) = s[1]
      /\ \A i \in DOMAIN Tail(s) : i + 1 \in DOMAIN s /\ Tail(s)[i] = s[i + 1] /\ 1 < i + 1
  OBVIOUS
<1>2. QED
  BY <1>1 DEF Changes, Sorted, Older

LEMMA ChangesType ==
  ASSUME TypeOK, PathOK
  PROVE  OnTheWay \subseteq 1..Len(accepted)
<1>1. ASSUME NEW s, AllSound(s, accepted, applied)
      PROVE  Changes(s) \subseteq 1..Len(accepted)
  BY <1>1 DEF Changes, AllSound, Sound, Hello
<1>2. QED
  BY <1>1 DEF PathOK, OnTheWay

-----------------------------------------------------------------------------
(* One greeting at most.                                                   *)

LEMMA InitGreet == Init => GreetOK
<1> SUFFICES ASSUME Init PROVE GreetOK
  OBVIOUS
<1>1. DOMAIN pipe = {} /\ DOMAIN queue = {} /\ client = "none"
  BY DEF Init
<1>2. QED
  BY <1>1 DEF GreetOK

LEMMA NextGreet ==
  ASSUME TypeOK, GreetOK, [Next]_vars
  PROVE  GreetOK'
<1>a. pipe \in Seq(Message) /\ queue \in Seq(Message)
  BY DEF TypeOK
<1>1. CASE UNCHANGED <<daemon, client, pipe, queue>>
  BY <1>1 DEF GreetOK
<1>2. CASE DaemonEnds
  <2>1. DOMAIN pipe' = {} /\ DOMAIN queue' = {} /\ client' = "none"
    BY <1>2 DEF DaemonEnds
  <2>2. QED
    BY <2>1 DEF GreetOK
<1>3. CASE \/ StartDaemon \/ InstallHandlers \/ BuildServer \/ LeaveLoop \/ ClearRunning
           \/ ClientConnect \/ SentAll \/ \E s \in Signals : HandleSignal(s)
  <2>1. UNCHANGED <<pipe, queue>>
    BY <1>3 DEF StartDaemon, InstallHandlers, BuildServer, LeaveLoop, ClearRunning,
       ClientConnect, SentAll, HandleSignal
  <2>2. /\ daemon' \in {"off", "starting", "building"} => client' = "none"
        /\ client' \in {"none", "connect", "hello"} => client \in {"none", "connect", "hello"}
    BY <1>3 DEF StartDaemon, InstallHandlers, BuildServer, LeaveLoop, ClearRunning,
       ClientConnect, SentAll, HandleSignal, GreetOK
  <2>3. QED
    BY <2>1, <2>2 DEF GreetOK
<1>4. CASE HandleCall
  <2>1. UNCHANGED <<daemon, client, pipe>> /\ calls # <<>>
    BY <1>4 DEF HandleCall
  <2>2. CASE ObjectAccepts(Head(calls).value)
    <3> DEFINE m == [change |-> Len(accepted) + 1, value |-> property']
    <3>1. queue' = Append(queue, m) /\ m.change # 0
      BY <1>4, <2>2 DEF HandleCall, TypeOK
    <3> HIDE DEF m
    <3>2. \A i \in DOMAIN queue' : (i \in DOMAIN queue /\ queue'[i] = queue[i]) \/ queue'[i] = m
      BY <1>a, <3>1
    <3>3. QED
      BY <2>1, <3>1, <3>2 DEF GreetOK
  <2>3. CASE ~ ObjectAccepts(Head(calls).value)
    BY <1>4, <2>1, <2>3 DEF HandleCall, GreetOK
  <2>4. QED
    BY <2>2, <2>3
<1>5. CASE DestroyQueue
  <2>1. DOMAIN queue' = {}
    BY <1>5 DEF DestroyQueue
  <2>2. QED
    BY <1>5, <2>1 DEF DestroyQueue, GreetOK
<1>6. CASE SendHello
  <2>1. /\ client = "hello" /\ client' = "check" /\ UNCHANGED <<daemon, queue>>
        /\ pipe' = pipe \/ pipe' = Append(pipe, Hello)
    BY <1>6 DEF SendHello, Publish
  <2>2. \A i \in DOMAIN pipe' : (i \in DOMAIN pipe /\ pipe'[i] = pipe[i]) \/ i = Len(pipe) + 1
    BY <1>a, <2>1
  <2>3. \A i, j \in DOMAIN pipe' : pipe'[i].change = 0 /\ pipe'[j].change = 0 => i = j
    BY <2>1, <2>2 DEF GreetOK
  <2>4. daemon \notin {"off", "starting", "building"}
    BY <2>1 DEF GreetOK
  <2>5. QED
    BY <2>1, <2>3, <2>4 DEF GreetOK
<1>7. CASE SendQueued
  <2>1. /\ client = "send" /\ UNCHANGED <<daemon, client>>
        /\ queue # <<>> /\ queue' = Tail(queue)
        /\ pipe' = pipe \/ pipe' = Append(pipe, Head(queue))
    BY <1>7 DEF SendQueued, Publish
  <2>2. /\ Head(queue).change # 0
        /\ \A i \in DOMAIN queue' : queue'[i].change # 0
    <3>1. /\ 1 \in DOMAIN queue /\ Head(queue) = queue[1]
          /\ \A i \in DOMAIN queue' : i + 1 \in DOMAIN queue /\ queue'[i] = queue[i + 1]
      BY <1>a, <2>1
    <3>2. QED
      BY <3>1 DEF GreetOK
  <2>3. \A i \in DOMAIN pipe' :
          (i \in DOMAIN pipe /\ pipe'[i] = pipe[i]) \/ pipe'[i] = Head(queue)
    BY <1>a, <2>1
  <2>4. \A i, j \in DOMAIN pipe' : pipe'[i].change = 0 /\ pipe'[j].change = 0 => i = j
    BY <2>2, <2>3 DEF GreetOK
  <2>5. QED
    BY <2>1, <2>2, <2>4 DEF GreetOK
<1>8. CASE CheckRunning \/ SendDestroyed
  <2>1. CASE DaemonEnds
    BY <1>2, <2>1
  <2>2. CASE ~ DaemonEnds
    <3>1. /\ UNCHANGED <<daemon, queue>> /\ client \in {"check", "send"}
          /\ client' \in {"check", "send", "ended"}
          /\ pipe' = pipe \/ pipe' = <<>>
      BY <1>8, <2>2 DEF CheckRunning, SendDestroyed
    <3>2. \A i \in DOMAIN pipe' : i \in DOMAIN pipe /\ pipe'[i] = pipe[i]
      BY <1>a, <3>1
    <3>3. QED
      BY <3>1, <3>2 DEF GreetOK
  <2>3. QED
    BY <2>1, <2>2
<1>9. CASE Transfer
  <2>1. pipe # <<>> /\ pipe' = Tail(pipe) /\ UNCHANGED <<daemon, client, queue>>
    BY <1>9 DEF Transfer
  <2>2. \A i \in DOMAIN pipe' : i \in Nat /\ i + 1 \in DOMAIN pipe /\ pipe'[i] = pipe[i + 1]
    BY <1>a, <2>1
  <2>3. \A i, j \in Nat : i + 1 = j + 1 => i = j
    OBVIOUS
  <2>4. QED
    BY <2>1, <2>2, <2>3 DEF GreetOK
<1>10. CASE ServerEnds
  <2>1. PICK n \in 1..Len(pipe) + 1 : pipe' = SubSeq(pipe, n, Len(pipe))
    BY <1>10 DEF ServerEnds
  <2>2. \A i \in DOMAIN pipe' : /\ i \in Nat /\ i + n - 1 \in DOMAIN pipe
                                /\ pipe'[i] = pipe[i + n - 1]
    BY <1>a, <2>1
  <2>3. \A i, j \in Nat : i + n - 1 = j + n - 1 => i = j
    OBVIOUS
  <2>4. UNCHANGED <<daemon, client, queue>>
    BY <1>10 DEF ServerEnds
  <2>5. QED
    BY <2>2, <2>3, <2>4 DEF GreetOK
<1>11. QED
  BY <1>1, <1>2, <1>3, <1>4, <1>5, <1>6, <1>7, <1>8, <1>9, <1>10
     DEF Next, Clients, ToolCalls, OtherCalls, SendCall, MainThread, JoinThread,
         DaemonCrash, Signal, ClientThread, Subscribe, Receive, LaunchServer, serving, vars

-----------------------------------------------------------------------------
(* The refinement.                                                         *)

LEMMA InitChannel == Init => Channel!Init
<1> SUFFICES ASSUME Init PROVE Channel!Init
  OBVIOUS
<1>1. inbox = <<>> /\ pipe = <<>> /\ queue = <<>>
  BY DEF Init
<1>2. OnTheWay = {}
  BY <1>1, ChangesEmpty DEF OnTheWay
<1>3. QED
  BY <1>2 DEF Init, Channel!Init

\* A step that moves no change in or out of the way connects, disconnects or is not seen.
LEMMA QuietStep ==
  ASSUME OnTheWay' = OnTheWay, UNCHANGED serving, accepted' = accepted
  PROVE  Channel!Next \/ UNCHANGED Channel!vars
<1>1. UNCHANGED <<server, applied, inForce>>
  BY DEF serving
<1>2. CASE (daemon' = "serving" /\ link' = "subscribed")
             <=> (daemon = "serving" /\ link = "subscribed")
  BY <1>1, <1>2 DEF Channel!vars
<1>3. CASE (daemon' = "serving" /\ link' = "subscribed")
           /\ ~ (daemon = "serving" /\ link = "subscribed")
  BY <1>1, <1>3 DEF Channel!Connect, Channel!Next
<1>4. CASE ~ (daemon' = "serving" /\ link' = "subscribed")
  BY <1>1, <1>4 DEF Channel!Disconnect, Channel!Next
<1>5. QED
  BY <1>2, <1>3, <1>4

\* The way is where it was.
LEMMA UnseenChannel ==
  ASSUME UNCHANGED <<inbox, pipe, queue, serving, accepted>>
  PROVE  Channel!Next \/ UNCHANGED Channel!vars
<1>1. OnTheWay' = OnTheWay
  BY DEF OnTheWay, Changes
<1>2. QED
  BY <1>1, QuietStep

\* The end of the daemon loses what the server has not received: the newest.
LEMMA DaemonEndsChannel ==
  ASSUME ControlInv, DaemonEnds
  PROVE  Channel!Next
<1>1. /\ daemon' = "off" /\ pipe' = <<>> /\ queue' = <<>> /\ UNCHANGED accepted
      /\ UNCHANGED <<inbox, server, applied, inForce>>
  BY DEF DaemonEnds, serving
<1>2. OnTheWay' = Changes(inbox)
  BY <1>1, ChangesEmpty DEF OnTheWay
<1>3. \A j \in OnTheWay', k \in OnTheWay \ OnTheWay' : j < k
  <2>1. \A j \in Changes(inbox), k \in Changes(pipe) \cup Changes(queue) : j < k
    BY ChangesBefore DEF ControlInv, PathOK
  <2>2. QED
    BY <1>2, <2>1 DEF OnTheWay
<1>4. OnTheWay' \subseteq OnTheWay
  BY <1>2 DEF OnTheWay
<1>5. Channel!Disconnect
  BY <1>1, <1>3, <1>4 DEF Channel!Disconnect
<1>6. QED
  BY <1>5 DEF Channel!Next

\* What is destroyed or closed on the way to the end is lost when the daemon no longer
\* serves.
LEMMA DropChannel ==
  ASSUME DestroyQueue \/ CheckRunning
  PROVE  Channel!Next \/ UNCHANGED Channel!vars
<1>1. CASE UNCHANGED <<pipe, queue>>
  BY <1>1, UnseenChannel DEF DestroyQueue, CheckRunning, serving
<1>2. CASE ~ UNCHANGED <<pipe, queue>>
  <2>1. /\ daemon \in {"leaving", "joining"} /\ daemon' \in {"destroyed", "joining"}
        /\ pipe' = pipe \/ pipe' = <<>>
        /\ queue' = queue \/ queue' = <<>>
        /\ UNCHANGED <<inbox, server, applied, inForce, accepted>>
    BY <1>2 DEF DestroyQueue, CheckRunning, serving
  <2>2. /\ Changes(pipe') \subseteq Changes(pipe) /\ Changes(queue') \subseteq Changes(queue)
        /\ Changes(inbox') = Changes(inbox)
    BY <2>1, ChangesEmpty
  <2>3. OnTheWay' \subseteq OnTheWay
    BY <2>2 DEF OnTheWay
  <2>4. Channel!Drop
    BY <2>1, <2>3 DEF Channel!Drop
  <2>5. QED
    BY <2>4 DEF Channel!Next
<1>3. QED
  BY <1>1, <1>2

\* A call that the object accepts.
LEMMA HandleCallChannel ==
  ASSUME ControlInv, HandleCall
  PROVE  Channel!Next \/ UNCHANGED Channel!vars
<1> DEFINE v == Head(calls).value
           m == [change |-> Len(accepted) + 1, value |-> v]
<1>1. calls # <<>> /\ UNCHANGED <<daemon, link, pipe, serving>>
  BY DEF HandleCall
<1>2. CASE ~ ObjectAccepts(v)
  BY <1>1, <1>2, UnseenChannel DEF HandleCall, serving
<1>3. CASE ObjectAccepts(v)
  <2>1. accepted' = Append(accepted, v) /\ queue' = Append(queue, m)
    BY <1>3 DEF HandleCall
  <2>2. v \in Values /\ v \in Int
    <3>1. Head(calls) \in Call
      BY <1>1 DEF ControlInv, TypeOK
    <3>2. QED
      BY <3>1, ControlAssumption DEF Call
  <2>3. m \in Message /\ m.change = Len(accepted) + 1 /\ m.change # 0
    BY <2>2 DEF Message, ControlInv, TypeOK
  <2> HIDE DEF m
  <2>4. Changes(queue') = Changes(queue) \cup {Len(accepted) + 1}
    BY <2>1, <2>3, ChangesAppend DEF ControlInv, TypeOK
  <2>5. OnTheWay' = OnTheWay \cup {Len(accepted) + 1}
    <3>1. Changes(inbox') = Changes(inbox) /\ Changes(pipe') = Changes(pipe)
      BY <1>1 DEF serving
    <3>2. QED
      BY <2>4, <3>1 DEF OnTheWay
  <2>6. v \in {w \in Values : ObjectAccepts(w)}
    BY <1>3, <2>2
  <2> HIDE DEF v
  <2>7. Channel!Accept(v)
    BY <1>1, <2>1, <2>5, <2>6 DEF Channel!Accept, serving
  <2>8. QED
    BY <2>6, <2>7 DEF Channel!Next
<1>4. QED
  BY <1>2, <1>3

\* The channel counts as this module does.
LEMMA SameCount == \A S : Channel!Cardinality(S) = Cardinality(S)
  BY DEF Channel!Cardinality, Cardinality

\* When libzmq has no room for the next change, the changes it keeps, one less when
\* one of them is a greeting, and that change are as many as it has room for.
LEMMA FullChannel ==
  ASSUME ChannelInv, queue # <<>>, Len(pipe) = HighWaterMark
  PROVE  Cardinality(OnTheWay) >= HighWaterMark
<1> DEFINE h == Head(queue).change
           f == [i \in 1..HighWaterMark |-> IF pipe[i].change = 0 THEN h ELSE pipe[i].change]
<1>1. /\ pipe \in Seq(Message) /\ queue \in Seq(Message) /\ accepted \in Seq(Int)
      /\ HighWaterMark \in Nat /\ DOMAIN pipe = 1..HighWaterMark
  BY ControlAssumption DEF ChannelInv, ControlInv, TypeOK
<1>2. 1 \in DOMAIN queue /\ queue[1] = Head(queue)
  BY <1>1
<1>3. h # 0 /\ h \in Changes(queue)
  BY <1>2 DEF ChannelInv, GreetOK, Changes
<1>4. \A i \in 1..HighWaterMark : pipe[i].change # 0 => pipe[i].change \in Changes(pipe)
  BY <1>1 DEF Changes
<1>5. \A k \in Changes(pipe) : k < h
  BY <1>3, ChangesBefore DEF ChannelInv, ControlInv, PathOK
<1>6. \A i, j \in 1..HighWaterMark :
        i < j /\ pipe[i].change # 0 /\ pipe[j].change # 0 => pipe[i].change < pipe[j].change
  BY <1>1 DEF ChannelInv, ControlInv, PathOK, Sorted, Older
<1>7. OnTheWay \subseteq 1..Len(accepted)
  BY ChangesType DEF ChannelInv, ControlInv
<1> HIDE DEF h
<1>8. \A i \in 1..HighWaterMark : f[i] \in OnTheWay
  BY <1>3, <1>4 DEF OnTheWay
<1>9. \A i, j \in 1..HighWaterMark : i < j => f[i] # f[j]
  <2> SUFFICES ASSUME NEW i \in 1..HighWaterMark, NEW j \in 1..HighWaterMark, i < j
               PROVE  f[i] # f[j]
    OBVIOUS
  <2>a. \A k \in 1..HighWaterMark : pipe[k].change # 0 => pipe[k].change < h
                                                        /\ pipe[k].change \in Int
    BY <1>4, <1>5, <1>7 DEF OnTheWay
  <2>1. CASE pipe[i].change # 0 /\ pipe[j].change # 0
    BY <1>6, <2>1, <2>a
  <2>2. CASE pipe[i].change = 0 /\ pipe[j].change # 0
    BY <2>2, <2>a
  <2>3. CASE pipe[i].change # 0 /\ pipe[j].change = 0
    BY <2>3, <2>a
  <2>4. CASE pipe[i].change = 0 /\ pipe[j].change = 0
    <3>1. i = j
      BY <1>1, <2>4 DEF ChannelInv, GreetOK
    <3>2. QED
      BY <3>1
  <2>5. QED
    BY <2>1, <2>2, <2>3, <2>4
<1>10. f \in Injection(1..HighWaterMark, OnTheWay)
  <2>1. \A i, j \in 1..HighWaterMark : i < j \/ j < i \/ i = j
    BY <1>1
  <2>2. \A i, j \in 1..HighWaterMark : f[i] = f[j] => i = j
    BY <1>9, <2>1
  <2>3. f \in [1..HighWaterMark -> OnTheWay]
    BY <1>8
  <2> HIDE DEF f
  <2>4. QED
    BY <2>2, <2>3 DEF Injection, IsInjective
<1>11. IsFiniteSet(OnTheWay)
  <2>1. IsFiniteSet(1..Len(accepted))
    BY <1>1, FS_Interval
  <2>2. QED
    BY <1>7, <2>1, FS_Subset
<1> HIDE DEF f
<1>12. Cardinality(1..HighWaterMark) <= Cardinality(OnTheWay)
  BY <1>10, <1>11, FS_Injection
<1>13. Cardinality(1..HighWaterMark) = HighWaterMark
  <2>1. Cardinality(1..HighWaterMark) = IF 1 > HighWaterMark THEN 0 ELSE HighWaterMark - 1 + 1
    BY <1>1, FS_Interval
  <2>2. QED
    BY <1>1, <2>1
<1>14. Cardinality(OnTheWay) \in Nat
  BY <1>11, FS_CardinalityType
<1>15. QED
  BY <1>1, <1>12, <1>13, <1>14

\* The queue's first change moves on, or is dropped for want of a server or of room.
LEMMA SendQueuedChannel ==
  ASSUME ChannelInv, SendQueued
  PROVE  Channel!Next \/ UNCHANGED Channel!vars
<1> DEFINE h == Head(queue).change
<1>1. /\ queue # <<>> /\ queue' = Tail(queue)
      /\ UNCHANGED <<daemon, link, inbox, server, inForce, applied, accepted>>
      /\ pipe' = IF link = "subscribed" /\ Len(pipe) < HighWaterMark
                 THEN Append(pipe, Head(queue)) ELSE pipe
  BY DEF SendQueued, Publish, serving
<1>2. /\ pipe \in Seq(Message) /\ queue \in Seq(Message) /\ Head(queue) \in Message
      /\ Len(pipe) <= HighWaterMark /\ HighWaterMark \in Nat
  BY <1>1, ControlAssumption DEF ChannelInv, ControlInv, TypeOK
<1>3. h # 0
  <2>1. 1 \in DOMAIN queue /\ queue[1] = Head(queue)
    BY <1>1, <1>2
  <2>2. QED
    BY <2>1 DEF ChannelInv, GreetOK
<1>4. Changes(queue) = {h} \cup Changes(queue')
  BY <1>1, <1>2, <1>3, ChangesTail
<1>5. CASE pipe' = Append(pipe, Head(queue))
  <2>1. Changes(pipe') = Changes(pipe) \cup {h}
    BY <1>2, <1>3, <1>5, ChangesAppend
  <2>2. OnTheWay' = OnTheWay
    BY <1>1, <1>4, <2>1 DEF OnTheWay
  <2>3. QED
    BY <1>1, <2>2, QuietStep DEF serving
<1>6. CASE pipe' = pipe
  <2>1. OnTheWay' = OnTheWay \ {h}
    <3>1. h \notin Changes(queue')
      <4>1. \A k \in Changes(queue') : h < k
        BY <1>1, <1>2, <1>3, ChangesHead DEF ChannelInv, ControlInv, PathOK
      <4>2. h \in Int
        BY <1>2 DEF Message
      <4>3. QED
        BY <4>1, <4>2
    <3>2. h \notin Changes(inbox) /\ h \notin Changes(pipe)
      <4>1. /\ \A k \in Changes(inbox) : k < h
            /\ \A k \in Changes(pipe) : k < h
        BY <1>4, ChangesBefore DEF ChannelInv, ControlInv, PathOK
      <4>2. h \in Int
        BY <1>2 DEF Message
      <4>3. QED
        BY <4>1, <4>2
    <3>3. Changes(inbox') = Changes(inbox) /\ Changes(pipe') = Changes(pipe)
      BY <1>1, <1>6
    <3> HIDE DEF h
    <3>4. QED
      BY <1>4, <3>1, <3>2, <3>3 DEF OnTheWay
  <2>2. CASE link # "subscribed"
    <3>1. Channel!Drop
      BY <1>1, <2>1, <2>2 DEF Channel!Drop
    <3>2. QED
      BY <3>1 DEF Channel!Next
  <2>3. CASE link = "subscribed"
    <3>1. Len(pipe) = HighWaterMark
      <4>1. ~ (Len(pipe) < HighWaterMark)
        <5>1. Append(pipe, Head(queue)) # pipe
          BY <1>2
        <5>2. QED
          BY <1>1, <1>6, <2>3, <5>1
      <4>2. QED
        BY <1>2, <4>1
    <3>2. Cardinality(OnTheWay) >= HighWaterMark
      BY <1>1, <3>1, FullChannel
    <3>3. h \in OnTheWay
      BY <1>4 DEF OnTheWay
    <3> HIDE DEF h
    <3>4. Channel!Overflow
      <4>1. \E k \in OnTheWay : OnTheWay' = OnTheWay \ {k}
        BY <2>1, <3>3
      <4>2. UNCHANGED <<accepted, applied, inForce,
                        daemon = "serving" /\ link = "subscribed", server = "up">>
        BY <1>1
      <4>3. QED
        BY <3>2, <4>1, <4>2, SameCount DEF Channel!Overflow
    <3>5. QED
      BY <3>4 DEF Channel!Next
  <2>4. QED
    BY <2>2, <2>3
<1>7. QED
  BY <1>1, <1>5, <1>6

\* A greeting is no change, and a message that libzmq moves stays on the way.
LEMMA MoveChannel ==
  ASSUME ControlInv, SendHello \/ Transfer
  PROVE  Channel!Next \/ UNCHANGED Channel!vars
<1>a. pipe \in Seq(Message) /\ inbox \in Seq(Message)
  BY DEF ControlInv, TypeOK
<1>1. CASE SendHello
  <2>1. UNCHANGED <<inbox, queue, serving, accepted>>
        /\ (pipe' = pipe \/ pipe' = Append(pipe, Hello))
    BY <1>1 DEF SendHello, Publish, serving
  <2>2. Changes(Append(pipe, Hello)) = Changes(pipe)
    <3>1. Changes(Append(pipe, Hello)) = Changes(pipe) \cup ({Hello.change} \ {0})
      BY <1>a, HelloType, ChangesAppend
    <3>2. Hello.change = 0
      BY DEF Hello
    <3>3. QED
      BY <3>1, <3>2
  <2>3. OnTheWay' = OnTheWay
    BY <2>1, <2>2 DEF OnTheWay
  <2>4. QED
    BY <2>1, <2>3, QuietStep
<1>2. CASE Transfer
  <2>1. /\ pipe # <<>> /\ pipe' = Tail(pipe) /\ inbox' = Append(inbox, Head(pipe))
        /\ UNCHANGED <<queue, server, inForce, applied, accepted>>
        /\ UNCHANGED <<daemon, link>>
    BY <1>2 DEF Transfer
  <2>2. Changes(pipe) = ({Head(pipe).change} \ {0}) \cup Changes(pipe')
    BY <1>a, <2>1, ChangesTail
  <2>3. Changes(inbox') = Changes(inbox) \cup ({Head(pipe).change} \ {0})
    <3>1. Head(pipe) \in Message
      BY <1>a, <2>1
    <3>2. QED
      BY <1>a, <2>1, <3>1, ChangesAppend
  <2>4. OnTheWay' = OnTheWay
    BY <2>1, <2>2, <2>3 DEF OnTheWay
  <2>5. UNCHANGED Channel!vars
    BY <2>1, <2>4 DEF Channel!vars
  <2>6. QED
    BY <2>5
<1>3. QED
  BY <1>1, <1>2

\* The server puts the oldest change in force, or ignores a greeting.
LEMMA ReceiveChannel ==
  ASSUME ControlInv, Receive
  PROVE  Channel!Next \/ UNCHANGED Channel!vars
<1> DEFINE h == Head(inbox).change
<1>1. /\ server = "up" /\ inbox # <<>> /\ inbox' = Tail(inbox)
      /\ UNCHANGED <<daemon, queue, link, pipe, server, accepted>>
  BY DEF Receive
<1>2. inbox \in Seq(Message) /\ Head(inbox) \in Message
  BY <1>1 DEF ControlInv, TypeOK
<1>3. Changes(inbox) = ({h} \ {0}) \cup Changes(inbox')
  BY <1>1, <1>2, ChangesTail
<1>4. CASE Head(inbox) = Hello
  <2>1. Changes(inbox') = Changes(inbox)
    BY <1>3, <1>4 DEF Hello
  <2>2. OnTheWay' = OnTheWay /\ UNCHANGED <<inForce, applied>>
    BY <1>1, <1>4, <2>1 DEF OnTheWay, Receive
  <2>3. UNCHANGED Channel!vars
    BY <1>1, <2>2 DEF Channel!vars
  <2>4. QED
    BY <2>3
<1>5. CASE Head(inbox) # Hello
  <2>1. inForce' = Head(inbox).value /\ applied' = h
    BY <1>5 DEF Receive
  <2>2. Sound(Head(inbox), accepted, applied)
    <3>1. 1 \in DOMAIN inbox /\ Head(inbox) = inbox[1]
      BY <1>1, <1>2
    <3>2. QED
      BY <3>1 DEF ControlInv, PathOK, AllSound
  <2>3. h \in 1..Len(accepted) /\ h # 0 /\ h \in Int /\ Head(inbox).value = accepted[h]
    BY <1>2, <1>5, <2>2 DEF Sound, Message
  <2>4. /\ h \in Changes(inbox)
        /\ \A k \in Changes(inbox') \cup Changes(pipe) \cup Changes(queue) : h < k
    <3>1. h \in Changes(inbox)
      BY <1>3, <2>3
    <3>2. \A k \in Changes(inbox') : h < k
      BY <1>1, <1>2, <2>3, ChangesHead DEF ControlInv, PathOK
    <3>3. \A k \in Changes(pipe) \cup Changes(queue) : h < k
      BY <3>1, ChangesBefore DEF ControlInv, PathOK
    <3>4. QED
      BY <3>1, <3>2, <3>3
  <2> HIDE DEF h
  <2>5. \A k \in OnTheWay : h <= k
    <3>1. OnTheWay \subseteq Int
      BY ChangesType DEF ControlInv
    <3>2. \A k \in OnTheWay : k = h \/ h < k
      BY <1>3, <2>4 DEF OnTheWay
    <3>3. QED
      BY <2>3, <3>1, <3>2
  <2>6. OnTheWay' = OnTheWay \ {h}
    <3>1. h \notin Changes(inbox') \cup Changes(pipe) \cup Changes(queue)
      BY <2>3, <2>4
    <3>2. Changes(pipe') = Changes(pipe) /\ Changes(queue') = Changes(queue)
      BY <1>1
    <3>3. QED
      BY <1>3, <2>3, <3>1, <3>2 DEF OnTheWay
  <2>7. h \in OnTheWay
    BY <2>4 DEF OnTheWay
  <2>8. Channel!Apply(h)
    BY <1>1, <2>1, <2>3, <2>5, <2>6, <2>7 DEF Channel!Apply
  <2>9. QED
    BY <2>7, <2>8 DEF Channel!Next
<1>6. QED
  BY <1>4, <1>5

\* The start of the server puts a value in force; its end loses what it has received
\* and what was on the way to it: the oldest.
LEMMA ServerChannel ==
  ASSUME ControlInv, LaunchServer \/ ServerEnds
  PROVE  Channel!Next \/ UNCHANGED Channel!vars
<1>1. CASE LaunchServer
  <2>1. /\ server = "off" /\ server' = "up"
        /\ inForce' \in {DefaultLife} \cup {accepted[i] : i \in 1..applied}
        /\ UNCHANGED <<daemon, link, inbox, pipe, queue, applied, accepted>>
    BY <1>1 DEF LaunchServer
  <2>2. OnTheWay' = OnTheWay
    BY <2>1 DEF OnTheWay, Changes
  <2>3. Channel!Start
    BY <2>1, <2>2 DEF Channel!Start
  <2>4. QED
    BY <2>3 DEF Channel!Next
<1>2. CASE ServerEnds
  <2>1. /\ server = "up" /\ server' = "off" /\ inbox' = <<>>
        /\ UNCHANGED <<daemon, link, queue, inForce, applied, accepted>>
    BY <1>2 DEF ServerEnds
  <2>2. PICK n \in 1..Len(pipe) + 1 : pipe' = SubSeq(pipe, n, Len(pipe))
    BY <1>2 DEF ServerEnds
  <2>3. /\ Changes(pipe') \subseteq Changes(pipe)
        /\ \A j \in Changes(pipe) \ Changes(pipe'), k \in Changes(pipe') : j < k
    BY <2>2, ChangesPart DEF ControlInv, TypeOK, PathOK
  <2>4. /\ \A j \in Changes(inbox), k \in Changes(pipe) \cup Changes(queue) : j < k
        /\ \A j \in Changes(pipe), k \in Changes(queue) : j < k
    BY ChangesBefore DEF ControlInv, PathOK
  <2>5. OnTheWay' = Changes(pipe') \cup Changes(queue)
    <3>1. Changes(inbox') = {} /\ Changes(queue') = Changes(queue)
      BY <2>1, ChangesEmpty
    <3>2. QED
      BY <3>1 DEF OnTheWay
  <2>6. \A j \in OnTheWay \ OnTheWay', k \in OnTheWay' : j < k
    BY <2>3, <2>4, <2>5 DEF OnTheWay
  <2>7. OnTheWay' \subseteq OnTheWay
    BY <2>3, <2>5 DEF OnTheWay
  <2>8. Channel!Stop
    BY <2>1, <2>6, <2>7 DEF Channel!Stop
  <2>9. QED
    BY <2>8 DEF Channel!Next
<1>3. QED
  BY <1>1, <1>2

\* Every step is a step of the channel, or none.
LEMMA NextChannel == ChannelInv /\ [Next]_vars => [Channel!Next]_Channel!vars
<1> SUFFICES ASSUME ChannelInv, [Next]_vars
             PROVE  Channel!Next \/ UNCHANGED Channel!vars
  OBVIOUS
<1>a. ControlInv
  BY DEF ChannelInv
<1>1. CASE UNCHANGED <<inbox, pipe, queue, serving, accepted>>
  BY <1>1, UnseenChannel
<1>2. QED
  BY <1>a, <1>1, DaemonEndsChannel, DropChannel, HandleCallChannel, SendQueuedChannel,
     MoveChannel, ReceiveChannel, ServerChannel
     DEF Next, Clients, ToolCalls, OtherCalls, SendCall, StartDaemon, MainThread,
         InstallHandlers, BuildServer, LeaveLoop, ClearRunning, JoinThread, DaemonCrash,
         Signal, HandleSignal, ClientThread, ClientConnect, SentAll, SendDestroyed,
         Subscribe, serving, vars

\* The object, the queue, the threads, libzmq and the server (RpiFanServeObject.cpp:13-19
\* to zmq_dbus_server.hpp:59-84) implement one channel that delivers changes in their
\* order and loses them only as ChangeChannel says.
THEOREM PathImplementsChannel == Spec => ImplementsChannel
<1>1. Init => ChannelInv
  BY InitControl, InitGreet DEF ChannelInv
<1>2. ChannelInv /\ [Next]_vars => ChannelInv'
  BY NextControl, NextGreet DEF ChannelInv, ControlInv
<1>3. QED
  BY <1>1, <1>2, InitChannel, NextChannel, PTL DEF Spec, ImplementsChannel, Channel!Spec
=============================================================================
