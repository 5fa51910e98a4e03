-------------------------- MODULE SocketLockerProofs --------------------------
(* Proofs about SocketLocker, for any number of servers, daemons and inodes. *)
EXTENDS SocketLocker, TLAPS

\* Lock files are absent or as the program leaves them: none has to be replaced.
NoRepair == LockModes \subseteq {"none", "good"}

-----------------------------------------------------------------------------
(* The inductive invariant behind OneInstance: files at the lock paths stay, *)
(* and whoever has opened one has opened the one that is there.              *)

GoodLocks == \A k \in Kinds : lockFile[k] # NoFile => mode[lockFile[k]] = "good"

NoDelete == \A p \in Procs : pc[p] # "delete lock"

LockFound ==
  \A p \in Procs :
    pc[p] \in {"regular lock", "status lock", "flock"} \cup Locked
      => lockFile[Kind(p)] # NoFile

LockOpened ==
  \A p \in Procs : pc[p] \in {"flock"} \cup Locked => lockFd[p] = lockFile[Kind(p)]

LockHeld == \A p \in Procs : pc[p] \in Locked => holder[lockFd[p]] = p

LockInv == TypeOK /\ GoodLocks /\ NoDelete /\ LockFound /\ LockOpened /\ LockHeld

\* A process locks the file of its own kind.
LEMMA KindType == \A p \in Procs : Kind(p) \in Kinds
  BY DEF Kind, Kinds

\* The initial state is well typed.
LEMMA InitType == Init => TypeOK
<1> SUFFICES ASSUME Init PROVE TypeOK
  OBVIOUS
<1> USE LockerAssumption DEF Init
<1>1. PICK found \in [Kinds -> LockModes], file \in [Kinds -> Inodes] :
        /\ lockFile = [k \in Kinds |-> IF found[k] = "none" THEN NoFile ELSE file[k]]
        /\ mode = [i \in Inodes |->
                     IF i = file["server"] /\ found["server"] # "none"
                     THEN found["server"]
                     ELSE IF i = file["daemon"] /\ found["daemon"] # "none"
                     THEN found["daemon"] ELSE "good"]
  OBVIOUS
<1>2. lockFile \in [Kinds -> Inodes \cup {NoFile}]
  BY <1>1
<1>3. mode \in [Inodes -> Modes]
  <2>1. "server" \in Kinds /\ "daemon" \in Kinds
    BY DEF Kinds
  <2>2. /\ found["server"] # "none" => found["server"] \in Modes
        /\ found["daemon"] # "none" => found["daemon"] \in Modes
    BY <2>1
  <2>3. QED
    BY <1>1, <2>2 DEF Modes
<1>4. socket \in SocketStates
  BY DEF NothingThere, SocketStates
<1>5. pc \in [Procs -> {"off", "refused"} \cup InLock \cup Locked]
  OBVIOUS
<1>6. QED
  BY <1>2, <1>3, <1>4, <1>5 DEF TypeOK

\* Every file-system call preserves the types.
LEMMA NextType == TypeOK /\ [Next]_vars => TypeOK'
<1> SUFFICES ASSUME TypeOK, [Next]_vars PROVE TypeOK'
  OBVIOUS
<1> USE LockerAssumption DEF TypeOK, locks
<1>a. ASSUME NEW p \in Procs, NEW l \in {"off", "refused"} \cup InLock \cup Locked, Goto(p, l)
      PROVE  pc' \in [Procs -> {"off", "refused"} \cup InLock \cup Locked]
  BY <1>a DEF Goto
<1>b. NothingThere \in SocketStates /\ PlainFile \in SocketStates
  BY DEF NothingThere, PlainFile, SocketStates
<1>1. ASSUME NEW p \in Procs,
             Start(p) \/ FindLock(p) \/ CheckRegular(p) \/ CheckMode(p) \/ FindDir(p)
               \/ CheckDir(p) \/ FindSocket(p) \/ CheckSocket(p) \/ CheckSocketMode(p)
      PROVE  TypeOK'
  <2>1. \E l \in {"off", "refused"} \cup InLock \cup Locked : Goto(p, l)
    BY <1>1 DEF Start, FindLock, CheckRegular, CheckMode, FindDir, CheckDir, FindSocket,
       CheckSocket, CheckSocketMode, InLock, Locked, InDir, InSocket
  <2>2. UNCHANGED <<locks, dir, socket>>
    BY <1>1 DEF Start, FindLock, CheckRegular, CheckMode, FindDir, CheckDir, FindSocket,
       CheckSocket, CheckSocketMode
  <2>3. QED
    BY <1>a, <2>1, <2>2
<1>2. ASSUME NEW p \in Procs, DeleteLock(p) PROVE TypeOK'
  BY <1>2, <1>a, KindType DEF DeleteLock, InLock
<1>3. ASSUME NEW p \in Procs, OpenLock(p) PROVE TypeOK'
  <2>1. pc' \in [Procs -> {"off", "refused"} \cup InLock \cup Locked]
    BY <1>3, <1>a DEF OpenLock, InLock
  <2>2. CASE lockFile[Kind(p)] # NoFile
    BY <1>3, <2>1, <2>2, KindType DEF OpenLock
  <2>3. CASE lockFile[Kind(p)] = NoFile
    <3>1. PICK i \in Inodes :
            /\ lockFile' = [lockFile EXCEPT ![Kind(p)] = i]
            /\ mode' = [mode EXCEPT ![i] = "good"]
            /\ lockFd' = [lockFd EXCEPT ![p] = i]
      BY <1>3, <2>3 DEF OpenLock
    <3>2. QED
      BY <1>3, <2>1, <3>1, KindType DEF OpenLock, Modes
  <2>4. QED
    BY <2>2, <2>3
<1>4. ASSUME NEW p \in Procs, Flock(p) PROVE TypeOK'
  <2>1. pc' \in [Procs -> {"off", "refused"} \cup InLock \cup Locked]
    BY <1>4, <1>a DEF Flock, Refuse, Locked, InDir
  <2>2. /\ holder' = holder \/ holder' = [holder EXCEPT ![lockFd[p]] = p]
        /\ m_lockFd' = m_lockFd \/ m_lockFd' = [m_lockFd EXCEPT ![p] = 0]
    BY <1>4 DEF Flock
  <2>3. UNCHANGED <<lockFile, mode, lockFd, dir, socket>>
    BY <1>4 DEF Flock
  <2>4. QED
    BY <2>1, <2>2, <2>3
<1>5. ASSUME NEW p \in Procs, DeleteDir(p) \/ CreateDir(p) PROVE TypeOK'
  <2>1. pc' \in [Procs -> {"off", "refused"} \cup InLock \cup Locked]
    BY <1>5, <1>a DEF DeleteDir, CreateDir, Refuse, Locked, InDir, InSocket
  <2>2. QED
    BY <1>5, <1>b, <2>1 DEF DeleteDir, CreateDir
<1>6. ASSUME NEW p \in Procs, DeleteSocket(p) \/ CreateSocket(p) PROVE TypeOK'
  <2>1. pc' \in [Procs -> {"off", "refused"} \cup InLock \cup Locked]
    BY <1>6, <1>a DEF DeleteSocket, CreateSocket, Refuse, Locked, InSocket
  <2>2. QED
    BY <1>6, <1>b, <2>1 DEF DeleteSocket, CreateSocket
<1>7. ASSUME NEW p \in Procs, Bind(p) \/ CloseSocket(p) PROVE TypeOK'
  <2>1. pc' \in [Procs -> {"off", "refused"} \cup InLock \cup Locked]
    BY <1>7, <1>a DEF Bind, CloseSocket, Locked
  <2>2. socket' \in SocketStates
    BY <1>7, <1>b DEF Bind, CloseSocket, SocketStates
  <2>3. QED
    BY <1>7, <2>1, <2>2 DEF Bind, CloseSocket
<1>8. ASSUME NEW p \in Procs, Exit(p) PROVE TypeOK'
  <2>1. pc' \in [Procs -> {"off", "refused"} \cup InLock \cup Locked]
    BY <1>8, <1>a DEF Exit
  <2>2. socket' \in SocketStates
    BY <1>8 DEF Exit, SocketStates
  <2>3. QED
    BY <1>8, <2>1, <2>2 DEF Exit
<1>9. CASE UNCHANGED vars
  BY <1>9 DEF vars
<1>10. QED
  BY <1>1, <1>2, <1>3, <1>4, <1>5, <1>6, <1>7, <1>8, <1>9
     DEF Next, TryLock, CheckCleanSocket

\* Lock files, paths and locations have their types in every reachable state
\* (socket_locker.hpp:26-290), whatever is found at the paths.
THEOREM TypeCorrect == Spec => []TypeOK
  BY InitType, NextType, PTL DEF Spec

-----------------------------------------------------------------------------
(* One instance.                                                           *)

\* A step that leaves the lock files alone keeps the invariant, if it does not lead
\* to where an open or locked file is relied on.
LEMMA MoveKeeps ==
  ASSUME LockInv, NEW p \in Procs, NEW l, Goto(p, l), UNCHANGED locks, l # "delete lock",
         l \in {"regular lock", "status lock"} => lockFile[Kind(p)] # NoFile,
         l \in Locked => pc[p] \in Locked, l # "flock"
  PROVE  GoodLocks' /\ NoDelete' /\ LockFound' /\ LockOpened' /\ LockHeld'
<1>1. \A q \in Procs : pc'[q] = IF q = p THEN l ELSE pc[q]
  BY DEF LockInv, TypeOK, Goto
<1>2. UNCHANGED <<lockFile, mode, lockFd, holder>>
  BY DEF locks
<1>3. QED
  BY <1>1, <1>2
     DEF LockInv, GoodLocks, NoDelete, LockFound, LockOpened, LockHeld, Kind

\* Without a lock file to repair the invariant holds in the initial state.
LEMMA InitLock == NoRepair /\ Init => LockInv
<1> SUFFICES ASSUME NoRepair, Init PROVE LockInv
  OBVIOUS
<1>1. TypeOK
  BY InitType
<1>2. GoodLocks
  <2>1. PICK found \in [Kinds -> LockModes], file \in [Kinds -> Inodes] :
          /\ file["server"] # file["daemon"]
          /\ lockFile = [k \in Kinds |-> IF found[k] = "none" THEN NoFile ELSE file[k]]
          /\ mode = [i \in Inodes |->
                       IF i = file["server"] /\ found["server"] # "none"
                       THEN found["server"]
                       ELSE IF i = file["daemon"] /\ found["daemon"] # "none"
                       THEN found["daemon"] ELSE "good"]
    BY DEF Init
  <2>2. found["server"] \in {"none", "good"} /\ found["daemon"] \in {"none", "good"}
    BY <2>1 DEF NoRepair, Kinds
  <2>3. \A i \in Inodes : mode[i] = "good"
    BY <2>1, <2>2
  <2>4. QED
    BY <1>1, <2>3 DEF GoodLocks, TypeOK
<1>3. \A p \in Procs : pc[p] = "off"
  BY DEF Init
<1>4. QED
  BY <1>1, <1>2, <1>3
     DEF LockInv, NoDelete, LockFound, LockOpened, LockHeld, Locked, InDir, InSocket

\* Every file-system call preserves it.
LEMMA NextLock == LockInv /\ [Next]_vars => LockInv'
<1> SUFFICES ASSUME LockInv, [Next]_vars
             PROVE  GoodLocks' /\ NoDelete' /\ LockFound' /\ LockOpened' /\ LockHeld'
  BY NextType DEF LockInv
<1> USE LockerAssumption DEF LockInv
<1>1. ASSUME NEW p \in Procs,
             Start(p) \/ FindLock(p) \/ CheckRegular(p) \/ CheckMode(p)
      PROVE  GoodLocks' /\ NoDelete' /\ LockFound' /\ LockOpened' /\ LockHeld'
  <2>1. /\ UNCHANGED locks
        /\ \E l \in {"exists lock", "open", "regular lock", "status lock"} :
             Goto(p, l) /\ (l \in {"regular lock", "status lock"} => lockFile[Kind(p)] # NoFile)
    <3>1. lockFile[Kind(p)] # NoFile => mode[lockFile[Kind(p)]] = "good"
      BY KindType DEF GoodLocks
    <3>2. pc[p] \in {"regular lock", "status lock"} => lockFile[Kind(p)] # NoFile
      BY DEF LockFound
    <3>3. QED
      BY <1>1, <3>1, <3>2 DEF Start, FindLock, CheckRegular, CheckMode
  <2>2. QED
    BY <2>1, MoveKeeps DEF Locked, InDir, InSocket
<1>2. ASSUME NEW p \in Procs,
             FindDir(p) \/ CheckDir(p) \/ DeleteDir(p) \/ CreateDir(p) \/ FindSocket(p)
               \/ CheckSocket(p) \/ CheckSocketMode(p) \/ DeleteSocket(p) \/ CreateSocket(p)
               \/ Bind(p) \/ CloseSocket(p)
      PROVE  GoodLocks' /\ NoDelete' /\ LockFound' /\ LockOpened' /\ LockHeld'
  <2>1. /\ UNCHANGED locks /\ pc[p] \in Locked
        /\ \E l \in {"refused"} \cup Locked : Goto(p, l)
    BY <1>2 DEF FindDir, CheckDir, DeleteDir, CreateDir, FindSocket, CheckSocket,
       CheckSocketMode, DeleteSocket, CreateSocket, Bind, CloseSocket, Refuse,
       Locked, InDir, InSocket
  <2>2. QED
    BY <2>1, MoveKeeps DEF Locked, InDir, InSocket
<1>3. ASSUME NEW p \in Procs, DeleteLock(p) PROVE FALSE
  BY <1>3 DEF DeleteLock, NoDelete
<1>4. ASSUME NEW p \in Procs, OpenLock(p)
      PROVE  GoodLocks' /\ NoDelete' /\ LockFound' /\ LockOpened' /\ LockHeld'
  <2>1. /\ pc[p] = "open" /\ holder' = holder
        /\ \A q \in Procs : pc'[q] = IF q = p THEN "flock" ELSE pc[q]
    BY <1>4 DEF OpenLock, Goto, TypeOK
  <2>2. Kind(p) \in Kinds
    BY KindType
  <2>3. PICK i \in Inodes :
          /\ lockFile[Kind(p)] = i \/ (lockFile[Kind(p)] = NoFile /\ Unused(i))
          /\ \A k \in Kinds : lockFile'[k] = IF k = Kind(p) THEN i ELSE lockFile[k]
          /\ \A j \in Inodes : mode'[j] = mode[j] \/ mode'[j] = "good"
          /\ mode'[i] = "good"
          /\ \A q \in Procs : lockFd'[q] = IF q = p THEN i ELSE lockFd[q]
    <3>1. CASE lockFile[Kind(p)] # NoFile
      <4>1. lockFile[Kind(p)] \in Inodes /\ mode[lockFile[Kind(p)]] = "good"
        BY <2>2, <3>1 DEF TypeOK, GoodLocks
      <4>2. /\ UNCHANGED <<lockFile, mode>>
            /\ \A q \in Procs : lockFd'[q] = IF q = p THEN lockFile[Kind(p)] ELSE lockFd[q]
        BY <1>4, <3>1 DEF OpenLock, TypeOK
      <4>3. QED
        BY <4>1, <4>2
    <3>2. CASE lockFile[Kind(p)] = NoFile
      BY <1>4, <2>2, <3>2 DEF OpenLock, TypeOK
    <3>3. QED
      BY <3>1, <3>2
  <2>4. GoodLocks'
    BY <2>3 DEF GoodLocks, TypeOK
  <2>5. NoDelete' /\ LockFound'
    <3>1. NoDelete'
      BY <2>1 DEF NoDelete
    <3>2. ASSUME NEW q \in Procs, lockFile[Kind(q)] # NoFile \/ q = p
          PROVE  lockFile'[Kind(q)] # NoFile
      BY <2>3, <3>2, KindType
    <3>3. LockFound'
      BY <2>1, <3>2 DEF LockFound, Kind
    <3>4. QED
      BY <3>1, <3>3
  <2>6. LockOpened' /\ LockHeld'
    <3>1. ASSUME NEW q \in Procs, q # p, pc[q] \in {"flock"} \cup Locked
          PROVE  lockFd'[q] = lockFile'[Kind(q)] /\ lockFd'[q] = lockFd[q]
      <4>1. lockFd[q] = lockFile[Kind(q)] /\ lockFile[Kind(q)] # NoFile
        BY <3>1 DEF LockOpened, LockFound
      <4>2. Kind(q) \in Kinds
        BY KindType
      <4>3. lockFile'[Kind(q)] = lockFile[Kind(q)]
        BY <2>3, <4>1, <4>2
      <4>4. QED
        BY <2>3, <3>1, <4>1, <4>3
    <3>2. lockFd'[p] = lockFile'[Kind(p)]
      BY <2>2, <2>3
    <3>3. LockOpened'
      BY <2>1, <3>1, <3>2 DEF LockOpened, Kind
    <3>4. LockHeld'
      BY <2>1, <3>1 DEF LockHeld, Locked, InDir, InSocket
    <3>5. QED
      BY <3>3, <3>4
  <2>7. QED
    BY <2>4, <2>5, <2>6
<1>5. ASSUME NEW p \in Procs, Flock(p)
      PROVE  GoodLocks' /\ NoDelete' /\ LockFound' /\ LockOpened' /\ LockHeld'
  <2>1. pc[p] = "flock" /\ UNCHANGED <<lockFile, mode, lockFd>>
    BY <1>5 DEF Flock
  <2>2. lockFd[p] \in Inodes
    BY <2>1, KindType DEF LockOpened, LockFound, TypeOK
  <2>3. CASE holder[lockFd[p]] = NoProc
    <3>1. /\ \A q \in Procs : pc'[q] = IF q = p THEN "exists dir" ELSE pc[q]
          /\ \A i \in Inodes : holder'[i] = IF i = lockFd[p] THEN p ELSE holder[i]
      BY <1>5, <2>3 DEF Flock, Goto, TypeOK
    <3>2. ASSUME NEW q \in Procs, pc[q] \in Locked
          PROVE  lockFd[q] \in Inodes /\ lockFd[q] # lockFd[p]
      <4>1. lockFd[q] = lockFile[Kind(q)] /\ lockFile[Kind(q)] # NoFile
        BY <3>2 DEF LockOpened, LockFound
      <4>2. lockFile[Kind(q)] \in Inodes
        BY <4>1, KindType DEF TypeOK
      <4>3. holder[lockFd[q]] = q /\ q # NoProc
        BY <3>2 DEF LockHeld
      <4>4. QED
        BY <2>3, <4>1, <4>2, <4>3
    <3>3. LockHeld'
      BY <2>1, <2>2, <3>1, <3>2 DEF LockHeld
    <3>4. GoodLocks' /\ NoDelete'
      BY <2>1, <3>1 DEF GoodLocks, NoDelete
    <3>5. lockFile[Kind(p)] # NoFile /\ lockFd[p] = lockFile[Kind(p)]
      BY <2>1 DEF LockFound, LockOpened
    <3>6. LockFound' /\ LockOpened'
      BY <2>1, <3>1, <3>5 DEF LockFound, LockOpened, Kind
    <3>7. QED
      BY <3>3, <3>4, <3>6
  <2>4. CASE holder[lockFd[p]] # NoProc
    <3>1. Goto(p, "refused") /\ UNCHANGED locks
      BY <1>5, <2>4 DEF Flock, Refuse, locks
    <3>2. QED
      BY <3>1, MoveKeeps DEF Locked, InDir, InSocket
  <2>5. QED
    BY <2>3, <2>4
<1>6. ASSUME NEW p \in Procs, Exit(p)
      PROVE  GoodLocks' /\ NoDelete' /\ LockFound' /\ LockOpened' /\ LockHeld'
  <2>1. /\ \A q \in Procs : pc'[q] = IF q = p THEN "off" ELSE pc[q]
        /\ \A q \in Procs : q # p => lockFd'[q] = lockFd[q]
        /\ \A i \in Inodes : holder[i] # p => holder'[i] = holder[i]
        /\ UNCHANGED <<lockFile, mode>>
    BY <1>6 DEF Exit, Goto, TypeOK
  <2>2. \A q \in Procs : pc[q] \in Locked => lockFd[q] \in Inodes
    BY KindType DEF LockOpened, LockFound, TypeOK
  <2>3. LockHeld'
    <3>1. SUFFICES ASSUME NEW q \in Procs, pc'[q] \in Locked
                   PROVE  holder'[lockFd'[q]] = q
      BY DEF LockHeld
    <3>2. q # p /\ pc[q] \in Locked
      BY <2>1, <3>1 DEF Locked, InDir, InSocket
    <3>3. lockFd'[q] = lockFd[q] /\ lockFd[q] \in Inodes /\ holder[lockFd[q]] = q
      BY <2>1, <2>2, <3>2 DEF LockHeld
    <3>4. QED
      BY <2>1, <3>2, <3>3
  <2>4. QED
    BY <2>1, <2>3
       DEF GoodLocks, NoDelete, LockFound, LockOpened, Locked, InDir, InSocket, Kind
<1>7. CASE UNCHANGED vars
  BY <1>7 DEF vars, GoodLocks, NoDelete, LockFound, LockOpened, LockHeld, Kind
<1>8. QED
  BY <1>1, <1>2, <1>3, <1>4, <1>5, <1>6, <1>7 DEF Next, TryLock, CheckCleanSocket

\* Who is past try_lock holds the file at the path.
LEMMA LockedInPlace == LockInv => LockInPlace
<1> SUFFICES ASSUME LockInv, NEW p \in Procs, pc[p] \in Locked
             PROVE  /\ lockFd[p] \in Inodes
                    /\ lockFile[Kind(p)] = lockFd[p]
                    /\ holder[lockFd[p]] = p
                    /\ mode[lockFd[p]] = "good"
  BY DEF LockInPlace
<1>1. lockFile[Kind(p)] = lockFd[p] /\ lockFile[Kind(p)] # NoFile
  BY DEF LockInv, LockFound, LockOpened
<1>2. Kind(p) \in Kinds
  BY KindType
<1>3. QED
  BY <1>1, <1>2 DEF LockInv, LockHeld, GoodLocks, TypeOK

\* Two processes that hold the same file are one.
LEMMA InPlaceIsAlone == LockInPlace => OneInstance
  BY DEF LockInPlace, OneInstance

\* A process past try_lock holds the lock of the file at the lock path, across
\* crashes and restarts (socket_locker.hpp:112-180), if no lock file has to be
\* replaced.
THEOREM LocksStayInPlace ==
  ASSUME NoRepair
  PROVE  Spec => []LockInPlace
<1>1. Init => LockInv
  BY InitLock
<1>2. QED
  BY <1>1, NextLock, LockedInPlace, PTL DEF Spec

\* Of the processes with the same lock file one at most gets past try_lock
\* (socket_locker.hpp:167-180), if no lock file has to be replaced.
THEOREM OnlyOneInstance ==
  ASSUME NoRepair
  PROVE  Spec => []OneInstance
<1>1. Init => LockInv
  BY InitLock
<1>2. LockInv => OneInstance
  BY LockedInPlace, InPlaceIsAlone
<1>3. QED
  BY <1>1, <1>2, NextLock, PTL DEF Spec

-----------------------------------------------------------------------------
(* The path of the socket, between servers.                                *)

\* Where the directory, and the socket, are relied on.
PathInv == LockInv /\ DirReady /\ BoundSocketStays

\* While a server prepares the path or listens on it, no other one does.
LEMMA PathAlone ==
  ASSUME Daemons = {}, LockInv, NEW p \in Procs, pc[p] \in Locked,
         NEW s \in Servers, s # p
  PROVE  pc[s] \notin Locked
<1>1. s \in Procs /\ Kind(s) = Kind(p)
  BY DEF Procs, Kind
<1>2. OneInstance
  BY LockedInPlace, InPlaceIsAlone
<1>3. QED
  BY <1>1, <1>2 DEF OneInstance

\* Every file-system call keeps directory and socket where they are relied on.
LEMMA NextPath == Daemons = {} /\ PathInv /\ [Next]_vars => PathInv'
<1> SUFFICES ASSUME Daemons = {}, PathInv, [Next]_vars
             PROVE  DirReady' /\ BoundSocketStays'
  BY NextLock DEF PathInv
<1> USE DEF PathInv
<1>a. TypeOK /\ Procs = Servers
  BY DEF LockInv, Procs
<1>1. ASSUME NEW p \in Procs, Start(p) \/ TryLock(p)
      PROVE  DirReady' /\ BoundSocketStays'
  <2>1. /\ UNCHANGED <<dir, socket>>
        /\ \E l \in InLock \cup {"exists dir", "refused"} : Goto(p, l)
    BY <1>1 DEF Start, TryLock, FindLock, CheckRegular, CheckMode, DeleteLock, OpenLock,
       Flock, Refuse, InLock
  <2>2. \A s \in Servers :
          pc'[s] \in InSocket \cup {"ready", "bound"} => pc'[s] = pc[s]
    BY <1>a, <2>1 DEF TypeOK, Goto, InLock, InSocket
  <2>3. QED
    BY <2>1, <2>2 DEF DirReady, BoundSocketStays
<1>2. ASSUME NEW p \in Procs, CheckCleanSocket(p) \/ Bind(p) \/ CloseSocket(p)
      PROVE  DirReady' /\ BoundSocketStays'
  <2>1. pc[p] \in Locked
    BY <1>2 DEF CheckCleanSocket, FindDir, CheckDir, DeleteDir, CreateDir, FindSocket,
       CheckSocket, CheckSocketMode, DeleteSocket, CreateSocket, Bind, CloseSocket,
       Locked, InDir, InSocket
  <2>2. \E l \in {"refused"} \cup Locked : Goto(p, l)
    BY <1>2 DEF CheckCleanSocket, FindDir, CheckDir, DeleteDir, CreateDir, FindSocket,
       CheckSocket, CheckSocketMode, DeleteSocket, CreateSocket, Bind, CloseSocket,
       Refuse, Locked, InDir, InSocket
  <2>3. \A s \in Servers : s # p => pc'[s] \notin InSocket \cup {"ready", "bound"}
    <3>1. \A s \in Servers : s # p => pc'[s] = pc[s]
      BY <1>a, <2>2 DEF TypeOK, Goto
    <3>2. \A s \in Servers : s # p => pc[s] \notin Locked
      BY <2>1, PathAlone
    <3>3. QED
      BY <3>1, <3>2 DEF Locked
  <2>4. pc'[p] \in InSocket \cup {"ready"} => dir' = "dir"
    <3>1. pc[p] \in InSocket \cup {"ready"} => dir = "dir"
      BY <1>a DEF DirReady
    <3>2. CASE FindDir(p) \/ CheckDir(p) \/ DeleteDir(p) \/ CreateDir(p)
      BY <1>a, <3>2 DEF FindDir, CheckDir, DeleteDir, CreateDir, Refuse, Goto, TypeOK,
         InSocket
    <3>3. CASE FindSocket(p) \/ CheckSocket(p) \/ CheckSocketMode(p) \/ DeleteSocket(p)
                 \/ CreateSocket(p)
      BY <3>1, <3>3 DEF FindSocket, CheckSocket, CheckSocketMode, DeleteSocket,
         CreateSocket, InSocket
    <3>4. CASE Bind(p) \/ CloseSocket(p)
      BY <1>a, <3>4 DEF Bind, CloseSocket, Goto, TypeOK, InSocket
    <3>5. QED
      BY <1>2, <3>2, <3>3, <3>4 DEF CheckCleanSocket
  <2>5. pc'[p] = "bound" => socket'.kind = "socket" /\ socket'.owner = p
    <3>1. CASE CheckCleanSocket(p) \/ CloseSocket(p)
      BY <1>a, <3>1 DEF CheckCleanSocket, FindDir, CheckDir, DeleteDir, CreateDir,
         FindSocket, CheckSocket, CheckSocketMode, DeleteSocket, CreateSocket, CloseSocket,
         Refuse, Goto, TypeOK
    <3>2. CASE Bind(p)
      BY <3>2 DEF Bind
    <3>3. QED
      BY <1>2, <3>1, <3>2
  <2>6. QED
    BY <2>3, <2>4, <2>5 DEF DirReady, BoundSocketStays
<1>3. ASSUME NEW p \in Procs, Exit(p) PROVE DirReady' /\ BoundSocketStays'
  <2>1. /\ \A s \in Servers : pc'[s] = IF s = p THEN "off" ELSE pc[s]
        /\ dir' = dir
        /\ socket.owner # p => socket' = socket
    BY <1>3, <1>a DEF Exit, Goto, TypeOK
  <2>2. DirReady'
    BY <2>1 DEF DirReady, InSocket
  <2>3. BoundSocketStays'
    BY <2>1 DEF BoundSocketStays
  <2>4. QED
    BY <2>2, <2>3
<1>4. CASE UNCHANGED vars
  BY <1>4 DEF vars, DirReady, BoundSocketStays
<1>5. QED
  BY <1>1, <1>2, <1>3, <1>4 DEF Next

LEMMA InitPath == NoRepair /\ Daemons = {} /\ Init => PathInv
  BY InitLock DEF Init, PathInv, DirReady, BoundSocketStays, InSocket, Procs

\* The path names the socket of the server that listens on it, whatever other servers
\* come, crash and are refused (socket_locker.hpp:167-285, zmq_dbus_server.hpp:53); no
\* daemon prepares the same path meanwhile.
THEOREM PathStays ==
  ASSUME NoRepair, Daemons = {}
  PROVE  Spec => []BoundSocketStays
<1>1. PathInv => BoundSocketStays
  BY DEF PathInv
<1>2. QED
  BY <1>1, InitPath, NextPath, PTL DEF Spec

\* The directory is there from the moment a server has found or made it until it
\* binds (socket_locker.hpp:216-248, zmq_dbus_server.hpp:53), although each server may
\* delete what it finds at that path; no daemon prepares it meanwhile.
THEOREM DirectoryStays ==
  ASSUME NoRepair, Daemons = {}
  PROVE  Spec => []DirReady
<1>1. PathInv => DirReady
  BY DEF PathInv
<1>2. QED
  BY <1>1, InitPath, NextPath, PTL DEF Spec

-----------------------------------------------------------------------------
(* Lock files that have to be replaced.                                    *)

\* Nobody else is at the lock file of a process, be it as it may.
EachAlone == \A p, q \in Procs : Kind(p) = Kind(q) => p = q

FilesDiffer ==
  \A j, k \in Kinds : j # k /\ lockFile[j] # NoFile => lockFile[j] # lockFile[k]

\* Behind clean_lock the file at the path is good, if there is one; once opened it is
\* the one that is open.
RepairDone ==
  \A p \in Procs : LET f == lockFile[Kind(p)] IN
    /\ pc[p] = "open" /\ f # NoFile => mode[f] = "good"
    /\ pc[p] \in {"flock"} \cup Locked => f # NoFile /\ f = lockFd[p] /\ mode[f] = "good"

RepairInv == TypeOK /\ FilesDiffer /\ RepairDone /\ LockHeld

LEMMA InitRepair == Init => RepairInv
<1> SUFFICES ASSUME Init PROVE RepairInv
  OBVIOUS
<1>1. PICK found \in [Kinds -> LockModes], file \in [Kinds -> Inodes] :
        /\ file["server"] # file["daemon"]
        /\ lockFile = [k \in Kinds |-> IF found[k] = "none" THEN NoFile ELSE file[k]]
  BY DEF Init
<1>2. FilesDiffer
  BY <1>1, LockerAssumption DEF FilesDiffer, Kinds
<1>3. \A p \in Procs : pc[p] = "off"
  BY DEF Init
<1>4. QED
  BY <1>2, <1>3, InitType DEF RepairInv, RepairDone, LockHeld, Locked, InDir, InSocket

\* A step that leaves the lock files alone keeps the invariant, if it leads to where it
\* says something only from where it says as much.
LEMMA MoveKeepsRepair ==
  ASSUME RepairInv, NEW p \in Procs, NEW l, Goto(p, l), UNCHANGED locks,
         l = "open" /\ lockFile[Kind(p)] # NoFile => mode[lockFile[Kind(p)]] = "good",
         l \in Locked => pc[p] \in Locked, l # "flock"
  PROVE  FilesDiffer' /\ RepairDone' /\ LockHeld'
<1>1. \A q \in Procs : pc'[q] = IF q = p THEN l ELSE pc[q]
  BY DEF RepairInv, TypeOK, Goto
<1>2. UNCHANGED <<lockFile, mode, lockFd, holder>>
  BY DEF locks
<1>3. RepairDone'
  BY <1>1, <1>2 DEF RepairInv, RepairDone, Kind
<1>4. QED
  BY <1>1, <1>2, <1>3 DEF RepairInv, FilesDiffer, LockHeld, Kind

\* Every file-system call preserves it: what a process deletes or creates is at a path
\* where nobody else is.
LEMMA NextRepair == EachAlone /\ RepairInv /\ [Next]_vars => RepairInv'
<1> SUFFICES ASSUME EachAlone, RepairInv, [Next]_vars
             PROVE  FilesDiffer' /\ RepairDone' /\ LockHeld'
  BY NextType DEF RepairInv
<1> USE LockerAssumption DEF RepairInv
<1>a. \A p, q \in Procs : p # q => Kind(p) # Kind(q) /\ Kind(q) \in Kinds
  BY KindType DEF EachAlone
<1>1. ASSUME NEW p \in Procs,
             Start(p) \/ FindLock(p) \/ CheckRegular(p) \/ CheckMode(p)
      PROVE  FilesDiffer' /\ RepairDone' /\ LockHeld'
  <2>1. /\ UNCHANGED locks
        /\ \E l \in {"exists lock", "open", "regular lock", "status lock", "delete lock"} :
             /\ Goto(p, l)
             /\ l = "open" /\ lockFile[Kind(p)] # NoFile => mode[lockFile[Kind(p)]] = "good"
    BY <1>1 DEF Start, FindLock, CheckRegular, CheckMode
  <2>2. QED
    BY <2>1, MoveKeepsRepair DEF Locked, InDir, InSocket
<1>2. ASSUME NEW p \in Procs, CheckCleanSocket(p) \/ Bind(p) \/ CloseSocket(p)
      PROVE  FilesDiffer' /\ RepairDone' /\ LockHeld'
  <2>1. /\ UNCHANGED locks /\ pc[p] \in Locked
        /\ \E l \in {"refused"} \cup Locked : Goto(p, l)
    BY <1>2 DEF CheckCleanSocket, FindDir, CheckDir, DeleteDir, CreateDir, FindSocket,
       CheckSocket, CheckSocketMode, DeleteSocket, CreateSocket, Bind, CloseSocket, Refuse,
       Locked, InDir, InSocket
  <2>2. QED
    BY <2>1, MoveKeepsRepair DEF Locked, InDir, InSocket
<1>3. ASSUME NEW p \in Procs, DeleteLock(p) PROVE FilesDiffer' /\ RepairDone' /\ LockHeld'
  <2>1. /\ pc[p] = "delete lock" /\ UNCHANGED <<mode, lockFd, holder>>
        /\ \A q \in Procs : pc'[q] = IF q = p THEN "open" ELSE pc[q]
        /\ \A k \in Kinds : lockFile'[k] = IF k = Kind(p) THEN NoFile ELSE lockFile[k]
    BY <1>3 DEF DeleteLock, Goto, TypeOK
  <2>2. FilesDiffer'
    BY <2>1 DEF FilesDiffer
  <2>3. RepairDone'
    <3>1. \A q \in Procs : q # p => lockFile'[Kind(q)] = lockFile[Kind(q)]
      BY <1>a, <2>1
    <3>2. lockFile'[Kind(p)] = NoFile
      BY <2>1, KindType
    <3>3. ASSUME NEW q \in Procs, q # p
          PROVE  /\ pc'[q] = pc[q] /\ lockFile'[Kind(q)] = lockFile[Kind(q)]
                 /\ mode' = mode /\ lockFd' = lockFd
      BY <2>1, <3>1, <3>3
    <3>4. pc'[p] = "open" /\ "open" \notin {"flock"} \cup Locked
      BY <2>1 DEF Locked, InDir, InSocket
    <3>5. QED
      BY <3>2, <3>3, <3>4 DEF RepairDone, Kind
  <2>4. LockHeld'
    BY <2>1 DEF LockHeld, Locked, InDir, InSocket
  <2>5. QED
    BY <2>2, <2>3, <2>4
<1>4. ASSUME NEW p \in Procs, OpenLock(p) PROVE FilesDiffer' /\ RepairDone' /\ LockHeld'
  <2>1. /\ pc[p] = "open" /\ holder' = holder
        /\ \A q \in Procs : pc'[q] = IF q = p THEN "flock" ELSE pc[q]
    BY <1>4 DEF OpenLock, Goto, TypeOK
  <2>2. Kind(p) \in Kinds
    BY KindType
  <2>3. PICK i \in Inodes :
          /\ lockFile[Kind(p)] = i \/ (lockFile[Kind(p)] = NoFile /\ Unused(i))
          /\ \A k \in Kinds : lockFile'[k] = IF k = Kind(p) THEN i ELSE lockFile[k]
          /\ \A j \in Inodes : mode'[j] = mode[j] \/ mode'[j] = "good"
          /\ mode'[i] = "good"
          /\ \A q \in Procs : lockFd'[q] = IF q = p THEN i ELSE lockFd[q]
    <3>1. CASE lockFile[Kind(p)] # NoFile
      <4>1. lockFile[Kind(p)] \in Inodes /\ mode[lockFile[Kind(p)]] = "good"
        BY <2>1, <2>2, <3>1 DEF TypeOK, RepairDone
      <4>2. /\ UNCHANGED <<lockFile, mode>>
            /\ \A q \in Procs : lockFd'[q] = IF q = p THEN lockFile[Kind(p)] ELSE lockFd[q]
        BY <1>4, <3>1 DEF OpenLock, TypeOK
      <4>3. QED
        BY <4>1, <4>2
    <3>2. CASE lockFile[Kind(p)] = NoFile
      BY <1>4, <2>2, <3>2 DEF OpenLock, TypeOK
    <3>3. QED
      BY <3>1, <3>2
  <2>4. FilesDiffer'
    <3>1. \A k \in Kinds : k # Kind(p) => lockFile[k] # i
      BY <2>2, <2>3 DEF FilesDiffer, Unused
    <3>2. QED
      BY <2>2, <2>3, <3>1 DEF FilesDiffer
  <2>5. ASSUME NEW q \in Procs, q # p
        PROVE  /\ lockFile'[Kind(q)] = lockFile[Kind(q)] /\ lockFd'[q] = lockFd[q]
               /\ lockFile[Kind(q)] \in Inodes \cup {NoFile}
    BY <1>a, <2>3, <2>5 DEF TypeOK
  <2>6. RepairDone'
    <3>1. lockFile'[Kind(p)] = i /\ lockFd'[p] = i /\ mode'[i] = "good" /\ i # NoFile
      BY <2>2, <2>3
    <3>2. ASSUME NEW q \in Procs
          PROVE  LET f == lockFile'[Kind(q)] IN
                   /\ pc'[q] = "open" /\ f # NoFile => mode'[f] = "good"
                   /\ pc'[q] \in {"flock"} \cup Locked
                        => f # NoFile /\ f = lockFd'[q] /\ mode'[f] = "good"
      <4>1. CASE q = p
        BY <2>1, <3>1, <4>1
      <4>2. CASE q # p
        BY <2>1, <2>3, <2>5, <4>2 DEF RepairDone
      <4>3. QED
        BY <4>1, <4>2
    <3>3. QED
      BY <3>2 DEF RepairDone, Kind
  <2>7. LockHeld'
    BY <2>1, <2>5 DEF LockHeld, Locked, InDir, InSocket
  <2>8. QED
    BY <2>4, <2>6, <2>7
<1>5. ASSUME NEW p \in Procs, Flock(p) PROVE FilesDiffer' /\ RepairDone' /\ LockHeld'
  <2>1. pc[p] = "flock" /\ UNCHANGED <<lockFile, mode, lockFd>>
    BY <1>5 DEF Flock
  <2>2. lockFd[p] \in Inodes
    BY <2>1, KindType DEF RepairDone, TypeOK
  <2>3. CASE holder[lockFd[p]] = NoProc
    <3>1. /\ \A q \in Procs : pc'[q] = IF q = p THEN "exists dir" ELSE pc[q]
          /\ \A i \in Inodes : holder'[i] = IF i = lockFd[p] THEN p ELSE holder[i]
      BY <1>5, <2>3 DEF Flock, Goto, TypeOK
    <3>2. ASSUME NEW q \in Procs, pc[q] \in Locked
          PROVE  lockFd[q] \in Inodes /\ lockFd[q] # lockFd[p]
      <4>1. lockFd[q] = lockFile[Kind(q)] /\ lockFile[Kind(q)] # NoFile
        BY <3>2 DEF RepairDone
      <4>2. lockFile[Kind(q)] \in Inodes
        BY <4>1, KindType DEF TypeOK
      <4>3. holder[lockFd[q]] = q /\ q # NoProc
        BY <3>2 DEF LockHeld
      <4>4. QED
        BY <2>3, <4>1, <4>2, <4>3
    <3>3. LockHeld'
      BY <2>1, <2>2, <3>1, <3>2 DEF LockHeld
    <3>4. RepairDone'
      BY <2>1, <3>1 DEF RepairDone, Kind
    <3>5. QED
      BY <2>1, <3>3, <3>4 DEF FilesDiffer
  <2>4. CASE holder[lockFd[p]] # NoProc
    <3>1. Goto(p, "refused") /\ UNCHANGED locks
      BY <1>5, <2>4 DEF Flock, Refuse, locks
    <3>2. QED
      BY <3>1, MoveKeepsRepair DEF Locked, InDir, InSocket
  <2>5. QED
    BY <2>3, <2>4
<1>6. ASSUME NEW p \in Procs, Exit(p) PROVE FilesDiffer' /\ RepairDone' /\ LockHeld'
  <2>1. /\ \A q \in Procs : pc'[q] = IF q = p THEN "off" ELSE pc[q]
        /\ \A q \in Procs : q # p => lockFd'[q] = lockFd[q]
        /\ \A i \in Inodes : holder[i] # p => holder'[i] = holder[i]
        /\ UNCHANGED <<lockFile, mode>>
    BY <1>6 DEF Exit, Goto, TypeOK
  <2>2. LockHeld'
    <3>1. SUFFICES ASSUME NEW q \in Procs, pc'[q] \in Locked
                   PROVE  holder'[lockFd'[q]] = q
      BY DEF LockHeld
    <3>2. q # p /\ pc[q] \in Locked
      BY <2>1, <3>1 DEF Locked, InDir, InSocket
    <3>3. lockFd'[q] = lockFd[q] /\ lockFd[q] \in Inodes /\ holder[lockFd[q]] = q
      BY <2>1, <3>2, KindType DEF LockHeld, RepairDone, TypeOK
    <3>4. QED
      BY <2>1, <3>2, <3>3
  <2>3. RepairDone'
    BY <2>1 DEF RepairDone, Kind, Locked, InDir, InSocket
  <2>4. QED
    BY <2>1, <2>2, <2>3 DEF FilesDiffer
<1>7. CASE UNCHANGED vars
  BY <1>7 DEF vars, FilesDiffer, RepairDone, LockHeld, Kind
<1>8. QED
  BY <1>1, <1>2, <1>3, <1>4, <1>5, <1>6, <1>7 DEF Next, TryLock

\* A process that is alone at its lock file gets past try_lock with the lock of the
\* very file at the path, good and its own, whatever it has found there, and across
\* crashes in the middle of a repair (socket_locker.hpp:112-180).  What is refuted for
\* two servers is due to the other one being at the same file.
THEOREM RepairLeavesLockInPlace ==
  ASSUME EachAlone
  PROVE  Spec => []LockInPlace
<1>1. RepairInv => LockInPlace
  <2>1. ASSUME RepairInv, NEW p \in Procs, pc[p] \in Locked
        PROVE  lockFd[p] \in Inodes
    BY <2>1, KindType DEF RepairInv, RepairDone, TypeOK
  <2>2. QED
    BY <2>1 DEF RepairInv, RepairDone, LockHeld, LockInPlace
<1>2. QED
  BY <1>1, InitRepair, NextRepair, PTL DEF Spec
=============================================================================
