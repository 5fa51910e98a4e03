----------------------------- MODULE SocketLocker -----------------------------
(***************************************************************************)
(* SocketLocker (socket_locker.hpp): how an instance of rpi-fan-serve or   *)
(* of its D-Bus daemon makes sure that it is the only one, and prepares    *)
(* the directory and the path of the socket between the two.               *)
(*                                                                         *)
(* Servers and Daemons have each a lock file of their own and share the    *)
(* socket path.  Every step is one call to the file system, since another  *)
(* process may act between any two of them.                                *)
(*                                                                         *)
(* Abstractions.  A file is an inode with a mode: "good" and "bad" (what   *)
(* is_good_chmod says of a regular file) or "other" (not a regular file).  *)
(* Calls of the file system fail only where a file in the way makes them   *)
(* fail.  From zmq_dbus_server.hpp: a server whose checks have passed      *)
(* binds the path, for which libzmq unlinks what is there; it unlinks the  *)
(* path again when it closes the socket, and not when it crashes.          *)
(***************************************************************************)
EXTENDS Integers

CONSTANTS
  Servers, Daemons,
  Inodes,
  NoFile,        \* what a path names when no file is there
  NoProc,        \* holder of a free lock, owner of a socket nobody listens on
  LockModes,     \* modes of the lock files found at the start, "none" for no file
  SocketModes,   \* modes a bound socket may get from the umask
  DirsFound      \* what may be at the path of the directory at the start

Procs == Servers \cup Daemons
Kinds == {"server", "daemon"}
Modes == {"good", "bad", "other"}

ASSUME LockerAssumption ==
  /\ Servers \cap Daemons = {}
  /\ NoProc \notin Procs
  /\ NoFile \notin Inodes
  /\ LockModes \subseteq Modes \cup {"none"}
  /\ SocketModes \subseteq {"good", "bad"}
  /\ DirsFound \subseteq {"none", "dir", "other"}

VARIABLES
  lockFile,   \* lockFile[k]: the inode the lock path of kind k names
  mode,       \* the mode of each inode
  lockFd,     \* the inode each process has open as its lock file
  holder,     \* the process that holds the flock of each inode
  m_lockFd,   \* SocketLocker::m_lockFd
  dir,        \* what is at SOCKET_DIR
  socket,     \* what is at the path of the socket
  pc

locks == <<lockFile, mode, lockFd, holder, m_lockFd>>
vars  == <<lockFile, mode, lockFd, holder, m_lockFd, dir, socket, pc>>

Kind(p) == IF p \in Servers THEN "server" ELSE "daemon"

\* At the socket path: nothing, a file that is no socket, or a socket.
SocketStates == [kind : {"none", "file", "socket"}, mode : {"good", "bad"},
                 owner : Servers \cup {NoProc}]
NothingThere == [kind |-> "none", mode |-> "good", owner |-> NoProc]
PlainFile    == [kind |-> "file", mode |-> "good", owner |-> NoProc]

InLock == {"exists lock", "regular lock", "status lock", "delete lock", "open",
           "flock"}
InDir  == {"exists dir", "is dir", "delete dir", "create dir"}
InSocket == {"exists socket", "is socket", "status socket", "delete socket",
             "create socket"}

\* Past try_lock: the process takes itself for the only instance.
Locked == InDir \cup InSocket \cup {"ready", "bound", "closed"}

TypeOK ==
  /\ lockFile \in [Kinds -> Inodes \cup {NoFile}]
  /\ mode \in [Inodes -> Modes]
  /\ lockFd \in [Procs -> Inodes \cup {NoFile}]
  /\ holder \in [Inodes -> Procs \cup {NoProc}]
  /\ m_lockFd \in [Procs -> {-1, 0}]
  /\ dir \in {"none", "dir", "other"}
  /\ socket \in SocketStates
  /\ pc \in [Procs -> {"off", "refused"} \cup InLock \cup Locked]

Init ==
  /\ \E found \in [Kinds -> LockModes], file \in [Kinds -> Inodes] :
       /\ file["server"] # file["daemon"]
       /\ lockFile = [k \in Kinds |-> IF found[k] = "none" THEN NoFile ELSE file[k]]
       /\ mode = [i \in Inodes |->
                    IF i = file["server"] /\ found["server"] # "none"
                    THEN found["server"]
                    ELSE IF i = file["daemon"] /\ found["daemon"] # "none"
                    THEN found["daemon"] ELSE "good"]
  /\ lockFd = [p \in Procs |-> NoFile]
  /\ holder = [i \in Inodes |-> NoProc]
  /\ m_lockFd = [p \in Procs |-> -1]
  /\ dir \in DirsFound
  /\ socket = NothingThere
  /\ pc = [p \in Procs |-> "off"]

Goto(p, l) == pc' = [pc EXCEPT ![p] = l]

\* checkAndTryLock returns false: main returns 1, which closes what is open.
Refuse(p) == Goto(p, "refused")

-----------------------------------------------------------------------------
(* clean_lock.                                                             *)

Start(p) ==
  /\ pc[p] = "off"
  /\ Goto(p, "exists lock")
  /\ UNCHANGED <<locks, dir, socket>>

FindLock(p) ==
  /\ pc[p] = "exists lock"
  /\ Goto(p, IF lockFile[Kind(p)] = NoFile THEN "open" ELSE "regular lock")
  /\ UNCHANGED <<locks, dir, socket>>

\* A file that is gone by now is not a regular file either.
CheckRegular(p) ==
  /\ pc[p] = "regular lock"
  /\ LET f == lockFile[Kind(p)] IN
       Goto(p, IF f # NoFile /\ mode[f] # "other" THEN "status lock" ELSE "delete lock")
  /\ UNCHANGED <<locks, dir, socket>>

\* Mutant: a lock file with the wrong mode is reported and kept.
CheckMode_Keeps(p) ==
  /\ pc[p] = "status lock"
  /\ Goto(p, "open")
  /\ UNCHANGED <<locks, dir, socket>>

\* The permissions of a file that is gone are unknown, that is all ones: bad.
CheckMode(p) ==
  /\ pc[p] = "status lock"
  /\ LET f == lockFile[Kind(p)] IN
       Goto(p, IF f # NoFile /\ mode[f] = "good" THEN "open" ELSE "delete lock")
  /\ UNCHANGED <<locks, dir, socket>>

\* The path is removed, whatever it names by now and whoever has locked that.
DeleteLock(p) ==
  /\ pc[p] = "delete lock"
  /\ lockFile' = [lockFile EXCEPT ![Kind(p)] = NoFile]
  /\ Goto(p, "open")
  /\ UNCHANGED <<mode, lockFd, holder, m_lockFd, dir, socket>>

-----------------------------------------------------------------------------
(* try_lock.                                                               *)

Unused(i) == i \notin {lockFile[k] : k \in Kinds} \cup {lockFd[p] : p \in Procs}

\* open fails on what is no regular file, and clean_lock leaves none at the path.
OpenLock(p) ==
  /\ pc[p] = "open"
  /\ Goto(p, "flock")
  /\ LET f == lockFile[Kind(p)] IN
       \/ /\ f # NoFile
          /\ lockFd' = [lockFd EXCEPT ![p] = f]
          /\ UNCHANGED <<lockFile, mode>>
       \/ /\ f = NoFile
          /\ \E i \in Inodes :
               /\ Unused(i)
               /\ lockFile' = [lockFile EXCEPT ![Kind(p)] = i]
               /\ mode' = [mode EXCEPT ![i] = "good"]
               /\ lockFd' = [lockFd EXCEPT ![p] = i]
  /\ UNCHANGED <<holder, m_lockFd, dir, socket>>

\* Mutant: a refused flock returns the error number, 11 for EWOULDBLOCK.
Flock_ReturnsErrno(p) ==
  /\ pc[p] = "flock"
  /\ holder' = [holder EXCEPT ![lockFd[p]] = IF @ = NoProc THEN p ELSE @]
  /\ m_lockFd' = [m_lockFd EXCEPT ![p] = IF holder[lockFd[p]] = NoProc THEN 0 ELSE 11]
  /\ Goto(p, "exists dir")
  /\ UNCHANGED <<lockFile, mode, lockFd, dir, socket>>

\* Mutant: the result of flock is not looked at.
Flock_Unchecked(p) ==
  /\ pc[p] = "flock"
  /\ holder' = [holder EXCEPT ![lockFd[p]] = IF @ = NoProc THEN p ELSE @]
  /\ m_lockFd' = [m_lockFd EXCEPT ![p] = 0]
  /\ Goto(p, "exists dir")
  /\ UNCHANGED <<lockFile, mode, lockFd, dir, socket>>

\* try_lock returns the result of flock, which is 0.
Flock(p) ==
  /\ pc[p] = "flock"
  /\ \/ /\ holder[lockFd[p]] = NoProc
        /\ holder' = [holder EXCEPT ![lockFd[p]] = p]
        /\ m_lockFd' = [m_lockFd EXCEPT ![p] = 0]
        /\ Goto(p, "exists dir")
     \/ /\ holder[lockFd[p]] # NoProc
        /\ Refuse(p)
        /\ UNCHANGED <<holder, m_lockFd>>
  /\ UNCHANGED <<lockFile, mode, lockFd, dir, socket>>

-----------------------------------------------------------------------------
(* check_clean_dir and try_create_directory.                               *)

FindDir(p) ==
  /\ pc[p] = "exists dir"
  /\ Goto(p, IF dir = "none" THEN "create dir" ELSE "is dir")
  /\ UNCHANGED <<locks, dir, socket>>

CheckDir(p) ==
  /\ pc[p] = "is dir"
  /\ Goto(p, IF dir = "dir" THEN "exists socket" ELSE "delete dir")
  /\ UNCHANGED <<locks, dir, socket>>

\* remove_all takes the directory with what is in it, if it is one by now.
DeleteDir(p) ==
  /\ pc[p] = "delete dir"
  /\ dir' = "none"
  /\ socket' = NothingThere
  /\ Goto(p, "create dir")
  /\ UNCHANGED locks

\* fs::create_directory answers false, and no error, when the directory is there.
CreateDir(p) ==
  /\ pc[p] = "create dir"
  /\ \/ /\ dir = "none"
        /\ dir' = "dir"
        /\ Goto(p, "exists socket")
     \/ /\ dir # "none"
        /\ Refuse(p)
        /\ UNCHANGED dir
  /\ UNCHANGED <<locks, socket>>

-----------------------------------------------------------------------------
(* check_clean_socket and try_create_socket.                               *)

FindSocket(p) ==
  /\ pc[p] = "exists socket"
  /\ Goto(p, IF socket.kind = "none" THEN "create socket" ELSE "is socket")
  /\ UNCHANGED <<locks, dir, socket>>

CheckSocket(p) ==
  /\ pc[p] = "is socket"
  /\ Goto(p, IF socket.kind = "socket" THEN "status socket" ELSE "delete socket")
  /\ UNCHANGED <<locks, dir, socket>>

CheckSocketMode(p) ==
  /\ pc[p] = "status socket"
  /\ Goto(p, IF socket.kind # "none" /\ socket.mode = "good"
             THEN "ready" ELSE "delete socket")
  /\ UNCHANGED <<locks, dir, socket>>

DeleteSocket(p) ==
  /\ pc[p] = "delete socket"
  /\ socket' = NothingThere
  /\ Goto(p, "create socket")
  /\ UNCHANGED <<locks, dir>>

\* open makes a regular file, and opens one that is there; it fails on a socket
\* and without the directory.
CreateSocket(p) ==
  /\ pc[p] = "create socket"
  /\ \/ /\ dir = "dir" /\ socket.kind # "socket"
        /\ socket' = PlainFile
        /\ Goto(p, "ready")
     \/ /\ dir # "dir" \/ socket.kind = "socket"
        /\ Refuse(p)
        /\ UNCHANGED socket
  /\ UNCHANGED <<locks, dir>>

-----------------------------------------------------------------------------
(* After the checks.                                                       *)

Bind(p) ==
  /\ p \in Servers
  /\ pc[p] = "ready"
  /\ dir = "dir"
  /\ \E m \in SocketModes :
       socket' = [kind |-> "socket", mode |-> m, owner |-> p]
  /\ Goto(p, "bound")
  /\ UNCHANGED <<locks, dir>>

CloseSocket(p) ==
  /\ pc[p] = "bound"
  /\ socket' = NothingThere
  /\ Goto(p, "closed")
  /\ UNCHANGED <<locks, dir>>

\* The process ends, at any point: the kernel closes its descriptors, and the
\* lock goes with the last of them.
Exit(p) ==
  /\ pc[p] # "off"
  /\ Goto(p, "off")
  /\ lockFd' = [lockFd EXCEPT ![p] = NoFile]
  /\ holder' = [i \in Inodes |-> IF holder[i] = p THEN NoProc ELSE holder[i]]
  /\ m_lockFd' = [m_lockFd EXCEPT ![p] = -1]
  /\ socket' = IF socket.owner = p THEN [socket EXCEPT !.owner = NoProc] ELSE socket
  /\ UNCHANGED <<lockFile, mode, dir>>

-----------------------------------------------------------------------------
TryLock(p) ==
  \/ FindLock(p) \/ CheckRegular(p) \/ CheckMode(p) \/ DeleteLock(p)
  \/ OpenLock(p) \/ Flock(p)

CheckCleanSocket(p) ==
  \/ FindDir(p) \/ CheckDir(p) \/ DeleteDir(p) \/ CreateDir(p)
  \/ FindSocket(p) \/ CheckSocket(p) \/ CheckSocketMode(p)
  \/ DeleteSocket(p) \/ CreateSocket(p)

Next ==
  \E p \in Procs :
    Start(p) \/ TryLock(p) \/ CheckCleanSocket(p) \/ Bind(p) \/ CloseSocket(p) \/ Exit(p)

Spec == Init /\ [][Next]_vars

-----------------------------------------------------------------------------
(* Properties.                                                             *)

\* "only run one instance of rpi-fan-serve at a time" (socket_locker.hpp:170): of
\* the processes with the same lock file one at most gets past try_lock, across
\* crashes and restarts.  It holds as long as no lock file has to be replaced.
OneInstance ==
  \A p, q \in Procs :
    p # q /\ Kind(p) = Kind(q) => ~ (pc[p] \in Locked /\ pc[q] \in Locked)

\* A process past try_lock holds the lock of the very file the lock path names,
\* and nobody else may write to that file: this is why the next process to come
\* is refused, and what a replaced lock file takes away when others are at it.
LockInPlace ==
  \A p \in Procs : pc[p] \in Locked =>
    /\ lockFd[p] \in Inodes
    /\ lockFile[Kind(p)] = lockFd[p]
    /\ holder[lockFd[p]] = p
    /\ mode[lockFd[p]] = "good"

\* The path keeps naming the socket of a server that listens on it, so that the
\* daemon can reach it.  Between servers it holds because the lock is taken
\* before the path is touched; a daemon has another lock.
BoundSocketStays ==
  \A s \in Servers : pc[s] = "bound" => socket.kind = "socket" /\ socket.owner = s

\* The directory a server has found or made is there until it has bound its socket,
\* whatever was at its path: bind throws without it, and nothing catches that.  Each
\* of these processes deletes what is no directory, by its path; it holds because
\* they do so under the same lock.
DirReady ==
  \A s \in Servers : pc[s] \in InSocket \cup {"ready"} => dir = "dir"

\* What check_clean_socket says it returns (socket_locker.hpp:185): "true if
\* socket is ready to use".  A daemon that is let in while a server listens
\* finds the server's socket at the path.
SocketReady ==
  [][\A d \in Daemons, s \in Servers :
       pc[d] \in InSocket /\ pc'[d] = "ready" /\ pc[s] = "bound"
         => socket'.owner = s]_vars
=============================================================================
