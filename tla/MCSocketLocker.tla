---------------------------- MODULE MCSocketLocker ----------------------------
(* Values of the constants of SocketLocker for TLC.                        *)
EXTENDS SocketLocker

CONSTANTS s1, s2, d1, i1, i2, i3, i4, i5

OneServer  == {s1}
TwoServers == {s1, s2}
OneDaemon  == {d1}
NoDaemon   == {}

\* One inode for each path and one for each process that may hold a deleted file.
FiveInodes == {i1, i2, i3, i4, i5}

NoOrGoodLock == {"none", "good"}
AnyLock      == {"none", "good", "bad", "other"}
Good         == {"good"}
AnyMode      == {"good", "bad"}
AnyDir       == {"none", "dir", "other"}
=============================================================================
