---------------------------- MODULE MCConfigStore ----------------------------
(* Values of the constants of ConfigStore for TLC.                         *)
EXTENDS ConfigStore

CONSTANTS main, zmq, t1, t2, t3

ThreeTimers == {t1, t2, t3}

\* Two digits, and the four of the default: the shorter text does not cover the
\* longer one.
ShortAndLong == {60, 1000}
=============================================================================
