----------------------------- MODULE MCLogChunks -----------------------------
(* Values of the constants of LogChunks for TLC.                           *)
EXTENDS LogChunks

\* Its level has two digits, the most that rpi-fan writes.
Good == [bytes |-> 2, date |-> TRUE, temp |-> "number", delta |-> "number", level |-> 2]

\* A line that is complete, a blank one, one with a number too large for an int,
\* one that is cut off behind its temperature.
FourLines ==
  {Good,
   [Good EXCEPT !.bytes = 0, !.date = FALSE],
   [Good EXCEPT !.bytes = 1, !.temp = "huge", !.delta = "absent"],
   [Good EXCEPT !.bytes = 1, !.delta = "absent"]}

\* Values at the limits that main checks, and up to three jobs.
CommandLines ==
  [port : {NoNumber, 999, 1000}, logExists : BOOLEAN,
   jobs : {NoNumber, 0, 1, 2, 3, 10001}]
=============================================================================
