------------------------------- MODULE LogChunks -------------------------------
(***************************************************************************)
(* logFile2Json (TempsCtrl.cc): a log file is cut into chunks of lines, an *)
(* asynchronous task turns each chunk into points, and the points are put  *)
(* together in the order of the file.  maxjobs comes from the command line *)
(* (main.cc).  rpi-fan may append to the file at any moment.               *)
(*                                                                         *)
(* Abstractions.  A line is its number of bytes without the newline and    *)
(* what the regular expressions find in it.  The file is not fixed         *)
(* beforehand: what is known is how many bytes are left to read, and each  *)
(* getline finds any line that fits.  A field of a line is absent, without *)
(* digits ("empty"), a number, or one too large for an int ("huge"); of the  *)
(* level what counts is how many digits it has.  Threads can be had.       *)
(***************************************************************************)
EXTENDS Integers, Sequences

CONSTANTS
  Lines,      \* the lines rpi-fan writes
  Options,    \* command lines
  MaxSize,    \* bound on the size of the file when it is opened
  MaxGrowth   \* bound on the bytes appended while it is read

NoLevel == -1

Fields == {"absent", "empty", "number", "huge"}
\* Levels are modelled up to twelve digits: what the code keeps of one (LevelDigits)
\* is a number of nine digits at most, which fits into an int.
Line == [bytes : Nat, date : BOOLEAN, temp : Fields, delta : Fields,
         level : 0..12 \cup {NoLevel}]

\* NoNumber is an option that is missing, or that stoul throws on.
NoNumber == -1
Option == [port : Nat \cup {NoNumber}, logExists : BOOLEAN, jobs : Nat \cup {NoNumber}]

ASSUME ChunksAssumption ==
  /\ Lines \subseteq Line /\ Options \subseteq Option
  /\ MaxSize \in Nat /\ MaxGrowth \in Nat

VARIABLES
  maxjobs,           \* SharedConfig::maxjobs
  size,              \* bytes in the file when it was opened
  left,              \* bytes in the file that getline has not read
  grown,             \* bytes appended since the file was opened
  chunk_size,
  pc,                \* where logFile2Json is
  currentChunk,      \* the lines since the last cut
  currentChunkSize,  \* their bytes
  tasks,             \* one task for each chunk that has been cut
  joined,            \* number of tasks whose result has been taken
  temps,             \* the lines whose points are in the answer
  lines              \* history: every line read

vars == <<maxjobs, size, left, grown, chunk_size, pc, currentChunk,
          currentChunkSize, tasks, joined, temps, lines>>

Jobs == 0..10000
Task == [lines : Seq(Line), state : {"running", "done", "threw"}]
Ends == {"returned", "error", "threw", "crashed"}

TypeOK ==
  /\ maxjobs \in Jobs
  /\ size \in Nat /\ left \in Nat /\ grown \in Nat
  /\ chunk_size \in Nat
  /\ pc \in {"measure", "read", "eof", "join", "unwind"} \cup Ends
  /\ currentChunk \in Seq(Line)
  /\ currentChunkSize \in Nat
  /\ tasks \in Seq(Task)
  /\ joined \in 0..Len(tasks)
  /\ temps \in Seq(Line)
  /\ lines \in Seq(Line)

-----------------------------------------------------------------------------
(* main: the options that let the server run.                              *)

Ports == 1000..100000

Runs(o) ==
  /\ o.port \in Ports
  /\ o.logExists
  /\ o.jobs \in Jobs

Init ==
  /\ \E o \in Options : Runs(o) /\ maxjobs = o.jobs
  /\ size \in 0..MaxSize /\ left = size /\ grown = 0
  /\ chunk_size = 0
  /\ pc = "measure"
  /\ currentChunk = <<>> /\ currentChunkSize = 0
  /\ tasks = <<>> /\ joined = 0
  /\ temps = <<>> /\ lines = <<>>

-----------------------------------------------------------------------------
(* extractMatches.                                                         *)

\* Of "level is N" the code takes the N of one or two digits whole, nothing of one
\* of three, and all but the last three digits of a longer one.
LevelDigits(n) == IF n < 3 THEN n ELSE n - 3

\* substr throws out_of_range beyond the end of an empty match; the conversions
\* that fail are caught.  The fields are looked at in this order.
Throws(l) ==
  /\ l.date
  /\ \/ l.temp = "absent"
     \/ l.temp = "number" /\ l.delta = "absent"
     \/ l.temp = "number" /\ l.delta = "number" /\ l.level = NoLevel

IsPoint(l) ==
  /\ l.date /\ l.temp = "number" /\ l.delta = "number"
  /\ l.level # NoLevel /\ LevelDigits(l.level) \in 1..9

AnyThrows(ls) == \E i \in DOMAIN ls : Throws(ls[i])

\* The loop that appends, of the lines ls, those in S.
Kept(ls, S) ==
  LET upTo[n \in 0..Len(ls)] ==
        IF n = 0 THEN <<>>
        ELSE IF ls[n] \in S THEN Append(upTo[n - 1], ls[n]) ELSE upTo[n - 1]
  IN  upTo[Len(ls)]

\* linesChunk2TempsChunk.
Points(ls) == Kept(ls, {l \in Lines : IsPoint(l)})

-----------------------------------------------------------------------------
(* Reading and cutting.                                                    *)

file   == <<maxjobs, size, grown, chunk_size>>
chunk  == <<currentChunk, currentChunkSize, lines>>
answer == <<joined, temps>>

\* The logger appends while the file is open.
Grow(n) ==
  /\ pc \notin Ends \cup {"measure"}
  /\ grown + n <= MaxGrowth
  /\ grown' = grown + n
  /\ left' = left + n
  /\ UNCHANGED <<maxjobs, size, chunk_size, pc, chunk, tasks, answer>>

\* The size of a chunk comes from the size of the file before it is read.  With no
\* jobs the division ends the process, or gives 0 where the processor says so.
Measure ==
  /\ pc = "measure"
  /\ chunk_size' = IF maxjobs = 0 THEN 0 ELSE size \div maxjobs
  /\ \/ chunk_size' = 0 /\ pc' = "error"
     \/ chunk_size' > 0 /\ pc' = "read"
     \/ maxjobs = 0 /\ pc' = "crashed"
  /\ UNCHANGED <<maxjobs, size, grown, left, chunk, tasks, answer>>

Cut(ls) == tasks' = Append(tasks, [lines |-> ls, state |-> "running"])

\* Mutant: the count of bytes starts anew only with the next file.
AddLine_KeepsSize(l) ==
  /\ lines' = Append(lines, l)
  /\ currentChunkSize' = currentChunkSize + l.bytes
  /\ IF currentChunkSize' >= chunk_size
     THEN /\ Cut(Append(currentChunk, l))
          /\ currentChunk' = <<>>
     ELSE /\ currentChunk' = Append(currentChunk, l)
          /\ UNCHANGED tasks

\* The body of the loop.
AddLine(l) ==
  /\ lines' = Append(lines, l)
  /\ IF currentChunkSize + l.bytes >= chunk_size
     THEN /\ Cut(Append(currentChunk, l))
          /\ currentChunk' = <<>> /\ currentChunkSize' = 0
     ELSE /\ currentChunk' = Append(currentChunk, l)
          /\ currentChunkSize' = currentChunkSize + l.bytes
          /\ UNCHANGED tasks

\* Mutant: a getline that runs out of the file is taken to have filled its line.
GetLine_Runs(l) ==
  /\ pc = "read"
  /\ left' = left - (l.bytes + 1) /\ UNCHANGED pc
  /\ AddLine(l)
  /\ UNCHANGED <<file, answer>>

\* getline finds a line and its newline, or the end of the file behind the first
\* part of a line: the next getline fails then, whatever the logger has added.
GetLine(l) ==
  /\ pc = "read"
  /\ \/ l.bytes < left /\ left' = left - (l.bytes + 1) /\ UNCHANGED pc
     \/ l.bytes = left /\ left > 0 /\ left' = 0 /\ pc' = "eof"
  /\ AddLine(l)
  /\ UNCHANGED <<file, answer>>

\* Mutant: what is left in the last chunk is forgotten.
EndOfFile_DropsTail ==
  /\ pc = "eof" \/ (pc = "read" /\ left = 0)
  /\ pc' = "join"
  /\ UNCHANGED <<file, left, chunk, tasks, answer>>

EndOfFile ==
  /\ pc = "eof" \/ (pc = "read" /\ left = 0)
  /\ pc' = "join"
  /\ IF currentChunk # <<>> THEN Cut(currentChunk) ELSE UNCHANGED tasks
  /\ UNCHANGED <<file, left, chunk, answer>>

-----------------------------------------------------------------------------
(* The tasks and their results.                                            *)

TaskEnds(i) ==
  /\ tasks[i].state = "running"
  /\ tasks' = [tasks EXCEPT ![i].state =
                  IF AnyThrows(tasks[i].lines) THEN "threw" ELSE "done"]
  /\ UNCHANGED <<file, left, pc, chunk, answer>>

\* Mutant: an exception in a task is taken for a task that has not ended.
Join_WaitsForResult ==
  /\ pc = "join"
  /\ joined < Len(tasks)
  /\ tasks[joined + 1].state = "done"
  /\ temps' = temps \o Points(tasks[joined + 1].lines)
  /\ joined' = joined + 1
  /\ UNCHANGED <<file, left, pc, chunk, tasks>>

\* wait and get of the next task; get throws what the task has thrown.
Join ==
  /\ pc = "join"
  /\ joined < Len(tasks)
  /\ \/ /\ tasks[joined + 1].state = "done"
        /\ temps' = temps \o Points(tasks[joined + 1].lines)
        /\ joined' = joined + 1
        /\ UNCHANGED pc
     \/ /\ tasks[joined + 1].state = "threw"
        /\ pc' = "unwind"
        /\ UNCHANGED answer
  /\ UNCHANGED <<file, left, chunk, tasks>>

Return ==
  /\ pc = "join"
  /\ joined = Len(tasks)
  /\ pc' = "returned"
  /\ UNCHANGED <<file, left, chunk, tasks, answer>>

\* The exception leaves the function: the destructor of each future waits.
Unwind ==
  /\ pc = "unwind"
  /\ \A i \in DOMAIN tasks : tasks[i].state # "running"
  /\ pc' = "threw"
  /\ UNCHANGED <<file, left, chunk, tasks, answer>>

-----------------------------------------------------------------------------
Read == (\E l \in Lines : GetLine(l)) \/ EndOfFile

Next ==
  \/ \E n \in 1..MaxGrowth : Grow(n)
  \/ Measure \/ Read
  \/ \E i \in DOMAIN tasks : TaskEnds(i)
  \/ Join \/ Return \/ Unwind

\* The threads run; the logger owes nothing, and what it adds is bounded: a line
\* takes it a minute and a half, and reading it takes no time.
Fairness ==
  /\ WF_vars(Measure \/ Read \/ Join \/ Return \/ Unwind)
  /\ WF_vars(\E i \in DOMAIN tasks : TaskEnds(i))

Spec == Init /\ [][Next]_vars /\ Fairness

-----------------------------------------------------------------------------
(* Properties.                                                             *)

\* "The max number of threads to use" (main.cc:21): a file is cut into no more than
\* maxjobs chunks, each a thread of its own, whatever the lengths of its lines and
\* with or without a newline at its end: the size is rounded down and counts the
\* newlines, which the chunks do not.  It holds for a file that does not grow
\* meanwhile.
TasksBounded == grown = 0 => Len(tasks) <= maxjobs

\* rpi-fan writes levels of one or two digits.
ShortLevels(ls) == \A i \in DOMAIN ls : ls[i].level <= 2

Complete(l) ==
  l.date /\ l.temp = "number" /\ l.delta = "number" /\ l.level \notin {NoLevel, 0}

\* The answer holds each complete line of the file once, in the order of the file,
\* and nothing else: however the lines fall into chunks and in whatever order the
\* tasks end.  A line that is cut off behind its date, and nothing else, makes it
\* throw.
AnswerIsFile ==
  /\ pc = "returned" => /\ ~ AnyThrows(lines)
                        /\ ShortLevels(lines) => temps = Kept(lines, {l \in Lines : Complete(l)})
  /\ pc = "threw" => AnyThrows(lines)

\* The call comes to an end, with an answer, an error or an exception, in whatever
\* order tasks end, throw and are joined: its caller holds cacheMutex.
Terminates == <>(pc \in Ends)
=============================================================================
