--------------------------- MODULE LogChunksProofs ---------------------------
(* Theorems about LogChunks, for any lines, any sizes of the file and any   *)
(* number of jobs.                                                          *)
EXTENDS KeptProofs

\* What the argument needs of the types: the numbers, and that tasks and the
\* current chunk are sequences.
NumbersOK ==
  /\ maxjobs \in Nat /\ size \in Nat /\ left \in Nat /\ grown \in Nat
  /\ chunk_size \in Nat /\ currentChunkSize \in Nat
  /\ currentChunk \in Seq(Line)
  /\ tasks \in Seq(Task)
  /\ pc \in {"measure", "read", "eof", "join", "unwind"} \cup Ends

\* The bytes accounted for: a chunk that has been cut stands for chunk_size bytes
\* and one newline at least, a line of the current chunk for its newline.
Accounted ==
  (chunk_size + 1) * Len(tasks) + currentChunkSize + Len(currentChunk) + left

\* The newline of the last line may be missing.
BudgetOK ==
  /\ pc = "measure" => tasks = <<>> /\ currentChunk = <<>> /\ currentChunkSize = 0
                       /\ left = size
  /\ pc \in {"read", "eof"} => size < (chunk_size + 1) * maxjobs
  /\ grown = 0 /\ pc = "read" => Accounted <= size
  /\ grown = 0 /\ pc = "eof" => left = 0 /\ Accounted <= size + 1
  /\ grown = 0 /\ pc \notin {"measure", "read", "eof"} => Len(tasks) <= maxjobs

ChunksInv == NumbersOK /\ BudgetOK

\* A size rounded down falls short of one more in each of the jobs.
LEMMA RoundedDown ==
  ASSUME NEW s \in Nat, NEW j \in Nat, j > 0
  PROVE  s < ((s \div j) + 1) * j
<1>1. s = j * (s \div j) + (s % j) /\ s % j \in 0..(j - 1) /\ s \div j \in Int
  OBVIOUS
<1>2. \A q, r \in Int : s = j * q + r /\ r < j => s < (q + 1) * j
  OBVIOUS
<1>3. QED
  BY <1>1, <1>2

\* So many pieces of a positive size as fit in less than j of them are fewer than j.
LEMMA FewerPieces ==
  ASSUME NEW c \in Nat, NEW n \in Nat, NEW j \in Nat, (c + 1) * n < (c + 1) * j
  PROVE  n < j
<1>1. SUFFICES ASSUME n >= j PROVE (c + 1) * n >= (c + 1) * j
  OBVIOUS
<1>2. PICK d \in Nat : n = j + d
  <2>1. n - j \in Nat /\ n = j + (n - j)
    BY <1>1
  <2>2. QED
    BY <2>1
<1>3. (c + 1) * n = (c + 1) * j + (c + 1) * d /\ (c + 1) * d >= 0
  BY <1>2
<1>4. QED
  BY <1>3

\* Likewise when the pieces just fit.
LEMMA NoMorePieces ==
  ASSUME NEW c \in Nat, NEW n \in Nat, NEW j \in Nat, (c + 1) * n <= (c + 1) * j
  PROVE  n <= j
<1>1. (c + 1) * j < (c + 1) * (j + 1)
  BY Z3
<1>2. (c + 1) * n < (c + 1) * (j + 1)
  BY <1>1
<1>3. n < j + 1
  BY <1>2, FewerPieces
<1>4. QED
  BY <1>3

-----------------------------------------------------------------------------
(* The invariant.                                                          *)

LEMMA LinesTyped == \A l \in Lines : l \in Line /\ l.bytes \in Nat
  BY ChunksAssumption DEF Line

\* The initial states satisfy it.
LEMMA InitChunks == Init => ChunksInv
<1> SUFFICES ASSUME Init PROVE ChunksInv
  OBVIOUS
<1>1. maxjobs \in Nat
  <2>1. PICK o \in Options : Runs(o) /\ maxjobs = o.jobs
    BY DEF Init
  <2>2. o.jobs \in Jobs
    BY <2>1 DEF Runs
  <2>3. Jobs \subseteq Nat
    BY DEF Jobs
  <2>4. QED
    BY <2>1, <2>2, <2>3
<1>2. size \in Nat /\ left = size
  BY ChunksAssumption DEF Init
<1>3. QED
  BY <1>1, <1>2 DEF Init, ChunksInv, NumbersOK, BudgetOK

\* The logger only takes away what is promised.
LEMMA GrowChunks ==
  ASSUME ChunksInv, NEW n \in 1..MaxGrowth, Grow(n)
  PROVE  ChunksInv'
<1>1. /\ grown' > 0 /\ grown' \in Nat /\ left' \in Nat /\ pc # "measure"
      /\ UNCHANGED <<maxjobs, size, chunk_size, pc, currentChunk, currentChunkSize, tasks>>
  BY DEF Grow, chunk, ChunksInv, NumbersOK
<1>2. QED
  BY <1>1 DEF ChunksInv, NumbersOK, BudgetOK

LEMMA MeasureChunks ==
  ASSUME ChunksInv, Measure
  PROVE  ChunksInv'
<1> USE DEF ChunksInv, NumbersOK
<1>1. /\ pc = "measure" /\ pc' \in {"read", "error", "crashed"}
      /\ UNCHANGED <<maxjobs, size, grown, left, currentChunk, currentChunkSize, tasks>>
  BY DEF Measure, chunk
<1>2. chunk_size' \in Nat /\ (pc' = "read" => size < (chunk_size' + 1) * maxjobs)
  <2>1. CASE maxjobs = 0
    BY <2>1 DEF Measure
  <2>2. CASE maxjobs > 0
    <3>1. chunk_size' = size \div maxjobs
      BY <2>2 DEF Measure
    <3>2. size \div maxjobs \in Nat
      BY <2>2
    <3>3. QED
      BY <2>2, <3>1, <3>2, RoundedDown
  <2>3. QED
    BY <2>1, <2>2
<1>3. tasks' = <<>> /\ currentChunk' = <<>> /\ currentChunkSize' = 0 /\ left' = size'
  BY <1>1 DEF BudgetOK
<1>4. Len(tasks') = 0 /\ Len(currentChunk') = 0
  BY <1>3
<1>5. Accounted' = size'
  <2>1. (chunk_size' + 1) * Len(tasks') = 0
    <3>1. \A c \in Nat : (c + 1) * 0 = 0
      OBVIOUS
    <3>2. QED
      BY <1>2, <1>4, <3>1
  <2>2. QED
    BY <1>1, <1>3, <1>4, <2>1 DEF Accounted
<1>6. NumbersOK'
  BY <1>1, <1>2 DEF Ends
<1>7. BudgetOK'
  <2>1. maxjobs' \in Nat /\ size' \in Nat /\ pc' \notin {"measure", "eof"}
    BY <1>1
  <2>2. size' < (chunk_size' + 1) * maxjobs' \/ pc' # "read"
    BY <1>1, <1>2
  <2>3. Accounted' <= size' /\ Len(tasks') <= maxjobs'
    BY <1>4, <1>5, <2>1
  <2>4. QED
    BY <2>1, <2>2, <2>3 DEF BudgetOK
<1>8. QED
  BY <1>6, <1>7

\* A line adds to the account no more than its bytes and one.
LEMMA AddLineAccount ==
  ASSUME NumbersOK, NEW l \in Lines, AddLine(l), chunk_size' = chunk_size
  PROVE  /\ tasks' \in Seq(Task) /\ currentChunk' \in Seq(Line) /\ currentChunkSize' \in Nat
         /\ (chunk_size' + 1) * Len(tasks') + currentChunkSize' + Len(currentChunk')
              <= (chunk_size + 1) * Len(tasks) + currentChunkSize + Len(currentChunk)
                   + l.bytes + 1
<1>a. l \in Line /\ l.bytes \in Nat
  BY LinesTyped
<1>b. /\ chunk_size \in Nat /\ currentChunkSize \in Nat
      /\ currentChunk \in Seq(Line) /\ Len(currentChunk) \in Nat
      /\ tasks \in Seq(Task) /\ Len(tasks) \in Nat
  BY DEF NumbersOK
<1> DEFINE cut == (chunk_size + 1) * Len(tasks)
<1>c. cut \in Nat
  BY <1>b
<1>1. CASE currentChunkSize + l.bytes >= chunk_size
  <2>1. /\ tasks' = Append(tasks, [lines |-> Append(currentChunk, l), state |-> "running"])
        /\ currentChunk' = <<>> /\ currentChunkSize' = 0
    BY <1>1 DEF AddLine, Cut
  <2>2. [lines |-> Append(currentChunk, l), state |-> "running"] \in Task
    BY <1>a, <1>b DEF Task
  <2>3. tasks' \in Seq(Task) /\ Len(tasks') = Len(tasks) + 1
    BY <1>b, <2>1, <2>2
  <2>4. (chunk_size' + 1) * Len(tasks') = cut + chunk_size + 1
    <3>1. \A c, n \in Nat : (c + 1) * (n + 1) = (c + 1) * n + c + 1
      OBVIOUS
    <3>2. QED
      BY <1>b, <2>3, <3>1
  <2> HIDE DEF cut
  <2>5. cut + chunk_size + 1 + 0 + 0 <= cut + currentChunkSize + Len(currentChunk) + l.bytes + 1
    BY <1>1, <1>a, <1>b, <1>c
  <2>6. currentChunk' \in Seq(Line) /\ Len(currentChunk') = 0 /\ currentChunkSize' \in Nat
    BY <2>1
  <2>7. QED
    BY <2>1, <2>3, <2>4, <2>5, <2>6 DEF cut
<1>2. CASE currentChunkSize + l.bytes < chunk_size
  <2>1. /\ tasks' = tasks /\ currentChunk' = Append(currentChunk, l)
        /\ currentChunkSize' = currentChunkSize + l.bytes
    BY <1>2, <1>a, <1>b DEF AddLine
  <2>2. currentChunk' \in Seq(Line) /\ Len(currentChunk') = Len(currentChunk) + 1
    BY <1>a, <1>b, <2>1
  <2>3. (chunk_size' + 1) * Len(tasks') = cut
    BY <2>1
  <2> HIDE DEF cut
  <2>4. cut + (currentChunkSize + l.bytes) + (Len(currentChunk) + 1)
          <= cut + currentChunkSize + Len(currentChunk) + l.bytes + 1
    BY <1>a, <1>b, <1>c
  <2>5. tasks' \in Seq(Task) /\ currentChunkSize' \in Nat
    BY <1>a, <1>b, <2>1
  <2>6. QED
    BY <2>1, <2>2, <2>3, <2>4, <2>5 DEF cut
<1>3. currentChunkSize + l.bytes >= chunk_size \/ currentChunkSize + l.bytes < chunk_size
  BY <1>a, <1>b
<1>4. QED
  BY <1>1, <1>2, <1>3

LEMMA GetLineChunks ==
  ASSUME ChunksInv, NEW l \in Lines, GetLine(l)
  PROVE  ChunksInv'
<1> USE DEF ChunksInv
<1>1. /\ pc = "read" /\ UNCHANGED <<maxjobs, size, grown, chunk_size>> /\ AddLine(l)
      /\ \/ l.bytes < left /\ left' = left - (l.bytes + 1) /\ pc' = "read"
         \/ l.bytes = left /\ left' = 0 /\ pc' = "eof"
  BY DEF GetLine, file
<1>2. l.bytes \in Nat
  BY LinesTyped
<1>3. NumbersOK'
  <2>1. tasks' \in Seq(Task) /\ currentChunk' \in Seq(Line) /\ currentChunkSize' \in Nat
    BY <1>1, AddLineAccount
  <2>2. /\ maxjobs' \in Nat /\ size' \in Nat /\ grown' \in Nat /\ chunk_size' \in Nat
        /\ left' \in Nat /\ pc' \in {"read", "eof"}
    BY <1>1, <1>2 DEF NumbersOK
  <2>3. QED
    BY <2>1, <2>2 DEF NumbersOK
<1>4. ASSUME grown = 0
      PROVE  Accounted' <= IF pc' = "eof" THEN size + 1 ELSE size
  <2> DEFINE before == (chunk_size + 1) * Len(tasks) + currentChunkSize + Len(currentChunk)
             after == (chunk_size' + 1) * Len(tasks') + currentChunkSize' + Len(currentChunk')
  <2>1. before + left <= size
    BY <1>1, <1>4 DEF BudgetOK, Accounted
  <2>2. before \in Int /\ after \in Int
    <3>a. \A c, n, z, k \in Nat : (c + 1) * n + z + k \in Int
      OBVIOUS
    <3>1. Len(tasks) \in Nat /\ Len(currentChunk) \in Nat
      BY DEF NumbersOK
    <3>2. Len(tasks') \in Nat /\ Len(currentChunk') \in Nat
      BY <1>3 DEF NumbersOK
    <3>3. QED
      BY <1>3, <3>a, <3>1, <3>2 DEF NumbersOK
  <2>3. left \in Int /\ left' \in Int /\ size \in Int
    BY <1>3 DEF NumbersOK
  <2>4. after <= before + l.bytes + 1
    BY <1>1, AddLineAccount
  <2>5. Accounted' = after + left'
    BY DEF Accounted
  <2> HIDE DEF before, after
  <2>6. CASE left' = left - (l.bytes + 1) /\ pc' = "read"
    BY <1>2, <2>1, <2>2, <2>3, <2>4, <2>5, <2>6
  <2>7. CASE l.bytes = left /\ left' = 0 /\ pc' = "eof"
    BY <1>2, <2>1, <2>2, <2>3, <2>4, <2>5, <2>7
  <2>8. QED
    BY <1>1, <2>6, <2>7
<1>5. QED
  BY <1>1, <1>3, <1>4 DEF BudgetOK

\* The rest of the file makes one more chunk at most.
LEMMA EndOfFileChunks ==
  ASSUME ChunksInv, EndOfFile
  PROVE  ChunksInv'
<1> USE DEF ChunksInv, NumbersOK
<1>1. /\ pc \in {"read", "eof"} /\ pc' = "join"
      /\ UNCHANGED <<maxjobs, size, grown, chunk_size, left, currentChunk, currentChunkSize>>
  BY DEF EndOfFile, file, chunk
<1>2. tasks' \in Seq(Task)
      /\ Len(tasks') = IF currentChunk = <<>> THEN Len(tasks) ELSE Len(tasks) + 1
  <2>1. CASE currentChunk = <<>>
    BY <2>1 DEF EndOfFile
  <2>2. CASE currentChunk # <<>>
    <3>1. tasks' = Append(tasks, [lines |-> currentChunk, state |-> "running"])
      BY <2>2 DEF EndOfFile, Cut
    <3>2. [lines |-> currentChunk, state |-> "running"] \in Task
      BY DEF Task
    <3>3. QED
      BY <2>2, <3>1, <3>2
  <2>3. QED
    BY <2>1, <2>2
<1>3. ASSUME grown = 0 PROVE Len(tasks') <= maxjobs
  <2>1. Accounted <= size + 1 /\ size < (chunk_size + 1) * maxjobs
    <3>1. Accounted \in Int
      BY DEF Accounted
    <3>2. QED
      BY <1>1, <1>3, <3>1 DEF BudgetOK
  <2>2. (chunk_size + 1) * Len(tasks) \in Nat /\ (chunk_size + 1) * maxjobs \in Nat
    OBVIOUS
  <2>3. CASE currentChunk = <<>>
    <3>1. (chunk_size + 1) * Len(tasks) <= (chunk_size + 1) * maxjobs
      BY <2>1, <2>2, <2>3 DEF Accounted
    <3>2. QED
      BY <1>2, <2>3, <3>1, NoMorePieces
  <2>4. CASE currentChunk # <<>>
    <3>1. Len(currentChunk) >= 1
      BY <2>4
    <3>2. (chunk_size + 1) * Len(tasks) < (chunk_size + 1) * maxjobs
      BY <2>1, <2>2, <3>1 DEF Accounted
    <3>3. QED
      BY <1>2, <2>4, <3>2, FewerPieces
  <2>5. QED
    BY <2>3, <2>4
<1>4. QED
  BY <1>1, <1>2, <1>3 DEF BudgetOK

\* What comes after the file is cut leaves the number of tasks as it is.
LEMMA TasksChunks ==
  ASSUME ChunksInv, (\E i \in DOMAIN tasks : TaskEnds(i)) \/ Join \/ Return \/ Unwind
  PROVE  ChunksInv'
<1> USE DEF ChunksInv, NumbersOK
<1>1. /\ UNCHANGED <<maxjobs, size, grown, chunk_size, left, currentChunk, currentChunkSize>>
      /\ \/ pc' = pc
         \/ /\ pc \notin {"measure", "read", "eof"}
            /\ pc' \in {"unwind", "returned", "threw"}
  BY DEF TaskEnds, Join, Return, Unwind, file, chunk
<1>2. tasks' \in Seq(Task) /\ Len(tasks') = Len(tasks)
  <2>1. CASE \E i \in DOMAIN tasks : TaskEnds(i)
    <3>1. PICK i \in DOMAIN tasks : TaskEnds(i)
      BY <2>1
    <3>2. PICK s \in {"done", "threw"} : tasks' = [tasks EXCEPT ![i].state = s]
      BY <3>1 DEF TaskEnds
    <3>3. tasks[i] \in Task
      BY <3>1
    <3>a. [tasks[i] EXCEPT !.state = s] \in Task
      BY <3>3 DEF Task
    <3>4. tasks' = [tasks EXCEPT ![i] = [tasks[i] EXCEPT !.state = s]]
      BY <3>1, <3>2
    <3>5. QED
      BY <3>1, <3>a, <3>4
  <2>2. CASE Join \/ Return \/ Unwind
    BY <2>2 DEF Join, Return, Unwind
  <2>3. QED
    BY <2>1, <2>2
<1>3. pc = "measure" => tasks' = <<>>
  BY <1>2 DEF BudgetOK
<1>4. pc' \in {"measure", "read", "eof", "join", "unwind"} \cup Ends
  BY <1>1 DEF Ends
<1>5. Accounted' = Accounted
  BY <1>1, <1>2 DEF Accounted
<1>6. QED
  BY <1>1, <1>2, <1>3, <1>4, <1>5 DEF BudgetOK

\* Every step preserves it.
LEMMA NextChunks == ChunksInv /\ [Next]_vars => ChunksInv'
<1> SUFFICES ASSUME ChunksInv, [Next]_vars PROVE ChunksInv'
  OBVIOUS
<1>1. CASE UNCHANGED vars
  BY <1>1 DEF vars, ChunksInv, NumbersOK, BudgetOK, Accounted
<1>2. QED
  BY <1>1, GrowChunks, MeasureChunks, GetLineChunks, EndOfFileChunks, TasksChunks
     DEF Next, Read

\* While the file is read there is room for what has been cut.
LEMMA BudgetBounds == ChunksInv => TasksBounded
<1> SUFFICES ASSUME ChunksInv, grown = 0 PROVE Len(tasks) <= maxjobs
  BY DEF TasksBounded
<1> USE DEF ChunksInv, NumbersOK
<1>1. CASE pc \in {"read", "eof"}
  <2>1. (chunk_size + 1) * Len(tasks) \in Nat /\ (chunk_size + 1) * maxjobs \in Nat
    OBVIOUS
  <2>2. Accounted <= size + 1 /\ size < (chunk_size + 1) * maxjobs
    BY <1>1, <2>1 DEF BudgetOK, Accounted
  <2>3. (chunk_size + 1) * Len(tasks) <= (chunk_size + 1) * maxjobs
    BY <2>1, <2>2 DEF Accounted
  <2>4. QED
    BY <2>3, NoMorePieces
<1>2. CASE pc \notin {"read", "eof"}
  BY <1>2 DEF BudgetOK
<1>3. QED
  BY <1>1, <1>2

\* logFile2Json starts no more tasks than maxjobs for a file that does not grow while
\* it is read (TempsCtrl.cc:199-232), whatever its size and the lengths of its lines.
THEOREM NoMoreTasks == Spec => []TasksBounded
  BY InitChunks, NextChunks, BudgetBounds, PTL DEF Spec

-----------------------------------------------------------------------------
(* What the answer holds.                                                  *)

\* Where the file has been cut: the i-th task has the lines up to cuts[i], and the
\* answer is what is kept of the lines up to the last task that has been joined.
Cutting(cuts) ==
  /\ cuts \in [0..Len(tasks) -> 0..Len(lines)]
  /\ cuts[0] = 0
  /\ \A i \in 1..Len(tasks) :
       /\ cuts[i - 1] <= cuts[i]
       /\ tasks[i].lines = SubSeq(lines, cuts[i - 1] + 1, cuts[i])
  /\ pc \in {"measure", "read", "eof"} =>
       currentChunk = SubSeq(lines, cuts[Len(tasks)] + 1, Len(lines))
  /\ pc \in {"join", "unwind", "returned", "threw"} => cuts[Len(tasks)] = Len(lines)
  /\ temps = Points(SubSeq(lines, 1, cuts[joined]))
  /\ \A k \in 1..cuts[joined] : ~ Throws(lines[k])

\* What a task has found in its lines, and what the caller has taken of it.
TasksOK ==
  /\ joined \in 0..Len(tasks)
  /\ \A i \in 1..Len(tasks) :
       /\ tasks[i].state = "done" => ~ AnyThrows(tasks[i].lines)
       /\ tasks[i].state = "threw" => AnyThrows(tasks[i].lines)
       /\ i <= joined => tasks[i].state = "done"
  /\ pc \in {"unwind", "threw"} => \E i \in 1..Len(tasks) : tasks[i].state = "threw"
  /\ pc = "threw" => \A i \in 1..Len(tasks) : tasks[i].state # "running"
  /\ pc = "returned" => joined = Len(tasks)

AnswerInv ==
  /\ maxjobs \in Jobs
  /\ lines \in Seq(Line)
  /\ TasksOK
  /\ \E cuts \in [0..Len(tasks) -> 0..Len(lines)] : Cutting(cuts)

\* The lines before a new one.
LEMMA BeforeNewLine ==
  ASSUME NEW A, NEW s \in Seq(A), NEW e \in A, NEW a \in Nat, a >= 1, NEW b \in 0..Len(s)
  PROVE  SubSeq(Append(s, e), a, b) = SubSeq(s, a, b)
<1>1. Len(SubSeq(Append(s, e), a, b)) = Len(SubSeq(s, a, b))
  OBVIOUS
<1>2. \A i \in 1..Len(SubSeq(s, a, b)) : SubSeq(Append(s, e), a, b)[i] = SubSeq(s, a, b)[i]
  OBVIOUS
<1>3. SubSeq(Append(s, e), a, b) \in Seq(A) /\ SubSeq(s, a, b) \in Seq(A)
  OBVIOUS
<1>4. QED
  BY <1>1, <1>2, <1>3, SeqEqual

\* The new line comes behind what was there.
LEMMA UpToNewLine ==
  ASSUME NEW A, NEW s \in Seq(A), NEW e \in A, NEW a \in 1..(Len(s) + 1)
  PROVE  SubSeq(Append(s, e), a, Len(s) + 1) = Append(SubSeq(s, a, Len(s)), e)
<1> DEFINE x == SubSeq(Append(s, e), a, Len(s) + 1)
           y == Append(SubSeq(s, a, Len(s)), e)
<1>1. Len(x) = Len(y)
  OBVIOUS
<1>2. \A i \in 1..Len(x) : x[i] = y[i]
  OBVIOUS
<1>3. x \in Seq(A) /\ y \in Seq(A)
  OBVIOUS
<1>4. QED
  BY <1>1, <1>2, <1>3, SeqEqual

LEMMA InitAnswer == Init => AnswerInv
<1> SUFFICES ASSUME Init PROVE AnswerInv
  OBVIOUS
<1>1. maxjobs \in Jobs
  BY DEF Init, Runs
<1>2. tasks = <<>> /\ lines = <<>> /\ joined = 0 /\ temps = <<>> /\ currentChunk = <<>>
      /\ pc = "measure"
  BY DEF Init
<1>3. Len(tasks) = 0 /\ Len(lines) = 0 /\ lines \in Seq(Line)
  BY <1>2
<1>4. TasksOK
  BY <1>2, <1>3 DEF TasksOK
<1> DEFINE cuts == [i \in 0..Len(tasks) |-> 0]
<1>5. cuts \in [0..Len(tasks) -> 0..Len(lines)] /\ cuts[0] = 0 /\ cuts[Len(tasks)] = 0
  BY <1>3
<1> HIDE DEF cuts
<1>6. SubSeq(lines, 1, 0) = <<>> /\ SubSeq(lines, 1, Len(lines)) = <<>>
  BY <1>2, <1>3
<1>7. temps = Points(SubSeq(lines, 1, cuts[joined]))
  BY <1>2, <1>5, <1>6, KeptEmpty DEF Points
<1>8. currentChunk = SubSeq(lines, cuts[Len(tasks)] + 1, Len(lines))
  BY <1>2, <1>5, <1>6
<1>9. Cutting(cuts)
  BY <1>2, <1>3, <1>5, <1>7, <1>8 DEF Cutting
<1>10. QED
  BY <1>1, <1>3, <1>4, <1>5, <1>9 DEF AnswerInv

\* What comes before the first line leaves it as it is.
LEMMA QuietAnswer ==
  ASSUME AnswerInv, \E n \in 1..MaxGrowth : Grow(n)
  PROVE  AnswerInv'
<1>1. UNCHANGED <<maxjobs, pc, currentChunk, lines, tasks, joined, temps>>
  BY DEF Grow, chunk, answer
<1>2. QED
  BY <1>1 DEF AnswerInv, TasksOK, Cutting

LEMMA MeasureAnswer ==
  ASSUME AnswerInv, Measure
  PROVE  AnswerInv'
<1>1. /\ UNCHANGED <<maxjobs, currentChunk, lines, tasks, joined, temps>>
      /\ pc = "measure" /\ pc' \in {"read", "error", "crashed"}
  BY DEF Measure, chunk, answer
<1>2. TasksOK'
  BY <1>1 DEF AnswerInv, TasksOK
<1>3. ASSUME NEW cuts, Cutting(cuts) PROVE Cutting(cuts)'
  BY <1>1, <1>3 DEF Cutting
<1>4. QED
  BY <1>1, <1>2, <1>3 DEF AnswerInv

\* The lines that have been read stay what they are.
LinesKept ==
  /\ lines' \in Seq(Line)
  /\ Len(lines) <= Len(lines')
  /\ \A a \in Nat, b \in 0..Len(lines) : a >= 1 => SubSeq(lines', a, b) = SubSeq(lines, a, b)
  /\ \A k \in 1..Len(lines) : lines'[k] = lines[k]

LEMMA LinesGrow ==
  ASSUME lines \in Seq(Line), NEW l \in Line, lines' = Append(lines, l)
  PROVE  LinesKept
<1>1. lines' \in Seq(Line) /\ Len(lines') = Len(lines) + 1
  OBVIOUS
<1>2. \A a \in Nat, b \in 0..Len(lines) : a >= 1 => SubSeq(lines', a, b) = SubSeq(lines, a, b)
  BY BeforeNewLine
<1>3. QED
  BY <1>1, <1>2 DEF LinesKept

LEMMA LinesSame ==
  ASSUME lines \in Seq(Line), lines' = lines
  PROVE  LinesKept
  BY DEF LinesKept

\* One task more takes nothing from the others.
LEMMA CutTasks ==
  ASSUME tasks \in Seq(Task), NEW t \in Task, t.state = "running", tasks' = Append(tasks, t),
         TasksOK, joined' = joined, pc' \in {"read", "eof", "join"}
  PROVE  TasksOK'
<1>1. /\ Len(tasks') = Len(tasks) + 1 /\ tasks'[Len(tasks) + 1] = t
      /\ \A i \in 1..Len(tasks) : tasks'[i] = tasks[i]
  OBVIOUS
<1>2. joined' \in 0..Len(tasks') /\ joined' <= Len(tasks) /\ joined' \in Nat
  BY <1>1 DEF TasksOK
<1>3. ASSUME NEW i \in 1..Len(tasks')
      PROVE  /\ tasks'[i].state = "done" => ~ AnyThrows(tasks'[i].lines)
             /\ tasks'[i].state = "threw" => AnyThrows(tasks'[i].lines)
             /\ i <= joined' => tasks'[i].state = "done"
  <2>1. CASE i \in 1..Len(tasks)
    BY <1>1, <2>1 DEF TasksOK
  <2>2. CASE i = Len(tasks) + 1
    <3>1. ~ (i <= joined')
      BY <1>2, <2>2
    <3>2. QED
      BY <1>1, <2>2, <3>1
  <2>3. QED
    BY <1>1, <2>1, <2>2
<1>4. QED
  BY <1>2, <1>3 DEF TasksOK

\* The file is cut at its end so far.
LEMMA CutLines ==
  ASSUME tasks \in Seq(Task), lines \in Seq(Line), LinesKept, joined \in 0..Len(tasks),
         NEW cuts, Cutting(cuts),
         NEW t \in Task, tasks' = Append(tasks, t),
         t.lines = SubSeq(lines', cuts[Len(tasks)] + 1, Len(lines')),
         pc' \in {"read", "eof"} => currentChunk' = <<>>,
         pc' \in {"read", "eof", "join"}, joined' = joined, temps' = temps
  PROVE  \E cs \in [0..Len(tasks') -> 0..Len(lines')] : Cutting(cs)'
<1> DEFINE n == Len(tasks)
<1>a. PICK cs : cs = [i \in 0..(n + 1) |-> IF i = n + 1 THEN Len(lines') ELSE cuts[i]]
  OBVIOUS
<1>1. /\ n \in Nat /\ Len(tasks') = n + 1 /\ tasks'[n + 1] = t
      /\ \A i \in 1..n : tasks'[i] = tasks[i]
  OBVIOUS
<1>2. Len(lines) \in Nat /\ Len(lines') \in Nat /\ Len(lines) <= Len(lines')
  BY DEF LinesKept
<1>3. \A i \in 0..n : cuts[i] \in 0..Len(lines) /\ cuts[i] \in 0..Len(lines')
  BY <1>2 DEF Cutting
<1>4. cs[n + 1] = Len(lines') /\ \A i \in 0..n : cs[i] = cuts[i]
  BY <1>a, <1>1
<1>5. cs \in [0..Len(tasks') -> 0..Len(lines')]
  BY <1>a, <1>1, <1>2, <1>3
<1> HIDE DEF n
<1>6. cs[0] = 0
  BY <1>1, <1>4 DEF Cutting
<1>7. ASSUME NEW i \in 1..Len(tasks')
      PROVE  /\ cs[i - 1] <= cs[i]
             /\ tasks'[i].lines = SubSeq(lines', cs[i - 1] + 1, cs[i])
  <2>1. CASE i \in 1..n
    <3>1. i \in 0..n /\ i - 1 \in 0..n
      BY <1>1, <2>1
    <3>2. cuts[i - 1] <= cuts[i] /\ tasks[i].lines = SubSeq(lines, cuts[i - 1] + 1, cuts[i])
      BY <2>1 DEF Cutting, n
    <3>3. cuts[i - 1] + 1 \in Nat /\ cuts[i - 1] + 1 >= 1 /\ cuts[i] \in 0..Len(lines)
      BY <1>3, <3>1
    <3>4. SubSeq(lines', cuts[i - 1] + 1, cuts[i]) = SubSeq(lines, cuts[i - 1] + 1, cuts[i])
      BY <3>3 DEF LinesKept
    <3>5. QED
      BY <1>1, <1>4, <2>1, <3>1, <3>2, <3>4
  <2>2. CASE i = n + 1
    <3>1. i - 1 = n /\ n \in 0..n
      BY <1>1, <2>2
    <3>2. cs[i - 1] = cuts[n] /\ cs[i] = Len(lines') /\ cuts[n] \in 0..Len(lines')
      BY <1>3, <1>4, <2>2, <3>1
    <3>3. QED
      BY <1>1, <1>2, <2>2, <3>2 DEF n
  <2>3. QED
    BY <1>1, <2>1, <2>2
<1>8. cs[Len(tasks')] = Len(lines')
  BY <1>1, <1>4
<1>9. pc' \in {"read", "eof"} =>
        currentChunk' = SubSeq(lines', cs[Len(tasks')] + 1, Len(lines'))
  <2>1. SubSeq(lines', Len(lines') + 1, Len(lines')) = <<>>
    BY DEF LinesKept
  <2>2. QED
    BY <1>8, <2>1
<1>10. joined \in 0..n /\ cs[joined] = cuts[joined] /\ cuts[joined] \in 0..Len(lines)
  BY <1>3, <1>4 DEF n
<1>11. temps' = Points(SubSeq(lines', 1, cs[joined]))
  <2>1. temps = Points(SubSeq(lines, 1, cuts[joined]))
    BY DEF Cutting
  <2>2. SubSeq(lines', 1, cuts[joined]) = SubSeq(lines, 1, cuts[joined])
    BY <1>10 DEF LinesKept
  <2>3. QED
    BY <1>10, <2>1, <2>2
<1>12. \A k \in 1..cs[joined] : ~ Throws(lines'[k])
  <2>1. \A k \in 1..cuts[joined] : ~ Throws(lines[k])
    BY DEF Cutting
  <2>2. \A k \in 1..cuts[joined] : lines'[k] = lines[k]
    BY <1>2, <1>10 DEF LinesKept
  <2>3. QED
    BY <1>10, <2>1, <2>2
<1>13. Cutting(cs)'
  BY <1>5, <1>6, <1>7, <1>8, <1>9, <1>11, <1>12 DEF Cutting
<1>14. QED
  BY <1>5, <1>13

\* The body of the loop.
LEMMA GetLineAnswer ==
  ASSUME NumbersOK, AnswerInv, NEW l \in Lines, GetLine(l)
  PROVE  AnswerInv'
<1>1. /\ UNCHANGED <<maxjobs, joined, temps>> /\ AddLine(l)
      /\ pc = "read" /\ pc' \in {"read", "eof"}
  BY DEF GetLine, file, answer
<1>2. /\ tasks \in Seq(Task) /\ lines \in Seq(Line) /\ l \in Line
      /\ currentChunk \in Seq(Line) /\ joined \in 0..Len(tasks)
  BY LinesTyped DEF NumbersOK, AnswerInv, TasksOK
<1>3. lines' = Append(lines, l)
  BY <1>1 DEF AddLine
<1>4. LinesKept /\ lines' \in Seq(Line) /\ Len(lines') = Len(lines) + 1
  BY <1>2, <1>3, LinesGrow
<1>5. PICK cuts \in [0..Len(tasks) -> 0..Len(lines)] : Cutting(cuts)
  BY DEF AnswerInv
<1>6. currentChunk = SubSeq(lines, cuts[Len(tasks)] + 1, Len(lines))
      /\ cuts[Len(tasks)] \in 0..Len(lines)
  <2>1. Len(tasks) \in 0..Len(tasks)
    BY <1>2
  <2>2. QED
    BY <1>1, <1>5, <2>1 DEF Cutting
<1>7. Append(currentChunk, l) = SubSeq(lines', cuts[Len(tasks)] + 1, Len(lines'))
  <2>1. cuts[Len(tasks)] + 1 \in 1..(Len(lines) + 1)
    BY <1>2, <1>6
  <2>2. SubSeq(lines', cuts[Len(tasks)] + 1, Len(lines) + 1) = Append(currentChunk, l)
    BY <1>2, <1>3, <1>6, <2>1, UpToNewLine
  <2>3. QED
    BY <1>4, <2>2
<1>8. CASE currentChunkSize + l.bytes >= chunk_size
  <2> DEFINE t == [lines |-> Append(currentChunk, l), state |-> "running"]
  <2>1. tasks' = Append(tasks, t) /\ currentChunk' = <<>>
    BY <1>1, <1>8 DEF AddLine, Cut
  <2>2. t \in Task /\ t.state = "running" /\ t.lines = Append(currentChunk, l)
    BY <1>2 DEF Task
  <2> HIDE DEF t
  <2>3. TasksOK'
    BY <1>1, <1>2, <2>1, <2>2, CutTasks DEF AnswerInv
  <2>4. \E cs \in [0..Len(tasks') -> 0..Len(lines')] : Cutting(cs)'
    BY <1>1, <1>2, <1>4, <1>5, <1>7, <2>1, <2>2, CutLines
  <2>5. QED
    BY <1>1, <1>4, <2>3, <2>4 DEF AnswerInv
<1>9. CASE ~ (currentChunkSize + l.bytes >= chunk_size)
  <2>1. tasks' = tasks /\ currentChunk' = Append(currentChunk, l)
    BY <1>1, <1>9 DEF AddLine
  <2>2. TasksOK'
    BY <1>1, <2>1 DEF AnswerInv, TasksOK
  <2>3. cuts \in [0..Len(tasks') -> 0..Len(lines')]
    <3>1. 0..Len(lines) \subseteq 0..Len(lines')
      BY <1>2, <1>4
    <3>2. QED
      BY <2>1, <3>1
  <2>4. \A i \in 1..Len(tasks) :
          /\ cuts[i - 1] <= cuts[i]
          /\ tasks[i].lines = SubSeq(lines', cuts[i - 1] + 1, cuts[i])
    <3> SUFFICES ASSUME NEW i \in 1..Len(tasks)
                 PROVE  /\ cuts[i - 1] <= cuts[i]
                        /\ tasks[i].lines = SubSeq(lines', cuts[i - 1] + 1, cuts[i])
      OBVIOUS
    <3>1. cuts[i - 1] \in 0..Len(lines) /\ cuts[i] \in 0..Len(lines)
      <4>1. i - 1 \in 0..Len(tasks) /\ i \in 0..Len(tasks)
        BY <1>2
      <4>2. QED
        BY <4>1
    <3>2. cuts[i - 1] + 1 \in Nat /\ cuts[i - 1] + 1 >= 1
      BY <1>2, <3>1
    <3>3. SubSeq(lines', cuts[i - 1] + 1, cuts[i]) = SubSeq(lines, cuts[i - 1] + 1, cuts[i])
      BY <1>4, <3>1, <3>2 DEF LinesKept
    <3>4. QED
      BY <1>5, <3>3 DEF Cutting
  <2>5. cuts[joined] \in 0..Len(lines)
    BY <1>2
  <2>6. temps' = Points(SubSeq(lines', 1, cuts[joined]))
    <3>1. SubSeq(lines', 1, cuts[joined]) = SubSeq(lines, 1, cuts[joined])
      BY <1>4, <2>5 DEF LinesKept
    <3>2. QED
      BY <1>1, <1>5, <3>1 DEF Cutting
  <2>7. \A k \in 1..cuts[joined] : ~ Throws(lines'[k])
    <3>1. \A k \in 1..cuts[joined] : lines'[k] = lines[k]
      BY <1>2, <1>4, <2>5 DEF LinesKept
    <3>2. QED
      BY <1>5, <3>1 DEF Cutting
  <2>8. cuts[0] = 0
    BY <1>5 DEF Cutting
  <2>9. Cutting(cuts)'
    BY <1>1, <1>7, <2>1, <2>3, <2>4, <2>6, <2>7, <2>8 DEF Cutting
  <2>10. QED
    BY <1>1, <1>4, <2>2, <2>3, <2>9 DEF AnswerInv
<1>10. QED
  BY <1>8, <1>9

\* What is left of the file goes to a last task.
LEMMA EndOfFileAnswer ==
  ASSUME NumbersOK, AnswerInv, EndOfFile
  PROVE  AnswerInv'
<1>1. /\ UNCHANGED <<maxjobs, currentChunk, lines, joined, temps>>
      /\ pc \in {"read", "eof"} /\ pc' = "join"
  BY DEF EndOfFile, file, chunk, answer
<1>2. /\ tasks \in Seq(Task) /\ lines \in Seq(Line) /\ currentChunk \in Seq(Line)
      /\ joined \in 0..Len(tasks)
  BY DEF NumbersOK, AnswerInv, TasksOK
<1>3. LinesKept
  BY <1>1, <1>2, LinesSame
<1>4. PICK cuts \in [0..Len(tasks) -> 0..Len(lines)] : Cutting(cuts)
  BY DEF AnswerInv
<1>5. /\ currentChunk = SubSeq(lines, cuts[Len(tasks)] + 1, Len(lines))
      /\ cuts[Len(tasks)] \in 0..Len(lines)
  <2>1. Len(tasks) \in 0..Len(tasks)
    BY <1>2
  <2>2. QED
    BY <1>1, <1>4, <2>1 DEF Cutting
<1>6. CASE currentChunk # <<>>
  <2> DEFINE t == [lines |-> currentChunk, state |-> "running"]
  <2>1. tasks' = Append(tasks, t)
    BY <1>6 DEF EndOfFile, Cut
  <2>2. t \in Task /\ t.state = "running" /\ t.lines = currentChunk
    BY <1>2 DEF Task
  <2> HIDE DEF t
  <2>3. TasksOK'
    BY <1>1, <1>2, <2>1, <2>2, CutTasks DEF AnswerInv
  <2>4. \E cs \in [0..Len(tasks') -> 0..Len(lines')] : Cutting(cs)'
    BY <1>1, <1>2, <1>3, <1>4, <1>5, <2>1, <2>2, CutLines
  <2>5. QED
    BY <1>1, <2>3, <2>4 DEF AnswerInv
<1>7. CASE currentChunk = <<>>
  <2>1. tasks' = tasks
    BY <1>7 DEF EndOfFile
  <2>2. TasksOK'
    BY <1>1, <2>1 DEF AnswerInv, TasksOK
  <2>3. cuts[Len(tasks)] = Len(lines)
    <3>1. Len(currentChunk) = 0
      BY <1>7
    <3>2. QED
      BY <1>2, <1>5, <3>1
  <2>4. Cutting(cuts)'
    BY <1>1, <1>4, <2>1, <2>3 DEF Cutting
  <2>5. QED
    BY <1>1, <1>4, <2>1, <2>2, <2>4 DEF AnswerInv
<1>8. QED
  BY <1>6, <1>7

\* A task that ends changes nothing but its own state.
LEMMA TaskEndsAnswer ==
  ASSUME NumbersOK, AnswerInv, NEW i \in DOMAIN tasks, TaskEnds(i)
  PROVE  AnswerInv'
<1> DEFINE end == IF AnyThrows(tasks[i].lines) THEN "threw" ELSE "done"
<1>1. /\ UNCHANGED <<maxjobs, pc, currentChunk, lines, joined, temps>>
      /\ tasks[i].state = "running"
      /\ tasks' = [tasks EXCEPT ![i].state = end]
  BY DEF TaskEnds, file, chunk, answer
<1>2. tasks \in Seq(Task) /\ i \in 1..Len(tasks)
  BY DEF NumbersOK
<1>3. \A j \in 1..Len(tasks) :
        tasks[j] \in [lines : Seq(Line), state : {"running", "done", "threw"}]
  <2>1. \A j \in 1..Len(tasks) : tasks[j] \in Task
    BY <1>2
  <2>2. QED
    BY <2>1 DEF Task
<1>4. DOMAIN tasks' = 1..Len(tasks) /\ Len(tasks') = Len(tasks)
  BY <1>1, <1>2
<1>5. \A j \in 1..Len(tasks) :
        /\ tasks'[j].lines = tasks[j].lines
        /\ tasks'[j].state = IF j = i THEN end ELSE tasks[j].state
  BY <1>1, <1>2, <1>3
<1> HIDE DEF end
<1>6. TasksOK'
  <2>1. \A j \in 1..Len(tasks) : j <= joined => j # i
    BY <1>1, <1>2 DEF AnswerInv, TasksOK
  <2>2. \A j \in 1..Len(tasks') :
          /\ tasks'[j].state = "done" => ~ AnyThrows(tasks'[j].lines)
          /\ tasks'[j].state = "threw" => AnyThrows(tasks'[j].lines)
          /\ j <= joined' => tasks'[j].state = "done"
    <3> SUFFICES ASSUME NEW j \in 1..Len(tasks)
                 PROVE  /\ tasks'[j].state = "done" => ~ AnyThrows(tasks'[j].lines)
                        /\ tasks'[j].state = "threw" => AnyThrows(tasks'[j].lines)
                        /\ j <= joined' => tasks'[j].state = "done"
      BY <1>4
    <3>1. CASE j = i
      <4>1. tasks'[j].state = end /\ tasks'[j].lines = tasks[i].lines
        BY <1>5, <3>1
      <4>2. ~ (j <= joined')
        BY <1>1, <2>1, <3>1
      <4>3. QED
        BY <4>1, <4>2 DEF end
    <3>2. CASE j # i
      BY <1>1, <1>5, <3>2 DEF AnswerInv, TasksOK
    <3>3. QED
      BY <3>1, <3>2
  <2>3. pc' \in {"unwind", "threw"} => \E j \in 1..Len(tasks') : tasks'[j].state = "threw"
    <3> SUFFICES ASSUME pc \in {"unwind", "threw"}
                 PROVE  \E j \in 1..Len(tasks) : tasks'[j].state = "threw"
      BY <1>1, <1>4
    <3>1. PICK j \in 1..Len(tasks) : tasks[j].state = "threw"
      BY DEF AnswerInv, TasksOK
    <3>2. j # i
      BY <1>1, <3>1
    <3>3. QED
      BY <1>5, <3>1, <3>2
  <2>4. pc' # "threw"
    BY <1>1, <1>2 DEF AnswerInv, TasksOK
  <2>5. joined' \in 0..Len(tasks') /\ (pc' = "returned" => joined' = Len(tasks'))
    BY <1>1, <1>4 DEF AnswerInv, TasksOK
  <2>6. QED
    BY <2>2, <2>3, <2>4, <2>5 DEF TasksOK
<1>7. ASSUME NEW cuts, Cutting(cuts) PROVE Cutting(cuts)'
  BY <1>1, <1>4, <1>5, <1>7 DEF Cutting
<1>8. QED
  BY <1>1, <1>4, <1>6, <1>7 DEF AnswerInv

\* The results of the next task go behind those that are there.
LEMMA JoinAnswer ==
  ASSUME NumbersOK, AnswerInv, Join
  PROVE  AnswerInv'
<1> DEFINE next == joined + 1
           S == {l \in Lines : IsPoint(l)}
<1>1. /\ UNCHANGED <<maxjobs, currentChunk, lines, tasks>>
      /\ pc = "join" /\ joined < Len(tasks)
  BY DEF Join, file, chunk
<1>2. tasks \in Seq(Task) /\ lines \in Seq(Line) /\ joined \in 0..Len(tasks)
  BY DEF NumbersOK, AnswerInv, TasksOK
<1>3. next \in 1..Len(tasks) /\ next - 1 = joined /\ next \in 0..Len(tasks)
  BY <1>1, <1>2
<1>4. CASE tasks[next].state = "threw" /\ pc' = "unwind" /\ UNCHANGED answer
  <2>1. joined' = joined /\ temps' = temps
    BY <1>4 DEF answer
  <2>2. TasksOK'
    BY <1>1, <1>3, <1>4, <2>1 DEF AnswerInv, TasksOK
  <2>3. ASSUME NEW cuts, Cutting(cuts) PROVE Cutting(cuts)'
    BY <1>1, <1>4, <2>1, <2>3 DEF Cutting
  <2>4. QED
    BY <1>1, <2>2, <2>3 DEF AnswerInv
<1>5. CASE /\ tasks[next].state = "done" /\ pc' = pc /\ joined' = next
           /\ temps' = temps \o Points(tasks[next].lines)
  <2>1. PICK cuts \in [0..Len(tasks) -> 0..Len(lines)] : Cutting(cuts)
    BY DEF AnswerInv
  <2>2. /\ cuts[joined] \in 0..Len(lines) /\ cuts[next] \in cuts[joined]..Len(lines)
        /\ tasks[next].lines = SubSeq(lines, cuts[joined] + 1, cuts[next])
    <3>1. cuts[joined] \in 0..Len(lines) /\ cuts[next] \in 0..Len(lines)
      BY <1>2, <1>3
    <3>2. /\ cuts[joined] <= cuts[next]
          /\ tasks[next].lines = SubSeq(lines, cuts[joined] + 1, cuts[next])
      BY <1>3, <2>1 DEF Cutting
    <3>3. QED
      BY <1>2, <3>1, <3>2
  <2> HIDE DEF next
  <2>3. temps' = Points(SubSeq(lines, 1, cuts[next]))
    <3>1. temps = Kept(SubSeq(lines, 1, cuts[joined]), S)
      BY <2>1 DEF Cutting, Points
    <3>2. temps' = temps \o Kept(SubSeq(lines, cuts[joined] + 1, cuts[next]), S)
      BY <1>5, <2>2 DEF Points
    <3> HIDE DEF S
    <3>3. temps' = Kept(SubSeq(lines, 1, cuts[next]), S)
      BY <1>2, <2>2, <3>1, <3>2, KeptSplit
    <3>4. QED
      BY <3>3 DEF S, Points
  <2>4. \A k \in 1..cuts[next] : ~ Throws(lines[k])
    <3> SUFFICES ASSUME NEW k \in 1..cuts[next] PROVE ~ Throws(lines[k])
      OBVIOUS
    <3> DEFINE a == cuts[joined]
               b == cuts[next]
               ls == tasks[next].lines
    <3>1. CASE k \in 1..a
      BY <2>1, <3>1 DEF Cutting
    <3>2. CASE k \notin 1..a
      <4>1. ~ AnyThrows(ls)
        BY <1>3, <1>5 DEF AnswerInv, TasksOK
      <4>2. a \in Nat /\ b \in Nat /\ a <= b /\ b <= Len(lines) /\ k \in (a + 1)..b
        BY <1>2, <2>2, <3>2
      <4>3. ls = SubSeq(lines, a + 1, b)
        BY <2>2
      <4> HIDE DEF a, b, ls
      <4>4. k - a \in DOMAIN ls /\ ls[k - a] = lines[k]
        BY <1>2, <4>2, <4>3
      <4>5. QED
        BY <4>1, <4>4 DEF AnyThrows
    <3>3. QED
      BY <3>1, <3>2
  <2>5. Cutting(cuts)'
    BY <1>1, <1>5, <2>1, <2>3, <2>4 DEF Cutting
  <2>6. TasksOK'
    <3>1. \A i \in 1..Len(tasks) : i <= next => i = next \/ i <= joined
      BY <1>2 DEF next
    <3>2. QED
      BY <1>1, <1>3, <1>5, <3>1 DEF AnswerInv, TasksOK
  <2>7. QED
    BY <1>1, <2>1, <2>5, <2>6 DEF AnswerInv
<1>6. QED
  BY <1>4, <1>5 DEF Join

LEMMA EndAnswer ==
  ASSUME NumbersOK, AnswerInv, Return \/ Unwind
  PROVE  AnswerInv'
<1>1. /\ UNCHANGED <<maxjobs, currentChunk, lines, tasks, joined, temps>>
      /\ \/ pc = "join" /\ pc' = "returned" /\ joined = Len(tasks)
         \/ /\ pc = "unwind" /\ pc' = "threw"
            /\ \A i \in DOMAIN tasks : tasks[i].state # "running"
  BY DEF Return, Unwind, file, chunk, answer
<1>2. DOMAIN tasks = 1..Len(tasks)
  BY DEF NumbersOK
<1>3. TasksOK'
  BY <1>1, <1>2 DEF AnswerInv, TasksOK
<1>4. ASSUME NEW cuts, Cutting(cuts) PROVE Cutting(cuts)'
  BY <1>1, <1>4 DEF Cutting
<1>5. QED
  BY <1>1, <1>3, <1>4 DEF AnswerInv

\* Every step preserves it.
LEMMA NextAnswer == ChunksInv /\ AnswerInv /\ [Next]_vars => AnswerInv'
<1> SUFFICES ASSUME NumbersOK, AnswerInv, [Next]_vars PROVE AnswerInv'
  BY DEF ChunksInv
<1>1. CASE UNCHANGED vars
  BY <1>1 DEF vars, AnswerInv, TasksOK, Cutting
<1>2. QED
  BY <1>1, QuietAnswer, MeasureAnswer, GetLineAnswer, EndOfFileAnswer, TaskEndsAnswer,
     JoinAnswer, EndAnswer
     DEF Next, Read

\* What has been taken of the tasks are lines.
LEMMA AnswerTyped == ChunksInv /\ AnswerInv => TypeOK
<1> SUFFICES ASSUME ChunksInv, AnswerInv PROVE TypeOK
  OBVIOUS
<1>1. PICK cuts \in [0..Len(tasks) -> 0..Len(lines)] : Cutting(cuts)
  BY DEF AnswerInv
<1>2. tasks \in Seq(Task) /\ joined \in 0..Len(tasks) /\ lines \in Seq(Line)
  BY DEF ChunksInv, NumbersOK, AnswerInv, TasksOK
<1>3. SubSeq(lines, 1, cuts[joined]) \in Seq(Line)
  BY <1>2
<1>4. temps \in Seq(Line)
  BY <1>1, <1>3, KeptType DEF Cutting, Points
<1>5. QED
  BY <1>2, <1>4 DEF TypeOK, ChunksInv, NumbersOK, AnswerInv

\* For levels of one or two digits the expressions find what is complete.
LEMMA ShortLevelsFound ==
  ASSUME NEW l \in Line, l.level <= 2
  PROVE  IsPoint(l) <=> Complete(l)
<1>1. l.level \in {NoLevel, 0, 1, 2}
  BY DEF Line, NoLevel
<1>2. l.level = 0 \/ l.level = 1 \/ l.level = 2 => LevelDigits(l.level) = l.level
  BY DEF LevelDigits
<1>3. QED
  BY <1>1, <1>2 DEF IsPoint, Complete, NoLevel

\* Once the last task is joined the cuts span the file.
LEMMA AnswerTrue == ChunksInv /\ AnswerInv => AnswerIsFile
<1> SUFFICES ASSUME ChunksInv, AnswerInv PROVE AnswerIsFile
  OBVIOUS
<1>1. PICK cuts \in [0..Len(tasks) -> 0..Len(lines)] : Cutting(cuts)
  BY DEF AnswerInv
<1>2. tasks \in Seq(Task) /\ lines \in Seq(Line)
  BY DEF ChunksInv, NumbersOK, AnswerInv
<1>3. ASSUME pc = "returned"
      PROVE  ~ AnyThrows(lines) /\ temps = Points(lines)
  <2>1. cuts[joined] = Len(lines)
    BY <1>1, <1>3 DEF AnswerInv, TasksOK, Cutting
  <2>2. \A k \in 1..Len(lines) : ~ Throws(lines[k])
    BY <1>1, <2>1 DEF Cutting
  <2>3. temps = Points(SubSeq(lines, 1, Len(lines)))
    BY <1>1, <2>1 DEF Cutting
  <2>4. SubSeq(lines, 1, Len(lines)) = lines
    BY <1>2, WholeSeq
  <2>5. ~ AnyThrows(lines)
    <3>1. DOMAIN lines = 1..Len(lines)
      BY <1>2
    <3>2. QED
      BY <2>2, <3>1 DEF AnyThrows
  <2>6. QED
    BY <2>3, <2>4, <2>5
<1>4. ASSUME ShortLevels(lines)
      PROVE  Points(lines) = Kept(lines, {l \in Lines : Complete(l)})
  <2>1. \A i \in 1..Len(lines) : IsPoint(lines[i]) <=> Complete(lines[i])
    <3> SUFFICES ASSUME NEW i \in 1..Len(lines)
                 PROVE  IsPoint(lines[i]) <=> Complete(lines[i])
      OBVIOUS
    <3>1. lines[i] \in Line /\ lines[i].level <= 2
      BY <1>2, <1>4 DEF ShortLevels
    <3>2. QED
      BY <3>1, ShortLevelsFound
  <2>2. \A i \in 1..Len(lines) :
          lines[i] \in {l \in Lines : IsPoint(l)} <=> lines[i] \in {l \in Lines : Complete(l)}
    BY <2>1
  <2>3. QED
    BY <1>2, <2>2, KeptSame DEF Points
<1>5. ASSUME pc = "threw" PROVE AnyThrows(lines)
  <2>1. PICK i \in 1..Len(tasks) : tasks[i].state = "threw" /\ AnyThrows(tasks[i].lines)
    BY <1>5 DEF AnswerInv, TasksOK
  <2> DEFINE a == cuts[i - 1]
             b == cuts[i]
             ls == tasks[i].lines
  <2>2. a \in 0..Len(lines) /\ b \in 0..Len(lines) /\ a <= b /\ ls = SubSeq(lines, a + 1, b)
    <3>1. i - 1 \in 0..Len(tasks) /\ i \in 0..Len(tasks)
      BY <1>2
    <3>2. a <= b /\ ls = SubSeq(lines, a + 1, b)
      BY <1>1 DEF Cutting
    <3>3. QED
      BY <3>1, <3>2
  <2>3. PICK k \in DOMAIN ls : Throws(ls[k])
    BY <2>1 DEF AnyThrows
  <2> HIDE DEF a, b, ls
  <2>4. k + a \in 1..Len(lines) /\ lines[k + a] = ls[k]
    BY <1>2, <2>2
  <2>5. QED
    BY <1>2, <2>3, <2>4 DEF AnyThrows
<1>6. QED
  BY <1>3, <1>4, <1>5 DEF AnswerIsFile

-----------------------------------------------------------------------------

\* The state of logFile2Json keeps its types (TempsCtrl.cc:194-237).
THEOREM TypeCorrect == Spec => []TypeOK
  BY InitChunks, NextChunks, InitAnswer, NextAnswer, AnswerTyped, PTL DEF Spec

\* The answer of logFile2Json is the file in its order, each complete line once, for
\* every file, every number of jobs and every order in which the tasks end; it throws
\* only for a file with a line that is cut off (TempsCtrl.cc:184-237).
THEOREM AnswerComplete == Spec => []AnswerIsFile
  BY InitChunks, NextChunks, InitAnswer, NextAnswer, AnswerTrue, PTL DEF Spec
=============================================================================
