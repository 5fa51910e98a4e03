----------------------------- MODULE SnapshotCache -----------------------------
(***************************************************************************)
(* What the cache of TempsCtrl promises to the clients of the server:      *)
(*                                                                         *)
(*   - a client asks for the week or for one day and gets one answer;      *)
(*   - the week is answered only while nobody refreshes it, from one       *)
(*     array: the days in it follow one another, whatever rotations        *)
(*     and refreshes went before, unless the last refresh to write to it   *)
(*     failed midway;                                                      *)
(*   - a refresh that fails costs at most one client its answer, or all    *)
(*     of them theirs when it was not made for a client.                   *)
(*                                                                         *)
(* There are no threads, files, clocks or mutexes here: TempsCache is      *)
(* shown to implement this.                                                *)
(***************************************************************************)
EXTENDS Integers

CONSTANTS
  Clients,     \* those who send requests
  LastOffset   \* the day offset of the oldest day of the week

VARIABLES
  newest,      \* the newest day there is a log of
  week,        \* the cached array
  refreshing,  \* whether the array is being written
  torn,        \* the last refresh to write to it failed midway
  asked,       \* what each client is waiting for
  answer,      \* the kind of its latest answer
  alive        \* whether the server is still there

vars == <<newest, week, refreshing, torn, asked, answer, alive>>

Offsets == 0..LastOffset
Entry == [kind : {"null", "array", "error", "temps"}, day : Nat]
Weeks == [Offsets -> Entry]
Requests == {"week", "day"}

\* No day is left out between two days of w, and none is from the future.
Consecutive(w) ==
  \A j \in Offsets :
    w[j].kind = "temps" =>
      /\ w[j].day + j <= newest
      /\ \A i \in Offsets :
           i < j /\ w[i].kind = "temps" => w[i].day + i <= w[j].day + j

Init ==
  /\ newest = LastOffset
  /\ week = [k \in Offsets |-> [kind |-> "null", day |-> 0]]
  /\ refreshing = FALSE /\ torn = FALSE
  /\ asked = [c \in Clients |-> "none"]
  /\ answer = [c \in Clients |-> "none"]
  /\ alive = TRUE

Rotate ==
  /\ newest' = newest + 1
  /\ UNCHANGED <<week, refreshing, torn, asked, answer, alive>>

Ask(c) ==
  /\ asked[c] = "none"
  /\ \E r \in Requests : asked' = [asked EXCEPT ![c] = r]
  /\ answer' = [answer EXCEPT ![c] = "none"]
  /\ UNCHANGED <<newest, week, refreshing, torn, alive>>

Settle(c, a) ==
  /\ asked' = [asked EXCEPT ![c] = "none"]
  /\ answer' = [answer EXCEPT ![c] = a]

\* A request that makes no sense.
Refuse(c) ==
  /\ asked[c] = "none"
  /\ Settle(c, "error")
  /\ UNCHANGED <<newest, week, refreshing, torn, alive>>

AnswerWeek(c) ==
  /\ asked[c] = "week"
  /\ ~ refreshing
  /\ ~ torn => Consecutive(week)
  /\ Settle(c, "week")
  /\ UNCHANGED <<newest, week, refreshing, torn, alive>>

AnswerDay(c) ==
  /\ asked[c] = "day"
  /\ Settle(c, "day") \/ Settle(c, "error")
  /\ UNCHANGED <<newest, week, refreshing, torn, alive>>

Begin ==
  /\ ~ refreshing
  /\ refreshing' = TRUE
  /\ UNCHANGED <<newest, week, torn, asked, answer, alive>>

\* While a refresh is under way nothing is said of the array.
Write ==
  /\ refreshing
  /\ week' \in Weeks
  /\ UNCHANGED <<newest, refreshing, torn, asked, answer, alive>>

Finish ==
  /\ refreshing /\ refreshing' = FALSE
  /\ torn' = FALSE
  /\ Consecutive(week)
  /\ UNCHANGED <<newest, week, asked, answer, alive>>

Fail ==
  /\ refreshing /\ refreshing' = FALSE
  /\ torn' \in {torn, TRUE}
  /\ ~ torn' => Consecutive(week)
  /\ \/ /\ \E c \in Clients : asked[c] = "week" /\ Settle(c, "error")
        /\ UNCHANGED alive
     \/ /\ alive' = FALSE
        /\ UNCHANGED <<asked, answer>>
  /\ UNCHANGED <<newest, week>>

Next ==
  /\ alive
  /\ \/ Rotate \/ Begin \/ Write \/ Finish \/ Fail
     \/ \E c \in Clients : Ask(c) \/ Refuse(c) \/ AnswerWeek(c) \/ AnswerDay(c)

Spec == Init /\ [][Next]_vars
=============================================================================
