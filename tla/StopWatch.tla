----------------------------- MODULE StopWatch ------------------------------
(***************************************************************************)
(* cpp_console: stime and stime_duration (stime.h), the stop watch that    *)
(* adds up the times between start and stop (stop_watch.h), and the        *)
(* accumulator of such times per group and item (time_accumulator.h).      *)
(*                                                                         *)
(* An stime is a time of day and knows no date. now counts milliseconds    *)
(* from a midnight on. The variables since, ran and spent are not in the   *)
(* code: they keep the true times, as <<milliseconds, midnights passed>>.  *)
(* The local clock is not set while the program runs. An operator Bad...   *)
(* is a mistake the code does not make.                                    *)
(***************************************************************************)
EXTENDS Integers, Sequences

CONSTANTS Items,       \* the (group, item) pairs of the accumulator
          MaxRecords,  \* bound: records per item
          Instants     \* bound: when the clock is read

Minute == 60000
Hour == 3600000
Day == 24 * Hour

VARIABLES _running, duration, time_point,
          _data,    \* per item, the records: pairs of stimes
          _result,  \* per item, <<number, sum>>, as accumulate left it
          now,
          since,    \* when the running watch was started
          ran,      \* how long the watch has run, up to its last stop
          spent     \* per item, how long each recorded time was

watch == <<_running, duration, time_point, since, ran>>
records == <<_data, _result, spent>>
vars == <<watch, records, now>>

(* stime::cur_time *)
cur_time ==
  LET t == now % Day IN
  [hour |-> t \div Hour, minute |-> (t % Hour) \div Minute,
   second |-> (t % Minute) \div 1000, millisecond |-> t % 1000]

(* stime::time_of_day, by the constructor of stime_duration. *)
time_of_day(st) ==
  ((st.hour * 60 + st.minute) * 60 + st.second) * 1000 + st.millisecond

(* operator- of stime *)
Difference(st, earlier) == time_of_day(st) - time_of_day(earlier)

Midnight == [hour |-> 0, minute |-> 0, second |-> 0, millisecond |-> 0]

Init ==
  /\ _running = FALSE /\ duration = 0 /\ time_point = Midnight
  /\ _data = [k \in Items |-> <<>>] /\ _result = <<>>
  /\ now = 0
  /\ since = 0 /\ ran = <<0, 0>> /\ spent = [k \in Items |-> <<>>]

-----------------------------------------------------------------------------
(* The time since the watch was started. *)
Since == <<now - since, now \div Day - since \div Day>>

reset ==
  /\ duration' = 0 /\ _running' = FALSE
  /\ ran' = <<0, 0>>
  /\ UNCHANGED <<time_point, since, records, now>>

restart ==
  /\ duration' = 0 /\ time_point' = cur_time /\ _running' = TRUE
  /\ ran' = <<0, 0>> /\ since' = now
  /\ UNCHANGED <<records, now>>

BadStart ==
  /\ time_point' = cur_time /\ _running' = TRUE
  /\ since' = IF _running THEN since ELSE now
  /\ UNCHANGED <<duration, ran, records, now>>

start ==
  /\ ~_running
  /\ time_point' = cur_time /\ _running' = TRUE
  /\ since' = now
  /\ UNCHANGED <<duration, ran, records, now>>

stop ==
  /\ _running
  /\ duration' = duration + Difference(cur_time, time_point)
  /\ _running' = FALSE
  /\ ran' = <<ran[1] + Since[1], ran[2] + Since[2]>>
  /\ UNCHANGED <<time_point, since, records, now>>

(* add, of the time since the watch was started. *)
add(k) ==
  /\ _running /\ Len(_data[k]) < MaxRecords
  /\ _data' = [_data EXCEPT ![k] = Append(@, <<time_point, cur_time>>)]
  /\ spent' = [spent EXCEPT ![k] = Append(@, Since)]
  /\ UNCHANGED <<_result, watch, now>>

Sum(s) ==
  LET upTo[i \in 0 .. Len(s)] == IF i = 0 THEN 0 ELSE upTo[i - 1] + s[i]
  IN  upTo[Len(s)]

(* The sum over the records of one item. *)
Total(s) == Sum([i \in DOMAIN s |-> Difference(s[i][2], s[i][1])])

accumulate ==
  /\ _result' = [k \in {i \in Items : _data[i] # <<>>} |-> <<Len(_data[k]), Total(_data[k])>>]
  /\ UNCHANGED <<_data, spent, watch, now>>

Tick ==
  /\ now' \in {t \in Instants : t > now}
  /\ UNCHANGED <<watch, records>>

Next == reset \/ restart \/ start \/ stop \/ accumulate \/ Tick \/ \E k \in Items : add(k)

Spec == Init /\ [][Next]_vars
-----------------------------------------------------------------------------
(* hours, minutes, seconds and milliseconds of an stime_duration: division *)
(* goes towards zero in C++.                                               *)
Quotient(a, b) == IF a >= 0 THEN a \div b ELSE -((-a) \div b)
Remainder(a, b) == a - b * Quotient(a, b)

hours(d) == Quotient(d, Hour)
minutes(d) == Quotient(Remainder(d, Hour), Minute)
seconds(d) == Quotient(Remainder(Remainder(d, Hour), Minute), 1000)
milliseconds(d) == Remainder(Remainder(Remainder(d, Hour), Minute), 1000)

Shown(true) == true[1] - Day * true[2]

(* What the watch shows is the true time less a day for each midnight      *)
(* passed while it ran: the true time of any number of starts and stops as *)
(* long as no midnight passes, and never off by anything but whole days.   *)
(* The parts of a duration add up to it, also when it is negative.         *)
WatchTrue ==
  /\ duration = Shown(ran)
  /\ duration = ((hours(duration) * 60 + minutes(duration)) * 60
                   + seconds(duration)) * 1000 + milliseconds(duration)

(* And so for what the accumulator shows of an item: for the records that  *)
(* it had when it was accumulated.                                         *)
ElapsedTrue ==
  /\ WatchTrue
  /\ \A k \in DOMAIN _result :
       LET n == _result[k][1] IN
       /\ n <= Len(spent[k])
       /\ _result[k][2] = Sum([i \in 1 .. n |-> Shown(spent[k][i])])
=============================================================================
