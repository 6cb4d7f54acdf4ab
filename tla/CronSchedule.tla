---------------------------- MODULE CronSchedule ----------------------------
(***************************************************************************)
(* core/cron_store.py: the minutes that a five-field expression names.     *)
(* A field is the sequence of its comma-separated parts; text that cannot  *)
(* be parsed is rejected when a job is loaded and has no meaning here.     *)
(***************************************************************************)
EXTENDS Integers, Sequences

\* step = 0: no step is written.
Star == [star |-> TRUE, lo |-> 0, hi |-> 0, step |-> 0]
Every(n) == [Star EXCEPT !.step = n]
Between(a, b, n) == [star |-> FALSE, lo |-> a, hi |-> b, step |-> n]
Any == <<Star>>

Bounds == [minute |-> <<0, 59>>, hour |-> <<0, 23>>, dom |-> <<1, 31>>,
           month |-> <<1, 12>>, dow |-> <<0, 7>>]
Fields == {"minute", "hour", "dom", "month", "dow"}

\* Whatever the parser accepts has numbers in it (which it checks against Bounds).
Parsed(expr) ==
  \A f \in Fields : \A i \in DOMAIN expr[f] :
    expr[f][i].star \in BOOLEAN /\ {expr[f][i].lo, expr[f][i].hi, expr[f][i].step} \subseteq Nat
IsMoment(moment) ==
  {moment.minute, moment.hour, moment.day, moment.month} \subseteq Nat /\ moment.weekday \in 0..6

\* range(start, end + 1, step)
Values(expr, f) ==
  UNION {LET p     == expr[f][i]
             start == IF p.star THEN Bounds[f][1] ELSE p.lo
             end   == IF p.star THEN Bounds[f][2] ELSE p.hi
             step  == IF p.step = 0 THEN 1 ELSE p.step
         IN  {v \in start..end : (v - start) % step = 0} : i \in DOMAIN expr[f]}

\* Faulty variant: 7 is taken for a day of its own.
BuggyDows(expr) == Values(expr, "dow")

\* 0 and 7 are both Sunday.
Dows(expr) ==
  LET values == Values(expr, "dow")
  IN  IF 7 \in values THEN (values \ {7}) \cup {0} ELSE values

\* Only the bare "*" leaves a field unrestricted.
Restricted(expr, f) == expr[f] # Any

\* A moment has datetime's weekday: Monday is 0.
IsDue(expr, moment) ==
  LET domMatch == moment.day \in Values(expr, "dom")
      dowMatch == (moment.weekday + 1) % 7 \in Dows(expr)
  IN  /\ moment.minute \in Values(expr, "minute")
      /\ moment.hour \in Values(expr, "hour")
      /\ moment.month \in Values(expr, "month")
      /\ IF Restricted(expr, "dom") /\ Restricted(expr, "dow")
           THEN domMatch \/ dowMatch
           ELSE domMatch /\ dowMatch

-----------------------------------------------------------------------------
(* What crontab(5) says, part by part and without collapsing any value.     *)

Names(p, f, v) ==
  LET step == IF p.step = 0 THEN 1 ELSE p.step
  IN  IF p.star THEN /\ Bounds[f][1] <= v /\ v <= Bounds[f][2]
                     /\ \E k \in 0..v : v = Bounds[f][1] + k * step
      ELSE /\ p.lo <= v /\ v <= p.hi
           /\ \E k \in 0..v : v = p.lo + k * step

NamedBy(expr, f, v) == \E i \in DOMAIN expr[f] : Names(expr[f][i], f, v)

\* Sunday goes by two numbers; every other day by one.
CronNumbers(weekday) == IF weekday = 6 THEN {0, 7} ELSE {weekday + 1}

CronMatches(expr, moment) ==
  LET byDay  == NamedBy(expr, "dom", moment.day)
      byName == \E n \in CronNumbers(moment.weekday) : NamedBy(expr, "dow", n)
  IN  /\ NamedBy(expr, "minute", moment.minute)
      /\ NamedBy(expr, "hour", moment.hour)
      /\ NamedBy(expr, "month", moment.month)
      /\ expr.dom = Any \/ expr.dow = Any => byDay /\ byName
      /\ byDay \/ byName
=============================================================================
