--------------------------- MODULE MCCronDispatch ---------------------------
(* Small instances of CronDispatch for TLC.                                 *)
EXTENDS CronDispatch

Always == [minute |-> Any, hour |-> Any, dom |-> Any, month |-> Any, dow |-> Any]

\* "*/30 12 1 * 5-7": on the first and from Friday to Sunday.
MCJob ==
  [nightly |-> [mode |-> "shift", notifyOn |-> {"success", "failure"},
                schedule |-> [Always EXCEPT !.minute = <<Every(30)>>,
                                            !.hour = <<Between(12, 12, 0)>>,
                                            !.dom = <<Between(1, 1, 0)>>,
                                            !.dow = <<Between(5, 7, 0)>>]],
   digest  |-> [mode |-> "prompt", notifyOn |-> {"failure"}, schedule |-> Always],
   old     |-> [mode |-> "legacy", notifyOn |-> {}, schedule |-> Always]]

MCSeeds == {{"nightly"}, {"old"}}

\* Sunday the 8th and Monday the 2nd of March 2026.
MCMoments == {[minute |-> 30, hour |-> 12, day |-> 8, month |-> 3, weekday |-> 6],
              [minute |-> 30, hour |-> 12, day |-> 2, month |-> 3, weekday |-> 0]}
=============================================================================
