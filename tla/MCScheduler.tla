---------------------------- MODULE MCScheduler ----------------------------
(* Instances of Scheduler for TLC. *)
EXTENDS Scheduler, Cron, TLC

CONSTANTS b1, b2, l1, l2, l3, w1, w2, acctA, acctB, rally, dca, daily, later

\* On, on the schedule daily; the same parked for the agent; another deployment.
OnDaily == [enabled |-> TRUE, cron |-> daily, account |-> acctA, strategy |-> dca]
Parked == [enabled |-> TRUE, cron |-> NoCron, account |-> acctA, strategy |-> dca]
Elsewhere == [enabled |-> TRUE, cron |-> later, account |-> acctB, strategy |-> rally]

Default == [enabled |-> FALSE, cron |-> NoCron, account |-> acctA, strategy |-> rally]

MCSettings == {OnDaily, Parked, Elsewhere, Default}
MCDeployments == {OnDaily, Default}

\* Two minutes after eleven on weekdays, given as every third one of a range; every third minute of
\* the quarter, on the days of the month the first of which is a Monday.  The clock starts at eleven
\* that Monday.
Weekdays(minutes) ==
    [minute |-> minutes, hour |-> <<Exactly(11)>>, day |-> <<Star>>, month |-> <<Star>>,
     weekday |-> <<Between(1, 5)>>]
OnWeekdays == Weekdays(<<[from |-> 2, upto |-> 6, step |-> 3]>>)
OnFirstDays ==
    [Weekdays(<<[from |-> 3, upto |-> 15, step |-> 3]>>) EXCEPT !.day = <<Exactly(1), Exactly(2)>>,
                                                              !.weekday = <<Exactly(7), Between(1, 5)>>]
Moment(time) == [minute |-> time, hour |-> 11, day |-> 1, month |-> 6, weekday |-> 1]
FireTimes(expression) == {m \in 0..MaxClock : Matches(ParseCron(expression), Moment(m))}

MCFires == (daily :> {2, 5}) @@ (later :> {3})

\* The schedules are those of the expressions, up to the end of the run.
ASSUME FiresAreParsed ==
    /\ FireTimes(OnWeekdays) = MCFires[daily] \cap 0..MaxClock
    /\ FireTimes(OnFirstDays) = MCFires[later] \cap 0..MaxClock
    /\ Refused(ParseCron([OnWeekdays EXCEPT !.weekday = <<Between(5, 7)>>]))

ASSUME WindowIsWide == GraceCovers

\* One binding deployed, one free id.
MCControls == [b \in Bindings |-> IF b = b2 THEN OnDaily ELSE Absent]

Symmetry == Permutations(Web)
=============================================================================
