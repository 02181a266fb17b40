--------------------------------- MODULE Cron ---------------------------------
(***************************************************************************)
(* Cron expressions (core/cron.py): what parse_cron makes of five fields,  *)
(* and the minutes that match.                                             *)
(*                                                                         *)
(* A field is a sequence of entries [from, upto, step], an entry * one     *)
(* from Every; a moment is a record of its fields in market time.  Text that *)
(* is no number is left out.                                               *)
(***************************************************************************)
EXTENDS Integers, Sequences, SequencesExt

Low  == [minute |-> 0, hour |-> 0, day |-> 1, month |-> 1, weekday |-> 0]
High == [minute |-> 59, hour |-> 23, day |-> 31, month |-> 12, weekday |-> 6]
Fields == DOMAIN Low

Every == -1
Star == [from |-> Every, upto |-> Every, step |-> 1]
Between(m, n) == [from |-> m, upto |-> n, step |-> 1]
Exactly(n) == Between(n, n)

\* Both 0 and 7 are Sunday.
Bounded(f, n) == IF f = "weekday" /\ n = 7 THEN 0 ELSE n

\* The values an entry stands for before its step, nothing for one that is refused: a bound out of
\* range, or a range that runs backwards, as that from Friday to 7 does.
Expand(f, entry) ==
    LET from == Bounded(f, entry.from)
        upto == Bounded(f, entry.upto)
    IN IF entry.from = Every THEN Low[f]..High[f]
       ELSE IF {from, upto} \subseteq Low[f]..High[f] THEN from..upto ELSE {}

Stepped(f, entry) ==
    LET first == IF entry.from = Every THEN Low[f] ELSE Bounded(f, entry.from)
    IN IF entry.step < 1 THEN {} ELSE {n \in Expand(f, entry) : (n - first) % entry.step = 0}

\* One entry that is refused refuses the field.
ParseField(f, entries) ==
    LET values == {Stepped(f, entry) : entry \in ToSet(entries)}
    IN IF {} \in values THEN {} ELSE UNION values

ParseCron(expression) == [f \in Fields |-> ParseField(f, expression[f])]

Refused(spec) == \E f \in Fields : spec[f] = {}

\* Day of month and day of week are both to match, unlike in crontab.
MatchesDate(spec, moment) == \A f \in {"day", "month", "weekday"} : moment[f] \in spec[f]
Matches(spec, moment) ==
    moment.minute \in spec.minute /\ moment.hour \in spec.hour /\ MatchesDate(spec, moment)
===============================================================================
