----------------------------- MODULE MCOwnerTabs -----------------------------
(* Two tabs of one browser over one case; one tab that prepares two runs of it; *)
(* one tab that runs a batch of two cases while one may be taken out of its     *)
(* suite; and one tab whose suite of one case may get a second.                 *)
EXTENDS OwnerTabs
CONSTANTS t1, t2

TwoTabs == [tabs |-> {t1, t2}, suite |-> {1}, handoffs |-> 1, verdicts |-> {"pass"},
            trouble |-> FALSE, edits |-> 0, moves |-> 1, faults |-> 0]
TwoRuns == [tabs |-> {t1}, suite |-> {1}, handoffs |-> 2, verdicts |-> {"pass", "issue"},
            trouble |-> TRUE, edits |-> 0, moves |-> 2, faults |-> 1]
OneBatch == [tabs |-> {t1}, suite |-> {1, 2}, handoffs |-> 1, verdicts |-> {"pass", "incomplete"},
             trouble |-> TRUE, edits |-> 1, moves |-> 0, faults |-> 0]
Growing == [OneBatch EXCEPT !.suite = {1}, !.verdicts = Verdicts]
OwnerBounds == {TwoTabs, TwoRuns, OneBatch, Growing}

\* Nothing fails: a run that times out after its link was opened twice.
OneRun == {[OneBatch EXCEPT !.suite = {1}, !.edits = 0]}
=============================================================================
