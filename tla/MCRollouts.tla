---------------------------- MODULE MCRollouts ----------------------------
(* Small instances of Rollouts for TLC. *)
EXTENDS Rollouts

S(corr, roll, rung) == [corr |-> corr, roll |-> roll, rung |-> rung]
None == [k \in {"requests", "reviews", "edits", "cancels", "pauses", "crashes",
                "quarantines", "refusals"} |-> 0]

\* A disturbance at a time, and the pairs that meet in the code.
Single == {[None EXCEPT !.crashes = 1, !.quarantines = 1],
           [None EXCEPT !.edits = 1, !.refusals = 1],
           [None EXCEPT !.pauses = 1, !.quarantines = 1],
           [None EXCEPT !.cancels = 1, !.crashes = 1]}
Paired == {[None EXCEPT !.crashes = 1, !.refusals = 1],
           [None EXCEPT !.crashes = 1, !.edits = 1],
           [None EXCEPT !.crashes = 2],
           [None EXCEPT !.pauses = 1, !.edits = 1],
           [None EXCEPT !.pauses = 1, !.crashes = 1],
           [None EXCEPT !.requests = 1],
           [None EXCEPT !.reviews = 1]}

\* A full group on the top rung, a small one, one that can escalate, corrections only.
MCSpecs == {S(2, 2, 2), S(1, 1, 2), S(1, 1, 1), S(1, 0, 1)}
MCFollowUps == {S(1, 0, 2)}
MCBudgets == [s \in MCSpecs |-> IF s = S(1, 1, 2) THEN Single \cup Paired ELSE Single]
=============================================================================
