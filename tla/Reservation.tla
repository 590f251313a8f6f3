----------------------------- MODULE Reservation -----------------------------
(***************************************************************************)
(* What resource_locks promise, with leases, runners, operators and        *)
(* recovery forgotten: a job reserves all it needs at once, does something *)
(* hazardous (a process that may be alive, a canonical tree half written)  *)
(* only under that reservation, and gives it back only when the hazard is  *)
(* over.                                                                   *)
(***************************************************************************)
CONSTANTS Jobs, NoJob, Resources, Needs

VARIABLES
    holder,  \* holder[r]: the job that reserves resource r, or NoJob
    hazard   \* hazard[j]: job j may be touching what it reserved

vars == <<holder, hazard>>

Holds(j) == \A r \in Needs[j] : holder[r] = j

Init ==
    /\ holder = [r \in Resources |-> NoJob]
    /\ hazard = [j \in Jobs |-> FALSE]

\* All or nothing; what the job already reserved stays its own.
Reserve(j) ==
    /\ \A r \in Needs[j] : holder[r] \in {NoJob, j}
    /\ holder' = [r \in Resources |-> IF r \in Needs[j] THEN j ELSE holder[r]]
    /\ UNCHANGED hazard

Act(j) ==
    /\ ~hazard[j] /\ Holds(j)
    /\ hazard' = [hazard EXCEPT ![j] = TRUE]
    /\ UNCHANGED holder

Settle(j) ==
    /\ hazard[j]
    /\ hazard' = [hazard EXCEPT ![j] = FALSE]
    /\ UNCHANGED holder

\* Recovery gives back what several jobs reserved in one transaction.
Release(given) ==
    /\ \A r \in given : holder[r] \in Jobs /\ ~hazard[holder[r]]
    /\ holder' = [r \in Resources |-> IF r \in given THEN NoJob ELSE holder[r]]
    /\ UNCHANGED hazard

Next ==
    \/ \E j \in Jobs : Reserve(j) \/ Act(j) \/ Settle(j)
    \/ \E given \in SUBSET Resources : Release(given)

Spec == Init /\ [][Next]_vars

\* Jobs that contend for a resource never touch it at the same time.
Exclusive ==
    \A i, j \in Jobs : i # j /\ hazard[i] /\ hazard[j] => Needs[i] \cap Needs[j] = {}
=============================================================================
