---------------------------- MODULE MCFreelance ----------------------------
(***************************************************************************)
(* Small instances of the freelance market for TLC: a client and others who *)
(* may apply, in two regimes.  What one job lives through when requests     *)
(* interleave and a restart cuts them off, and what two jobs in two         *)
(* classrooms live through when requests come one at a time.                *)
(***************************************************************************)
EXTENDS SerialFreelance, TLC

CONSTANTS k1

MCFunds == [w \in Users \X Classrooms |-> 2]
MCHomeRoom == [u \in Users |-> k1]

Symmetry == Permutations(Requests) \cup Permutations(Users) \cup Permutations(Jobs)

Posted == {j \in Jobs : job[j] # None}

\* One request at a time, the rest of the program lively; prices that are
\* refused and prices that are not.
SeriallyBounded == \A r \in InFlight : task[r].price # 1

\* Any interleaving and restarts, on one job, while the rest does nothing.
ConcurrentlyBounded == Cardinality(Posted) <= 1 /\ events = 0

MCNext == SerialNext /\ IF serial THEN SeriallyBounded' ELSE ConcurrentlyBounded'

MCSpec == SerialInit /\ [][MCNext]_<<vars, serial>>
=============================================================================
