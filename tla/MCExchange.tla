----------------------------- MODULE MCExchange -----------------------------
(***************************************************************************)
(* Small instances of the exchange for TLC.  One company with two shares,   *)
(* founded by the first user in the first classroom; a second classroom a   *)
(* user may turn to while his order is in flight.                           *)
(***************************************************************************)
EXTENDS Exchange, TLC

CONSTANTS founder, k1, firm

MCClassroomOf == [c \in Companies |-> k1]
MCFounding == [x \in Companies \X Users |-> IF x[2] = founder THEN 2 ELSE 0]
MCFunds == [w \in Users \X Classrooms |-> 3]
MCHomeRoom == [u \in Users |-> k1]
MCOpeningValue == [c \in Companies |-> 2]

\* Every order in a second of its own; or the first two in the same second.
MCCreatedAt == [i \in 1 .. MaxOrders |-> i]
MCCreatedTied == [i \in 1 .. MaxOrders |-> (i + 1) \div 2]

Symmetry == Permutations(Requests)
=============================================================================
