-------------------------- MODULE SerialFreelance --------------------------
(***************************************************************************)
(* The freelance market in two regimes: any interleaving of requests and    *)
(* restarts, or, where serial was chosen at the start, requests that come    *)
(* one at a time to a server that is never restarted.  The handlers are the  *)
(* same; nothing in freelance_usecase.go keeps requests apart.               *)
(***************************************************************************)
EXTENDS Freelance

VARIABLE serial  \* chosen at the start: requests come one at a time

InFlight == {r \in Requests : pc[r] # "idle"}

OneByOne == restarts = 0 /\ \A r, q \in InFlight : r = q

SerialInit == Init /\ serial \in BOOLEAN

SerialNext == Next /\ UNCHANGED serial /\ (serial => OneByOne')

SerialSpec == SerialInit /\ [][SerialNext]_<<vars, serial>>

\* Where requests come one at a time, contracts neither create nor destroy
\* money, nor move it between classrooms, a job's row and its applications tell
\* the same story, and its escrow is settled at most once
\* (freelance_usecase.go:186-408).
SerialContracts == serial => EscrowConserved /\ ContractConsistent
=============================================================================
