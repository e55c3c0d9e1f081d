---------------------------- MODULE MCPlanSupply ----------------------------
(* A small instance of PlanSupply for TLC. *)
EXTENDS PlanSupply

CONSTANTS k1, k2, k3

\* k3's plan takes twice the room; two small plans fill the cache, or one large one.
MCBytes == [k \in Keys |-> IF k = k3 THEN 2 ELSE 1]

\* An analyze grid of two chunks with a repeated candidate, the verification of a
\* square frame, whose two axes are the same request, and of a single axis.
MCJobs == {[requests |-> <<k1, k3, k2, k1>>, chunked |-> TRUE],
           [requests |-> <<k2, k2>>, chunked |-> FALSE],
           [requests |-> <<k1>>, chunked |-> FALSE]}
=============================================================================
