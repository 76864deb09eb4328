----------------------------- MODULE MCSendLoop -----------------------------
(* Bounds for SendLoop. *)
EXTENDS SendLoop

\* One version, on a chain that grows past it or is reorganised twice.
Growing == [levels |-> 1, height |-> 4, reorgs |-> 1, faults |-> 1, unheard |-> 0]
Reorging == [levels |-> 1, height |-> 3, reorgs |-> 2, faults |-> 1, unheard |-> 0]

\* Every kind of fault, with a replacement.
Faulty == [levels |-> 2, height |-> 2, reorgs |-> 1, faults |-> 1, unheard |-> 1]

\* A third fee level, and an answer lost before it.
Bumping == [levels |-> 3, height |-> 2, reorgs |-> 0, faults |-> 0, unheard |-> 1]

MCPlans == {Growing, Reorging, Faulty, Bumping}
=============================================================================
