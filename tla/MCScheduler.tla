----------------------------- MODULE MCScheduler -----------------------------
(* Instances of Scheduler for TLC. *)
EXTENDS Scheduler, TLC

CONSTANTS u1, u2, w1, w2

MCUsers == {u1, u2}
MCRestless == {u1}
MCNobody == {}
\* Each job of a user of its own, two by one user and then one by another, all
\* by one user.
MCUserOf == [j \in Jobs |-> IF j = 2 THEN u2 ELSE u1]
MCTwoThenOne == [j \in Jobs |-> IF j = 3 THEN u2 ELSE u1]
MCOneUser == [j \in Jobs |-> u1]
MCFits == [j \in Jobs |-> Workers]
MCCapacity == [w \in Workers |-> 1]

Symmetry == Permutations(Owners) \cup Permutations(Workers)
=============================================================================
