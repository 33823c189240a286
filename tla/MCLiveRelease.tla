---------------------------- MODULE MCLiveRelease ----------------------------
(* LiveRelease on a small instance: orders of two shares under an exposure limit *)
(* of three, so that the limit binds and an entry can fill in part, or of one under two,    *)
(* so that two can be READY at once.                                              *)
EXTENDS LiveRelease, TLC

MCLimits == { [budget |-> 4, order |-> 2, maxOpen |-> 2, maxExp |-> 3],
              [budget |-> 4, order |-> 1, maxOpen |-> 2, maxExp |-> 2] }

Symmetric == Permutations(Signals) \cup Permutations(Gates) \cup Permutations(Operators)
               \cup Permutations(Sessions)
==============================================================================
