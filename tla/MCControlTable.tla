--------------------------- MODULE MCControlTable ---------------------------
(* Small instances of ControlTable for TLC. *)
EXTENDS ControlTable, TLC

Symmetry == Permutations(Sites) \cup Permutations(Tools)

\* What follows a collision is left to the proofs of types: no other property speaks of it.  A
\* worker looks while the first two writes go on.
Bounded == ~collided /\ (ops > 2 => \A w \in Workers : lookups[w] = 0)

=============================================================================
