---------------------------- MODULE MCRingBuffer ----------------------------
(* Small instances of RingBuffer for TLC. *)
EXTENDS RingBuffer, TLC

Symmetry == Permutations(Writers)

(* Damage only grows, and what is checked under this constraint is claimed   *)
(* either while there is none or of a ring handed over inverted.  That one is *)
(* followed until a third claim or a death, and past a restart of the         *)
(* collector, wherever it falls, until a second claim.                        *)
Intact ==
  \/ damage = {}
  \/ /\ damage = {"inverted"} /\ Len(slots) <= 2 - crashes
     /\ \A i \in DOMAIN slots : slots[i].state \in {"open", "done"}

=============================================================================
