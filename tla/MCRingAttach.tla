---------------------------- MODULE MCRingAttach ----------------------------
(* RingAttach for TLC. *)
EXTENDS RingAttach

SomeStarts == {"absent", "stale", "foreign"}
StaleStart == {"stale"}

=============================================================================
