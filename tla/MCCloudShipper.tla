---------------------------- MODULE MCCloudShipper ----------------------------
(* CloudShipper for TLC. *)
EXTENDS CloudShipper

=============================================================================
