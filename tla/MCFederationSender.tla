-------------------------- MODULE MCFederationSender --------------------------
(***************************************************************************)
(* FederationSender for TLC, with its two rooms.                           *)
(***************************************************************************)
EXTENDS FederationSender

CONSTANTS r1, r2
=============================================================================
