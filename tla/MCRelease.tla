----------------------------- MODULE MCRelease -----------------------------
(* The instances of MCExchange for the release. *)
EXTENDS MCExchange, Release
=============================================================================
