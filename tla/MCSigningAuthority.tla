-------------------------- MODULE MCSigningAuthority -------------------------
(* Three receipts and five lifecycle records over three keys: every action *)
(* follows every other at least once, with and without receipts between.   *)
EXTENDS SigningAuthority
=============================================================================
