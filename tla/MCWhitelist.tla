----------------------------- MODULE MCWhitelist -----------------------------
(* Instances of Whitelist for TLC. *)
EXTENDS Whitelist

CONSTANTS ip1, ip2

Addresses == {ip1, ip2}

OneSeed == <<ip2>>
=============================================================================
