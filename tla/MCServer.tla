------------------------------ MODULE MCServer ------------------------------
(* The instance checked: see MCServer.cfg.                                 *)
EXTENDS Server
CONSTANTS n1, k1, k2
=============================================================================
