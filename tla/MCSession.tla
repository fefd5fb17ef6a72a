------------------------------ MODULE MCSession ------------------------------
(* SessionNetwork for TLC: the constants come from the .cfg files.         *)
EXTENDS SessionNetwork
=============================================================================
