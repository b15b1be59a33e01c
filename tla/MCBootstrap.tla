------------------------------ MODULE MCBootstrap ------------------------------
(* Instances of Bootstrap for TLC: two administrators.                      *)
EXTENDS Bootstrap, TLC

CONSTANTS o1, o2

=============================================================================
