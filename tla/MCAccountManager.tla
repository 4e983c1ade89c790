-------------------------- MODULE MCAccountManager --------------------------
(* AccountManager for TLC: two people who may sign in.                     *)
EXTENDS AccountManager
CONSTANTS ann, bob
=============================================================================
