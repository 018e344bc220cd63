---------------------------- MODULE MCIrcSession ----------------------------
(* IrcSession on small instances: see the .cfg files for the bounds. *)
EXTENDS IrcSession, TLC

CONSTANTS alice, bob

\* The nicks are alike.
Alike == Permutations(Nicks)
=============================================================================
