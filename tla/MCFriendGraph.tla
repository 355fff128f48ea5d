---------------------------- MODULE MCFriendGraph ------------------------------
(* FriendGraph on small instances.                                             *)
EXTENDS FriendGraph, TLC

\* Ticks, and readers, are interchangeable; used by safety runs only.
Symmetry == Permutations(Ticks) \cup Permutations(Readers)
================================================================================
