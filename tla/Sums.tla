------------------------------- MODULE Sums --------------------------------
(* Python's sum over what a function gives for the members of a finite set. *)
EXTENDS Integers, FiniteSetsExt

SumOver(f, S) == MapThenSumSet(LAMBDA x : f[x], S)
=============================================================================
