------------------------------ MODULE MCSignIn ------------------------------
(* Two attempts, two people who may answer, two ports, and two tokens, so   *)
(* that a list may end, name itself, or go round.  No symmetry: two of the  *)
(* properties are temporal.                                                 *)
EXTENDS SignIn

CONSTANTS one, two, ann, bob, p1, p2, ta, tb
=============================================================================
