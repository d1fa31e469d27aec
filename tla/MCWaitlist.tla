----------------------------- MODULE MCWaitlist -----------------------------
(***************************************************************************)
(* Instances of Waitlist for TLC.                                          *)
(***************************************************************************)
EXTENDS Waitlist, TLC

CONSTANTS ada, ben, cai, dee, req1, req2

MCSymmetry == Permutations(Applicants \ AdminOnly) \cup Permutations(Requests)
=============================================================================
