---------------------------- MODULE MCEnrollment ----------------------------
(***************************************************************************)
(* Instances of Enrollment for TLC.                                        *)
(***************************************************************************)
EXTENDS Enrollment, TLC

CONSTANTS ada, ben, cai, req1, req2

MCSymmetry == Permutations(Applicants) \cup Permutations(Requests)
=============================================================================
