---------------------------- MODULE MCJobRunner ----------------------------
(***************************************************************************)
(* Instances of JobRunner for TLC.  Two machines in the middle of a        *)
(* rolling deploy: m2 runs code that no longer knows job "b".              *)
(***************************************************************************)
EXTENDS JobRunner, TLC

CONSTANTS m1, m2, a, b, t1, t2, r1

MCMachineOf == [t \in Threads |-> IF t = t2 THEN m2 ELSE m1]
MCRegistry == (m1 :> {a, b}) @@ (m2 :> {a})
MCSameRegistry == [m \in Machines |-> Jobs]
=============================================================================
