---------------------------- MODULE MCRecording ----------------------------
(***************************************************************************)
(* Instances of Recording for TLC: one user, one note.                     *)
(***************************************************************************)
EXTENDS Recording, TLC

CONSTANTS r1, r2, h1, h2, mic, call, doc, user

MCDocOf == [r \in Recs |-> doc]
MCOwnerOf == [r \in Recs |-> user]
MCSymmetry == Permutations(Handlers) \cup Permutations(Channels)
=============================================================================
