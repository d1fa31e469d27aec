------------------------------ MODULE MCRooms ------------------------------
(***************************************************************************)
(* Instances of Rooms for TLC: two requests at a time.                     *)
(***************************************************************************)
EXTENDS Rooms, TLC

CONSTANTS c1, c2, p1, p2

\* Adjacent and overlapping times: an extended interview or booking can be ended
\* twice, and an edit can bring two holds of an event into one room.
MCSlots == [o \in {"book", "event", "edit", "retime", "interview", "meeting"} |->
               CASE o \in {"book", "event"} -> {<<1, 2>>}
                 [] o = "edit" -> {<<2, 3>>}
                 [] o = "retime" -> {<<0, 1>>}
                 [] o = "interview" -> {<<0, 3>>}
                 [] o = "meeting" -> {<<0, 2>>}]
MCPicks == {<<2, 1>>}
MCMixes == {{"book", "edit", "extend"}, {"book", "cancel"}, {"edit", "cancel"},
            {"book", "event", "edit"}, {"event", "edit", "retime"}, {"event", "retime", "cancel"},
            {"book", "interview"}, {"interview", "cancel"}, {"book", "meeting"}, {"interview", "meeting"}}
MCInterviews == {{"book", "interview"}}
Symmetry == Permutations({c1, c2}) \cup Permutations({p1, p2})
=============================================================================
