-------------------------------- MODULE MCHub --------------------------------
(***************************************************************************)
(* An instance of Hub: two receivers and two events on one topic, over a    *)
(* channel that retains one event, so that a receiver can fall behind.      *)
(***************************************************************************)
EXTENDS Hub, TLC

CONSTANTS ta, a1, a2, e1, e2

MCTopicOf == [x \in Subs \cup Events |-> ta]

=============================================================================
