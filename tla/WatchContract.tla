--------------------------- MODULE WatchContract ---------------------------
(***************************************************************************)
(* What a watch promises the caller, whatever the transport: seen through  *)
(* its two callbacks, every device alternates between appearing and        *)
(* vanishing, starting with appearing, and nothing is reported once watch  *)
(* returned.                                                               *)
(***************************************************************************)
CONSTANT Devices

VARIABLES
  known,   \* devices reported by on_added and not since by on_removed
  beat,    \* flips with every callback, so that none goes unseen
  over     \* watch returned

Init == known = {} /\ beat \in BOOLEAN /\ over = FALSE

Added(d) == /\ ~over
            /\ d \notin known
            /\ known' = known \union {d}
            /\ beat' = ~beat
            /\ UNCHANGED over

Removed(d) == /\ ~over
              /\ d \in known
              /\ known' = known \ {d}
              /\ beat' = ~beat
              /\ UNCHANGED over

Return == /\ over' = TRUE
          /\ UNCHANGED <<known, beat>>

Next == Return \/ \E d \in Devices : Added(d) \/ Removed(d)

Spec == Init /\ [][Next]_<<known, beat, over>>
=============================================================================
