------------------------------ MODULE Presence ------------------------------
(***************************************************************************)
(* What the server promises a player about the presence of a character:    *)
(* created in the world, logged out to a body or to the archive, taken     *)
(* back from either, erased only out of the archive.  Timers and Session   *)
(* both implement it.                                                      *)
(***************************************************************************)
CONSTANT Player

VARIABLE where     \* where each character is

Init == where = [p \in Player |-> "unborn"]

Move(p, from, to) == where[p] \in from /\ where' = [where EXCEPT ![p] = to]

Enter(p) == Move(p, {"unborn", "lingering", "away"}, "online")
Drop(p) == Move(p, {"online"}, "lingering")
Leave(p) == Move(p, {"online", "lingering"}, "away")
Erase(p) == Move(p, {"away"}, "erased")

Next == \E p \in Player : Enter(p) \/ Drop(p) \/ Leave(p) \/ Erase(p)

Spec == Init /\ [][Next]_where

(* The body of a dropped connection does not wait for its player forever.  *)
FairSpec == Spec /\ \A p \in Player : WF_where(where[p] = "lingering" /\ Leave(p))
=============================================================================
