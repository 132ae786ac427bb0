---------------------------- MODULE DurableWorld ----------------------------
(***************************************************************************)
(* What the world save promises (src/dynamic.c: SaveDynamic0): the saved   *)
(* world is replaced as a whole, a failed save changes nothing, and a      *)
(* restart goes on from the saved world.  The code has one exception, made *)
(* explicit here: while a save is being put in place it is half done, and  *)
(* after a crash then any part of what was saved may come back.  And once  *)
(* a file call has failed unnoticed, a save may end half done.             *)
(***************************************************************************)
CONSTANTS World,        \* the values a world may have
          Part(_, _),   \* Part(w, v): w is a part of v
          None          \* no server runs
VARIABLES world, saved, half,
          failed        \* a file call of a save has failed

Init == world = None /\ saved \in World /\ half = FALSE /\ failed = FALSE

Change == world # None /\ world' \in World /\ UNCHANGED <<saved, half, failed>>
Begin  == world # None /\ half' = TRUE /\ UNCHANGED <<world, saved, failed>>
Save   == /\ world # None /\ saved' = world
          /\ half' \in BOOLEAN /\ (half' => failed)
          /\ UNCHANGED <<world, failed>>
Fail   == world # None /\ failed' = TRUE /\ UNCHANGED <<world, saved, half>>
Stop   == world # None /\ world' = None /\ UNCHANGED <<saved, half, failed>>
Start  == /\ world = None
          /\ world' \in World
          /\ IF half THEN Part(world', saved) ELSE world' = saved
          /\ UNCHANGED <<saved, half, failed>>

Next == Change \/ Begin \/ Save \/ Fail \/ Stop \/ Start
Spec == Init /\ [][Next]_<<world, saved, half, failed>>
=============================================================================
