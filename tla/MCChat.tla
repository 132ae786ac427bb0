------------------------------- MODULE MCChat -------------------------------
(* Instances of Chat: a game master and two others, an account each.       *)
EXTENDS Chat, TLC

CONSTANTS gm, p1, p2, newbie, c1, c2

MCAccountOf == [p \in Player |-> p]
MCRank == [p \in Player |-> IF p = gm THEN 2 ELSE 0]
Symmetry == Permutations({p1, p2} \cap Player) \cup Permutations(Nick)
              \cup Permutations(Conf \ {Newbie})
=============================================================================
