------------------------------ MODULE MCWorld -------------------------------
(* Small instances of what keeps track of entities: the two hash tables,    *)
(* and the scripts on entities.  They are the same entities in the code,    *)
(* looked at by modules that share no part of their state; a behaviour      *)
(* moves one of the two (`part') and the other keeps its initial state.     *)
EXTENDS SerialHash, TLC

CONSTANTS p1, p2, p3, i1, i2,
          Being, Script, Timed, High, Cap, Slack, MaxBorn

ASSUME ScriptBounds == Cap \in Nat /\ MaxBorn \in Nat

VARIABLES
    part,
    alive, scripts, node, free, returned, timed, ring, deferred,
    turn, calls, phase, count, created                            \* Scripts

C == INSTANCE Scripts WITH Entity <- Being

MCSerial == [e \in Entity |-> CASE e = p1 -> 0 [] e = p2 -> 1 [] e = p3 -> 2
                                [] e = i1 -> 4 [] e = i2 -> 3]

code == <<alive, scripts, node, free, returned, timed, ring, deferred,
          turn, calls, phase, count, created>>
all == <<part, vars, code>>

MCInit == part \in {"hash", "scripts"} /\ Init /\ C!Init

MCNext ==
    /\ UNCHANGED part
    /\ \/ part = "hash" /\ Next /\ UNCHANGED code
       \/ part = "scripts" /\ C!Next /\ UNCHANGED vars

MCSpec == MCInit /\ [][MCNext]_all

Symmetry == Permutations(Being)

-----------------------------------------------------------------------------
\* Every variable of both parts keeps its type.
TypesOK == TypeOK /\ C!TypeOK

\* No dispatch calls a script instance that took the place of the one it meant
\* (nodepool.c:122).
SnapshotsHold == C!SnapshotsHold

\* Threads, subscriptions and queued events never outlive the script instance
\* they name (taglist.c:104).
HoldersAreLive == C!HoldersAreLive

\* When the last deferred creation event has had its turn, every script that
\* asked for one has had its creation handler run (wombat_compile.c:1077).
DeferredAreCreated == C!DeferredAreCreated
=============================================================================
