---------------------------- MODULE TimersProofs ----------------------------
(***************************************************************************)
(* The invariants of Timers hold for any set of entities, keys and nodes.  *)
(* Each theorem rests on the ones before it: types, then who owns the      *)
(* expired nodes, then the chains, the tracking list and the lingerers.    *)
(* At the end, the watchdog for any timeout, and the types of the three    *)
(* parts of MCTimers.                                                      *)
(***************************************************************************)
EXTENDS MCTimers, TLAPS

USE DEF Entity, Idle, Valueless

-----------------------------------------------------------------------------
(* What the pool operations do to the nodes.                               *)

LEMMA KeyFacts == Idle \in Key /\ Idle \notin ScriptKey /\ ScriptKey \subseteq Key
BY KeysArePairs, ScriptsSpareIdle

LEMMA FreeNodeType == FreeNode \in TimerNode
BY Bounds DEF FreeNode, TimerNode

(* Freed releases the nodes of T and keeps the others.                     *)
LEMMA FreedEffect ==
  ASSUME TypeOK, NEW T
  PROVE  /\ Freed(T) \in [Node -> TimerNode]
         /\ \A m \in Node : Freed(T)[m] = IF m \in T THEN FreeNode ELSE timer[m]
BY FreeNodeType DEF TypeOK, Freed

(* CEntity_RemoveTimer and CEntity_AddTimer release the matching nodes of  *)
(* the entity and put one node on its chain.                               *)
LEMMA ArmEffect ==
  ASSUME TypeOK, NEW e \in Entity, NEW k \in Key, NEW d \in 0..MaxDelay, Arm(e, k, d)
  PROVE  /\ timer' \in [Node -> TimerNode]
         /\ tracked' \in [Entity -> Nat]
         /\ \E n \in Node :
              /\ timer[n].at = "free" \/ n \in Matching(e, k)
              /\ timer'[n] = [at |-> "chain", of |-> e, key |-> k, count |-> d]
              /\ \A m \in Node \ {n} :
                   timer'[m] = IF m \in Matching(e, k) THEN FreeNode ELSE timer[m]
         /\ tracked' = IF Chain(e) \ Matching(e, k) = {} THEN EnsureTracked(e) ELSE tracked
<1>1. PICK n \in Node :
        /\ timer[n].at = "free" \/ n \in Matching(e, k)
        /\ timer' = [Freed(Matching(e, k)) EXCEPT
                       ![n] = [at |-> "chain", of |-> e, key |-> k, count |-> d]]
        /\ tracked' = TrackOnAdd(e, Chain(e) \ Matching(e, k))
  BY DEF Arm, Replaced
<1>2. [at |-> "chain", of |-> e, key |-> k, count |-> d] \in TimerNode
  BY DEF TimerNode
<1>3. timer' \in [Node -> TimerNode]
  BY <1>1, <1>2, FreedEffect
<1>4. /\ timer'[n] = [at |-> "chain", of |-> e, key |-> k, count |-> d]
      /\ \A m \in Node \ {n} : timer'[m] = IF m \in Matching(e, k) THEN FreeNode ELSE timer[m]
  BY <1>1, FreedEffect
<1>5. tracked' \in [Entity -> Nat]
  BY <1>1 DEF TypeOK, TrackOnAdd, EnsureTracked
<1> QED
  BY <1>1, <1>3, <1>4, <1>5 DEF TrackOnAdd

LEMMA ArmSparesDue ==
  ASSUME TypeOK, NEW e \in Entity, NEW k \in Key, NEW d \in 0..MaxDelay, Arm(e, k, d)
  PROVE  \A n \in Node : timer'[n] = timer[n] \/ timer'[n].at \in {"free", "chain"}
<1>1. PICK n \in Node :
        /\ timer'[n] = [at |-> "chain", of |-> e, key |-> k, count |-> d]
        /\ \A m \in Node \ {n} :
             timer'[m] = IF m \in Matching(e, k) THEN FreeNode ELSE timer[m]
  BY ArmEffect
<1>2. timer'[n].at = "chain" /\ FreeNode.at = "free"
  BY <1>1 DEF FreeNode
<1> QED BY <1>1, <1>2

-----------------------------------------------------------------------------
(* Types.                                                                  *)

LEMMA TypeInit == Init => TypeOK
BY FreeNodeType, Bounds DEF Init, TypeOK, Places

(* Operations of scripts and packet handlers keep the types.               *)
LEMMA TypeProgram ==
  ASSUME TypeOK, Program
  PROVE  TypeOK'
<1> USE DEF TypeOK, Places
<1>a. ASSUME CanAct PROVE UNCHANGED <<todo, cur, phase>> /\ ops' \in 0..MaxOps
  BY <1>a, Bounds DEF CanAct, InScript
<1>1. ASSUME NEW e \in Entity, NEW k \in ScriptKey, Cancel(e, k) PROVE TypeOK'
  BY <1>1, <1>a, FreedEffect DEF Cancel
<1>2. ASSUME NEW e \in Entity, NEW k \in ScriptKey, NEW d \in 0..MaxDelay, Schedule(e, k, d)
      PROVE TypeOK'
  BY <1>2, <1>a, ArmEffect, KeyFacts DEF Schedule
<1>3. ASSUME NEW e \in Item, CreateItem(e) \/ Drop(e) PROVE TypeOK'
  BY <1>3, <1>a DEF CreateItem, Drop
<1>4. ASSUME NEW e \in Item, Delete(e) PROVE TypeOK'
  BY <1>4, <1>a, FreedEffect DEF Delete
<1>5. ASSUME NEW e \in Item, NEW v \in BOOLEAN, Hide(e, v) PROVE TypeOK'
  BY <1>5, <1>a, FreedEffect DEF Hide
<1>6. ASSUME NEW p \in Player, BeginLogIn(p) PROVE TypeOK'
  BY <1>6 DEF BeginLogIn, TrackRestored, EnsureTracked
<1>7. ASSUME EndLogIn PROVE TypeOK'
  BY <1>7, FreedEffect, Bounds DEF EndLogIn
<1>8. ASSUME NEW p \in Player, LogOutNow(p) PROVE TypeOK'
  BY <1>8, <1>a DEF LogOutNow
<1>9. ASSUME NEW p \in Player, LogOutLinger(p) PROVE TypeOK'
  <2>1. ASSUME Findable(p) PROVE timer' \in [Node -> TimerNode] /\ tracked' \in [Entity -> Nat]
    <3>1. Arm(p, Idle, MaxDelay) /\ MaxDelay \in 0..MaxDelay
      BY <1>9, <2>1, Bounds DEF LogOutLinger
    <3> HIDE DEF TypeOK
    <3> QED BY <3>1, ArmEffect, KeyFacts
  <2>2. timer' \in [Node -> TimerNode] /\ tracked' \in [Entity -> Nat]
    BY <1>9, <2>1 DEF LogOutLinger
  <2> QED BY <1>9, <1>a, <2>2 DEF LogOutLinger
<1>10. ASSUME SaveWorld PROVE TypeOK'
  BY <1>10 DEF SaveWorld
<1> QED
  BY <1>1, <1>2, <1>3, <1>4, <1>5, <1>6, <1>7, <1>8, <1>9, <1>10 DEF Program

(* So do the steps of a pass.                                              *)
LEMMA TypeManager ==
  ASSUME TypeOK, Manager
  PROVE  TypeOK'
<1> USE DEF TypeOK, Places
<1>1. ASSUME BeginPass PROVE TypeOK'
  BY <1>1 DEF BeginPass
<1>2. ASSUME NEW e \in Entity, SkipEntity(e) PROVE TypeOK'
  BY <1>2 DEF SkipEntity, Visit
<1>3. ASSUME NEW e \in Entity, ProcessEntity(e) PROVE TypeOK'
  <2>1. ASSUME NEW t \in TimerNode, t.at = "chain" PROVE Counted(t) \in TimerNode
    <3>1. t \in [at : {"chain", "due", "firing"}, of : Entity, key : Key, count : 0..MaxDelay]
      BY <2>1 DEF TimerNode
    <3>2. t.count > 0 => t.count - 1 \in 0..MaxDelay
      BY <3>1, Bounds
    <3> QED BY <3>1, <3>2 DEF TimerNode, Counted
  <2> QED BY <1>3, <2>1 DEF ProcessEntity, Visit, Chain
<1>4. ASSUME NEW n \in Node, Fire(n) PROVE TypeOK'
  <2>1. timer[n] \in [at : {"chain", "due", "firing"}, of : Entity, key : Key, count : 0..MaxDelay]
    BY <1>4 DEF Fire, TimerNode
  <2>2. [timer[n] EXCEPT !.at = "firing"] \in TimerNode
    BY <2>1 DEF TimerNode
  <2> QED BY <1>4, <2>2, Bounds DEF Fire
<1>5. ASSUME NEW n \in Node, HandlerReturns(n) PROVE TypeOK'
  <2>1. [FreeNode EXCEPT !.at = "leaked"] \in TimerNode
    BY Bounds DEF FreeNode, TimerNode
  <2>2. \A w \in HandlerPlaces(n) : w \in Places
    BY <1>5 DEF HandlerPlaces, HandlerReturns
  <2> QED BY <1>5, <2>1, <2>2, FreedEffect, Bounds DEF HandlerReturns
<1>6. ASSUME DispatchDone \/ EndPass PROVE TypeOK'
  BY <1>6 DEF DispatchDone, EndPass
<1> QED
  BY <1>1, <1>2, <1>3, <1>4, <1>5, <1>6 DEF Manager

(* Every variable keeps its type, and the manager never dispatches nothing *)
(* (timer.c, entity.c, player.c).                                          *)
THEOREM TypeCorrect == Spec => []TypeOK
<1>1. Init => TypeOK BY TypeInit
<1>2. TypeOK /\ [Next]_vars => TypeOK'
  BY TypeProgram, TypeManager DEF Next, TypeOK, vars
<1> QED BY <1>1, <1>2, PTL DEF Spec

-----------------------------------------------------------------------------
(* Who owns the expired nodes.                                             *)

(* A node that a script or packet handler puts on or takes off a chain is  *)
(* not one of the expired nodes, and the pass stands still meanwhile.      *)
LEMMA ProgramSparesDue ==
  ASSUME TypeOK, Program
  PROVE  /\ \A n \in Node : \/ timer'[n] = timer[n]
                          \/ timer'[n].at \in {"free", "chain"}
         /\ UNCHANGED <<phase, cur>> \/ phase \in {"between", "login"}
<1> DEFINE Spares == \A n \in Node : timer'[n] = timer[n] \/ timer'[n].at \in {"free", "chain"}
<1>f. FreeNode.at = "free" BY DEF FreeNode
<1>1. ASSUME NEW e \in Entity, NEW k \in ScriptKey, Cancel(e, k)
      PROVE  Spares /\ UNCHANGED <<phase, cur>>
  BY <1>1, <1>f, FreedEffect DEF Cancel, CanAct
<1>2. ASSUME NEW e \in Entity, NEW k \in ScriptKey, NEW d \in 0..MaxDelay, Schedule(e, k, d)
      PROVE  Spares /\ UNCHANGED <<phase, cur>>
  <2>1. Arm(e, k, d) /\ UNCHANGED <<phase, cur>> BY <1>2 DEF Schedule, CanAct
  <2> QED BY <2>1, ArmSparesDue, KeyFacts
<1>3. ASSUME NEW e \in Item, CreateItem(e) \/ Drop(e)
      PROVE  Spares /\ UNCHANGED <<phase, cur>>
  BY <1>3 DEF CreateItem, Drop, CanAct
<1>4. ASSUME NEW e \in Item, Delete(e)
      PROVE  Spares /\ UNCHANGED <<phase, cur>>
  BY <1>4, <1>f, FreedEffect DEF Delete, CanAct
<1>5. ASSUME NEW e \in Item, NEW v \in BOOLEAN, Hide(e, v)
      PROVE  Spares /\ UNCHANGED <<phase, cur>>
  BY <1>5, <1>f, FreedEffect DEF Hide, CanAct
<1>6. ASSUME NEW p \in Player, BeginLogIn(p) PROVE Spares /\ phase = "between"
  BY <1>6 DEF BeginLogIn
<1>7. ASSUME EndLogIn PROVE Spares /\ phase = "login"
  BY <1>7, <1>f, FreedEffect DEF EndLogIn
<1>8. ASSUME NEW p \in Player, LogOutNow(p)
      PROVE  Spares /\ UNCHANGED <<phase, cur>>
  BY <1>8 DEF LogOutNow, CanAct
<1>9. ASSUME NEW p \in Player, LogOutLinger(p)
      PROVE  Spares /\ UNCHANGED <<phase, cur>>
  <2>1. CASE Findable(p)
    <3>1. Arm(p, Idle, MaxDelay) /\ MaxDelay \in 0..MaxDelay
      BY <1>9, <2>1, Bounds DEF LogOutLinger
    <3>2. Spares BY <3>1, ArmSparesDue, KeyFacts
    <3> QED BY <1>9, <3>2 DEF LogOutLinger, CanAct
  <2> QED BY <1>9, <2>1 DEF LogOutLinger, CanAct
<1>10. ASSUME SaveWorld PROVE Spares /\ UNCHANGED <<phase, cur>>
  BY <1>10 DEF SaveWorld
<1> QED
  BY <1>1, <1>2, <1>3, <1>4, <1>5, <1>6, <1>7, <1>8, <1>9, <1>10 DEF Program

LEMMA DispatchOwnedManager ==
  ASSUME TypeOK, DispatchOwned, Manager
  PROVE  DispatchOwned'
<1> USE DEF DispatchOwned
<1>1. ASSUME BeginPass PROVE DispatchOwned'
  BY <1>1 DEF BeginPass
<1>2. ASSUME NEW e \in Entity, SkipEntity(e) PROVE DispatchOwned'
  BY <1>2 DEF SkipEntity
<1>3. ASSUME NEW e \in Entity, ProcessEntity(e) PROVE DispatchOwned'
  <2>1. \A n \in Node : timer[n].at \notin {"due", "firing"}
    BY <1>3 DEF ProcessEntity, Visit
  <2>2. \A n \in Node : timer'[n].at \in {"due", "firing"} =>
                          timer'[n].at = "due" /\ timer'[n].of = e
    BY <1>3, <2>1 DEF ProcessEntity, Counted, Chain, TypeOK, TimerNode
  <2> QED BY <1>3, <2>2 DEF ProcessEntity
<1>4. ASSUME NEW n \in Node, Fire(n) PROVE DispatchOwned'
  <2>1. \A m \in Node : timer[m].at # "firing"
    BY <1>4 DEF Fire
  <2>2. /\ timer'[n].at = "firing" /\ timer'[n].of = timer[n].of
        /\ \A m \in Node \ {n} : timer'[m] = timer[m]
    BY <1>4 DEF Fire, TypeOK, TimerNode
  <2> QED BY <1>4, <2>1, <2>2 DEF Fire
<1>5. ASSUME NEW n \in Node, HandlerReturns(n) PROVE DispatchOwned'
  <2>1. PICK w \in HandlerPlaces(n) :
          LET dead == IF w = "gone" THEN DestroyedNodes(cur) ELSE {} IN
          IF StillThere(w)
          THEN timer' = Freed(dead \cup {n}) /\ phase' = "dispatch" /\ cur' = cur
          ELSE /\ timer' = [Freed(dead \cup Abandoned) EXCEPT
                              ![n] = [FreeNode EXCEPT !.at = "leaked"]]
               /\ phase' = "pass" /\ cur' = NoEntity
    BY <1>5 DEF HandlerReturns
  <2>2. \A m \in Node \ {n} : timer[m].at # "firing"
    BY <1>5 DEF HandlerReturns
  <2>3. FreeNode.at = "free" /\ [FreeNode EXCEPT !.at = "leaked"].at = "leaked"
    BY DEF FreeNode
  <2>4. CASE StillThere(w)
    BY <1>5, <2>1, <2>2, <2>3, <2>4, FreedEffect DEF HandlerReturns
  <2>5. CASE ~StillThere(w)
    <3> DEFINE dead == IF w = "gone" THEN DestroyedNodes(cur) ELSE {}
               lost == Freed(dead \cup Abandoned)
    <3>1. timer' = [lost EXCEPT ![n] = [FreeNode EXCEPT !.at = "leaked"]]
      BY <2>1, <2>5
    <3>2. /\ lost \in [Node -> TimerNode]
          /\ \A m \in Node \ {n} : lost[m].at \notin {"due", "firing"}
      BY <2>2, <2>3, FreedEffect DEF Abandoned
    <3> HIDE DEF lost
    <3>3. \A m \in Node : timer'[m].at \notin {"due", "firing"}
      BY <2>3, <3>1, <3>2
    <3> QED BY <3>3
  <2> QED BY <2>4, <2>5
<1>6. ASSUME DispatchDone \/ EndPass PROVE DispatchOwned'
  BY <1>6 DEF DispatchDone, EndPass
<1> QED
  BY <1>1, <1>2, <1>3, <1>4, <1>5, <1>6 DEF Manager

(* Expired nodes live off any chain only while the entity that owns them   *)
(* is dispatched (CItem_ProcessEntityTimers).                              *)
THEOREM DueIsOwned == Spec => []DispatchOwned
<1>1. Init => DispatchOwned
  BY DEF Init, DispatchOwned, FreeNode
<1>2. TypeOK /\ DispatchOwned /\ Program => DispatchOwned'
  BY ProgramSparesDue DEF DispatchOwned
<1>3. TypeOK /\ DispatchOwned /\ [Next]_vars => DispatchOwned'
  BY <1>2, DispatchOwnedManager DEF Next, DispatchOwned, vars
<1> QED BY <1>1, <1>3, TypeCorrect, PTL DEF Spec

(* Only an entity the world can find has expired timers dispatched, so no  *)
(* handler is called on an entity another handler destroyed or archived    *)
(* (timer.c:804).                                                          *)
THEOREM DispatchIsAlive == Spec => []DispatchAlive
<1>1. Init => DispatchAlive
  BY DEF Init, DispatchAlive
<1>2. ASSUME TypeOK, DispatchAlive, Manager PROVE DispatchAlive'
  <2>1. ASSUME BeginPass \/ DispatchDone \/ EndPass PROVE DispatchAlive'
    BY <2>1 DEF BeginPass, DispatchDone, EndPass, DispatchAlive
  <2>2. ASSUME NEW e \in Entity, SkipEntity(e) \/ ProcessEntity(e) PROVE DispatchAlive'
    BY <2>2 DEF SkipEntity, ProcessEntity, Visit, Runs, DispatchAlive, Findable, Hashed
  <2>3. ASSUME NEW n \in Node, Fire(n) PROVE DispatchAlive'
    BY <2>3 DEF Fire, DispatchAlive
  <2>4. ASSUME NEW n \in Node, HandlerReturns(n) PROVE DispatchAlive'
    BY <1>2, <2>4 DEF HandlerReturns, StillThere, DispatchAlive, Findable, TypeOK
  <2> QED BY <1>2, <2>1, <2>2, <2>3, <2>4 DEF Manager
<1>3. ASSUME TypeOK, DispatchAlive, Program PROVE DispatchAlive'
  BY <1>3 DEF Program, Cancel, Schedule, CreateItem, Drop, Delete, Hide, BeginLogIn, EndLogIn,
     LogOutNow, LogOutLinger, SaveWorld, CanAct, InScript, DispatchAlive, Findable
<1>4. TypeOK /\ DispatchAlive /\ [Next]_vars => DispatchAlive'
  BY <1>2, <1>3 DEF Next, DispatchAlive, Findable, vars
<1> QED BY <1>1, <1>4, TypeCorrect, PTL DEF Spec

-----------------------------------------------------------------------------
(* Chains and the tracking list.                                           *)

(* What the end of a handler does: the entity moves to w, every other node *)
(* stays if the world still finds the entity, no chain of a destroyed      *)
(* entity is left.                                                         *)
LEMMA HandlerEffect ==
  ASSUME TypeOK, NEW n \in Node, HandlerReturns(n)
  PROVE  \E w \in HandlerPlaces(n) :
           /\ place' = [place EXCEPT ![cur] = w]
           /\ w \in Hashed => \A m \in Node \ {n} : timer'[m] = timer[m]
           /\ \A m \in Node : timer'[m] = timer[m] \/ timer'[m].at \in {"free", "leaked"}
           /\ w = "gone" => \A m \in Chain(cur) : timer'[m].at \in {"free", "leaked"}
           /\ timer'[n].at \in {"free", "leaked"}
           /\ \A m \in Node \ {n} : timer[m].at = "chain" /\ timer[m].of # cur => timer'[m] = timer[m]
<1>1. PICK w \in HandlerPlaces(n) :
        LET dead == IF w = "gone" THEN DestroyedNodes(cur) ELSE {} IN
        /\ place' = [place EXCEPT ![cur] = w]
        /\ IF StillThere(w)
           THEN timer' = Freed(dead \cup {n})
           ELSE timer' = [Freed(dead \cup Abandoned) EXCEPT
                            ![n] = [FreeNode EXCEPT !.at = "leaked"]]
  BY DEF HandlerReturns
<1>2. FreeNode.at = "free" /\ [FreeNode EXCEPT !.at = "leaked"].at = "leaked"
  BY DEF FreeNode
<1>3. CASE StillThere(w)
  <2>1. timer' = Freed({n}) /\ w # "gone" /\ w \in Hashed
    BY <1>1, <1>3 DEF StillThere, Hashed
  <2> QED BY <1>1, <1>2, <2>1, FreedEffect
<1>4. CASE ~StillThere(w)
  <2> DEFINE T == (IF w = "gone" THEN DestroyedNodes(cur) ELSE {}) \cup Abandoned
             lost == Freed(T)
  <2>1. /\ timer' = [lost EXCEPT ![n] = [FreeNode EXCEPT !.at = "leaked"]]
        /\ w \notin Hashed
    BY <1>1, <1>4 DEF StillThere
  <2>2. /\ lost \in [Node -> TimerNode]
        /\ \A m \in Node : lost[m] = timer[m] \/ lost[m].at = "free"
        /\ w = "gone" => \A m \in Chain(cur) : lost[m].at = "free"
        /\ \A m \in Node : timer[m].at = "chain" /\ timer[m].of # cur => lost[m] = timer[m]
    <3>0. \A m \in T : ~(timer[m].at = "chain" /\ timer[m].of # cur)
      BY DEF DestroyedNodes, Chain, Abandoned
    <3>1. w = "gone" => Chain(cur) \subseteq T
      BY DEF DestroyedNodes
    <3>2. Chain(cur) \subseteq Node BY DEF Chain
    <3> HIDE DEF T
    <3>3. /\ lost \in [Node -> TimerNode]
          /\ \A m \in Node : lost[m] = IF m \in T THEN FreeNode ELSE timer[m]
      BY FreedEffect
    <3> HIDE DEF lost
    <3> QED BY <1>2, <3>0, <3>1, <3>2, <3>3
  <2> HIDE DEF lost
  <2>3. /\ timer'[n].at = "leaked"
        /\ \A m \in Node \ {n} : timer'[m] = lost[m]
    BY <1>2, <2>1, <2>2
  <2>4. Chain(cur) \subseteq Node BY DEF Chain
  <2> QED BY <1>1, <2>1, <2>2, <2>3, <2>4
<1> QED BY <1>3, <1>4

(* A handler moves an entity out of the reach of the world or not at all.  *)
LEMMA HandlerPlacesShrink ==
  ASSUME TypeOK, NEW n \in Node, NEW w \in HandlerPlaces(n)
  PROVE  /\ w \in Hashed => w = place[cur]
         /\ w = "none" => w = place[cur]
BY DEF HandlerPlaces, Hashed

LEMMA NoOrphanProgram ==
  ASSUME TypeOK, NoOrphanTimers, Program
  PROVE  NoOrphanTimers'
<1> USE DEF NoOrphanTimers
<1>f. FreeNode.at = "free" BY DEF FreeNode
<1>t. \A n \in Node : timer[n].at = "chain" => timer[n].of \in Entity
  BY DEF TypeOK, TimerNode
<1>p. place \in [Entity -> Places] BY DEF TypeOK
<1>a. ASSUME NEW e \in Entity, Findable(e), NEW k \in Key, NEW d \in 0..MaxDelay,
             Arm(e, k, d), UNCHANGED place
      PROVE  NoOrphanTimers'
  <2>1. PICK n \in Node :
          /\ timer'[n] = [at |-> "chain", of |-> e, key |-> k, count |-> d]
          /\ \A m \in Node \ {n} :
               timer'[m] = IF m \in Matching(e, k) THEN FreeNode ELSE timer[m]
    BY <1>a, ArmEffect
  <2> QED BY <1>a, <1>f, <2>1 DEF Findable, Hashed
<1>1. ASSUME NEW e \in Entity, NEW k \in ScriptKey, Cancel(e, k) PROVE NoOrphanTimers'
  BY <1>1, <1>f, FreedEffect DEF Cancel
<1>2. ASSUME NEW e \in Entity, NEW k \in ScriptKey, NEW d \in 0..MaxDelay, Schedule(e, k, d)
      PROVE NoOrphanTimers'
  BY <1>2, <1>a, KeyFacts DEF Schedule
<1>3. ASSUME NEW e \in Item, CreateItem(e) \/ Drop(e) PROVE NoOrphanTimers'
  BY <1>3, <1>t, <1>p DEF CreateItem, Drop
<1>4. ASSUME NEW e \in Item, Delete(e) PROVE NoOrphanTimers'
  <2>1. \A n \in Node : timer'[n].at = "chain" => timer'[n] = timer[n] /\ timer[n].of # e
    BY <1>4, <1>f, FreedEffect DEF Delete, DestroyedNodes, Chain
  <2> QED BY <1>4, <1>t, <1>p, <2>1 DEF Delete
<1>5. ASSUME NEW e \in Item, NEW v \in BOOLEAN, Hide(e, v) PROVE NoOrphanTimers'
  <2>1. \A n \in Node : timer'[n] = timer[n] \/ timer'[n].at = "free"
    BY <1>5, <1>f, FreedEffect DEF Hide
  <2> QED BY <1>5, <1>t, <1>p, <2>1 DEF Hide
<1>6. ASSUME NEW p \in Player, BeginLogIn(p) PROVE NoOrphanTimers'
  BY <1>6, <1>t, <1>p DEF BeginLogIn
<1>7. ASSUME EndLogIn PROVE NoOrphanTimers'
  BY <1>7, <1>f, FreedEffect DEF EndLogIn
<1>8. ASSUME NEW p \in Player, LogOutNow(p) PROVE NoOrphanTimers'
  BY <1>8, <1>t, <1>p DEF LogOutNow
<1>9. ASSUME NEW p \in Player, LogOutLinger(p) PROVE NoOrphanTimers'
  <2>1. MaxDelay \in 0..MaxDelay BY Bounds
  <2> QED BY <1>9, <1>a, <2>1, KeyFacts DEF LogOutLinger
<1>10. ASSUME SaveWorld PROVE NoOrphanTimers'
  BY <1>10 DEF SaveWorld
<1> QED
  BY <1>1, <1>2, <1>3, <1>4, <1>5, <1>6, <1>7, <1>8, <1>9, <1>10 DEF Program

(* No timer is left on a chain of an entity that was destroyed, whoever    *)
(* destroyed it and in whichever handler (CItem_Destructor).               *)
THEOREM NoOrphans == Spec => []NoOrphanTimers
<1>1. Init => NoOrphanTimers
  BY DEF Init, NoOrphanTimers, FreeNode
<1>2. ASSUME TypeOK, NoOrphanTimers, Manager PROVE NoOrphanTimers'
  <2>t. \A n \in Node : timer[n].at = "chain" => timer[n].of \in Entity
    BY <1>2 DEF TypeOK, TimerNode
  <2>1. ASSUME BeginPass \/ DispatchDone \/ EndPass PROVE NoOrphanTimers'
    BY <1>2, <2>1 DEF BeginPass, DispatchDone, EndPass, NoOrphanTimers
  <2>2. ASSUME NEW e \in Entity, SkipEntity(e) PROVE NoOrphanTimers'
    BY <1>2, <2>2 DEF SkipEntity, NoOrphanTimers
  <2>3. ASSUME NEW e \in Entity, ProcessEntity(e) PROVE NoOrphanTimers'
    <3>1. \A n \in Node : timer'[n].at = "chain" =>
                             timer[n].at = "chain" /\ timer'[n].of = timer[n].of
      BY <1>2, <2>3 DEF ProcessEntity, Counted, Chain, TypeOK, TimerNode
    <3> QED BY <1>2, <2>3, <3>1 DEF ProcessEntity, NoOrphanTimers
  <2>4. ASSUME NEW n \in Node, Fire(n) PROVE NoOrphanTimers'
    <3>1. \A m \in Node : timer'[m] = timer[m] \/ timer'[m].at = "firing"
      BY <1>2, <2>4 DEF Fire, TypeOK, TimerNode
    <3> QED BY <1>2, <2>4, <3>1 DEF Fire, NoOrphanTimers
  <2>5. ASSUME NEW n \in Node, HandlerReturns(n) PROVE NoOrphanTimers'
    <3>1. PICK w \in HandlerPlaces(n) :
            /\ place' = [place EXCEPT ![cur] = w]
            /\ \A m \in Node : timer'[m] = timer[m] \/ timer'[m].at \in {"free", "leaked"}
            /\ w = "gone" => \A m \in Chain(cur) : timer'[m].at \in {"free", "leaked"}
      BY <1>2, <2>5, HandlerEffect
    <3>2. w = "none" => w = place[cur]
      BY <1>2, HandlerPlacesShrink
    <3>3. cur \in Entity /\ place \in [Entity -> Places]
      BY <1>2, <2>5 DEF HandlerReturns, TypeOK
    <3> QED BY <1>2, <2>t, <3>1, <3>2, <3>3 DEF NoOrphanTimers, Chain
  <2> QED BY <1>2, <2>1, <2>2, <2>3, <2>4, <2>5 DEF Manager
<1>3. TypeOK /\ NoOrphanTimers /\ [Next]_vars => NoOrphanTimers'
  BY <1>2, NoOrphanProgram DEF Next, NoOrphanTimers, vars
<1> QED BY <1>1, <1>3, TypeCorrect, PTL DEF Spec

(* A step that adds no timer and brings no entity back keeps Tracked.      *)
LEMMA TrackedShrink ==
  ASSUME Tracked, tracked' = tracked,
         \A e \in Entity : Findable(e)' => Findable(e),
         \A n \in Node : timer'[n].at = "chain" =>
                           timer[n].at = "chain" /\ timer'[n].of = timer[n].of
  PROVE  Tracked'
BY DEF Tracked, Chain

LEMMA TrackedProgram ==
  ASSUME TypeOK, NoOrphanTimers, Tracked, Program
  PROVE  Tracked'
<1>f. FreeNode.at = "free" BY DEF FreeNode
<1>p. place \in [Entity -> Places] /\ tracked \in [Entity -> Nat] BY DEF TypeOK
<1>a. ASSUME NEW e \in Entity, Findable(e), NEW k \in Key, NEW d \in 0..MaxDelay,
             Arm(e, k, d), UNCHANGED place
      PROVE  Tracked'
  <2>1. PICK n \in Node :
          /\ timer'[n] = [at |-> "chain", of |-> e, key |-> k, count |-> d]
          /\ \A m \in Node \ {n} :
               timer'[m] = IF m \in Matching(e, k) THEN FreeNode ELSE timer[m]
    BY <1>a, ArmEffect
  <2>2. tracked' = IF Chain(e) \ Matching(e, k) = {} THEN EnsureTracked(e) ELSE tracked
    BY <1>a, ArmEffect
  <2>3. tracked'[e] > 0
    BY <1>a, <1>p, <2>2 DEF EnsureTracked, Tracked
  <2>4. ASSUME NEW x \in Entity \ {e}, Findable(x)', Chain(x)' # {} PROVE tracked'[x] > 0
    <3>1. Findable(x) BY <1>a, <2>4 DEF Findable
    <3>2. Chain(x)' \subseteq Chain(x)
      BY <1>f, <2>1 DEF Chain
    <3>3. tracked'[x] = tracked[x]
      BY <1>p, <2>2 DEF EnsureTracked
    <3> QED BY <2>4, <3>1, <3>2, <3>3 DEF Tracked
  <2> QED BY <2>3, <2>4 DEF Tracked
<1>1. ASSUME NEW e \in Entity, NEW k \in ScriptKey, Cancel(e, k) PROVE Tracked'
  <2>1. \A n \in Node : timer'[n] = timer[n] \/ timer'[n].at = "free"
    BY <1>1, <1>f, FreedEffect DEF Cancel
  <2> QED BY <1>1, <2>1, TrackedShrink DEF Cancel, Findable
<1>2. ASSUME NEW e \in Entity, NEW k \in ScriptKey, NEW d \in 0..MaxDelay, Schedule(e, k, d)
      PROVE Tracked'
  BY <1>2, <1>a, KeyFacts DEF Schedule
<1>3. ASSUME NEW e \in Item, CreateItem(e) PROVE Tracked'
  BY <1>3, <1>p DEF CreateItem, Tracked, NoOrphanTimers, Chain, Findable
<1>4. ASSUME NEW e \in Item, Drop(e) PROVE Tracked'
  BY <1>4, <1>p, TrackedShrink DEF Drop, Findable, Hashed
<1>5. ASSUME NEW e \in Item, Delete(e) PROVE Tracked'
  <2>1. \A n \in Node : timer'[n] = timer[n] \/ timer'[n].at = "free"
    BY <1>5, <1>f, FreedEffect DEF Delete
  <2> QED BY <1>5, <1>p, <2>1, TrackedShrink DEF Delete, Findable, Hashed
<1>6. ASSUME NEW e \in Item, NEW v \in BOOLEAN, Hide(e, v) PROVE Tracked'
  <2>1. \A n \in Node : timer'[n] = timer[n] \/ timer'[n].at = "free"
    BY <1>6, <1>f, FreedEffect DEF Hide
  <2> QED BY <1>6, <1>p, <2>1, TrackedShrink DEF Hide, Findable, Hashed
<1>7. ASSUME NEW p \in Player, BeginLogIn(p) PROVE Tracked'
  <2>1. \A x \in Entity : Chain(x)' = Chain(x)
    BY <1>7 DEF BeginLogIn, Chain
  <2>2. place[p] = "none" => Chain(p) = {}
    BY DEF NoOrphanTimers, Chain
  <2>3. Chain(p) # {} => tracked'[p] > 0
    BY <1>7, <1>p, <2>2 DEF BeginLogIn, TrackRestored, EnsureTracked, Tracked, Findable, Hashed
  <2>4. \A x \in Entity \ {p} : tracked'[x] = tracked[x] /\ place'[x] = place[x]
    BY <1>7, <1>p DEF BeginLogIn, TrackRestored, EnsureTracked
  <2> QED BY <2>1, <2>3, <2>4 DEF Tracked, Findable
<1>8. ASSUME EndLogIn PROVE Tracked'
  <2>1. \A n \in Node : timer'[n] = timer[n] \/ timer'[n].at = "free"
    BY <1>8, <1>f, FreedEffect DEF EndLogIn
  <2> QED BY <1>8, <2>1, TrackedShrink DEF EndLogIn, Findable
<1>9. ASSUME NEW p \in Player, LogOutNow(p) PROVE Tracked'
  BY <1>9, <1>p, TrackedShrink DEF LogOutNow, Findable, Hashed
<1>10. ASSUME NEW p \in Player, LogOutLinger(p) PROVE Tracked'
  <2>1. MaxDelay \in 0..MaxDelay BY Bounds
  <2>2. CASE Findable(p) BY <1>10, <1>a, <2>1, <2>2, KeyFacts DEF LogOutLinger
  <2>3. CASE ~Findable(p) BY <1>10, <2>3 DEF LogOutLinger, Tracked, Findable, Chain
  <2> QED BY <2>2, <2>3
<1>11. ASSUME SaveWorld PROVE Tracked'
  BY <1>11, <1>p DEF SaveWorld, Tracked, Findable, Chain
<1> QED
  BY <1>1, <1>2, <1>3, <1>4, <1>5, <1>6, <1>7, <1>8, <1>9, <1>10, <1>11 DEF Program

(* An entity the world finds and that owns a timer is on the tracking      *)
(* list, so the next pass reaches it (timer.c:687, 494 and 880).           *)
THEOREM TimersAreTracked == Spec => []Tracked
<1>1. Init => Tracked
  BY DEF Init, Tracked, Findable, Hashed
<1>2. ASSUME TypeOK, Tracked, Manager PROVE Tracked'
  <2>p. place \in [Entity -> Places] BY <1>2 DEF TypeOK
  <2>1. ASSUME BeginPass PROVE Tracked'
    BY <1>2, <2>1 DEF BeginPass, Survives, Tracked, Findable, Chain
  <2>2. ASSUME NEW e \in Entity, SkipEntity(e) PROVE Tracked'
    BY <1>2, <2>2 DEF SkipEntity, Tracked, Findable, Chain
  <2>3. ASSUME NEW e \in Entity, ProcessEntity(e) PROVE Tracked'
    <3>1. \A n \in Node : timer'[n].at = "chain" =>
                             timer[n].at = "chain" /\ timer'[n].of = timer[n].of
      BY <1>2, <2>3 DEF ProcessEntity, Counted, Chain, TypeOK, TimerNode
    <3> QED BY <1>2, <2>3, <3>1, TrackedShrink DEF ProcessEntity, Findable
  <2>4. ASSUME NEW n \in Node, Fire(n) PROVE Tracked'
    <3>1. \A m \in Node : timer'[m] = timer[m] \/ timer'[m].at = "firing"
      BY <1>2, <2>4 DEF Fire, TypeOK, TimerNode
    <3> QED BY <1>2, <2>4, <3>1, TrackedShrink DEF Fire, Findable
  <2>5. ASSUME NEW n \in Node, HandlerReturns(n) PROVE Tracked'
    <3>1. PICK w \in HandlerPlaces(n) :
            /\ place' = [place EXCEPT ![cur] = w]
            /\ \A m \in Node : timer'[m] = timer[m] \/ timer'[m].at \in {"free", "leaked"}
      BY <1>2, <2>5, HandlerEffect
    <3>2. w \in Hashed => w = place[cur]
      BY <1>2, HandlerPlacesShrink
    <3>3. \A e \in Entity : Findable(e)' => Findable(e)
      BY <2>p, <3>1, <3>2 DEF Findable, Hashed
    <3> QED BY <1>2, <2>5, <3>1, <3>3, TrackedShrink DEF HandlerReturns
  <2>6. ASSUME DispatchDone \/ EndPass PROVE Tracked'
    BY <1>2, <2>6 DEF DispatchDone, EndPass, Tracked, Findable, Chain
  <2> QED BY <1>2, <2>1, <2>2, <2>3, <2>4, <2>5, <2>6 DEF Manager
<1>3. TypeOK /\ NoOrphanTimers /\ Tracked /\ [Next]_vars => Tracked'
  BY <1>2, TrackedProgram DEF Next, Tracked, Findable, Chain, vars
<1> QED BY <1>1, <1>3, TypeCorrect, NoOrphans, PTL DEF Spec

(* The tracking list names an entity once at most, so a pass counts its    *)
(* timers down once at most.                                               *)
THEOREM OneEntryPerEntity == Spec => []OncePerPass
<1>1. Init => OncePerPass
  BY DEF Init, OncePerPass
<1>2. ASSUME TypeOK, OncePerPass, Program PROVE OncePerPass'
  <2> DEFINE Keeps(t) == \A e \in Entity : t[e] <= 1
  <2>a. ASSUME NEW e \in Entity, NEW k \in Key, NEW d \in 0..MaxDelay, Arm(e, k, d)
        PROVE  Keeps(tracked')
    <3>1. tracked' = EnsureTracked(e) \/ tracked' = tracked
      BY <1>2, <2>a, ArmEffect
    <3> QED BY <1>2, <3>1 DEF OncePerPass, EnsureTracked, TypeOK
  <2>1. todo' = todo
    BY <1>2 DEF Program, Cancel, Schedule, CreateItem, Drop, Delete, Hide, BeginLogIn, EndLogIn,
       LogOutNow, LogOutLinger, SaveWorld, CanAct
  <2>2. ASSUME NEW e \in Entity, NEW k \in ScriptKey, NEW d \in 0..MaxDelay, Schedule(e, k, d)
        PROVE Keeps(tracked')
    BY <2>2, <2>a, KeyFacts DEF Schedule
  <2>3. ASSUME NEW p \in Player, LogOutLinger(p) PROVE Keeps(tracked')
    <3>1. MaxDelay \in 0..MaxDelay BY Bounds
    <3> QED BY <1>2, <2>3, <2>a, <3>1, KeyFacts DEF LogOutLinger, OncePerPass
  <2>4. ASSUME NEW p \in Player, BeginLogIn(p) PROVE Keeps(tracked')
    BY <1>2, <2>4 DEF BeginLogIn, TrackRestored, EnsureTracked, OncePerPass, TypeOK
  <2>5. ASSUME SaveWorld PROVE Keeps(tracked')
    BY <1>2, <2>5 DEF SaveWorld, OncePerPass, TypeOK
  <2>6. \/ \E e \in Entity, k \in ScriptKey : Cancel(e, k)
        \/ \E e \in Item : CreateItem(e) \/ Drop(e) \/ Delete(e) \/ \E v \in BOOLEAN : Hide(e, v)
        \/ EndLogIn
        \/ \E p \in Player : LogOutNow(p)
        => tracked' = tracked
    BY DEF Cancel, CreateItem, Drop, Delete, Hide, EndLogIn, LogOutNow
  <2>7. Keeps(tracked')
    BY <1>2, <2>2, <2>3, <2>4, <2>5, <2>6 DEF Program, OncePerPass
  <2> QED BY <1>2, <2>1, <2>7 DEF OncePerPass
<1>3. ASSUME TypeOK, OncePerPass, Manager PROVE OncePerPass'
  <2>1. ASSUME BeginPass PROVE OncePerPass'
    BY <1>3, <2>1 DEF BeginPass, OncePerPass, TypeOK
  <2>2. ASSUME NEW e \in Entity, SkipEntity(e) \/ ProcessEntity(e) PROVE OncePerPass'
    BY <1>3, <2>2 DEF SkipEntity, ProcessEntity, Visit, OncePerPass, TypeOK
  <2>3. ASSUME NEW n \in Node, Fire(n) \/ HandlerReturns(n) PROVE OncePerPass'
    BY <1>3, <2>3 DEF Fire, HandlerReturns, OncePerPass
  <2>4. ASSUME DispatchDone \/ EndPass PROVE OncePerPass'
    BY <1>3, <2>4 DEF DispatchDone, EndPass, OncePerPass
  <2> QED BY <1>3, <2>1, <2>2, <2>3, <2>4 DEF Manager
<1>4. TypeOK /\ OncePerPass /\ [Next]_vars => OncePerPass'
  BY <1>2, <1>3 DEF Next, OncePerPass, vars
<1> QED BY <1>1, <1>4, TypeCorrect, PTL DEF Spec

(* What the two lists promise together: nothing that can come due is missed *)
(* by a pass, and nothing is counted down twice in one.                    *)
THEOREM TimersAreTrackedOnce == Spec => []TrackedOnce
<1>1. Tracked /\ OncePerPass => TrackedOnce
  BY DEF TrackedOnce
<1> QED BY <1>1, TimersAreTracked, OneEntryPerEntity, PTL

-----------------------------------------------------------------------------
(* Keys, lingering players and cancels.                                    *)

(* A chain holds one timer at most for an (event, type) pair: Schedule-    *)
(* Event removes what it replaces (timer.c:830).                           *)
THEOREM UniqueKeys == Spec => []OneTimerPerKey
<1> USE DEF OneTimerPerKey
<1>1. Init => OneTimerPerKey
  BY DEF Init, FreeNode
<1>s. ASSUME OneTimerPerKey,
             \A n \in Node : timer'[n].at = "chain" =>
                              /\ timer[n].at = "chain"
                              /\ timer'[n].of = timer[n].of /\ timer'[n].key = timer[n].key
      PROVE  OneTimerPerKey'
  BY <1>s
<1>2. ASSUME TypeOK, OneTimerPerKey, Program PROVE OneTimerPerKey'
  <2>f. FreeNode.at = "free" BY DEF FreeNode
  <2>a. ASSUME NEW e \in Entity, NEW k \in Key, NEW d \in 0..MaxDelay, Arm(e, k, d)
        PROVE  OneTimerPerKey'
    <3>1. PICK n \in Node :
            /\ timer'[n] = [at |-> "chain", of |-> e, key |-> k, count |-> d]
            /\ \A m \in Node \ {n} :
                 timer'[m] = IF m \in Matching(e, k) THEN FreeNode ELSE timer[m]
      BY <1>2, <2>a, ArmEffect
    <3>2. \A m \in Node \ {n} : timer'[m].at = "chain" =>
            timer'[m] = timer[m] /\ ~(timer'[m].of = e /\ timer'[m].key = k)
      BY <2>f, <3>1 DEF Matching, Chain
    <3>3. timer'[n].of = e /\ timer'[n].key = k BY <3>1
    <3> QED BY <1>2, <3>2, <3>3
  <2>1. ASSUME NEW T, timer' = Freed(T) PROVE OneTimerPerKey'
    BY <1>2, <2>1, <2>f, <1>s, FreedEffect
  <2>2. ASSUME NEW e \in Entity, NEW k \in ScriptKey,
               Cancel(e, k) \/ \E d \in 0..MaxDelay : Schedule(e, k, d)
        PROVE OneTimerPerKey'
    BY <2>2, <2>1, <2>a, KeyFacts DEF Cancel, Schedule
  <2>3. ASSUME NEW e \in Item,
               CreateItem(e) \/ Drop(e) \/ Delete(e) \/ \E v \in BOOLEAN : Hide(e, v)
        PROVE OneTimerPerKey'
    BY <1>2, <2>3, <2>1 DEF CreateItem, Drop, Delete, Hide
  <2>4. ASSUME NEW p \in Player, BeginLogIn(p) \/ LogOutNow(p) PROVE OneTimerPerKey'
    BY <1>2, <2>4 DEF BeginLogIn, LogOutNow
  <2>5. ASSUME NEW p \in Player, LogOutLinger(p) PROVE OneTimerPerKey'
    <3>1. MaxDelay \in 0..MaxDelay BY Bounds
    <3> QED BY <1>2, <2>5, <2>a, <3>1, KeyFacts DEF LogOutLinger
  <2>6. ASSUME EndLogIn \/ SaveWorld PROVE OneTimerPerKey'
    BY <1>2, <2>6, <2>1 DEF EndLogIn, SaveWorld
  <2> QED BY <1>2, <2>2, <2>3, <2>4, <2>5, <2>6 DEF Program
<1>3. ASSUME TypeOK, OneTimerPerKey, Manager PROVE OneTimerPerKey'
  <2>1. ASSUME BeginPass \/ DispatchDone \/ EndPass PROVE OneTimerPerKey'
    BY <1>3, <2>1 DEF BeginPass, DispatchDone, EndPass
  <2>2. ASSUME NEW e \in Entity, SkipEntity(e) PROVE OneTimerPerKey'
    BY <1>3, <2>2 DEF SkipEntity
  <2>3. ASSUME NEW e \in Entity, ProcessEntity(e) PROVE OneTimerPerKey'
    <3>1. \A n \in Node : timer'[n].at = "chain" =>
                             /\ timer[n].at = "chain"
                             /\ timer'[n].of = timer[n].of /\ timer'[n].key = timer[n].key
      BY <1>3, <2>3 DEF ProcessEntity, Counted, Chain, TypeOK, TimerNode
    <3> QED BY <1>3, <1>s, <3>1
  <2>4. ASSUME NEW n \in Node, Fire(n) PROVE OneTimerPerKey'
    <3>1. \A m \in Node : timer'[m] = timer[m] \/ timer'[m].at = "firing"
      BY <1>3, <2>4 DEF Fire, TypeOK, TimerNode
    <3> QED BY <1>3, <1>s, <3>1
  <2>5. ASSUME NEW n \in Node, HandlerReturns(n) PROVE OneTimerPerKey'
    <3>1. \A m \in Node : timer'[m] = timer[m] \/ timer'[m].at \in {"free", "leaked"}
      BY <1>3, <2>5, HandlerEffect
    <3> QED BY <1>3, <1>s, <3>1
  <2> QED BY <1>3, <2>1, <2>2, <2>3, <2>4, <2>5 DEF Manager
<1>4. TypeOK /\ OneTimerPerKey /\ [Next]_vars => OneTimerPerKey'
  BY <1>2, <1>3 DEF Next, vars
<1> QED BY <1>1, <1>4, TypeCorrect, PTL DEF Spec

(* Every node in use belongs to an entity that is there to receive it: on   *)
(* its chain under a key of its own, or claimed for a dispatch.            *)
THEOREM NodesBelongToLiving == Spec => []NodesBelong
<1>1. OneTimerPerKey /\ NoOrphanTimers /\ DispatchOwned /\ DispatchAlive => NodesBelong
  BY DEF NodesBelong
<1> QED BY <1>1, UniqueKeys, NoOrphans, DueIsOwned, DispatchIsAlive, PTL

(* A body whose idle-disconnect timer is still to come, for one player.    *)
Awaited(p) ==
  \E n \in Node : timer[n].at \in {"chain", "due", "firing"} /\ timer[n].of = p /\ timer[n].key = Idle

(* Nothing but the end of a login and the idle handler itself takes the    *)
(* idle timer of a player away.                                            *)
LEMMA LingererKept ==
  ASSUME LingererHasTimer, UNCHANGED <<place, online, phase, cur>>,
         \A p \in Player : Awaited(p) => Awaited(p)'
  PROVE  LingererHasTimer'
BY DEF LingererHasTimer, Awaited, Findable

LEMMA FreedKeepsAwaited ==
  ASSUME TypeOK, NEW T, timer' = Freed(T), NEW p \in Player,
         \A n \in T \cap Node : timer[n].of # p \/ timer[n].key # Idle, Awaited(p)
  PROVE  Awaited(p)'
BY FreedEffect DEF Awaited

LEMMA ArmKeepsAwaited ==
  ASSUME TypeOK, NEW e \in Entity, NEW k \in Key, NEW d \in 0..MaxDelay, Arm(e, k, d),
         NEW p \in Player, Awaited(p) \/ <<p, Idle>> = <<e, k>>
  PROVE  Awaited(p)'
<1>1. PICK n \in Node :
        /\ timer[n].at = "free" \/ n \in Matching(e, k)
        /\ timer'[n] = [at |-> "chain", of |-> e, key |-> k, count |-> d]
        /\ \A m \in Node \ {n} :
             timer'[m] = IF m \in Matching(e, k) THEN FreeNode ELSE timer[m]
  BY ArmEffect
<1>2. CASE p = e /\ k = Idle
  BY <1>1, <1>2 DEF Awaited
<1>3. CASE ~(p = e /\ k = Idle)
  <2>1. PICK m \in Node : timer[m].at \in {"chain", "due", "firing"} /\ timer[m].of = p /\ timer[m].key = Idle
    BY <1>3 DEF Awaited
  <2>2. m \notin Matching(e, k) /\ m # n
    BY <1>1, <1>3, <2>1 DEF Matching, Chain
  <2> QED BY <1>1, <2>1, <2>2 DEF Awaited
<1> QED BY <1>2, <1>3

LEMMA LingererProgram ==
  ASSUME TypeOK, LingererHasTimer, Program
  PROVE  LingererHasTimer'
<1>p. place \in [Entity -> Places] /\ online \subseteq Player BY DEF TypeOK
<1>i. \A e \in Item : e \notin Player BY PlayersAreNotItems
<1>1. ASSUME NEW e \in Entity, NEW k \in ScriptKey, Cancel(e, k) PROVE LingererHasTimer'
  <2>1. \A n \in Matching(e, k) : timer[n].key # Idle
    BY KeyFacts DEF Matching
  <2>2. \A p \in Player : Awaited(p) => Awaited(p)'
    BY <1>1, <2>1, FreedKeepsAwaited DEF Cancel
  <2> QED BY <1>1, <2>2, LingererKept DEF Cancel, CanAct
<1>2. ASSUME NEW e \in Entity, NEW k \in ScriptKey, NEW d \in 0..MaxDelay, Schedule(e, k, d)
      PROVE LingererHasTimer'
  <2>1. \A p \in Player : Awaited(p) => Awaited(p)'
    BY <1>2, ArmKeepsAwaited, KeyFacts DEF Schedule
  <2> QED BY <1>2, <2>1, LingererKept DEF Schedule, CanAct
<1>3. ASSUME NEW e \in Item, CreateItem(e) \/ Drop(e) PROVE LingererHasTimer'
  BY <1>3, <1>p, <1>i DEF CreateItem, Drop, CanAct, LingererHasTimer, Findable
<1>4. ASSUME NEW e \in Item, NEW T, \A n \in T : timer[n].of = e, timer' = Freed(T), NEW w,
             place' = [place EXCEPT ![e] = w], UNCHANGED <<online, phase, cur>>
      PROVE LingererHasTimer'
  <2>1. \A p \in Player : Awaited(p) => Awaited(p)'
    BY <1>4, <1>i, FreedKeepsAwaited
  <2>2. \A p \in Player : place'[p] = place[p]
    BY <1>4, <1>p, <1>i
  <2> QED BY <1>4, <2>1, <2>2 DEF LingererHasTimer, Awaited, Findable
<1>5. ASSUME NEW e \in Item, Delete(e) PROVE LingererHasTimer'
  <2>1. \A n \in DestroyedNodes(e) : timer[n].of = e
    BY DEF DestroyedNodes, Chain
  <2> QED BY <1>5, <1>4, <2>1 DEF Delete, CanAct
<1>6. ASSUME NEW e \in Item, NEW v \in BOOLEAN, Hide(e, v) PROVE LingererHasTimer'
  <2>1. \A n \in Matching(e, Valueless) : timer[n].of = e
    BY DEF Matching, Chain
  <2>2. CASE v
    BY <1>6, <1>4, <2>1, <2>2 DEF Hide, CanAct
  <2>3. CASE ~v
    BY <1>6, <1>p, <1>i, <2>3 DEF Hide, CanAct, LingererHasTimer, Findable
  <2> QED BY <2>2, <2>3
<1>7. ASSUME NEW p \in Player, BeginLogIn(p) PROVE LingererHasTimer'
  BY <1>7, <1>p DEF BeginLogIn, LingererHasTimer, Findable
<1>8. ASSUME EndLogIn PROVE LingererHasTimer'
  <2>1. \A p \in Player \ {cur} : Awaited(p) => Awaited(p)'
    <3>1. \A n \in Matching(cur, Idle) : timer[n].of = cur BY DEF Matching, Chain
    <3> QED BY <1>8, <3>1, FreedKeepsAwaited DEF EndLogIn
  <2> QED BY <1>8, <2>1 DEF EndLogIn, LingererHasTimer, Awaited, Findable
<1>9. ASSUME NEW p \in Player, LogOutNow(p) PROVE LingererHasTimer'
  BY <1>9, <1>p DEF LogOutNow, CanAct, LingererHasTimer, Findable, Hashed
<1>10. ASSUME NEW p \in Player, LogOutLinger(p) PROVE LingererHasTimer'
  <2>1. CASE Findable(p)
    <3>1. Arm(p, Idle, MaxDelay) /\ MaxDelay \in 0..MaxDelay
      BY <1>10, <2>1, Bounds DEF LogOutLinger
    <3>2. \A x \in Player : Awaited(x) \/ x = p => Awaited(x)'
      BY <3>1, ArmKeepsAwaited, KeyFacts
    <3> QED BY <1>10, <3>2 DEF LogOutLinger, CanAct, LingererHasTimer, Awaited, Findable
  <2>2. CASE ~Findable(p)
    BY <1>10, <2>2 DEF LogOutLinger, CanAct, LingererHasTimer, Findable
  <2> QED BY <2>1, <2>2
<1>11. ASSUME SaveWorld PROVE LingererHasTimer'
  BY <1>11 DEF SaveWorld, LingererHasTimer, Findable
<1> QED
  BY <1>1, <1>2, <1>3, <1>5, <1>6, <1>7, <1>8, <1>9, <1>10, <1>11 DEF Program

(* A player left in the world without a connection has its idle-disconnect *)
(* timer pending at all times (player.c:2243).                             *)
THEOREM LingererIsTimed == Spec => []LingererHasTimer
<1>1. Init => LingererHasTimer
  BY DEF Init, LingererHasTimer, Findable, Hashed
<1>2. ASSUME TypeOK, DispatchOwned, LingererHasTimer, Manager PROVE LingererHasTimer'
  <2>p. place \in [Entity -> Places] /\ online \subseteq Player BY <1>2 DEF TypeOK
  <2>1. ASSUME BeginPass \/ DispatchDone \/ EndPass PROVE LingererHasTimer'
    BY <1>2, <2>1 DEF BeginPass, DispatchDone, EndPass, LingererHasTimer, Findable
  <2>2. ASSUME NEW e \in Entity, SkipEntity(e) PROVE LingererHasTimer'
    BY <1>2, <2>2 DEF SkipEntity, LingererHasTimer, Findable
  <2>3. ASSUME NEW e \in Entity, ProcessEntity(e) PROVE LingererHasTimer'
    <3>1. \A n \in Node : timer[n].at \in {"chain", "due", "firing"} =>
            /\ timer'[n].at \in {"chain", "due", "firing"}
            /\ timer'[n].of = timer[n].of /\ timer'[n].key = timer[n].key
      BY <1>2, <2>3 DEF ProcessEntity, Counted, Chain, TypeOK, TimerNode
    <3>2. \A p \in Player : Awaited(p) => Awaited(p)'
      BY <3>1 DEF Awaited
    <3> QED BY <1>2, <2>3, <3>2 DEF ProcessEntity, Visit, LingererHasTimer, Awaited, Findable
  <2>4. ASSUME NEW n \in Node, Fire(n) PROVE LingererHasTimer'
    <3>1. \A m \in Node : timer[m].at \in {"chain", "due", "firing"} =>
            /\ timer'[m].at \in {"chain", "due", "firing"}
            /\ timer'[m].of = timer[m].of /\ timer'[m].key = timer[m].key
      BY <1>2, <2>4 DEF Fire, TypeOK, TimerNode
    <3>2. \A p \in Player : Awaited(p) => Awaited(p)'
      BY <3>1 DEF Awaited
    <3> QED BY <1>2, <2>4, <3>2 DEF Fire, LingererHasTimer, Awaited, Findable
  <2>5. ASSUME NEW n \in Node, HandlerReturns(n) PROVE LingererHasTimer'
    <3>1. PICK w \in HandlerPlaces(n) :
            /\ place' = [place EXCEPT ![cur] = w]
            /\ w \in Hashed => \A m \in Node \ {n} : timer'[m] = timer[m]
            /\ \A m \in Node : timer'[m] = timer[m] \/ timer'[m].at \in {"free", "leaked"}
            /\ w = "gone" => \A m \in Chain(cur) : timer'[m].at \in {"free", "leaked"}
      BY <1>2, <2>5, HandlerEffect
    <3>2. /\ cur \in Entity /\ timer[n].of = cur /\ phase = "handler"
          /\ \A m \in Node : timer[m].at = "due" => timer[m].of = cur
          /\ \A m \in Node : timer[m].at = "firing" => m = n
      BY <1>2, <2>5 DEF HandlerReturns, TypeOK, DispatchOwned
    <3>3. w \in Hashed => w = place[cur]
      BY <1>2, HandlerPlacesShrink
    <3>4. ASSUME NEW p \in Player, Findable(p)', p \notin online PROVE Awaited(p)'
      <4>1. Findable(p)
        BY <2>p, <3>1, <3>2, <3>3, <3>4 DEF Findable
      <4>2. PICK m \in Node : timer[m].at \in {"chain", "due", "firing"} /\ timer[m].of = p /\ timer[m].key = Idle
        BY <1>2, <3>2, <3>4, <4>1 DEF LingererHasTimer
      <4>3. CASE p # cur
        <5>1. m # n /\ timer[m].at = "chain"
          BY <3>2, <4>2, <4>3
        <5>2. timer'[m] = timer[m]
          BY <1>2, <2>5, <3>2, <4>2, <4>3, <5>1, HandlerEffect
        <5> QED BY <4>2, <5>2 DEF Awaited
      <4>4. CASE p = cur
        <5>1. w \in Hashed BY <2>p, <3>1, <3>2, <3>4, <4>4 DEF Findable
        <5>2. m # n
          BY <3>2, <3>4, <4>2, <4>4, <5>1, PlayersAreNotItems DEF HandlerPlaces, Hashed
        <5> QED BY <3>1, <4>2, <5>1, <5>2 DEF Awaited
      <4> QED BY <4>3, <4>4
    <3> QED BY <2>5, <3>4 DEF HandlerReturns, LingererHasTimer, Awaited
  <2> QED BY <1>2, <2>1, <2>2, <2>3, <2>4, <2>5 DEF Manager
<1>3. TypeOK /\ DispatchOwned /\ LingererHasTimer /\ [Next]_vars => LingererHasTimer'
  <2>1. ASSUME LingererHasTimer, UNCHANGED vars PROVE LingererHasTimer'
    <3>1. \A p \in Player : Awaited(p) => Awaited(p)'
      BY <2>1 DEF Awaited, vars
    <3> QED BY <2>1, <3>1, LingererKept DEF vars
  <2> QED BY <1>2, <2>1, LingererProgram DEF Next
<1> QED BY <1>1, <1>3, TypeCorrect, DueIsOwned, PTL DEF Spec

(* A chain has one timer for a key, so the expired nodes taken off it in a *)
(* pass have different keys, and a handler adds none to them.              *)
LEMMA DueKeysDiffer == Spec => []DueOncePerKey
<1>1. Init => DueOncePerKey
  BY DEF Init, DueOncePerKey, FreeNode
<1>2. ASSUME TypeOK, DueOncePerKey, Program PROVE DueOncePerKey'
  BY <1>2, ProgramSparesDue DEF DueOncePerKey
<1>3. ASSUME TypeOK, DispatchOwned, OneTimerPerKey, DueOncePerKey, Manager PROVE DueOncePerKey'
  <2>1. ASSUME BeginPass \/ DispatchDone \/ EndPass PROVE DueOncePerKey'
    BY <1>3, <2>1 DEF BeginPass, DispatchDone, EndPass, DueOncePerKey
  <2>2. ASSUME NEW e \in Entity, SkipEntity(e) PROVE DueOncePerKey'
    BY <1>3, <2>2 DEF SkipEntity, DueOncePerKey
  <2>3. ASSUME NEW e \in Entity, ProcessEntity(e) PROVE DueOncePerKey'
    <3>1. \A n \in Node : timer[n].at \notin {"due", "firing"}
      BY <1>3, <2>3 DEF ProcessEntity, Visit, DispatchOwned
    <3>2. \A n \in Node : timer'[n].at \in {"due", "firing"} =>
                            timer[n].at = "chain" /\ timer[n].of = e /\ timer'[n].key = timer[n].key
      BY <1>3, <2>3, <3>1 DEF ProcessEntity, Counted, Chain, TypeOK, TimerNode
    <3> QED BY <1>3, <3>2 DEF OneTimerPerKey, DueOncePerKey
  <2>4. ASSUME NEW n \in Node, Fire(n) PROVE DueOncePerKey'
    <3>1. \A m \in Node : timer'[m].key = timer[m].key
                           /\ (timer'[m].at \in {"due", "firing"} => timer[m].at \in {"due", "firing"})
      BY <1>3, <2>4 DEF Fire, TypeOK, TimerNode
    <3> QED BY <1>3, <3>1 DEF DueOncePerKey
  <2>5. ASSUME NEW n \in Node, HandlerReturns(n) PROVE DueOncePerKey'
    <3>1. \A m \in Node : timer'[m].at \in {"due", "firing"} => timer'[m] = timer[m]
      <4>1. PICK w \in HandlerPlaces(n) :
              LET dead == IF w = "gone" THEN DestroyedNodes(cur) ELSE {} IN
              IF StillThere(w)
              THEN timer' = Freed(dead \cup {n})
              ELSE timer' = [Freed(dead \cup Abandoned) EXCEPT
                               ![n] = [FreeNode EXCEPT !.at = "leaked"]]
        BY <2>5 DEF HandlerReturns
      <4>2. FreeNode.at = "free" /\ [FreeNode EXCEPT !.at = "leaked"].at = "leaked"
        BY DEF FreeNode
      <4>3. CASE StillThere(w)
        BY <1>3, <4>1, <4>2, <4>3, FreedEffect
      <4>4. CASE ~StillThere(w)
        <5> DEFINE dead == IF w = "gone" THEN DestroyedNodes(cur) ELSE {}
                   lost == Freed(dead \cup Abandoned)
        <5>1. timer' = [lost EXCEPT ![n] = [FreeNode EXCEPT !.at = "leaked"]]
          BY <4>1, <4>4
        <5>2. /\ lost \in [Node -> TimerNode]
              /\ \A m \in Node : lost[m] = timer[m] \/ lost[m].at = "free"
          BY <1>3, <4>2, FreedEffect
        <5> HIDE DEF lost
        <5> QED BY <4>2, <5>1, <5>2
      <4> QED BY <4>3, <4>4
    <3> QED BY <1>3, <3>1 DEF DueOncePerKey
  <2> QED BY <1>3, <2>1, <2>2, <2>3, <2>4, <2>5 DEF Manager
<1>4. DueOncePerKey /\ UNCHANGED vars => DueOncePerKey'
  BY DEF DueOncePerKey, vars
<1>5. TypeOK /\ DispatchOwned /\ OneTimerPerKey /\ DueOncePerKey /\ [Next]_vars => DueOncePerKey'
  BY <1>2, <1>3, <1>4 DEF Next
<1> QED BY <1>1, <1>5, TypeCorrect, DueIsOwned, UniqueKeys, PTL DEF Spec

(* A cancel leaves no timer of its key to fire (timer.c:701), but for one  *)
(* among the expired nodes of the entity whose handler makes it.           *)
THEOREM CancelIsFinal == Spec => CancelReachesAll
<1> DEFINE Complete ==
      \A e \in Entity, k \in ScriptKey : Cancel(e, k) =>
        \A m \in LeftBy(e, k)' :
          /\ timer'[m].at = "due" /\ phase = "handler" /\ e = cur
          /\ \A n \in Node : timer'[n].at \in {"due", "firing"} /\ timer'[n].key = k => n = m
<1>1. TypeOK /\ DispatchOwned /\ DueOncePerKey => Complete
  <2> SUFFICES ASSUME TypeOK, DispatchOwned, DueOncePerKey,
                      NEW e \in Entity, NEW k \in ScriptKey, Cancel(e, k), NEW m \in LeftBy(e, k)'
               PROVE  /\ timer'[m].at = "due" /\ phase = "handler" /\ e = cur
                      /\ \A n \in Node : timer'[n].at \in {"due", "firing"} /\ timer'[n].key = k => n = m
    OBVIOUS
  <2>1. \A n \in Node : timer'[n].at \in {"chain", "due", "firing"} =>
                          timer'[n] = timer[n] /\ n \notin Matching(e, k)
    BY FreedEffect DEF Cancel, FreeNode
  <2>2. m \in Node /\ timer[m].at = "due" /\ timer[m].of = e /\ timer[m].key = k /\ timer'[m] = timer[m]
    BY <2>1 DEF LeftBy, Matching, Chain
  <2>3. phase = "handler" /\ cur = e
    BY <2>2 DEF DispatchOwned, Cancel, CanAct, InScript
  <2>4. \A n \in Node : timer'[n].at \in {"due", "firing"} /\ timer'[n].key = k => n = m
    BY <2>1, <2>2 DEF DueOncePerKey
  <2> QED BY <2>2, <2>3, <2>4
<1>2. TypeOK /\ DispatchOwned /\ DueOncePerKey => [Complete]_vars
  BY <1>1
<1>3. Spec => [][Complete]_vars
  BY <1>2, TypeCorrect, DueIsOwned, DueKeysDiffer, PTL
<1> QED BY <1>3 DEF CancelReachesAll

-----------------------------------------------------------------------------
(* Timers implements Presence.                                             *)

Present(p) == p \in online \/ (phase = "login" /\ cur = p)

(* A player is never destroyed; one that is online, logging in or being    *)
(* dispatched has been created.                                            *)
PlayersBorn ==
  \A p \in Player : place[p] # "gone" /\ (p \in online \/ cur = p => place[p] # "none")

(* The handler that returns leaves a player where it was, or archives one  *)
(* that is offline.                                                        *)
LEMMA HandlerSparesPlayers ==
  ASSUME TypeOK, NEW n \in Node, HandlerReturns(n)
  PROVE  /\ \/ place' = place
            \/ cur \in Player \ online /\ place' = [place EXCEPT ![cur] = "archive"]
            \/ cur \in Item /\ \E w : place' = [place EXCEPT ![cur] = w]
         /\ online' = online /\ phase = "handler" /\ phase' # "login"
<1>1. PICK w \in HandlerPlaces(n) : place' = [place EXCEPT ![cur] = w]
  BY DEF HandlerReturns
<1>2. cur \in Entity /\ place \in [Entity -> Places]
  BY DEF HandlerReturns, TypeOK
<1>3. CASE cur \in Item
  BY <1>1, <1>3 DEF HandlerReturns
<1>4. CASE cur \in Player
  <2>1. w = place[cur] \/ (w = "archive" /\ cur \in Player \ online)
    BY <1>4, PlayersAreNotItems DEF HandlerPlaces
  <2> QED BY <1>1, <1>2, <1>4, <2>1 DEF HandlerReturns
<1> QED BY <1>2, <1>3, <1>4

LEMMA PlayersBornStep == TypeOK /\ PlayersBorn /\ [Next]_vars => PlayersBorn'
<1> SUFFICES ASSUME TypeOK, PlayersBorn, [Next]_vars PROVE PlayersBorn'
  OBVIOUS
<1> USE PlayersAreNotItems DEF PlayersBorn
<1>1. CASE \E e \in Entity, k \in ScriptKey : Cancel(e, k) \/ \E d \in 0..MaxDelay : Schedule(e, k, d)
  BY <1>1 DEF Cancel, Schedule, CanAct
<1>2. CASE \E e \in Item : CreateItem(e) \/ Drop(e) \/ Delete(e) \/ \E v \in BOOLEAN : Hide(e, v)
  BY <1>2 DEF CreateItem, Drop, Delete, Hide, CanAct, TypeOK
<1>3. ASSUME NEW p \in Player, BeginLogIn(p) PROVE PlayersBorn'
  BY <1>3 DEF BeginLogIn, TypeOK
<1>4. ASSUME NEW p \in Player, LogOutNow(p) PROVE PlayersBorn'
  BY <1>4 DEF LogOutNow, CanAct, TypeOK
<1>5. ASSUME NEW p \in Player, LogOutLinger(p) PROVE PlayersBorn'
  BY <1>5 DEF LogOutLinger, CanAct
<1>6. CASE EndLogIn
  BY <1>6 DEF EndLogIn, TypeOK
<1>7. CASE SaveWorld \/ BeginPass \/ DispatchDone \/ EndPass
  BY <1>7 DEF SaveWorld, BeginPass, DispatchDone, EndPass
<1>8. CASE \E e \in Entity : SkipEntity(e) \/ ProcessEntity(e)
  BY <1>8 DEF SkipEntity, ProcessEntity, Visit, Runs
<1>9. CASE \E n \in Node : Fire(n)
  BY <1>9 DEF Fire
<1>10. ASSUME NEW n \in Node, HandlerReturns(n) PROVE PlayersBorn'
  <2>1. cur' \in {cur, NoEntity} /\ NoEntity \notin Player
    BY <1>10 DEF HandlerReturns
  <2> QED BY <1>10, <2>1, HandlerSparesPlayers DEF TypeOK
<1>11. CASE UNCHANGED vars
  BY <1>11 DEF vars
<1> QED
  BY <1>1, <1>2, <1>3, <1>4, <1>5, <1>6, <1>7, <1>8, <1>9, <1>10, <1>11 DEF Next, Manager, Program

LEMMA WhereValue ==
  ASSUME NEW p \in Player
  PROVE  Where[p] = IF Present(p) THEN "online"
                    ELSE IF place[p] = "none" THEN "unborn"
                    ELSE IF place[p] = "archive" THEN "away"
                    ELSE IF place[p] = "gone" THEN "erased" ELSE "lingering"
BY DEF Where, Present

(* A step that touches one player moves that character only.               *)
LEMMA OneMoves ==
  ASSUME NEW p \in Player,
         \A q \in Player \ {p} : place'[q] = place[q] /\ (Present(q)' <=> Present(q))
  PROVE  Where' = [Where EXCEPT ![p] = Where'[p]]
BY DEF Where, Present

LEMMA NoneMoves ==
  ASSUME \A q \in Player : place'[q] = place[q] /\ (Present(q)' <=> Present(q))
  PROVE  Where' = Where
BY DEF Where, Present

LEMMA PresenceStep == TypeOK /\ PlayersBorn /\ [Next]_vars => [P!Next]_Where
<1> SUFFICES ASSUME TypeOK, PlayersBorn, [Next]_vars, Where' # Where PROVE P!Next
  OBVIOUS
<1>a. ASSUME NEW p \in Player,
             \A q \in Player \ {p} : place'[q] = place[q] /\ (Present(q)' <=> Present(q))
      PROVE  Where' = [Where EXCEPT ![p] = Where'[p]] /\ Where'[p] # Where[p]
  <2>1. Where' = [Where EXCEPT ![p] = Where'[p]]
    BY <1>a, OneMoves
  <2>2. Where \in [Player -> {"unborn", "online", "lingering", "away", "erased"}]
    BY DEF Where
  <2> QED BY <2>1, <2>2
<1>b. ~(\A q \in Player : place'[q] = place[q] /\ (Present(q)' <=> Present(q)))
  BY NoneMoves
<1>1. CASE \E e \in Entity, k \in ScriptKey : Cancel(e, k) \/ \E d \in 0..MaxDelay : Schedule(e, k, d)
  BY <1>1, <1>b DEF Cancel, Schedule, CanAct, Present
<1>2. CASE \E e \in Item : CreateItem(e) \/ Drop(e) \/ Delete(e) \/ \E v \in BOOLEAN : Hide(e, v)
  BY <1>2, <1>b, PlayersAreNotItems DEF CreateItem, Drop, Delete, Hide, CanAct, TypeOK, Present
<1>3. ASSUME NEW p \in Player, BeginLogIn(p) PROVE P!Next
  <2>1. \A q \in Player \ {p} : place'[q] = place[q] /\ (Present(q)' <=> Present(q))
    BY <1>3 DEF BeginLogIn, TypeOK, Present
  <2>2. Where'[p] = "online"
    BY <1>3, WhereValue DEF BeginLogIn, Present, Where
  <2>3. Where[p] \in {"unborn", "lingering", "away"}
    BY <1>3, <1>a, <2>1, <2>2, WhereValue DEF BeginLogIn
  <2> QED BY <1>a, <2>1, <2>2, <2>3 DEF P!Next, P!Enter, P!Move
<1>4. ASSUME NEW p \in Player, LogOutNow(p) PROVE P!Next
  <2>1. \A q \in Player \ {p} : place'[q] = place[q] /\ (Present(q)' <=> Present(q))
    BY <1>4 DEF LogOutNow, CanAct, TypeOK, Present
  <2>2. /\ Where'[p] = IF Present(p)' THEN "online" ELSE "away"
        /\ Present(p)' => Present(p)
    BY <1>4 DEF LogOutNow, CanAct, TypeOK, Present, Where
  <2>3. ~Present(p)' /\ Where'[p] = "away"
    BY <1>a, <2>1, <2>2, WhereValue
  <2>4. Where[p] \in {"online", "lingering"}
    BY <1>4, WhereValue DEF LogOutNow, MayLogOut, Findable, Hashed, Present
  <2> QED BY <1>a, <2>1, <2>3, <2>4 DEF P!Next, P!Leave, P!Move
<1>5. ASSUME NEW p \in Player, LogOutLinger(p) PROVE P!Next
  <2>1. \A q \in Player \ {p} : place'[q] = place[q] /\ (Present(q)' <=> Present(q))
    BY <1>5 DEF LogOutLinger, CanAct, TypeOK, Present
  <2>2. place' = place /\ (Present(p)' => Present(p))
    BY <1>5 DEF LogOutLinger, CanAct, Present
  <2>3. Where'[p] = IF Present(p)' THEN "online"
                    ELSE IF place[p] = "none" THEN "unborn"
                    ELSE IF place[p] = "archive" THEN "away"
                    ELSE IF place[p] = "gone" THEN "erased" ELSE "lingering"
    BY <2>2 DEF Where, Present
  <2>4. Present(p) /\ ~Present(p)'
    BY <1>a, <2>1, <2>2, <2>3, WhereValue
  <2>5. Where[p] = "online" /\ Where'[p] \in {"away", "lingering"}
    BY <2>3, <2>4, WhereValue DEF PlayersBorn, Present
  <2> QED BY <1>a, <2>1, <2>5 DEF P!Next, P!Leave, P!Drop, P!Move
<1>6. CASE EndLogIn
  BY <1>6, <1>b DEF EndLogIn, Present
<1>7. CASE SaveWorld \/ BeginPass \/ DispatchDone \/ EndPass
  BY <1>7, <1>b DEF SaveWorld, BeginPass, DispatchDone, EndPass, Present
<1>8. CASE \E e \in Entity : SkipEntity(e) \/ ProcessEntity(e)
  BY <1>8, <1>b DEF SkipEntity, ProcessEntity, Visit, Present
<1>9. CASE \E n \in Node : Fire(n)
  BY <1>9, <1>b DEF Fire, Present
<1>10. ASSUME NEW n \in Node, HandlerReturns(n) PROVE P!Next
  <2>1. \A q \in Player : Present(q)' <=> Present(q)
    BY <1>10, HandlerSparesPlayers DEF Present
  <2>2. PICK p \in Player \ online : p = cur /\ place' = [place EXCEPT ![p] = "archive"]
    BY <1>10, <1>b, <2>1, HandlerSparesPlayers, PlayersAreNotItems DEF TypeOK
  <2>3. phase = "handler" /\ place \in [Entity -> Places]
    BY <1>10, HandlerSparesPlayers DEF TypeOK
  <2>4. ~Present(p) /\ ~Present(p)'
    BY <2>1, <2>2, <2>3 DEF Present
  <2>5. place'[p] = "archive" /\ \A q \in Player \ {p} : place'[q] = place[q]
    BY <2>2, <2>3
  <2>6. Where'[p] = "away"
    BY <2>2, <2>4, <2>5 DEF Where, Present
  <2>7. Where[p] = "lingering"
    BY <1>a, <2>1, <2>2, <2>4, <2>5, <2>6, WhereValue DEF PlayersBorn
  <2> QED BY <1>a, <2>1, <2>5, <2>6, <2>7 DEF P!Next, P!Leave, P!Move
<1>11. CASE UNCHANGED vars
  BY <1>11, <1>b DEF vars, Present
<1> QED
  BY <1>1, <1>2, <1>3, <1>4, <1>5, <1>6, <1>7, <1>8, <1>9, <1>10, <1>11 DEF Next, Manager, Program

(* Whatever scripts, handlers and packets do to players in the middle of a *)
(* pass or of a login, a character moves as Presence allows (timer.c:97,   *)
(* player.c:2060 and 2169).                                                *)
THEOREM PresenceKept == Spec => KeepsPresence
<1>1. Init => PlayersBorn /\ P!Init
  BY PlayersAreNotItems DEF Init, PlayersBorn, P!Init, Where
<1>2. Spec => []PlayersBorn
  BY <1>1, PlayersBornStep, TypeCorrect, PTL DEF Spec
<1> QED BY <1>1, <1>2, PresenceStep, TypeCorrect, PTL DEF Spec, KeepsPresence, P!Spec

-----------------------------------------------------------------------------
(* The watchdog.                                                           *)

LEMMA WatchdogTypes == W!TypeOK /\ [W!Next]_W!vars => W!TypeOK'
<1> SUFFICES ASSUME W!TypeOK, [W!Next]_W!vars PROVE W!TypeOK'
  OBVIOUS
<1>1. 0 \in 0..W!Beyond /\ 0..W!Beyond \subseteq 0..W!Wrapped /\ W!Wrapped \in 0..W!Wrapped
      /\ 0 \in 0..W!Wrapped
  BY TimeoutBound DEF W!Beyond, W!Wrapped
<1>2. \A a \in 0..W!Beyond : a < W!Beyond => a + 1 \in 0..W!Beyond
  BY TimeoutBound DEF W!Beyond
<1> HIDE TimeoutBound
<1> USE DEF W!TypeOK, W!Alive
<1>3. CASE W!Watchdog_Init \/ W!Loaded \/ W!Heartbeat \/ W!Hang \/ W!BeginShutdown
  BY <1>1, <1>3, Zenon DEF W!Watchdog_Init, W!Loaded, W!Heartbeat, W!Hang, W!BeginShutdown
<1>4. CASE W!Join \/ W!Exit \/ W!Wake
  BY <1>1, <1>4, Zenon DEF W!Join, W!Exit, W!Wake
<1>5. CASE W!Compare
  BY <1>1, <1>5, Zenon DEF W!Compare
<1>6. CASE W!Time \/ UNCHANGED W!vars
  BY <1>1, <1>2, <1>6, Zenon DEF W!Time, W!vars
<1> QED BY <1>3, <1>4, <1>5, <1>6 DEF W!Next

LEMMA UndisturbedStep == W!SavesUndisturbed /\ [W!Next]_W!vars => W!SavesUndisturbed'
<1> SUFFICES ASSUME W!SavesUndisturbed, [W!Next]_W!vars PROVE W!SavesUndisturbed'
  OBVIOUS
<1> USE DEF W!SavesUndisturbed, W!Alive
<1>1. CASE W!Watchdog_Init \/ W!Loaded \/ W!Heartbeat \/ W!Hang \/ W!BeginShutdown
  BY <1>1 DEF W!Watchdog_Init, W!Loaded, W!Heartbeat, W!Hang, W!BeginShutdown
<1>2. CASE W!Join
  BY <1>2 DEF W!Join, W!Joined
<1>3. CASE W!Exit
  BY <1>3 DEF W!Exit
<1>4. CASE W!Wake \/ W!Compare
  BY <1>4 DEF W!Wake, W!Compare
<1>5. CASE W!Time \/ UNCHANGED W!vars
  BY <1>5 DEF W!Time, W!vars
<1> QED BY <1>1, <1>2, <1>3, <1>4, <1>5 DEF W!Next

-----------------------------------------------------------------------------
(* The three parts together.                                               *)

(* A step of MCTimers is a step of each part or leaves it alone.           *)
LEMMA Parts ==
  /\ MCInit => Init /\ S!Init /\ W!Init
  /\ [MCNext]_all => [Next]_vars /\ [S!Next]_S!vars /\ [W!Next]_W!vars
<1>1. MCInit => Init /\ S!Init /\ W!Init
  BY DEF MCInit
<1>2. [MCNext]_all => [Next]_vars /\ [S!Next]_S!vars /\ [W!Next]_W!vars
  BY DEF MCNext, all, InTimers, InSession, InWatchdog, Over, session, watchdog, W!vars,
         S!vars, S!conns, S!chars, S!loop
<1> QED BY <1>1, <1>2

(* What SessionProofs proves of Session, for the instance of it here.      *)
SP == INSTANCE SessionProofs WITH
        Player <- Char, Relogin <- FALSE,
        online <- connected, place <- where, phase <- turn

LEMMA SessionTypes == /\ S!Init => S!TypeOK
                      /\ S!TypeOK /\ [S!Next]_S!vars => S!TypeOK'
<1> USE DEF S!conns, S!chars, S!loop, SP!conns, SP!chars, SP!loop
<1>1. SP!IsFiniteSet(Char)
  BY SessionBounds DEF IsFiniteSet, SP!IsFiniteSet
<1>2. SP!Init => SP!TypeOK
  BY <1>1, SessionBounds, SP!TypeInit
<1>3. SP!TypeOK /\ [SP!Next]_SP!vars => SP!TypeOK'
  BY <1>1, SessionBounds, SP!TypeStep
<1>4. (S!TypeOK <=> SP!TypeOK) /\ (S!TypeOK' <=> SP!TypeOK') /\ (S!Init <=> SP!Init)
  BY DEF S!TypeOK, SP!TypeOK, S!Init, SP!Init
<1>5. S!Next <=> SP!Next
  BY DEF S!Archived, SP!Archived, S!CollectByAccountID, SP!CollectByAccountID,
       S!AccountCharCount, SP!AccountCharCount, S!AccountUsedSlots,
       SP!AccountUsedSlots, S!StopsAt, SP!StopsAt, S!BeginSelect,
       SP!BeginSelect, S!Accept, SP!Accept, S!MayRead, SP!MayRead, S!HangUp,
       SP!HangUp, S!BeginRead, SP!BeginRead, S!EndRead, SP!EndRead,
       S!EndSelect, SP!EndSelect, S!EndCleanup, SP!EndCleanup,
       S!Authenticate, SP!Authenticate, S!MayEnter, SP!MayEnter,
       S!CreateChar, SP!CreateChar, S!Kicked, SP!Kicked, S!ListedAgain,
       SP!ListedAgain, S!SelectChar, SP!SelectChar, S!DelChar, SP!DelChar,
       S!LoggedOut, SP!LoggedOut, S!LogOut, SP!LogOut, S!Destroy,
       SP!Destroy, S!ScriptLogOut, SP!ScriptLogOut, S!IdleExempt,
       SP!IdleExempt, S!IdleDisconnect, SP!IdleDisconnect, S!Loop, SP!Loop,
       S!Clients, SP!Clients, S!Next, SP!Next, S!Cardinality, SP!Cardinality
<1>6. UNCHANGED S!vars <=> UNCHANGED SP!vars
  BY DEF S!vars, SP!vars
<1> QED BY <1>2, <1>3, <1>4, <1>5, <1>6

(* Every state of the timers, the sessions and the watchdog has its types; *)
(* the watchdog never computes a lag beyond the wrapped one.               *)
THEOREM TypesCorrect == MCSpec => []TypesOK
<1>1. Init => TypeOK
  BY TypeInit
<1>2. TypeOK /\ [Next]_vars => TypeOK'
  BY TypeProgram, TypeManager DEF Next, TypeOK, vars
<1>3. W!Init => W!TypeOK
  <2>1. 0 \in 0..W!Beyond /\ 0 \in 0..W!Wrapped
    BY TimeoutBound DEF W!Beyond, W!Wrapped
  <2> QED BY <2>1, Zenon DEF W!Init, W!TypeOK
<1>4. MCInit => TypesOK
  BY <1>1, <1>3, SessionTypes, Parts DEF TypesOK
<1>5. TypesOK /\ [MCNext]_all => TypesOK'
  BY <1>2, WatchdogTypes, SessionTypes, Parts DEF TypesOK
<1> QED BY <1>4, <1>5, PTL DEF MCSpec

(* Watchdog_Shutdown joins the thread before the save starts (main.c), so  *)
(* the watchdog never ends a process that is saving, however long the save *)
(* takes and whatever the thread was doing when the flag was set.          *)
THEOREM SaveIsUndisturbed == MCSpec => []SavesUndisturbed
<1>1. MCInit => SavesUndisturbed
  BY DEF MCInit, W!Init, SavesUndisturbed, W!SavesUndisturbed
<1>2. SavesUndisturbed /\ [MCNext]_all => SavesUndisturbed'
  BY UndisturbedStep, Parts DEF SavesUndisturbed
<1> QED BY <1>1, <1>2, PTL DEF MCSpec
=============================================================================
