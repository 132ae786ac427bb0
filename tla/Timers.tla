------------------------------- MODULE Timers -------------------------------
(***************************************************************************)
(* The timer manager of timer.c and the entity life cycle it depends on.   *)
(*                                                                         *)
(* Every entity owns a chain of timer nodes; a global tracking list names  *)
(* the entities that own one.  Once per game tick the manager snapshots    *)
(* the tracking list, decrements each chain and dispatches the nodes that  *)
(* expired.  A handler runs scripts, and scripts schedule, cancel, delete, *)
(* detach and log out: everything below marked CanAct may happen inside a  *)
(* handler, in the middle of a pass, or inside the login event.            *)
(*                                                                         *)
(* A timer node is an element of Node, the free list is the set of nodes   *)
(* that are "free".  The order of a chain and of the tracking list is      *)
(* abstracted: nodes fire and entities are visited in any order.           *)
(***************************************************************************)
EXTENDS Naturals, FiniteSets

CONSTANTS
  Player,       \* serials of players: archived at logout, never deleted
  Item,         \* serials of items: created, picked up, dropped, deleted
  Node,         \* timer nodes of the pool (bounds the blocks of 0x400)
  Key,          \* pairs <<eventType, timerType>>
  ScriptKey,    \* the keys scripts schedule and cancel
  MaxDelay,     \* bound on a delay, in ticks
  MaxOps,       \* bound on the operations one handler performs
  NoEntity,     \* a null entity
  NoKey         \* the key of a node on the free list

Entity == Player \cup Item
Idle == <<3, 0>>          \* TIMER_EVENT_IDLE_DISCONNECT
Valueless == <<8, 0>>     \* TIMER_EVENT_VALUELESS_DECAY

ASSUME KeysArePairs == Key \subseteq (1..20) \X Nat /\ Idle \in Key /\ NoKey \notin Key
ASSUME ScriptsSpareIdle == ScriptKey \subseteq Key \ {Idle}
ASSUME PlayersAreNotItems == Player \cap Item = {} /\ NoEntity \notin Entity
ASSUME Bounds == MaxDelay \in Nat /\ MaxOps \in Nat

(* Handlers of the dispatch table, by event type.                          *)
Deletes == {1, 6}       \* Delete, AIScheduleDelete
MayDelete == {2, 8}     \* DecayContainer, ValuelessDecay: delete what qualifies
Quiet == {9, 10}        \* OnlineCheck, NPCTick: touch nothing, run no script

Places == {"none", "world", "held", "archive", "gone"}
FreeNode == [at |-> "free", of |-> NoEntity, key |-> NoKey, count |-> 0]
TimerNode ==
  [at : {"free", "leaked"}, of : {NoEntity}, key : {NoKey}, count : {0}]
    \cup [at : {"chain", "due", "firing"}, of : Entity, key : Key, count : 0..MaxDelay]

VARIABLES
  place,     \* where an entity is: "held" is removedFromWorld but hashed
  online,    \* the players whose PlayerIsOnline flag is set
  timer,     \* the timer nodes
  tracked,   \* how often the tracking list names an entity
  todo,      \* the part of the pass's snapshot still to visit
  cur,       \* the entity whose timers are dispatched, or who is logging in
  phase,     \* where the tick is: "login" is the login event of a player
  ops        \* operations the running handler has performed

vars == <<place, online, timer, tracked, todo, cur, phase, ops>>

TypeOK ==
  /\ place \in [Entity -> Places]
  /\ online \subseteq Player
  /\ timer \in [Node -> TimerNode]
  /\ tracked \in [Entity -> Nat]
  /\ todo \in [Entity -> Nat]
  /\ cur \in CASE phase \in {"dispatch", "handler"} -> Entity
                [] phase = "login" -> Player
                [] OTHER -> {NoEntity}
  /\ phase \in {"between", "pass", "dispatch", "handler", "login"}
  /\ ops \in 0..MaxOps

Init ==
  /\ place = [e \in Entity |-> "none"]
  /\ online = {}
  /\ timer = [n \in Node |-> FreeNode]
  /\ tracked = [e \in Entity |-> 0]
  /\ todo = [e \in Entity |-> 0]
  /\ cur = NoEntity
  /\ phase = "between"
  /\ ops = 0

-----------------------------------------------------------------------------
(* Lookups and pool operations.                                            *)

Hashed == {"world", "held"}
Findable(e) == place[e] \in Hashed       \* CWorld_FindBySerial(g_World, serial)
Chain(e) == {n \in Node : timer[n].at = "chain" /\ timer[n].of = e}
Matching(e, k) == {n \in Chain(e) : timer[n].key = k}
Freed(S) == [n \in Node |-> IF n \in S THEN FreeNode ELSE timer[n]]

EnsureTracked(e) == IF tracked[e] = 0 THEN [tracked EXCEPT ![e] = 1] ELSE tracked

(* The nodes ScheduleEvent frees before it links the new one.              *)
Replaced(e, k) == Matching(e, k)

(* The tracking list after CEntity_AddTimer on a chain reduced to rest.    *)
MutTrackOnAdd(e, rest) == tracked
TrackOnAdd(e, rest) == IF rest = {} THEN EnsureTracked(e) ELSE tracked

(* CEntity_RemoveTimer and CEntity_AddTimer, as ScheduleEvent calls them.  *)
Arm(e, k, d) ==
  LET old == Replaced(e, k) IN
  \E n \in Node :
    /\ timer[n].at = "free" \/ n \in old
    /\ timer' = [Freed(old) EXCEPT ![n] = [at |-> "chain", of |-> e, key |-> k, count |-> d]]
    /\ tracked' = TrackOnAdd(e, Chain(e) \ old)

(* Scripts, packet handlers and the other subsystems of the tick run       *)
(* between two passes, or inside a handler that runs scripts.              *)
InScript ==
  /\ ops < MaxOps
  /\ \/ phase = "login"
     \/ phase = "handler" /\ \E n \in Node : timer[n].at = "firing" /\ timer[n].key[1] \notin Quiet
CanAct == /\ phase = "between" \/ InScript
          /\ ops' = IF phase = "between" THEN ops ELSE ops + 1
          /\ UNCHANGED <<todo, cur, phase>>

-----------------------------------------------------------------------------
(* The timer interface.  ScheduleEvent is a no-op on an unknown serial.    *)

Schedule(e, k, d) ==
  /\ CanAct /\ Findable(e)
  /\ Arm(e, k, d)
  /\ UNCHANGED <<place, online>>

Cancel(e, k) ==
  /\ CanAct /\ Findable(e)
  /\ timer' = Freed(Matching(e, k))
  /\ UNCHANGED <<place, online, tracked>>

-----------------------------------------------------------------------------
(* The life of an entity.                                                  *)

CreateItem(e) ==
  /\ CanAct /\ place[e] = "none"
  /\ place' = [place EXCEPT ![e] = "held"]
  /\ UNCHANGED <<online, timer, tracked>>

Drop(e) ==
  /\ CanAct /\ place[e] = "held"
  /\ place' = [place EXCEPT ![e] = "world"]
  /\ UNCHANGED <<online, timer, tracked>>

(* CItem_HideVT: a valueless item loses its decay timer when detached.     *)
Hide(e, valueless) ==
  /\ CanAct /\ place[e] = "world"
  /\ place' = [place EXCEPT ![e] = "held"]
  /\ timer' = IF valueless THEN Freed(Matching(e, Valueless)) ELSE timer
  /\ UNCHANGED <<online, tracked>>

(* The nodes the destructor releases.                                      *)
DestroyedNodes(e) == Chain(e)

Delete(e) ==
  /\ CanAct /\ Findable(e)
  /\ place' = [place EXCEPT ![e] = "gone"]
  /\ timer' = Freed(DestroyedNodes(e))
  /\ UNCHANGED <<online, tracked>>

(* CEntity_AddToWorld tracks the timers of an entity leaving the archive.  *)
TrackRestored(p) == IF Chain(p) # {} THEN EnsureTracked(p) ELSE tracked

(* CPlayer_SendAppearance puts a created, archived or lingering player in  *)
(* the world, runs its login event and only then cancels the idle          *)
(* disconnect and sets the online flag.                                    *)
BeginLogIn(p) ==
  /\ phase = "between" /\ place[p] \in {"none", "archive", "world"}
  /\ place' = [place EXCEPT ![p] = "world"]
  /\ tracked' = IF place[p] = "archive" THEN TrackRestored(p) ELSE tracked
  /\ phase' = "login" /\ cur' = p
  /\ UNCHANGED <<online, timer, todo, ops>>

EndLogIn ==
  /\ phase = "login"
  /\ timer' = Freed(Matching(cur, Idle))
  /\ online' = online \cup {cur}
  /\ phase' = "between" /\ cur' = NoEntity /\ ops' = 0
  /\ UNCHANGED <<place, tracked, todo>>

(* CPlayer_LogOut, from a dropped connection or a script: archived at once *)
(* where ShouldLogOut says so, otherwise left in the world with an idle-   *)
(* disconnect timer.  The first is also Script_removePlayerFromGame.       *)
MayLogOut(p) == Findable(p) \/ (phase = "between" /\ p \in online)

LogOutNow(p) ==
  /\ CanAct /\ MayLogOut(p)
  /\ online' = online \ {p}
  /\ place' = [place EXCEPT ![p] = "archive"]
  /\ UNCHANGED <<timer, tracked>>

LogOutLinger(p) ==
  /\ CanAct /\ MayLogOut(p)
  /\ online' = online \ {p}
  /\ IF Findable(p) THEN Arm(p, Idle, MaxDelay) ELSE UNCHANGED <<timer, tracked>>
  /\ UNCHANGED place

(* SaveDynamic0 adds every archived entity to the world and removes it.    *)
SaveWorld ==
  /\ phase = "between"
  /\ tracked' = [e \in Entity |-> IF place[e] = "archive" /\ Chain(e) # {} /\ tracked[e] = 0
                                  THEN 1 ELSE tracked[e]]
  /\ UNCHANGED <<place, online, timer, todo, cur, phase, ops>>

-----------------------------------------------------------------------------
(* One pass of TimerManager_ProcessTimers.                                 *)

(* PruneEntityList: the entries that stay, which are also the snapshot.    *)
Survives(e) == Findable(e) /\ Chain(e) # {}

BeginPass ==
  /\ phase = "between" /\ phase' = "pass"
  /\ tracked' = [e \in Entity |-> IF Survives(e) THEN tracked[e] ELSE 0]
  /\ todo' = tracked'
  /\ UNCHANGED <<place, online, timer, cur, ops>>

Visit(e) == phase = "pass" /\ todo[e] > 0 /\ todo' = [todo EXCEPT ![e] = @ - 1]
Runs(e) == Chain(e) # {} /\ place[e] = "world"

SkipEntity(e) ==
  /\ Visit(e) /\ ~Runs(e)
  /\ UNCHANGED <<place, online, timer, tracked, cur, phase, ops>>

MutCounted(t) == IF t.count >= 0 THEN [t EXCEPT !.count = @ - 1] ELSE [t EXCEPT !.at = "due"]
Counted(t) == IF t.count > 0 THEN [t EXCEPT !.count = @ - 1] ELSE [t EXCEPT !.at = "due"]

ProcessEntity(e) ==
  /\ Visit(e) /\ Runs(e)
  /\ timer' = [n \in Node |-> IF n \in Chain(e) THEN Counted(timer[n]) ELSE timer[n]]
  /\ cur' = e /\ phase' = "dispatch"
  /\ UNCHANGED <<place, online, tracked, ops>>

Fire(n) ==
  /\ phase = "dispatch" /\ timer[n].at = "due"
  /\ timer' = [timer EXCEPT ![n].at = "firing"]
  /\ phase' = "handler" /\ ops' = 0
  /\ UNCHANGED <<place, online, tracked, todo, cur>>

(* Where the handler of node n leaves the entity it runs for.              *)
MutHandlerPlaces(n) == {place[cur]}
MutHandlerDeletes(n) == IF timer[n].key[1] \in Deletes THEN {"gone"} ELSE {place[cur]}
HandlerPlaces(n) ==
  LET ev == timer[n].key[1] IN
  CASE cur \in Item /\ Findable(cur) /\ ev \in Deletes -> {"gone"}
    [] cur \in Item /\ Findable(cur) /\ ev \in MayDelete -> {"gone", place[cur]}
    [] cur \in Player \ online /\ ev = 3 -> {"archive"}
    [] OTHER -> {place[cur]}

(* The test after each dispatch: does the serial still lead to the entity? *)
StillThere(w) == w \in Hashed

(* The expired nodes freed unfired when the entity is lost.                *)
MutAbandoned == {}
Abandoned == {m \in Node : timer[m].at = "due"}

(* The handler returns.  A lost entity ends the dispatch; the node that    *)
(* fired is then never given back to the pool.                             *)
HandlerReturns(n) ==
  /\ phase = "handler" /\ timer[n].at = "firing"
  /\ \E w \in HandlerPlaces(n) :
       LET dead == IF w = "gone" THEN DestroyedNodes(cur) ELSE {} IN
       /\ place' = [place EXCEPT ![cur] = w]
       /\ IF StillThere(w)
          THEN /\ timer' = Freed(dead \cup {n})
               /\ phase' = "dispatch" /\ cur' = cur
          ELSE /\ timer' = [Freed(dead \cup Abandoned) EXCEPT ![n] = [FreeNode EXCEPT !.at = "leaked"]]
               /\ phase' = "pass" /\ cur' = NoEntity
  /\ ops' = 0
  /\ UNCHANGED <<online, tracked, todo>>

DispatchDone ==
  /\ phase = "dispatch" /\ \A n \in Node : timer[n].at # "due"
  /\ phase' = "pass" /\ cur' = NoEntity
  /\ UNCHANGED <<place, online, timer, tracked, todo, ops>>

EndPass ==
  /\ phase = "pass" /\ \A e \in Entity : todo[e] = 0
  /\ phase' = "between"
  /\ UNCHANGED <<place, online, timer, tracked, todo, cur, ops>>

-----------------------------------------------------------------------------

Manager ==
  \/ BeginPass
  \/ \E e \in Entity : SkipEntity(e) \/ ProcessEntity(e)
  \/ \E n \in Node : Fire(n) \/ HandlerReturns(n)
  \/ DispatchDone
  \/ EndPass

Program ==
  \/ \E e \in Entity, k \in ScriptKey : Cancel(e, k) \/ \E d \in 0..MaxDelay : Schedule(e, k, d)
  \/ \E e \in Item : CreateItem(e) \/ Drop(e) \/ Delete(e) \/ \E v \in BOOLEAN : Hide(e, v)
  \/ \E p \in Player : BeginLogIn(p) \/ LogOutNow(p) \/ LogOutLinger(p)
  \/ EndLogIn
  \/ SaveWorld

Next == Manager \/ Program

Spec == Init /\ [][Next]_vars

(* Server_Loop runs a tick, and with it a pass, every 250 ms; handlers and *)
(* the login event return.                                                 *)
FairSpec == Spec /\ WF_vars(Manager \/ EndLogIn)

-----------------------------------------------------------------------------
(* Properties.                                                             *)

(* An entity the world can find and that owns timers is on the tracking    *)
(* list: no timer is ever left where no pass will count it down            *)
(* (AddTimer, PruneEntityList and EnsureTracked together).                 *)
Tracked == \A e \in Entity : Findable(e) /\ Chain(e) # {} => tracked[e] > 0

(* No entity is on the tracking list twice, so no pass counts its timers   *)
(* down twice (AddSerialToEntityList is reached from three callers).       *)
OncePerPass == \A e \in Entity : tracked[e] <= 1 /\ todo[e] <= 1

(* Every entity with timers is counted down once in a pass.                *)
TrackedOnce == Tracked /\ OncePerPass

(* ScheduleEvent keeps at most one timer for an (event, type) pair.        *)
OneTimerPerKey ==
  \A m, n \in Node : timer[m].at = "chain" /\ timer[n].at = "chain"
                       /\ timer[m].of = timer[n].of /\ timer[m].key = timer[n].key => m = n

(* Nodes on a chain belong to an entity that exists: a destroyed entity    *)
(* takes its timers with it, whichever handler destroyed it.               *)
NoOrphanTimers == \A n \in Node : timer[n].at = "chain" => place[timer[n].of] \notin {"none", "gone"}

(* Expired nodes live off any chain only while their owner is dispatched,  *)
(* and one of them at most is firing: the vector of CItem_ProcessEntity-   *)
(* Timers is emptied on every path out of it.                              *)
DispatchOwned ==
  /\ \A n \in Node : /\ timer[n].at \in {"due", "firing"} =>
                           phase \in {"dispatch", "handler"} /\ timer[n].of = cur
                     /\ timer[n].at = "firing" => phase = "handler"
  /\ \A m, n \in Node : timer[m].at = "firing" /\ timer[n].at = "firing" => m = n

(* Only an entity the world can find has its expired timers dispatched:    *)
(* the loop of CItem_ProcessEntityTimers never goes on after a handler has *)
(* deleted or archived the entity.                                         *)
DispatchAlive == phase = "dispatch" => Findable(cur)

(* Every timer node is on the chain of an entity that exists, one for a    *)
(* key, or in the hands of its dispatch, and no dispatch goes on after its *)
(* entity is gone.                                                         *)
NodesBelong == OneTimerPerKey /\ NoOrphanTimers /\ DispatchOwned /\ DispatchAlive

(* A player left in the world without a connection always has its          *)
(* idle-disconnect timer pending: a lost one would leave the body in the   *)
(* world for good (CPlayer_LogOut, CPlayer_SendAppearance and the loop of  *)
(* the timer manager agree).                                               *)
LingererHasTimer ==
  \A p \in Player : Findable(p) /\ p \notin online /\ ~(phase = "login" /\ cur = p) =>
    \E n \in Node : timer[n].at \in {"chain", "due", "firing"} /\ timer[n].of = p /\ timer[n].key = Idle

(* Expired nodes of one pass have different keys, the firing one included. *)
DueOncePerKey ==
  \A m, n \in Node : {timer[m].at, timer[n].at} \subseteq {"due", "firing"}
                       /\ timer[m].key = timer[n].key => m = n

(* A timer that is cancelled never goes off, but for one case: the handler *)
(* that cancels runs on the same entity, in whose vector of expired nodes  *)
(* RemoveTimer does not look.  Such a timer goes off once more at most, in *)
(* this very pass, however often handlers schedule and cancel it.          *)
LeftBy(e, k) == {n \in Node : timer[n].at \in {"chain", "due"} /\ timer[n].of = e /\ timer[n].key = k}
CancelReachesAll ==
  [][\A e \in Entity, k \in ScriptKey : Cancel(e, k) =>
       \A m \in LeftBy(e, k)' :
         /\ timer'[m].at = "due" /\ phase = "handler" /\ e = cur
         /\ \A n \in Node : timer'[n].at \in {"due", "firing"} /\ timer'[n].key = k => n = m]_vars

(* A player left in the world without a connection is archived or comes    *)
(* back, unless scripts log it out again and again, which restarts the     *)
(* idle disconnect each time.                                              *)
LogOutAgain == \E p \in Player \ online : LogOutLinger(p)
LingererLeaves ==
  <>[][~LogOutAgain]_vars =>
    \A p \in Player : (Findable(p) /\ p \notin online) ~> (place[p] = "archive" \/ p \in online)

(* What scripts, handlers and packets do to a player in the middle of a    *)
(* pass or of a login is what Presence allows; no handler destroys one.    *)
Where ==
  [p \in Player |->
     IF p \in online \/ (phase = "login" /\ cur = p) THEN "online"
     ELSE CASE place[p] = "none" -> "unborn"
            [] place[p] = "archive" -> "away"
            [] place[p] = "gone" -> "erased"
            [] OTHER -> "lingering"]
P == INSTANCE Presence WITH where <- Where
KeepsPresence == P!Spec
=============================================================================
