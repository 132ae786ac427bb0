------------------------------ MODULE Scripts ------------------------------
(***************************************************************************)
(* Script instances and the events that run them (wombat_compile.c,        *)
(* taglist.c, nodepool.c, time.c).  An instance is a pool node on the      *)
(* script list of an entity.  DispatchEvent takes a snapshot of the        *)
(* (node, trigger) pairs of an entity and runs the handlers one by one;    *)
(* a handler may fire further events, attach and detach scripts and delete *)
(* entities, its own included.  So a node may be cleared while a snapshot, *)
(* a thread, a subscription or a queued event still names it: CScriptIns-  *)
(* tance_Clear tells all of them but the snapshots, for which it poisons   *)
(* the node, and the node goes back to its pool only between ticks.        *)
(*                                                                         *)
(* `born' numbers the instances a node has held: the code has no such      *)
(* number, the properties need it to tell a node from its reuse.           *)
(***************************************************************************)
EXTENDS Integers, FiniteSets, Sequences, SequencesExt

CONSTANTS Entity,      \* entities that can carry scripts
          Script,      \* script classes
          Timed,       \* classes with a "time" trigger (event 0x0E)
          Null,        \* no node, no entity
          High,        \* nodes whose address does not fit 32 bits
          Cap,         \* nested dispatches above the first (0x40 in the code)
          Slack,       \* queued events a tick may leave (25 in the code)
          MaxBorn      \* bound: instances created in all

Node == 1..MaxBorn     \* the pool never runs dry: it grows by 4096 nodes
Event == {"use", "time", "creation"}
Phase == {"load", "flush", "packets", "timers", "drain"}

VARIABLES alive,       \* entities in the world hash
          scripts,     \* [entity -> its script list, newest first]
          node,        \* [node -> what the pool node holds]
          free,        \* the free list of the pool, head first
          returned,    \* g_pendingReturnB
          timed,       \* nodes with a time subscription
          ring,        \* g_eventRingBuffer
          deferred,    \* creation events recorded while the world loads
          turn,        \* how many of them have had their turn
          calls,       \* the nested dispatches, innermost first
          phase,       \* what the server is doing
          count,       \* instances created so far
          created      \* of the deferred, the instances whose creation handler has run

vars == <<alive, scripts, node, free, returned, timed, ring, deferred,
          turn, calls, phase, count, created>>

TypeOK ==
    /\ alive \subseteq Entity
    /\ scripts \in [Entity -> Seq(Node)]
    /\ node \in [Node -> [class : Script \cup {Null}, entity : Entity \cup {Null},
                          state : {"free", "held", "poisoned"}, born : 0..MaxBorn]]
    /\ free \in Seq(Node) /\ returned \in Seq(Node)
    /\ timed \subseteq Node
    /\ ring \in Seq([serial : Entity, param : Node \cup {Null}, born : Nat])
    /\ deferred \in Seq([serial : Entity, param : Node, born : Nat])
    /\ calls \in Seq([snap : Seq([node : Node, born : Nat]), next : Nat \ {0}, event : Event,
                      running : BOOLEAN, ref : Node \cup {Null}, value : {0, 1}])
    /\ Len(calls) <= Cap + 1
    /\ phase \in Phase
    /\ turn \in 0..Len(deferred)
    /\ count \in 0..MaxBorn /\ created \subseteq 1..MaxBorn

Init ==
    /\ alive = Entity
    /\ scripts = [e \in Entity |-> <<>>]
    /\ node = [n \in Node |-> [class |-> Null, entity |-> Null, state |-> "free", born |-> 0]]
    /\ free = [n \in Node |-> n]
    /\ returned = <<>> /\ timed = {} /\ ring = <<>> /\ deferred = <<>> /\ turn = 0
    /\ calls = <<>>
    /\ phase = "load"
    /\ count = 0 /\ created = {}

-----------------------------------------------------------------------------
(* Dispatch. *)

Poisoned(n) == node[n].state = "poisoned"

\* The pairs CWombatManager_GetScriptsForObj finds for an event in a script
\* list, as `held' describes the nodes.  Every class handles "use" and
\* "creation"; "time" only those in Timed.
Triggers(list, held, event) ==
    LET Handles(n) == event # "time" \/ held[n].class \in Timed
        found[k \in 0..Len(list)] ==
            IF k = 0 THEN <<>>
            ELSE IF Handles(list[k])
                 THEN Append(found[k - 1], [node |-> list[k], born |-> held[list[k]].born])
                 ELSE found[k - 1]
    IN  found[Len(list)]

\* Of those, the pair of one instance (the filter of the creation event).
OnlyOf(snap, n) ==
    LET k == SelectInSeq(snap, LAMBDA p : p.node = n) IN IF k = 0 THEN <<>> ELSE <<snap[k]>>

\* The stack after DispatchEvent: nothing when the calls are nested too deep
\* or when no trigger is left.
Dispatched(stack, snap, event) ==
    IF Len(stack) > Cap \/ snap = <<>> THEN stack
    ELSE <<[snap |-> snap, next |-> 1, event |-> event,
            running |-> FALSE, ref |-> Null, value |-> 0]>> \o stack

\* Packets and timers call into the scripts only between dispatches; inside
\* one, the handler that runs may act, until its thread is stopped.
Runs(call) == call.running /\ call.ref # Null /\ ~Poisoned(call.ref)
MayAct == IF calls = <<>> THEN phase \in {"packets", "timers"} ELSE Runs(calls[1])

Fire(e) ==
    /\ MayAct
    /\ e \in alive
    /\ calls' = Dispatched(calls, Triggers(scripts[e], node, "use"), "use")
    /\ UNCHANGED <<alive, scripts, node, free, returned, timed, ring, deferred, turn, phase, count, created>>

\* The loop of DispatchEvent: a poisoned node is skipped, any other gets a
\* thread; past the last pair the dispatch returns.
BeginTrigger ==
    /\ calls # <<>> /\ ~calls[1].running
    /\ LET call == calls[1] IN
       IF call.next > Len(call.snap)
       THEN calls' = Tail(calls) /\ UNCHANGED created
       ELSE LET pair == call.snap[call.next] IN
            IF Poisoned(pair.node)
            THEN calls' = [calls EXCEPT ![1].next = @ + 1] /\ UNCHANGED created
            ELSE /\ calls' = [calls EXCEPT ![1].next = @ + 1, ![1].running = TRUE,
                                           ![1].ref = pair.node, ![1].value = 0]
                 /\ created' = IF phase = "flush" /\ call.event = "creation"
                               THEN created \cup {pair.born} ELSE created
    /\ UNCHANGED <<alive, scripts, node, free, returned, timed, ring, deferred, turn, phase, count>>

\* setDefaultReturn: the value of a thread that is stopped before it returns.
SetDefaultReturn ==
    /\ calls # <<>> /\ Runs(calls[1])
    /\ calls[1].value = 0
    /\ calls' = [calls EXCEPT ![1].value = 1]
    /\ UNCHANGED <<alive, scripts, node, free, returned, timed, ring, deferred, turn, phase, count, created>>

\* ExecAbortCurrent: a script error finishes the running thread.
AbortCurrent ==
    /\ calls # <<>> /\ Runs(calls[1])
    /\ calls' = [calls EXCEPT ![1].ref = Null]
    /\ UNCHANGED <<alive, scripts, node, free, returned, timed, ring, deferred, turn, phase, count, created>>

\* The end of ExecuteTrigger with the value v; 0 ends the dispatch.
Ended(v) == IF v = 0 THEN Tail(calls) ELSE [calls EXCEPT ![1].running = FALSE, ![1].ref = Null]

Return(v) ==
    /\ calls # <<>> /\ Runs(calls[1])
    /\ calls' = Ended(v)
    /\ UNCHANGED <<alive, scripts, node, free, returned, timed, ring, deferred, turn, phase, count, created>>

\* TreeEvaluator gives up on a thread without an instance; what it had stored
\* as its value is the result, and that is 0 unless setDefaultReturn ran.
Abandon ==
    /\ calls # <<>> /\ calls[1].running /\ ~Runs(calls[1])
    /\ calls' = Ended(calls[1].value)
    /\ UNCHANGED <<alive, scripts, node, free, returned, timed, ring, deferred, turn, phase, count, created>>

-----------------------------------------------------------------------------
(* Attaching and detaching. *)

HasScriptClass(e, s) == \E k \in 1..Len(scripts[e]) : node[scripts[e][k]].class = s

\* The next node of the pool, as an instance of s on e.
Instance(e, s) == [node EXCEPT ![Head(free)] = [class |-> s, entity |-> e, state |-> "held",
                                                born |-> count + 1]]

AttachToEntity(e, s) ==
    /\ e \in alive /\ count < MaxBorn
    /\ ~HasScriptClass(e, s)
    /\ node' = Instance(e, s)
    /\ free' = Tail(free)
    /\ scripts' = [scripts EXCEPT ![e] = <<Head(free)>> \o @]
    /\ timed' = IF s \in Timed THEN timed \cup {Head(free)} ELSE timed
    /\ count' = count + 1

\* Entity_AttachScript while the server runs: the creation event is fired at
\* once, for the new instance only, when the caller asks for it.
AttachScript(e, s, fireCreation) ==
    /\ MayAct
    /\ AttachToEntity(e, s)
    /\ calls' = IF fireCreation
                THEN Dispatched(calls, OnlyOf(Triggers(scripts'[e], node', "creation"), Head(free)),
                                "creation")
                ELSE calls
    /\ UNCHANGED <<alive, returned, ring, deferred, turn, phase, created>>

\* CScriptInstance_ReturnToPool for every node of a set: CScriptInstance_Clear
\* stops the threads, purges the queue and the subscriptions and poisons the
\* nodes, which then wait on g_pendingReturnB.
Silenced(stack, gone) == [k \in 1..Len(stack) |->
                             IF stack[k].ref \in gone THEN [stack[k] EXCEPT !.ref = Null] ELSE stack[k]]
MutPurged(queue, gone) == queue

Purged(queue, gone) == [k \in 1..Len(queue) |->
                             IF queue[k].param \in gone THEN [queue[k] EXCEPT !.param = Null] ELSE queue[k]]
MutReturnToPool(gone) ==
    /\ calls' = Silenced(calls, gone)
    /\ ring' = Purged(ring, gone)
    /\ timed' = timed \ gone
    /\ node' = [n \in Node |-> IF n \in gone
                               THEN [node[n] EXCEPT !.class = Null, !.entity = Null, !.state = "free"]
                               ELSE node[n]]
    /\ free' = SetToSeq(gone) \o free
    /\ UNCHANGED returned

ReturnToPool(gone) ==
    /\ calls' = Silenced(calls, gone)
    /\ ring' = Purged(ring, gone)
    /\ timed' = timed \ gone
    /\ node' = [n \in Node |-> IF n \in gone
                               THEN [node[n] EXCEPT !.class = Null, !.entity = Null, !.state = "poisoned"]
                               ELSE node[n]]
    /\ returned' = returned \o SetToSeq(gone)
    /\ UNCHANGED free

DetachScript(e, n) ==
    /\ MayAct
    /\ e \in alive /\ n \in Range(scripts[e])
    /\ scripts' = [scripts EXCEPT ![e] = RemoveFirst(@, n)]
    /\ ReturnToPool({n})
    /\ UNCHANGED <<alive, deferred, turn, phase, count, created>>

\* The destructor's part: every script of the entity goes (ClearScriptsAndTags).
DeleteEntity(e) ==
    /\ MayAct
    /\ e \in alive
    /\ alive' = alive \ {e}
    /\ scripts' = [scripts EXCEPT ![e] = <<>>]
    /\ ReturnToPool(Range(scripts[e]))
    /\ UNCHANGED <<deferred, turn, phase, count, created>>

-----------------------------------------------------------------------------
(* Loading the world: creation events wait until everything is loaded. *)

\* ScriptCreation_RecordDeferred keeps an address in 32 bits.
Recorded(n) == IF n \in High THEN Null ELSE n

LoadScript(e, s, fireCreation) ==
    /\ phase = "load"
    /\ AttachToEntity(e, s)
    /\ deferred' = IF fireCreation
                   THEN Append(deferred, [serial |-> e, param |-> Head(free), born |-> count + 1])
                   ELSE deferred
    /\ UNCHANGED <<alive, returned, ring, turn, calls, phase, created>>

EndLoad ==
    /\ phase = "load"
    /\ phase' = "flush"
    /\ UNCHANGED <<alive, scripts, node, free, returned, timed, ring, deferred, turn, calls, count, created>>

\* One turn of the loop of ScriptCreation_FlushDeferred.
FlushDeferred ==
    /\ phase = "flush" /\ calls = <<>> /\ turn < Len(deferred)
    /\ LET entry == deferred[turn + 1] IN
       calls' = IF entry.serial \in alive
                THEN Dispatched(calls, OnlyOf(Triggers(scripts[entry.serial], node, "creation"),
                                              Recorded(entry.param)), "creation")
                ELSE calls
    /\ turn' = turn + 1
    /\ UNCHANGED <<alive, scripts, node, free, returned, timed, ring, deferred, phase, count, created>>

\* The list is dropped.
EndFlush ==
    /\ phase = "flush" /\ calls = <<>> /\ turn = Len(deferred)
    /\ phase' = "packets"
    /\ deferred' = <<>> /\ turn' = 0 /\ created' = {}
    /\ UNCHANGED <<alive, scripts, node, free, returned, timed, ring, calls, count>>

-----------------------------------------------------------------------------
(* The tick: CTimeManager_Update. *)

\* TagNodePool_FlushB: the cleared nodes go back to the pool.
Update ==
    /\ phase = "packets" /\ calls = <<>>
    /\ node' = [n \in Node |-> IF n \in Range(returned) THEN [node[n] EXCEPT !.state = "free"] ELSE node[n]]
    /\ free' = Reverse(returned) \o free
    /\ returned' = <<>>
    /\ phase' = "timers"
    /\ UNCHANGED <<alive, scripts, timed, ring, deferred, turn, calls, count, created>>

\* CTimeManager_DispatchEventList: an event for every subscription now due.
TimeTick(due) ==
    /\ phase = "timers" /\ calls = <<>>
    /\ due \subseteq timed
    /\ LET seq == SetToSeq(due) IN
       ring' = ring \o [k \in 1..Len(seq) |-> [serial |-> node[seq[k]].entity, param |-> seq[k],
                                               born |-> node[seq[k]].born]]
    /\ phase' = "drain"
    /\ UNCHANGED <<alive, scripts, node, free, returned, timed, deferred, turn, calls, count, created>>

\* TimeManager_DispatchEvents: a purged event and one for an entity that is
\* gone are dropped; the rest run every time handler of the entity.
DispatchQueued ==
    /\ phase = "drain" /\ calls = <<>> /\ ring # <<>>
    /\ ring' = Tail(ring)
    /\ calls' = IF Head(ring).serial \in alive /\ Head(ring).param # Null
                THEN Dispatched(calls, Triggers(scripts[Head(ring).serial], node, "time"), "time")
                ELSE calls
    /\ UNCHANGED <<alive, scripts, node, free, returned, timed, deferred, turn, phase, count, created>>

\* The queue is empty, or it is short and the tick has used up its 50 ms.
EndTick ==
    /\ phase = "drain" /\ calls = <<>> /\ Len(ring) <= Slack
    /\ phase' = "packets"
    /\ UNCHANGED <<alive, scripts, node, free, returned, timed, ring, deferred, turn, calls, count, created>>

Next ==
    \/ \E e \in Entity : Fire(e) \/ DeleteEntity(e)
    \/ \E e \in Entity, s \in Script, b \in BOOLEAN : AttachScript(e, s, b) \/ LoadScript(e, s, b)
    \/ \E e \in Entity, n \in Node : DetachScript(e, n)
    \/ BeginTrigger \/ SetDefaultReturn \/ AbortCurrent \/ Abandon
    \/ \E v \in {0, 1} : Return(v)
    \/ EndLoad \/ FlushDeferred \/ EndFlush
    \/ Update \/ DispatchQueued \/ EndTick
    \/ \E due \in SUBSET timed : TimeTick(due)

Spec == Init /\ [][Next]_vars

-----------------------------------------------------------------------------
(* Properties. *)

\* A snapshot outlives what it names, so a node in it is either still the
\* instance it was taken from or poisoned: the pool has not given it to
\* another instance while the dispatch is under way (nodepool.c:123).
SnapshotsHold ==
    \A k \in 1..Len(calls) : \A j \in 1..Len(calls[k].snap) :
        LET pair == calls[k].snap[j] IN
        node[pair.node].born = pair.born /\ node[pair.node].state \in {"held", "poisoned"}

\* Whatever else names an instance - a thread, a time subscription, an event
\* that waits in the queue - names one that is still on its entity's list,
\* and the event still names the instance and the entity that asked for it:
\* a detached script is never woken (taglist.c:104).
HoldersAreLive ==
    LET Live(n, e) == node[n].state = "held" /\ node[n].entity = e /\ e \in alive
                      /\ n \in Range(scripts[e])
    IN  /\ \A k \in 1..Len(calls) : calls[k].ref # Null => Live(calls[k].ref, node[calls[k].ref].entity)
        /\ \A n \in timed : Live(n, node[n].entity)
        /\ \A k \in 1..Len(ring) : ring[k].param # Null =>
               Live(ring[k].param, ring[k].serial) /\ node[ring[k].param].born = ring[k].born

\* When the last deferred creation event has had its turn, every script that
\* asked for one while the world was loading has had its creation handler run,
\* unless it has been detached since (wombat_compile.c:921, 1077).
DeferredAreCreated ==
    phase = "flush" /\ calls = <<>> /\ turn = Len(deferred) =>
        \A n \in Node, k \in 1..turn :
            node[n].state = "held" /\ node[n].born = deferred[k].born => node[n].born \in created

=============================================================================
