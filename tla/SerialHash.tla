----------------------------- MODULE SerialHash -----------------------------
(***************************************************************************)
(* The two hash tables of entities: the world's (src/world.c, buckets of   *)
(* the serial's low 16 bits), through which every lookup by serial goes,   *)
(* and the archive's (src/entitymanager.c, low 14 bits), which parks the   *)
(* entities of logged-out players.  Both chain entities through the same   *)
(* two fields, hashNext and hashPrev, so an entity is in one or the other, *)
(* except during a world save.                                             *)
(*                                                                         *)
(* An operation on a player covers everything the player carries; the code *)
(* does one entity after the other, and so does the model (todo), with     *)
(* nothing else in between.  Abstractions: the order in which a player's   *)
(* things are visited; what a player carries is chosen when it leaves.     *)
(***************************************************************************)
EXTENDS Naturals, FiniteSets

CONSTANTS
    Player, Item,   \* entities; an item is any that a player may carry
    Null,
    Serial,         \* each entity's serial
    WorldSize,      \* buckets of the world hash (2^16 in the code)
    ArchiveSize,    \* buckets of the archive hash (2^14): divides WorldSize
    Saves,          \* whether the world is saved, and the server shut down
    Deletes         \* whose characters may be deleted: "archived", "lingering"

Entity == Player \cup Item

ASSUME Entities == Null \notin Entity /\ Player \cap Item = {}
ASSUME Finite == IsFiniteSet(Entity)
ASSUME Serials == Serial \in [Entity -> Nat]
ASSUME Sizes == /\ WorldSize \in Nat \ {0} /\ ArchiveSize \in Nat \ {0}
                /\ WorldSize % ArchiveSize = 0
ASSUME Flags == Saves \in BOOLEAN /\ Deletes \subseteq {"archived", "lingering"}

VARIABLES
    hash,    \* hashNext and hashPrev, and the heads of both tables
    life,    \* "none", "world", "archived" or, a deleted character, "erased"
    list,    \* g_entityMgrList: the archived players
    pack,    \* what each archived player carries
    doing,   \* the operation under way
    who,     \* the player it is for
    todo     \* the entities it has still to visit

vars == <<hash, life, list, pack, doing, who, todo>>

WB(e) == Serial[e] % WorldSize
AB(e) == Serial[e] % ArchiveSize

OrNull == Entity \cup {Null}

MutFamily(p) == {p} \cup pack[p] \cup {Null}
Family(p) == {p} \cup pack[p]
Listed == UNION {Family(p) : p \in list}

TypeOK ==
    /\ hash \in [next : [Entity -> OrNull], prev : [Entity -> OrNull],
                 world : [0..(WorldSize - 1) -> OrNull],
                 arch : [0..(ArchiveSize - 1) -> OrNull]]
    /\ life \in [Entity -> {"none", "world", "archived", "erased"}]
    /\ list \subseteq Player
    /\ pack \in [Player -> SUBSET Item]
    /\ doing \in {"idle", "archive", "restore", "add", "write", "remove", "down"}
    /\ who \in Player \cup {Null}
    /\ todo \subseteq Entity

Init ==
    /\ hash = [next |-> [e \in Entity |-> Null], prev |-> [e \in Entity |-> Null],
               world |-> [b \in 0..(WorldSize - 1) |-> Null],
               arch |-> [b \in 0..(ArchiveSize - 1) |-> Null]]
    /\ life = [e \in Entity |-> "none"]
    /\ list = {}
    /\ pack = [p \in Player |-> {}]
    /\ doing = "idle" /\ who = Null /\ todo = {}

-----------------------------------------------------------------------------
(* Links.                                                                  *)

\* e's neighbours point past it, and e at nothing.
MutUnlinked(h, e) ==
    [h EXCEPT
       !.next = [x \in Entity |-> CASE x = e -> Null
                                    [] x # e /\ x = h.prev[e] -> h.next[e]
                                    [] OTHER -> @[x]],
       !.prev = [@ EXCEPT ![e] = Null]]
Unlinked(h, e) ==
    [h EXCEPT
       !.next = [x \in Entity |-> CASE x = e -> Null
                                    [] x # e /\ x = h.prev[e] -> h.next[e]
                                    [] OTHER -> @[x]],
       !.prev = [x \in Entity |-> CASE x = e -> Null
                                    [] x # e /\ x = h.next[e] -> h.prev[e]
                                    [] OTHER -> @[x]]]

\* e becomes the first of the chain that starts at head.
Linked(h, e, head) ==
    [h EXCEPT
       !.next = [@ EXCEPT ![e] = head],
       !.prev = [x \in Entity |-> CASE x = e -> Null
                                    [] x # e /\ x = head -> e
                                    [] OTHER -> @[x]]]

WorldInsert(h, e) == [Linked(h, e, h.world[WB(e)]) EXCEPT !.world[WB(e)] = e]

\* CEntity_RemoveFromWorld and the destructor look whether e is the head.
WorldRemove(h, e) ==
    [Unlinked(h, e) EXCEPT
       !.world[WB(e)] = IF h.prev[e] = Null /\ @ = e THEN h.next[e] ELSE @]

ArchiveInsert(h, e) == [Linked(h, e, h.arch[AB(e)]) EXCEPT !.arch[AB(e)] = e]

\* ArchiveHash_Remove does not look.
ArchiveRemove(h, e) ==
    [Unlinked(h, e) EXCEPT !.arch[AB(e)] = IF h.prev[e] = Null THEN h.next[e] ELSE @]

\* What a walk from a head visits.
Walk(head) ==
    LET upTo[n \in 0..Cardinality(Entity)] ==
          IF n = 0 THEN {head} \ {Null}
          ELSE upTo[n - 1] \cup ({hash.next[e] : e \in upTo[n - 1]} \ {Null})
    IN upTo[Cardinality(Entity)]

-----------------------------------------------------------------------------
(* One entity at a time.                                                   *)

Idle == doing = "idle"
Start(op, p, es) == Idle /\ doing' = op /\ who' = p /\ todo' = es
Finish == todo = {} /\ doing' = "idle" /\ who' = Null /\ UNCHANGED todo

\* CItem_Constructor, and CItem_SetSerial when the world is loaded.
Create(e) ==
    /\ Idle /\ life[e] = "none"
    /\ life' = [life EXCEPT ![e] = "world"]
    /\ hash' = WorldInsert(hash, e)
    /\ UNCHANGED <<list, pack, doing, who, todo>>

\* CItem_Destructor of an item in the world.
Destroy(i) ==
    /\ Idle /\ life[i] = "world"
    /\ life' = [life EXCEPT ![i] = "none"]
    /\ hash' = WorldRemove(hash, i)
    /\ UNCHANGED <<list, pack, doing, who, todo>>

\* EntityManager_Remove: the player and all it carries leave the world for
\* the archive.
Archive(p, I) ==
    /\ life[p] = "world" /\ \A i \in I : life[i] = "world"
    /\ Start("archive", p, {p} \cup I)
    /\ pack' = [pack EXCEPT ![p] = I]
    /\ UNCHANGED <<hash, life, list>>

PutAway(h, e) == ArchiveInsert(WorldRemove(h, e), e)

ArchiveOne(e) ==
    /\ doing = "archive" /\ e \in todo
    /\ hash' = PutAway(hash, e)
    /\ life' = [life EXCEPT ![e] = "archived"]
    /\ todo' = todo \ {e}
    /\ UNCHANGED <<list, pack, doing, who>>

ArchiveDone ==
    /\ doing = "archive" /\ Finish
    /\ list' = list \cup {who}
    /\ UNCHANGED <<hash, life, pack>>

\* EntityManager_RestoreFromArchive.
Restore(p) ==
    /\ p \in list /\ Start("restore", p, Family(p))
    /\ UNCHANGED <<hash, life, list, pack>>

MutTakeOut(h, e) == WorldInsert(h, e)
TakeOut(h, e) == WorldInsert(ArchiveRemove(h, e), e)

RestoreOne(e) ==
    /\ doing = "restore" /\ e \in todo
    /\ hash' = TakeOut(hash, e)
    /\ life' = [life EXCEPT ![e] = "world"]
    /\ todo' = todo \ {e}
    /\ UNCHANGED <<list, pack, doing, who>>

RestoreDone ==
    /\ doing = "restore" /\ Finish
    /\ list' = list \ {who}
    /\ pack' = [pack EXCEPT ![who] = {}]
    /\ UNCHANGED <<hash, life>>

\* EntityManager_EraseEntity, from ACCT_DEL_CHAR: the character's own entity
\* leaves the archive hash and the list.  Its body may still be in the world.
Deletable == (IF "archived" \in Deletes THEN list ELSE {})
             \cup (IF "lingering" \in Deletes THEN {p \in Player : life[p] = "world"} ELSE {})

EraseEntity(p) ==
    /\ Idle /\ p \in Deletable
    /\ hash' = ArchiveRemove(hash, p)
    /\ list' = list \ {p}
    /\ life' = [life EXCEPT ![p] = IF p \in list THEN "erased" ELSE @]
    /\ UNCHANGED <<pack, doing, who, todo>>

-----------------------------------------------------------------------------
(* SaveDynamic0: the archived entities join the world, the world is        *)
(* written, they leave it again.  g_ArchiveFlag is clear, so the archive   *)
(* hash is not told.                                                       *)

SaveWorld == /\ Saves /\ Start("add", Null, Listed)
             /\ UNCHANGED <<hash, life, list, pack>>

AddOne(e) ==
    /\ doing = "add" /\ e \in todo
    /\ hash' = WorldInsert(hash, e)
    /\ todo' = todo \ {e}
    /\ UNCHANGED <<life, list, pack, doing, who>>

WriteCommit ==
    /\ doing = "add" /\ todo = {}
    /\ doing' = "write"
    /\ UNCHANGED <<hash, life, list, pack, who, todo>>

RemoveAll ==
    /\ doing = "write"
    /\ doing' = "remove" /\ todo' = Listed
    /\ UNCHANGED <<hash, life, list, pack, who>>

RemoveOne(e) ==
    /\ doing = "remove" /\ e \in todo
    /\ hash' = WorldRemove(hash, e)
    /\ todo' = todo \ {e}
    /\ UNCHANGED <<life, list, pack, doing, who>>

SaveDone == doing = "remove" /\ Finish /\ UNCHANGED <<hash, life, list, pack>>

\* After the last save the server releases what the tables still hold
\* (World_ShutdownEntities, EntityManager_ShutdownArchive) and stops.
ShutDown ==
    /\ doing = "remove" /\ todo = {}
    /\ doing' = "down"
    /\ UNCHANGED <<hash, life, list, pack, who, todo>>

Next ==
    \/ \E e \in Entity : \/ Create(e) \/ ArchiveOne(e) \/ RestoreOne(e)
                         \/ AddOne(e) \/ RemoveOne(e)
    \/ \E i \in Item : Destroy(i)
    \/ \E p \in Player : \/ Restore(p) \/ EraseEntity(p)
                         \/ \E I \in SUBSET Item : Archive(p, I)
    \/ ArchiveDone \/ RestoreDone
    \/ SaveWorld \/ WriteCommit \/ RemoveAll \/ SaveDone \/ ShutDown

Spec == Init /\ [][Next]_vars

-----------------------------------------------------------------------------
(* Properties.                                                             *)

\* Archived entities that a save has brought into the world.
Faulted == CASE doing = "add" -> Listed \ todo
             [] doing = "write" -> Listed
             [] doing = "remove" -> todo
             [] OTHER -> {}

InWorld == {e \in Entity : life[e] = "world"} \cup Faulted

\* CWorld_FindBySerial finds every entity in the world, and nothing that is
\* not there, before, during and after any archiving, restoring and saving.
LookupIsExact ==
    \A b \in 0..(WorldSize - 1) : Walk(hash.world[b]) = {e \in InWorld : WB(e) = b}

\* No archived character has been deleted: its links would be left behind.
NoneErased == \A e \in Entity : life[e] # "erased"

\* "Archived entities are disjoint from the world hash, so there is no overlap
\* with World_ShutdownEntities" (entitymanager.c:490): outside a save, and until
\* a character is deleted from the archive, a walk of it meets archived entities
\* only.
ArchiveIsApart ==
    doing \in {"idle", "down"} /\ NoneErased =>
        \A b \in 0..(ArchiveSize - 1) :
            \A e \in Walk(hash.arch[b]) : life[e] = "archived" /\ AB(e) = b

\* No entity in either table points at one that was destroyed, until an archived
\* character is deleted.
NoDanglingLink ==
    NoneErased =>
    \A e \in Entity : life[e] # "none" =>
        \A x \in {hash.next[e], hash.prev[e]} \ {Null} : life[x] # "none"

\* The archive holds archived entities only, and no link leads to a destroyed
\* one (entitymanager.c, world.c).
ListsAreApart == ArchiveIsApart /\ NoDanglingLink
=============================================================================
