# Verification of the ouo server

TLA+ models of the parts of this server whose correctness depends on the order
of events, TLC configurations that check them on small instances, and TLAPS
proofs of their main invariants. Paths are relative to the repository's `src/`.

## The system

One thread runs the whole server. `Server_Loop` (`main.c:189`) alternates a
tick (`CTimeManager_Update`, `time.c:399`, every 250 ms) with a select over the
sockets (`socket.c:876`). A packet handler, a timer handler and a script each
run to completion, so there is little pre-emption, but a great deal of
re-entrance: a handler runs scripts, and a script may schedule and cancel
timers, attach and detach scripts, delete entities, detach them from the world,
or log players out, while the caller holds pointers and half-finished loops.
The one other thread is the watchdog. What survives a stop is a set of files:
the dynamic world, the accounts and the resource bank.

| Component | State | Operations | What makes it hard | What must hold |
|---|---|---|---|---|
| timer manager (`timer.c`) | a chain of nodes per entity, a free list, a list of tracked entities | schedule, cancel, one pass per tick | handlers destroy or archive the entity being dispatched; chains empty and refill under a list that is pruned lazily | every timer of a live entity is counted down once a pass; none outlives its entity |
| entity life cycle (`entity.c`, `entitymanager.c`, `item.c`) | place of each entity: hashed, detached, archived | create, drop, hide, delete, archive, restore | two hash tables share the link fields; archived players keep their timers | look-up by serial is exact |
| connections and login (`usersock.c`, `socket.c`, `packet_handler.c`) | sockets with a status, a buffer, an account and a player | accept, read, login packets, teardown in a cleanup phase | sockets and players point at each other; a kicked socket lives on until the cleanup | who is online and who is connected agree |
| player presence (`player.c`) | online flag, player list, account number and slot | enter, log out, linger, idle disconnect | a body may stay behind a lost connection, be taken back, or be deleted | a body leaves in the end; slots are not shared |
| login handoff (`pending_auth.c`) | sixteen slots | create, find, remove, expire | expiry and eviction against a late connection | a login configures one connection |
| accounts (`account.c`) | logins, numbers, levels | create, load, reload on a signal, save | the file is rewritten in place, edited by an administrator, and renumbers on load | characters stay with their owner |
| save and load (`dynamic.c`) | the dynamic world | periodic, commanded and final save, load | two files, renamed one after the other | a save is taken whole or not at all |
| watchdog (`watchdog.c`) | heartbeat time | heartbeat, check, shut down | two threads without a lock, unsigned subtraction of times | a hung server is ended, a saving one is not |
| secure trade (`trade.c`) | sessions of two players and two containers | offer, accept, cancel, commit | items move under an acceptance already given; players leave | a swap is agreed by both, and whole |
| items and containers (`item.c`, `container.c`, `mobile.c`) | containment, piles, cached weights | lift, drop, stack, split, bounce, deposit, charge, delete | every move takes items out and relies on the next step to put them back | nothing lost or doubled, charges exact |
| chat (`chat.c`) | users and conferences | join, leave, moderate, rename | references between lists; clients keep a view from messages | members, ranks and views agree |
| help queue (`help_queue.c`) | requests, a tag of the handler | page, take, hand over, drop, close | a request's state is in two places, one of them saved | no request is left to nobody |
| scripts (`wombat*.c`, `taglist.c`, `nodepool.c`) | instances on entities, a pool, subscriptions, queued events | attach, detach, dispatch | a dispatch walks a snapshot while handlers free what is in it | no detached or reused instance is called |
| container file (`containerhandle.c`) | a page cache | read | | |
| resource bank (`res*.c`) | resources by region | consume, return, save | | |

Components interact by direct calls and shared globals. The serial of an entity
is the only reference that survives its destruction: `CWorld_FindBySerial` is
how code asks whether an entity is still there.

## The modules

| Module | Models |
|---|---|
| `Presence` | abstract: where a character is (unborn, online, lingering, away, erased) and which moves are allowed; a lingering body does not wait for ever |
| `Timers` | timer manager, the places of the entities it dispatches on, the idle disconnect; implements `Presence` |
| `Session` | connections, login packets, accounts' characters, log-out; implements `Presence` |
| `HelpQueue` | help requests, their handlers, log-outs, role changes, restarts |
| `Trade` | secure trades, cursors, reach, presence of the traders, world save and restart |
| `SerialHash` | world hash and archive hash with their shared links |
| `Scripts` | script instances, dispatch, the node pool, subscriptions, queued and deferred events |
| `Weights` | piles, bags, pack, bank box, cursor, ground, and the cached weights |
| `Chat` | chat users, conferences, ranks, and what the clients' windows show |
| `DurableWorld` | abstract: a saved world is replaced whole, a restart goes on from it |
| `Persistence` | world files and account file over saves, failures, crashes, reloads and restarts; implements `DurableWorld` |
| `LoginHandoff` | the table that takes a client from its login connection to its game connection |
| `Watchdog` | the watchdog thread beside the main thread |
| `TimersProofs`, `SessionProofs`, `HelpQueueProofs`, `TradeProofs`, `GoodsProofs`, `ChatProofs`, `WorldProofs`, `PersistenceProofs` | theorems |
| `MCTimers`, `MCSession`, `MCTrade`, `MCWorld`, `MCChat`, `MCPersistence` | instances for TLC |

`Presence` is the seam between `Timers` and `Session`: the first shows that the
timer manager keeps the promise whatever handlers and scripts do, with the
connection abstracted to "online"; the second shows that the login packets and
connection teardown keep it, with the timer abstracted to a fair
`IdleDisconnect`. That fairness is what `Timers` establishes
(`LingererHasTimer`, `LingererLeaves`).

**Parts.** Some MC modules hold two or three instances that share no state in
the code, or share it only through one of the seams above. A variable `part`,
chosen in the initial state, says which of them a behaviour moves; the others
keep their initial state (the goods, being large, are not even laid out where
they do not move). Their state spaces are added, not multiplied, and
each is explored as if it were alone. The parts are: `MCTimers`: timers,
sessions, watchdog (everything that needs fairness); `MCSession`: sessions,
help queue; `MCTrade`: a server that is played on, and a smaller one that
crashes and restarts, goods; `MCWorld`: hash tables, scripts; `MCPersistence`:
saves, logins.

### Timers

A timer node is an element of `Node` with the place it is in: on an entity's
`"chain"`, `"due"` (taken off the chain into the vector of
`CItem_ProcessEntityTimers`), `"firing"`, `"free"` or `"leaked"`. `tracked`
counts how often the tracking list names an entity, `todo` is what is left of
the snapshot of `PruneEntityList`. `phase` says how far the pass is; scripts
run between passes, in a handler, or in a login event (`CanAct`). Handlers are
abstracted to what they may do to the entity they run for (`HandlerPlaces`)
plus `MaxOps` operations of the interface.

Abstracted: the order of a chain and of the lists (nodes fire and entities are
visited in any order), extra data, and the identity of scripts. Left out: items
archived with the player who carries them; a script that schedules the idle
disconnect itself (`ScriptsSpareIdle`); saving and loading of timer strings.

### Session

`status`, `account` and `player` are fields of a connection, `usersock`,
`owner` and `slot` fields of a player. `phase` alternates tick, select and
cleanup as the server loop does; a select reads each connection once, and one
read handles a batch of packets (`reading`). `LogOut` chooses between archive
and body as `CPlayer_ShouldLogOut` may. `Relogin` says whether a client may
select a second character on one connection; the clients the server is written
for do not, and the runs say `FALSE`. With `TRUE`, TLC finds a first character
left online without a connection in a few steps: the second login overwrites the
connection's player, and teardown only knows that one.

Abstracted: the login event (in `Timers`), seeds and ciphers (in
`LoginHandoff`), passwords; any authentication the code accepts is one action.
`HangUp` stands for every way a read ends the connection: end of file, an
error, a packet the server refuses. A deleted body is assumed alone in its hash
bucket; under `SerialHash` below is what happens when it is not.

### HelpQueue

`queue` is `g_HelpQueue`, `victim` the `counVictim` tag of each player, which
is saved with the world (`saved`) while the queue is not. The actions have the
names of the commands. `CHelpQueue_GotoBySerial` does to the current request
what `Relinquish` does; `CHelpQueue_GmTransfer` what `Clear` does, since the
transfer at its end adds nothing. `LogOut` gives a counselor's request back and
not a game master's, as the code does; the property holds all the same because
the tag stays.

### Trade

`party` and `acc` are the two players and two flags of a `CTradeSession`.
An item is in one of three conditions, `loc`: in a player's hand
(`equipment[0]`), in a trade box, or settled; `home` is where it lies, or, while
it is in a hand or a box, where it last lay. `TradersTogether` needs positions:
`pos` puts players on a line of `MaxSpot + 1` spots, `Reach` is the distance at
which `DoMove` lets a trade live.

| Action | Code |
|---|---|
| `PickUp` | `HandlePacket_REQ_GETOBJ`: the previous item is put back, a box that loses an item clears its flags |
| `DropOnPlayer`, `DropInBox`, `DropElsewhere` | `HandlePacket_REQ_DROPOBJ` and the container it reaches |
| `Accept`, `Cancel` | `HandlePacket_TRADE` |
| `Step`, `Teleport` | `DoMove`'s distance check; `CPlayer_HideVT` |
| `Die`, `LogOut`, `Disconnect` | `CPlayer_OnDeath`, `CPlayer_LogOut`, `CPlayer_HideVT` |
| `SaveWorld`, `Restart` | `SaveDynamic0` and a start from the file it wrote |

Abstracted: stacks (they are in `Weights`; a split or merge is the insertion or
removal it performs); a pack is full or not by choice, and what does not fit
falls to the ground; whether a script lets a player reach into another's box is
a choice. A box deleted by a game master is left out. `DoMove` looks at a
walker's trades only if the first thing directly in the player is a trade box;
the model assumes that nothing else is put there. An item lying in a trade box
when the world is saved comes back inside that box, though its trade is gone
(`dynamic.c:835`, `844`): `NothingLeftInBox` is said of a server that does not
restart, and `BoxesAreEmptied` assumes so.

### SerialHash

`hash` holds the `next` and `prev` fields and the heads of both tables;
`life` says where an entity is meant to be. An operation on a player visits the
player and everything it carries one at a time (`todo`), with nothing else in
between, as in the code: `Archive`/`ArchiveOne`/`ArchiveDone`, `Restore...`,
and a save's `SaveWorld`/`AddOne`/`WriteCommit`/`RemoveAll`/`RemoveOne`/
`SaveDone` or `ShutDown`. The four link operations (`WorldInsert`,
`WorldRemove`, `ArchiveInsert`, `ArchiveRemove`) are translated pointer by
pointer: what is checked is that together they keep chains exact.

They do not when a character is deleted while its body is still in the world:
the archive's unlink (`item.c:6504`) then writes link fields that belong to the
world's chain and cuts it behind the body. With `Deletes` including bodies,
`LookupIsExact` fails; the run lets only archived characters be deleted, which
is what ACCT_DEL_CHAR means to do.

### Scripts

A dispatch (`DispatchEvent`) is an element of the stack `calls`: the snapshot
of (node, trigger) pairs it walks, how far it is, and the thread that runs. The
innermost thread may do anything the interface offers, its own detachment
included, until it returns. `born` numbers the instances a pool node has held,
which the code does not know and the properties need. `phase` is where the
server is: loading, flushing the deferred creation events, handling packets,
in a tick (timers), draining the event queue.

Translated with care because it decides the outcome: a detached instance stops
its threads, and a thread stopped before it returns ends with the value 0, so
that the handlers behind it in the snapshot are skipped; a creation event
deeper than `Cap` nested dispatches is dropped; cleared nodes wait on a list of
their own and go back to the pool only between ticks (`Update`).

Abstracted: what scripts compute; a trigger's probability (a pair that is
skipped is one whose handler does nothing). Left out: the interpreter and the
compiler; broadcasts to nearby entities and the moon-change event, which fire
the same dispatch on more entities.

### Weights

The state is one record, so that an operation of the code is a function from
records to records, and a handler composes them in the code's order. An item
that is out of place remembers where it was (`last`), a pile split from another
the pile it came from; a move that is refused returns it there
(`ReturnToTracked`). `Charge` is what a script's charge and a shop do: the pack
or the bank box loses coins pile by pile (`ConsumeResources`). `RecalcWeight`
is the script function and what the mobile does to itself. A charge skips bags
whose contents are not accessible (`CContainer_HasAccessibleContents_VT`: locked,
a corpse, a book): which ones is a choice of each charge (`shut`), and
`ChargedInFull` is said for every choice.

What the code does over a chain of items or by calling itself is written as one
step (`Rejoined`, `Consumed`, `DeletedOne`, `TakenOut`) and a recursive function
that takes that step as often as there are things, so that the steps can be reasoned
about one at a time. `Refresh(n)` is, for each state and container, what
`CContainer_RefreshContents` makes of it for containers nested n deep. What a
thing lies in, and that in turn, is a recursive function along the parents
(`Upward`), which ends as the code's loops do: because no bag lies in itself.

The caches are kept by the code's rules as they are, including the exceptions:
gold in the bank box weighs nothing there; recalculating a player unwears the
bank box first, after which the gold counts in the bank box's own cache; a bag
nested in a bag loses its own weight when the outer one is recalculated. That
is why the properties speak of the pack and the player after `WeightRelated`,
and not of every cache at all times.

Left out: equipment other than pack and bank box, the boxes of trades, vetoes of
scripts other than as refusals, the limit of 125 items, 16-bit wrap of the
caches (bounded far below), lifting the item one already holds.

### Chat

`users` is `g_chatUsers`; `chat.at`, `chat.who`, `chat.mod` and `chat.voiced`
are the fields of `ChatUser` and `Conference` that refer to each other; `live`
is the conference list (`Newbie` its seeded head), `Stored` what `strncpy` keeps of a
password. Helpers have the names of the code: `AddUser`, `RemoveUser`,
`RefreshUser` are `Conference_...`, and a packet is one action (`Open` and
`OpenAgain` for CHAT_OPEN, the others for the CHAT_TEXT action of that name).
`view` is the client's window, external to this repository: what it shows after
the messages so far (`Show`, from the comments and the order of messages in
`chat.c`). `level` is `Chat_AccessLevel`, which reads player flags that are set
at login, changed by commands and cleared at log-out.

`chat` gives every character an account of its own. Two characters of one
account share a nickname, and a client that is told a nickname left takes both
out of its list, so `ViewIsExact` would not hold; a logged-out character whose
chat user stays behind (`chat_ghost`) makes that possible with one player per
account at a time. That is the assumption of the theorem about it, too.

Abstracted: names fit their buffers; of several conferences with a name, any is
found. Left out because it changes none of this: speech, private messages,
ignore lists, whois, voice defaults, and the list of conferences in the window
(a renamed conference is announced to its members only, `chat.c:957`, so other
windows keep the old name in that list; and an empty conference that is locked
is found by nobody's name list, `chat.c:938`).

### Persistence

A save is a list of file operations, `todo`, which the server makes one by one;
it may crash between any two. A world is reduced to its characters with the
account number of each, an account to number and level. `mul` holds both world
files and the backup of each. `CommitSaveFile` is unlink, link, rename, for the
index and then for the data; it looks at the result of none, so each of them may
fail, leave the files as they are, and be followed by the next (`Call`). `link`
does not replace a backup that an unlink has left. A failed write while staging leaves everything as
it was (`Stage`'s second outcome); a failed `fopen` of `access.list` leaves the
list (`OpenList`'s); a crash while the list is written keeps any part of it.
`Start` from files of two saves finds any part of the data's world, since an
index entry of one save reads whatever is at that offset of the other.
`maker`, `unread` and `cut` are history, read by properties only: `cut` holds
`"call"` once an unlink, link or rename failed, `"list"` once the list missed an
account, `"world"` once a server started from files of two saves.

`DurableWorld` has the same exception, made explicit (`failed`): a save of which
no call failed ends whole, one of which a call failed may stay half done.
`SavesAreWhole` says that nothing else does. `Mendable` is said of saves whose
calls succeeded, because after a failed link there is no index to mend with.
That a failing call does harm is visible in `Durable`: after one rename of two
has failed, a server runs on with the files of two saves, although the comment at
`dynamic.c:2919-2920` says that a disk error cannot corrupt the live save.

An administrator may edit `access.list` at any time and send the signal
(`Hangup`); the server rereads the list at the next turn of its loop. An edit
that is not announced is overwritten by the next save of the list, and by the
one at a stop, although `USAGE.md:87-111` says that a restart picks edits up
(`main.c:305` has the order): `ListIsCurrent` therefore speaks of a list
without unread edits. An edit is one step: an editor that was opened before the
server last wrote the list, and saves its old copy over it, is left out.

### LoginHandoff

`pending` are the slots, `issued` what was parked under each nonce and when,
`conn` the game connections. A nonce is in the hands of the client, who may
present it on as many connections as it likes, also while an earlier one with
the same nonce still waits for the bytes behind its seed, or again after one was
lost: `Connect` takes any nonce that was ever given out. `uses` counts the
connections configured from each.
`DoHandlePacket` is the seed branch of `UserSock_DoHandlePacket`: an entry is
found at any age (expiry is looked at only when an entry is made), spent when it
configures a connection, and left alone while a connection that needs a trial
decryption waits for bytes. When the table is full, the lowest slot of the
oldest second is evicted, which in a burst of logins within a second is the one
just made; `KeptWhileRoom` says exactly who is safe.

### Watchdog

Time is the age of the last heartbeat, so it needs no bound. `Wake` reads the
clock, `Compare` the heartbeat: a heartbeat stored between the two makes the
unsigned difference wrap (`watchdog.c:121`), and the process is aborted for no
reason; the model has that outcome (`Wrapped`), and no property denies it.

## The runs

| Run | Bounds | Shows |
|---|---|---|
| `live` | a player, an item, 3 nodes, 4 keys, delays 0..1, one script operation per handler; 2 connections, 2 characters, an account of 2 slots; a timeout of 2 | every timer of a live entity counted once, no node orphaned or dispatched on a lost entity; what a cancel misses is one node under dispatch, which fires in this pass and no later; a body behind a lost connection is archived or taken back, in both views; a hung server is aborted, a saving one is not |
| `session` | 2 connections, 3 characters, 2 accounts of 2 slots; a caller and 2 staff | pointers, player list, archive and slots agree whatever the order of kicks, hang-ups, deletions and script log-outs; a handled request has a handler |
| `session_delete` | as `session` | expected violation: a deleted character comes back |
| `trade` | 3 players, 2 items, 2 trades, 2 spots; beside it 2 players, an item, a trade and restarts; 3 piles, a bag, 3 coins | trades join two players in reach, once per direction; accepts stand for their contents; swaps are agreed and whole; no trade survives a restart; no coin and no item is lost or doubled, charges are exact whichever bags are locked, a recalculation repairs the caches |
| `world` | 3 players, 2 items, 2 world buckets, one archive bucket; 2 entities, 2 script classes, 3 instances, one nested dispatch | look-up by serial is exact at every step of archiving and saving; no dispatch calls the wrong instance, nothing wakes a detached one |
| `script_creation` | as `world`, nodes above 4 GB | expected violation: a deferred creation event reaches no script |
| `pack_weight` | as `trade`, 4 coins | expected violation: a charge leaves weight in the pack's cache |
| `chat` | 3 players (one a game master), 2 conferences, 2 names, a password that is cut | membership agrees on both sides, ranks end with membership and are earned, windows show who is there |
| `chat_ghost` | as `chat` | expected violation: a chat user outlives its connection |
| `persistence` | 3 logins (one with a space), 2 numbers, 2 levels, a character; any file call may fail, in behaviours without an edit (`EditsOrFailures`); 2 game connections, 2 slots, 3 nonces, 2 seconds | saves are whole or half done as `DurableWorld` says, a torn one can be mended, players keep their characters, the list is current; a nonce that two connections present serves one, and a login is kept while there is room |
| `save_torn` | as `persistence` | expected violation: a crash between the renames tears the save |
| `account_reuse` | as `persistence` | expected violation: a lost account's number, with its characters, goes to another login |

Why the bounds are enough for what they are for. Timers: three nodes are one
firing, one due and one on a chain at once; a player and an item are the two
kinds of entity (archived, or destroyed); a delay of 1 separates what a pass
expires from what it leaves, and one script operation per handler can hit the
dispatched entity, the other one, the chain or the due nodes. Sessions: two
connections are the old and the new of a kick; three characters with two slots
reach the limit and reuse a slot; two accounts tell ownership apart. Help
queue: two members of staff can hold the same request, one after the other.
Trade: a third player makes a drop into a trade of others, and a player in two
trades; two trades are both directions or a chain of two, two items are one per
box or two in one; two spots with reach 0 are in and out of reach. Hash: a
bucket of the world gets three entities, so an entity has a head before it and
a tail behind it, and the archive bucket gets all five. Scripts: three
instances are one running, one behind it in the snapshot, and one that a freed
node would be reused for; a queue longer than `Slack` must be drained. Goods:
three piles with a pile limit below the gold are a pile, its split and a full
one to merge with; a weight limit is met by a bag with coins in it. Chat: one
who acts, one acted upon and one who watches, one of them of higher rank; the
seeded conference and one that is created, freed and created again. Saves: two
numbers are one that is lost and one that is given again; there are three logins
so that both can happen to different ones. Handoff: two slots are full at the
second login, three nonces evict one; two connections hold one nonce at once, or two.

Numeric bounds: `MaxSpot`, `Reach`, `MaxDelay`, `MaxOps`, `MaxSlots`, the two
table sizes, `Cap`, `Slack`, `MaxBorn`, `Gold`, `Per`, `Own`, `Limit`,
`PileMax`, `MaxNum`, `Slots`, `Expiry`, `MaxTime`, `MaxNonce`, `Timeout`; the
proofs fix none of those they meet. `EditsOrFailures` keeps the run `persistence`
small: an administrator's edits and signals concern `access.list`, a failing
unlink, link or rename the world files, and the run does not combine the two (the
theorems do). Symmetry is used in runs without liveness,
over sets whose members nothing tells apart (in `chat` the game master is not
permuted, in `persistence` not the login with a space, in `world` only the
script part's entities are). The runs of `MCWorld` say
`CHECK_DEADLOCK FALSE`: the server stops after `ShutDown`. The longest runs,
`trade` and `live`, take two to three minutes with two workers.

### Fairness

All of it is in `MCTimers`, and is that of the modules themselves.

* Timers: the server loop goes on, so the pass and the end of a login event are
  weakly fair. Ticks come every 250 ms and handlers return; nothing is assumed
  about clients or about what scripts do. A script may log a player out again
  and again, which restarts the idle disconnect; `LingererLeaves` is said of
  behaviours in which that stops.
* Session: weak fairness of the loop's own steps (select, reads, cleanup,
  tick), strong fairness of `IdleDisconnect(p)`: it is enabled only in the
  tick, which comes back again and again, and the timer counts down in every
  tick in which the body lingers. No step of a client is fair.
* Watchdog: time passes, the thread is scheduled, and the main thread returns
  from a join it can return from. Nothing is asked of the main thread else:
  that it may hang is the point.
* `Presence!FairSpec`: weak fairness of `Leave` while a body lingers, which is
  what the first two imply.

## What is proved

For every value of the constants, of which the modules and the MC modules
assume little (`ASSUME`; TLC evaluates the assumptions in the runs): bounds are
natural numbers, sets that the code counts or walks are finite, `NULL` is not
an object. A proof module extends the component it is about, or, where a run's
property is stated of an instance, the MC module with that instance; then the
theorem is about `MCSpec`, and about the instance for every value of its
constants.

| Module | Extends | Theorems | Beyond the constants' assumptions |
|---|---|---|---|
| `TimersProofs` | `MCTimers` | `TypeCorrect`, `TimersAreTrackedOnce`, `NodesBelongToLiving`, `LingererIsTimed`, `PresenceKept`, `CancelIsFinal`; of all three parts `TypesCorrect`; of the watchdog `SaveIsUndisturbed` | scripts cannot name the idle key |
| `SessionProofs` | `Session` | `TypeCorrect`, `SlotsStayInOrder`, `PresenceKept`; `ConnectionsAgree`, `LoggedOutByOwn` | `~Relogin` for the last two |
| `HelpQueueProofs` | `MCSession` | `HandledIsHeldByStaff`; of both parts `TypesCorrect` | |
| `TradeProofs` | `Trade` | `TypeCorrect`, `TradesAreSound`, `AcceptsAreForContents`, `SwapsAreAgreedAndWhole`; `BoxesAreEmptied` | `~Crashes` for the last |
| `GoodsProofs` | `MCTrade` | of the goods `ItemsAreConserved`, `ChargesAreFull`, `NoBagInItself`, `RecalculationsRepair`; of the server that restarts `TogetherAfterRestart` | |
| `ChatProofs` | `Chat` | `TypeCorrect`, `MembersAreMembers`, `RanksAreEarned`; `ViewsAreExact` | one player per account for the last |
| `WorldProofs` | `MCWorld` | of the hash tables `HashLookupIsExact`, `HashListsAreApart`; of the scripts `SnapshotsAreHeld`, `HoldersAreLiveAlways`; of both `TypesCorrect` | for the first two `"lingering" \notin Deletes`: no character is deleted whose body is in the world |
| `PersistenceProofs` | `MCPersistence` | `TornIsMendable`, `SavesKeepTheWorld`, `ListStaysCurrent`, `OwnersKeepTheirCharacters`; of the handoff `LoginsAreHandedOverOnce`, `LoginsAreKept`; of both `TypeCorrect` | "no file" is neither a world nor an account |

The provers have no induction over data, so where the models search a list or
use a recursive function (`Triggers`, `Walk`) a statement about it is proved from
a least argument at which it fails (`LeastNumber`, from the well-foundedness of
the naturals).

**Timers.** The invariants are proved in layers, each inductive relative to the
ones before it, the steps of the program (scripts, packets) apart from those of
the manager. What is off the chains belongs to the entity being dispatched
(`DispatchOwned`) comes first: `DispatchAlive` and `LingererHasTimer` need it,
because a handler that returns may free every due node, and only then is it
clear whose nodes those are. `NoOrphanTimers` comes before `Tracked`: an entity
that becomes findable for the first time has no timers, since none are on the
chain of an entity that does not exist. `PresenceKept` is the safety part of
the refinement and needs that a player who is online, logging in or dispatched
has been created. What `CancelIsFinal` says of a timer of the entity under dispatch
needs that the nodes of one pass have different keys (`DueOncePerKey`): they
come off a chain that has one node for a key, and whatever a handler schedules
goes to the chain, not to them.

**Session.** Slots first: a character keeps its slot wherever it is, and a
creation takes one that no living character of the account has, of which there
is one because the limit was checked. `Connected` is inductive together with
what the order of the loop guarantees (`Reading`): batches are read in the
select only and connections destroyed in the cleanup, so the connection being
read is live. A second selection on one connection is the one step that breaks
the agreement of the pointers, which is why the theorem assumes it away.
`LoggedOutByOwn` follows from agreement of the pointers. `PresenceKept` is the
safety part of the refinement of `Presence`: every step of a login, a log-out, a
deletion or the idle disconnect moves each character as `Presence` allows, or
not at all. It needs one invariant, that who is online or in the player list is
in the world (`InWorld`), and holds with `Relogin` too.

**Help queue.** `HandledIsHeld` is inductive with the types. It says three
things that need each other: a request is in the queue once, its caller is
online, and a handled one has a handler. A command finds the request by the
caller's serial and changes the handler's tag by the same serial; were there
two requests of one caller, the second would stay handled by nobody. The lemmas
say what the operations on the queue find, remove and update.

**Trade.** One lemma, `StepKinds`, sorts every step into three kinds according
to what it does to open trades: it leaves them, gives back a set of them, or
swaps one; the theorems then need a few cases instead of fifteen actions. A
step out of reach, a log-out, a death or a teleport closes exactly the trades
`TradesOf` finds. That a hand holds one item needs the same of the world file,
since a restart puts what was saved back into the hands. The instance that
restarts gets its theorem from the same lemmas, by instantiating `TradeProofs`. `SwapsAreAgreedAndWhole`
needs `TradersTogether`: that the two sides are different players is what makes
"passing to the other side" well defined.

**Weights.** The invariant is `Balanced`: what is in the world is `Fits(s, {},
Gold - taken)`. `Fits(w, O, c)` describes a state in the middle of an operation:
the things of O live and are out of their places, everything else that lives is
in exactly one place, what is deleted is in none, and the live piles hold c
coins together. Each operation is a chain of steps that move things into O and
out of it: `Hide` puts one in, linking, dropping and equipping take one out, a
merge takes one and puts another in, a split puts in one that was not alive. So
each helper has one lemma (`OutFits`, `PutIn`, `MergedFits`, `ReturnFits`,
`SplitFits`, `ConsumeFits`, `DeleteFits`, `RefreshFits`), and an action strings
them together until O is empty again. What made the lemmas hard to state is the
memory of places: `ReturnToTracked` may merge the item into the pile it came
from, which takes that pile out of its place, the cursor included; so it needs
to be known that the cursor is empty or the item remembers no pile, and that
the pile is not itself out of place. What is recursive in the code is iterated
here, and a lemma about iteration (`Repeated`, from the least step at which a
claim fails) carries a step's lemma to the end. The sum of the coins is a fold;
that a pile may be counted first (`CoinsWithout`) is proved from a smallest set
for which it fails. Of the cached weights no more is needed here than that they
are numbers.

That no bag lies in itself (`Rooted`) is not said of the containers alone. A bag
is held by the bag it lies in or, while it is out of place, by the one it
remembers, since `ReturnToTracked` puts it back there: following who holds whom
leads out of the bags. Every step leaves a bag held by whoever held it, or by
nobody (`Looser`), except one, the drop into a container, where the refusal of a
bag that is above its target (`packet_handler.c:3609`) is what keeps it. Rooted
chains are finite, so a climb upward is a function that exists
(`ClimbExists`), what it reaches is told by one step (`AboveIs`), and two things
under one box of which neither is in the other have nothing in common
(`SideBySide`). A charge visits the children of the container, a bag's contents
before what follows the bag. What is still to be visited lies apart
(`Separate`), and the gold still in the container is what lies under the list
(`ToVisit`); each step removes one thing from what lies under the list, so a
step for every thing there is suffices (`ConsumingCounts`), and a charge that
ends short has left no coin behind.

The invariant says nothing of the cached weights, which go wrong in this code,
and `RecalculationsRepair` does not need it to: a recalculation is right from any
of these states. A recalculation of depth d is exact for a box with fewer than d
bags in it at any depth (`Weighs(g, d)`): it leaves everything where it was, that
box and the boxes in it get the weight of their contents, and the caches of the
others do not change (`Reweighed`). This goes by induction on d, where a bag in the box
has fewer bags in it than the box (`DeeperIsLess`). `RefreshContents` takes the
children out and links them back one at a time, so each loop has an invariant
(`Stripped`, `Refilled`) for the set of children it is done with: where these
are, which caches are exact by now, and, on the way back, what the box's own
cache says. A box whose children are out has nothing in it, and what
lies in the children is where it was (`AboveApartFrom`); children have nothing in
common, so what they weigh adds up (`SumJoined`, `SideBySide`). The recalculation
allows one level more than there are bags, which is enough (`EnoughDepth`), and
rebuilds the hand, the pack and the bank box one after another; a piece rebuilt
later leaves the earlier ones exact (`Weighed`).

**Chat.** Three invariants besides the types. `Agrees` is membership seen from both sides;
`Nicknames` that no two accounts have the same; `Faithful` that no two chat
users go by one name and that every open window is what its owner would be
shown now. Each message changes views only,
each change of membership is one of three helpers; the lemmas say of each helper
what it does to a window that was right before, and a packet is a chain of them.

**Persistence.** A save with everything around it is a list of ten file
operations at most, so `todo` is a suffix of it and a state is told by how many
are left (`At(k)`). The invariants say what holds before operation k: the
backup of the index is the old index from its link on, the data file is the old
data until its rename. `SavesKeepTheWorld` maps the renames of index and data
to `Begin` and `Save` of `DurableWorld`, and a call that fails to `Fail`; what
the invariants say of the files they say of behaviours in which none has failed. For the characters: the numbers of
known accounts are distinct and below the next one (`NumberInv`), the list is
current or about to be made so (`ListInv`), and a character's number is its
maker's, in the world and in both files (`OwnInv`).

**LoginHandoff.** An entry that is still in the table has configured nothing
(`Spent`), whatever connections wait with its nonce, and a connection that is
past its seed has left none (`Gone`); so the one step that configures spends the
entry for all of them. `LoginsAreKept` says that a step loses an entry only to its own
connection, to expiry, or to as many others as there are slots. The eviction is
the hard case: all slots are taken, they hold distinct entries (`Apart`), none
stamped later than now (`Stamped`), and the one evicted is among the oldest; so
the others, with the newcomer, are as many as there are slots and no older. That
is a count of finite sets.

**Watchdog.** After the join the thread is off or done, and neither wakes.

**Serial hash.** What a look-up finds is a walk along `next`, which no invariant
can mention step by step. So a chain is described without the walk: `Chains(h, S)`
says that the entities of S can be given distinct ranks such that within a
bucket each links to the one of the next lower rank, is linked back from it, and
the head has the highest. The ranks exist in the proof only: linking gives the
new head one above all others, unlinking leaves the others theirs. From ranks
and finiteness it follows that a walk from the head visits all of its bucket and
nothing else (`WalkIsExact`: what is visited grows by one with every step and is
always the top of the ranking). `HashInv` adds to the ranks what an interrupted
operation leaves behind: which belongings are where while `todo` is not empty
(`Families`, `Underway`), that links of archived entities lead to entities out
of the world, and point back except during a save (`KeptApart`,
`ArchiveHeads`), that the entities a save has finished with have no links
(`Written`), and that nothing archived is forgotten unless a character was
deleted (`AllKept`). The assumption about `Deletes` is the one the run makes,
and it is needed: see SerialHash above.

**Scripts.** `ScriptInv` has four parts about the pool and one about its users,
besides types. A node is free exactly when the free list has it, and poisoned
exactly when the list of returned nodes has it, each once (`PoolHolds`); the
nodes on entities' lists are the live ones, on the list of their own entity
(`ListsHold`); no two nodes in use hold the same instance (`BornHolds`).
`NamesHold` is then what the two properties say: a snapshot names nodes that
have been in use since, and threads, subscriptions and queued events name live
ones. In the model the pool cannot run dry before the bound on instances is met,
which the types need: `MaxBorn` nodes in use would hold `MaxBorn` distinct
instances (`PoolLasts`, a pigeonhole).

Only model-checked, and why:

* Liveness (`LingererLeaves`, `SessionKeepsPresence`, `HungIsAborted`), since
  fairness and `ENABLED` are outside the prover. What the refinement of
  `Presence` says of steps is proved for both implementations.
* The properties of the runs that expect a violation, which are false.

## Disagreements between the code and what it says

Each is an expected violation, listed in `PROJECT.json` with the line quoted.

* `session_delete` (`packet_handler.c:1841`): a character deleted while its
  body lingers is only unlisted, and comes back when the body is archived.
* `chat_ghost` (`chat.c:172-173`): the chat user of a player who disconnects stays.
* `save_torn` (`dynamic.c:1332-1334`, `2930-2931`): each rename is atomic, the pair
  is not. The claim of `systemd/ouo-backup.sh` that the `.bkp` files are always
  a consistent pair fails in the same way, between the two links.
* `account_reuse` (`blockmanager.c:874`, `account.c:154`): nothing reads the
  largest number of the loaded characters, and a login with a space is written
  but not read back.
* `script_creation` (`wombat_compile.c:985`, `1077`): an instance's address is
  kept in 32 bits while the world loads.
* `pack_weight` (`container.c:561`): a pile that a charge empties where it lies
  takes only the weight of one coin with it.

Met while modelling, and described above rather than run: items in a trade box
over a restart; a save whose writes are checked and whose renames are not
(`dynamic.c:2847-2849`), so that one failing rename leaves files of two saves
with nothing logged; the world chain cut by deleting a body; unannounced edits of
`access.list`; the watchdog's race of clock and heartbeat; ties in the eviction
of logins.

## Not modelled

The bulk of the source is game rules, an interpreter and a port of a C library;
the models cover the parts above and a small share of the lines. What is left
out, and why:

* The script compiler and interpreter (`wombat_compile.c`, `wombat_exec.c`
  other than what `Scripts` names): sequential evaluation of a language without
  another definition than this code. Each builtin acts on the world like a
  packet does.
* Mobiles, NPCs, combat, skills, shops, magic: large, numeric, and without a
  stated contract to check them against.
* The resource bank: amounts in tables, under the same rules.
* The page cache: it is made only when `uodemo.dat` is there and for reading
  only (`io.c` sends every write past it), so its write path is not reached.
* Multis, map, regions, weather, templates: data and geometry.
* Packet formats, compression, ciphers, hashes of passwords: conversions.
* The game-play packets other than the ones named above: each is one sequential
  operation on the world.
* `channels`: a message channel between threads of the original; nothing
  creates one here.
* Heartbeats of the player list (`player.c:259`): the walk may stop early for
  a tick, and the next tick makes good. The log-out event that logs its own
  player out (`entitymanager.c:40`).
* Generic data structures, support code, build and deployment.
