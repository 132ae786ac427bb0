------------------------------ MODULE Session -------------------------------
(***************************************************************************)
(* Connections, characters and accounts: CUserSock, the login packets of   *)
(* packet_handler.c and the places a character moves between.              *)
(*                                                                         *)
(* The server loop alternates a tick with a select; a select reads batches *)
(* of packets from the sockets that are ready and then destroys those      *)
(* marked closing.  CUserSock.player and CPlayer.usersock point at each    *)
(* other.  A Conn is the memory of a CUserSock: a stale pointer to a freed *)
(* one is a pointer to whoever gets that memory next.                      *)
(***************************************************************************)
EXTENDS Naturals, FiniteSets

CONSTANTS
  Conn,        \* CUserSock objects
  Player,      \* CPlayer objects
  Account,     \* account numbers
  MaxSlots,    \* characters per account (5)
  Relogin,     \* may a client select a second character on one connection?
  NoConn, NoPlayer, NoAccount     \* null pointers

ASSUME Nulls == NoConn \notin Conn /\ NoPlayer \notin Player /\ NoAccount \notin Account
ASSUME SlotBound == MaxSlots \in Nat \ {0} /\ IsFiniteSet(Player)
ASSUME ReloginIsFlag == Relogin \in BOOLEAN

VARIABLES
  status,     \* socket.status of a connection, "free" when not allocated
  account,    \* CUserSock.account
  player,     \* CUserSock.player
  usersock,   \* CPlayer.usersock
  online,     \* players whose PlayerIsOnline flag is set
  place,      \* where a player object is
  listed,     \* g_PlayerList
  owner,      \* CPlayer.accountNum
  slot,       \* CPlayer.characterNum
  deleted,    \* history: characters a client has deleted
  phase,      \* where the server loop is
  ready,      \* the connections this select may still read
  reading     \* the connection whose batch is being processed

conns == <<status, account, player>>
chars == <<owner, slot, deleted>>
loop == <<phase, ready, reading>>
vars == <<conns, usersock, online, place, listed, chars, loop>>

TypeOK ==
  /\ status \in [Conn -> {"free", "open", "closing"}]
  /\ account \in [Conn -> Account \cup {NoAccount}]
  /\ player \in [Conn -> Player \cup {NoPlayer}]
  /\ usersock \in [Player -> Conn \cup {NoConn}]
  /\ online \subseteq Player
  /\ place \in [Player -> {"none", "world", "archive", "erased"}]
  /\ listed \subseteq Player
  /\ owner \in [Player -> Account \cup {NoAccount}]
  /\ slot \in [Player -> 0..MaxSlots - 1]
  /\ deleted \subseteq Player
  /\ phase \in {"tick", "select", "cleanup"}
  /\ ready \subseteq Conn
  /\ reading \in Conn \cup {NoConn}

Init ==
  /\ status = [c \in Conn |-> "free"]
  /\ account = [c \in Conn |-> NoAccount]
  /\ player = [c \in Conn |-> NoPlayer]
  /\ usersock = [p \in Player |-> NoConn]
  /\ online = {} /\ listed = {} /\ deleted = {}
  /\ place = [p \in Player |-> "none"]
  /\ owner = [p \in Player |-> NoAccount]
  /\ slot = [p \in Player |-> 0]
  /\ phase = "tick" /\ ready = {} /\ reading = NoConn

-----------------------------------------------------------------------------
(* The characters of an account: live ones, then archived ones.            *)

Archived == {p \in Player : place[p] = "archive"}
CollectByAccountID(a) == {p \in listed \cup Archived : owner[p] = a}

AccountCharCount(a) == Cardinality(CollectByAccountID(a))

MutAccountUsedSlots(a) == {slot[p] : p \in {q \in listed : owner[q] = a}}
AccountUsedSlots(a) == {slot[p] : p \in CollectByAccountID(a)}

(* The loop of NewCharacter over the mask of used slots stops at s.        *)
MutStopsAt(s, a) == s = Cardinality({p \in Player : owner[p] = a})
StopsAt(s, a) == /\ s = MaxSlots \/ s \notin AccountUsedSlots(a)
                 /\ \A t \in 0..s - 1 : t \in AccountUsedSlots(a)

-----------------------------------------------------------------------------
(* The loop: Server_Loop, Server_Select and the sockets.                   *)

BeginSelect ==
  /\ phase = "tick" /\ phase' = "select"
  /\ ready' = {c \in Conn : status[c] = "open"}
  /\ UNCHANGED <<conns, usersock, online, place, listed, chars, reading>>

Accept(c) ==
  /\ phase = "select" /\ reading = NoConn /\ status[c] = "free"
  /\ status' = [status EXCEPT ![c] = "open"]
  /\ UNCHANGED <<account, player, usersock, online, place, listed, chars, loop>>

(* A socket is read once in a select, and not if it is closing.            *)
MayRead(c) == reading = NoConn /\ c \in ready /\ status[c] = "open"

(* recv returns 0 or fails, no cipher fits, or the buffer fills up.        *)
HangUp(c) ==
  /\ MayRead(c)
  /\ status' = [status EXCEPT ![c] = "closing"]
  /\ UNCHANGED <<account, player, usersock, online, place, listed, chars, loop>>

(* One recv, then every complete packet of the buffer is handled, whatever *)
(* becomes of the status meanwhile.                                        *)
BeginRead(c) ==
  /\ MayRead(c)
  /\ reading' = c /\ ready' = ready \ {c}
  /\ UNCHANGED <<conns, usersock, online, place, listed, chars, phase>>

EndRead ==
  /\ reading # NoConn
  /\ reading' = NoConn
  /\ UNCHANGED <<conns, usersock, online, place, listed, chars, phase, ready>>

EndSelect ==
  /\ phase = "select" /\ reading = NoConn /\ phase' = "cleanup" /\ ready' = {}
  /\ UNCHANGED <<conns, usersock, online, place, listed, chars, reading>>

EndCleanup ==
  /\ phase = "cleanup" /\ \A c \in Conn : status[c] # "closing"
  /\ phase' = "tick"
  /\ UNCHANGED <<conns, usersock, online, place, listed, chars, ready, reading>>

-----------------------------------------------------------------------------
(* Packets of the connection being read.                                   *)

(* ACCT_LOGIN_REQ or POSTLOGIN names an account that is accepted.          *)
Authenticate(a) ==
  /\ reading # NoConn
  /\ account' = [account EXCEPT ![reading] = a]
  /\ UNCHANGED <<status, player, usersock, online, place, listed, chars, loop>>

MayEnter(p) == reading # NoConn /\ account[reading] # NoAccount
                 /\ (Relogin \/ player[reading] \in {p, NoPlayer})

(* LOGIN: a new character in the lowest free slot, logged in at once.      *)
CreateChar(p) ==
  LET a == account[reading] IN
  /\ MayEnter(p) /\ place[p] = "none"
  /\ AccountCharCount(a) < MaxSlots
  /\ owner' = [owner EXCEPT ![p] = a]
  /\ \E s \in 0..MaxSlots : StopsAt(s, a) /\ slot' = [slot EXCEPT ![p] = s]
  /\ usersock' = [usersock EXCEPT ![p] = reading]
  /\ player' = [player EXCEPT ![reading] = p]
  /\ place' = [place EXCEPT ![p] = "world"]
  /\ listed' = listed \cup {p} /\ online' = online \cup {p}
  /\ UNCHANGED <<status, account, deleted, loop>>

(* What PRELOGIN does to the connection that had the character.            *)
MutKicked(c) == player
Kicked(c) == [d \in Conn |-> IF d = c THEN NoPlayer ELSE player[d]]

(* CEntity_AddToWorld lists an archived player again.                      *)
ListedAgain(p) == IF place[p] = "archive" THEN listed \cup {p} ELSE listed

(* PRELOGIN: a character of the account enters, on this connection only.   *)
SelectChar(p) ==
  LET old == usersock[p] IN
  /\ MayEnter(p) /\ p \in CollectByAccountID(account[reading])
  /\ status' = [c \in Conn |-> IF c = old /\ status[c] = "open" THEN "closing" ELSE status[c]]
  /\ player' = [Kicked(old) EXCEPT ![reading] = p]
  /\ usersock' = [usersock EXCEPT ![p] = reading]
  /\ place' = [place EXCEPT ![p] = "world"]
  /\ listed' = ListedAgain(p) /\ online' = online \cup {p}
  /\ UNCHANGED <<account, chars, loop>>

(* ACCT_DEL_CHAR: unlisted, taken out of the archive; the vtable's Delete  *)
(* does nothing to a player while g_DeleteAllowed is clear.                *)
DelChar(p) ==
  /\ reading # NoConn /\ account[reading] # NoAccount
  /\ p \in CollectByAccountID(account[reading]) /\ usersock[p] = NoConn
  /\ listed' = listed \ {p}
  /\ place' = [place EXCEPT ![p] = IF @ = "archive" THEN "erased" ELSE @]
  /\ deleted' = deleted \cup {p}
  /\ UNCHANGED <<conns, usersock, online, owner, slot, loop>>

-----------------------------------------------------------------------------
(* Logging out.                                                            *)

(* CPlayer_LogOut: archived where ShouldLogOut says so, else left behind.  *)
LoggedOut(p) == online \ {p}
LogOut(p) ==
  /\ online' = LoggedOut(p)
  /\ \/ UNCHANGED <<place, listed>>
     \/ place' = [place EXCEPT ![p] = "archive"] /\ listed' = listed \ {p}

(* CUserSock_Delete, for a socket the select has found closing.            *)
Destroy(c) ==
  /\ phase = "cleanup" /\ status[c] = "closing"
  /\ status' = [status EXCEPT ![c] = "free"]
  /\ account' = [account EXCEPT ![c] = NoAccount]
  /\ player' = [player EXCEPT ![c] = NoPlayer]
  /\ usersock' = [p \in Player |-> IF p = player[c] THEN NoConn ELSE usersock[p]]
  /\ IF player[c] \in online THEN LogOut(player[c]) ELSE UNCHANGED <<online, place, listed>>
  /\ UNCHANGED <<chars, loop>>

(* A script's logOut, in the tick, in a packet handler or in the logout    *)
(* event of another player.                                                *)
ScriptLogOut(p) ==
  /\ place[p] = "world"
  /\ LogOut(p)
  /\ UNCHANGED <<conns, usersock, chars, loop>>

(* The idle-disconnect timer fires, or a script removes an offline player. *)
MutIdleExempt(p) == usersock[p] # NoConn
IdleExempt(p) == p \in online
IdleDisconnect(p) ==
  /\ phase = "tick" /\ place[p] = "world" /\ ~IdleExempt(p)
  /\ place' = [place EXCEPT ![p] = "archive"] /\ listed' = listed \ {p}
  /\ UNCHANGED <<conns, usersock, online, chars, loop>>

-----------------------------------------------------------------------------

Loop ==
  \/ BeginSelect \/ EndRead \/ EndSelect \/ EndCleanup
  \/ \E c \in Conn : Destroy(c)

Clients ==
  \/ \E c \in Conn : Accept(c) \/ HangUp(c) \/ BeginRead(c)
  \/ \E a \in Account : Authenticate(a)
  \/ \E p \in Player : CreateChar(p) \/ SelectChar(p) \/ DelChar(p)

Next == Loop \/ Clients \/ \E p \in Player : ScriptLogOut(p) \/ IdleDisconnect(p)

Spec == Init /\ [][Next]_vars

(* The loop turns; a batch ends with its buffer; and a body's timer runs   *)
(* out in some tick (Timers: LingererHasTimer and LingererLeaves).         *)
FairSpec == Spec /\ WF_vars(Loop)
                 /\ \A p \in Player : SF_vars(IdleDisconnect(p))

-----------------------------------------------------------------------------
(* Properties.                                                             *)

(* The pointers of a connection and its player agree, so that destroying   *)
(* a connection clears every pointer to it.  Kicking, re-selecting,        *)
(* deleting and destroying each write only some of them.                   *)
PointersAgree ==
  /\ \A p \in Player : usersock[p] # NoConn => player[usersock[p]] = p
  /\ \A c \in Conn : player[c] # NoPlayer => usersock[player[c]] = c

(* A player is online only through a connection that will log it out when  *)
(* it is destroyed (usersock.c:397).                                       *)
OnlineHasConnection ==
  \A p \in online : \E c \in Conn : status[c] # "free" /\ player[c] = p

(* An online player is in the world; the player list and the archive       *)
(* between them hold every character that exists, once.                    *)
Placed ==
  /\ \A p \in online : place[p] = "world"
  /\ \A p \in Player \ deleted : (p \in listed) <=> (place[p] = "world")

(* Who is connected and who is in the world agree, after any kicks,         *)
(* hang-ups, deletions, script log-outs and idle disconnects.              *)
Connected == PointersAgree /\ OnlineHasConnection /\ Placed

(* Two characters of an account never share a slot of its list, through    *)
(* any log-outs, archivings, deletions and re-creations.                   *)
SlotsDistinct ==
  \A p, q \in Player \ deleted : p # q /\ owner[p] = owner[q] /\ owner[p] # NoAccount => slot[p] # slot[q]

(* No account has more characters than slots (packet_handler.c:1545).      *)
AccountLimit ==
  \A a \in Account : Cardinality({p \in Player \ deleted : owner[p] = a}) <= MaxSlots

(* The slots and the counts of an account stay right while its characters  *)
(* move between the player list and the archive.                           *)
SlotsInOrder == SlotsDistinct /\ AccountLimit

(* A player goes offline only by its own connection or by a script: the    *)
(* connection it was taken over from does not log it out when destroyed.   *)
OnlyOwnConnection ==
  [][\A p \in online \ online' :
       \/ usersock[p] # NoConn /\ status'[usersock[p]] = "free"
       \/ usersock' = usersock /\ UNCHANGED conns]_vars

(* The server keeps the promise of Presence, its liveness included.        *)
Where ==
  [p \in Player |->
     IF place[p] = "none" THEN "unborn"
     ELSE IF place[p] = "erased" THEN "erased"
     ELSE IF place[p] = "archive" THEN "away"
     ELSE IF p \in online THEN "online" ELSE "lingering"]
P == INSTANCE Presence WITH where <- Where
KeepsPresence == P!FairSpec

(* packet_handler.c:1841 "actually deletes the character": a character a   *)
(* client deleted is never offered by a character list again.              *)
DeletedStaysDeleted == deleted \cap (listed \cup Archived) = {}
=============================================================================
