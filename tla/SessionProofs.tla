---------------------------- MODULE SessionProofs ----------------------------
(***************************************************************************)
(* The invariants of Session hold for any set of connections, players and  *)
(* accounts, and any number of slots.  The slots rest on what the player   *)
(* list and the archive hold between them; the pointers rest on the order  *)
(* of the loop: nobody is destroyed while a batch is read.                 *)
(***************************************************************************)
EXTENDS Session, FiniteSetTheorems, TLAPS

USE DEF conns, chars, loop

-----------------------------------------------------------------------------
(* The slots of an account.                                                *)

LEMMA CollectIsFinite ==
  ASSUME TypeOK, NEW a
  PROVE  /\ CollectByAccountID(a) \subseteq Player
         /\ IsFiniteSet(CollectByAccountID(a))
         /\ AccountCharCount(a) \in Nat
<1>1. CollectByAccountID(a) \subseteq Player
  BY DEF CollectByAccountID, Archived, TypeOK
<1>2. IsFiniteSet(CollectByAccountID(a))
  BY <1>1, SlotBound, FS_Subset
<1>3. AccountCharCount(a) \in Nat
  BY <1>2, FS_CardinalityType DEF AccountCharCount
<1> QED BY <1>1, <1>2, <1>3

(* The loop of NewCharacter finds a free slot when the account has fewer   *)
(* characters than slots: the used slots are at most as many.              *)
LEMMA FreeSlot ==
  ASSUME TypeOK, NEW a, AccountCharCount(a) < MaxSlots,
         NEW s \in 0..MaxSlots, StopsAt(s, a)
  PROVE  s \in 0..MaxSlots - 1 /\ s \notin AccountUsedSlots(a)
<1> DEFINE C == CollectByAccountID(a)
           U == AccountUsedSlots(a)
           f == [p \in C |-> slot[p]]
<1>1. f \in Surjection(C, U)
  BY DEF Surjection, AccountUsedSlots
<1>2. Cardinality(U) <= Cardinality(C) /\ IsFiniteSet(U)
  BY <1>1, CollectIsFinite, FS_Surjection
<1>3. 0..MaxSlots - 1 \subseteq U => FALSE
  <2> SUFFICES ASSUME 0..MaxSlots - 1 \subseteq U PROVE FALSE
    OBVIOUS
  <2>1. Cardinality(0..MaxSlots - 1) = MaxSlots
    BY SlotBound, FS_Interval
  <2>2. Cardinality(0..MaxSlots - 1) <= Cardinality(U)
    BY <1>2, FS_Subset
  <2>3. Cardinality(U) \in Nat /\ Cardinality(C) \in Nat
    BY <1>2, CollectIsFinite, FS_CardinalityType
  <2> QED BY <1>2, <2>1, <2>2, <2>3, SlotBound DEF AccountCharCount
<1>4. s # MaxSlots
  BY <1>3, SlotBound DEF StopsAt
<1> QED BY <1>4, SlotBound DEF StopsAt

-----------------------------------------------------------------------------
(* Types.                                                                  *)

LEMMA LogOutEffect ==
  ASSUME TypeOK, NEW p \in Player, LogOut(p)
  PROVE  /\ online' = online \ {p}
         /\ \/ UNCHANGED <<place, listed>>
            \/ place' = [place EXCEPT ![p] = "archive"] /\ listed' = listed \ {p}
         /\ online' \subseteq Player /\ listed' \subseteq Player
         /\ place' \in [Player -> {"none", "world", "archive", "erased"}]
BY DEF LogOut, LoggedOut, TypeOK

LEMMA TypeStep == TypeOK /\ [Next]_vars => TypeOK'
<1> SUFFICES ASSUME TypeOK, [Next]_vars PROVE TypeOK'
  OBVIOUS
<1>1. CASE UNCHANGED vars
  BY <1>1 DEF TypeOK, vars
<1>2. CASE BeginSelect \/ EndRead \/ EndSelect \/ EndCleanup
  BY <1>2 DEF BeginSelect, EndRead, EndSelect, EndCleanup, TypeOK
<1>3. ASSUME NEW c \in Conn, Destroy(c) PROVE TypeOK'
  <2>1. /\ online' \subseteq Player /\ listed' \subseteq Player
        /\ place' \in [Player -> {"none", "world", "archive", "erased"}]
    <3>1. CASE player[c] \in online
      <4>1. player[c] \in Player /\ LogOut(player[c])
        BY <1>3, <3>1 DEF Destroy, TypeOK
      <4> QED BY <4>1, LogOutEffect
    <3>2. CASE player[c] \notin online
      BY <1>3, <3>2 DEF Destroy, TypeOK
    <3> QED BY <3>1, <3>2
  <2> QED BY <1>3, <2>1 DEF Destroy, TypeOK
<1>4. ASSUME NEW c \in Conn, Accept(c) \/ HangUp(c) \/ BeginRead(c) PROVE TypeOK'
  BY <1>4 DEF Accept, HangUp, BeginRead, MayRead, TypeOK
<1>5. ASSUME NEW a \in Account, Authenticate(a) PROVE TypeOK'
  BY <1>5 DEF Authenticate, TypeOK
<1>6. ASSUME NEW p \in Player, CreateChar(p) PROVE TypeOK'
  <2>1. PICK s \in 0..MaxSlots : StopsAt(s, account[reading]) /\ slot' = [slot EXCEPT ![p] = s]
    BY <1>6 DEF CreateChar
  <2>2. s \in 0..MaxSlots - 1
    BY <1>6, <2>1, FreeSlot DEF CreateChar
  <2> QED BY <1>6, <2>1, <2>2 DEF CreateChar, MayEnter, TypeOK
<1>7. ASSUME NEW p \in Player, SelectChar(p) PROVE TypeOK'
  <2>1. Kicked(usersock[p]) \in [Conn -> Player \cup {NoPlayer}] /\ ListedAgain(p) \subseteq Player
    BY DEF Kicked, ListedAgain, TypeOK
  <2> QED BY <1>7, <2>1 DEF SelectChar, MayEnter, TypeOK
<1>8. ASSUME NEW p \in Player, DelChar(p) PROVE TypeOK'
  BY <1>8 DEF DelChar, TypeOK
<1>9. ASSUME NEW p \in Player, ScriptLogOut(p) PROVE TypeOK'
  BY <1>9, LogOutEffect DEF ScriptLogOut, TypeOK
<1>10. ASSUME NEW p \in Player, IdleDisconnect(p) PROVE TypeOK'
  BY <1>10 DEF IdleDisconnect, TypeOK
<1> QED BY <1>1, <1>2, <1>3, <1>4, <1>5, <1>6, <1>7, <1>8, <1>9, <1>10
        DEF Next, Loop, Clients

LEMMA TypeInit == Init => TypeOK
BY SlotBound DEF Init, TypeOK

(* Every pointer, flag and list keeps its type; in particular the slot a   *)
(* new character is given exists (player.c:936).                          *)
THEOREM TypeCorrect == Spec => []TypeOK
BY TypeInit, TypeStep, PTL DEF Spec

-----------------------------------------------------------------------------
(* Slots.                                                                  *)

(* Every character that exists, and no client has deleted, is where        *)
(* CollectByAccountID looks for it.                                        *)
Collected ==
  /\ \A p \in Player \ deleted : (p \in listed) <=> (place[p] = "world")
  /\ \A p \in Player \ deleted : owner[p] # NoAccount => place[p] \in {"world", "archive"}

SlotInv == Collected /\ SlotsDistinct /\ AccountLimit

LEMMA CollectedStep == TypeOK /\ Collected /\ [Next]_vars => Collected'
<1> SUFFICES ASSUME TypeOK, Collected, [Next]_vars PROVE Collected'
  OBVIOUS
<1> USE DEF Collected
<1>1. CASE UNCHANGED <<place, listed, chars>>
  BY <1>1
<1>2. ASSUME NEW c \in Conn, Destroy(c) PROVE Collected'
  <2>1. CASE player[c] \in online
    <3>1. player[c] \in Player /\ LogOut(player[c])
      BY <1>2, <2>1 DEF Destroy, TypeOK
    <3> QED BY <1>2, <3>1, LogOutEffect DEF Destroy, TypeOK
  <2> QED BY <1>1, <1>2, <2>1 DEF Destroy
<1>3. ASSUME NEW p \in Player, CreateChar(p) PROVE Collected'
  BY <1>3 DEF CreateChar, TypeOK
<1>4. ASSUME NEW p \in Player, SelectChar(p) PROVE Collected'
  BY <1>4 DEF SelectChar, ListedAgain, CollectByAccountID, Archived, TypeOK
<1>5. ASSUME NEW p \in Player, DelChar(p) PROVE Collected'
  BY <1>5 DEF DelChar, TypeOK
<1>6. ASSUME NEW p \in Player, ScriptLogOut(p) PROVE Collected'
  BY <1>6, LogOutEffect DEF ScriptLogOut, TypeOK
<1>7. ASSUME NEW p \in Player, IdleDisconnect(p) PROVE Collected'
  BY <1>7 DEF IdleDisconnect, TypeOK
<1>8. \/ BeginSelect \/ EndRead \/ EndSelect \/ EndCleanup
      \/ \E c \in Conn : Accept(c) \/ HangUp(c) \/ BeginRead(c)
      \/ \E a \in Account : Authenticate(a)
      => Collected'
  BY <1>1 DEF BeginSelect, EndRead, EndSelect, EndCleanup, Accept, HangUp, BeginRead, Authenticate
<1>9. UNCHANGED vars => Collected'
  BY <1>1 DEF vars
<1> QED BY <1>2, <1>3, <1>4, <1>5, <1>6, <1>7, <1>8, <1>9 DEF Next, Loop, Clients

(* The characters of an account that count against its slots.              *)
Kept(a) == {p \in Player \ deleted : owner[p] = a}

LEMMA KeptIsCollected ==
  ASSUME TypeOK, Collected, NEW a \in Account
  PROVE  Kept(a) \subseteq CollectByAccountID(a)
BY Nulls DEF Kept, Collected, CollectByAccountID, Archived

(* A step that creates no character leaves slots and counts in order.      *)
LEMMA SlotsKept ==
  ASSUME TypeOK, SlotInv, UNCHANGED <<owner, slot>>, deleted \subseteq deleted'
  PROVE  SlotsDistinct' /\ AccountLimit'
<1>1. SlotsDistinct'
  BY DEF SlotInv, SlotsDistinct
<1>2. ASSUME NEW a \in Account PROVE Cardinality(Kept(a)') <= MaxSlots
  <2>1. Kept(a)' \subseteq Kept(a) /\ Kept(a) \subseteq Player
    BY DEF Kept
  <2>2. IsFiniteSet(Kept(a))
    BY <2>1, SlotBound, FS_Subset
  <2>3. /\ Cardinality(Kept(a)') <= Cardinality(Kept(a))
        /\ Cardinality(Kept(a)) \in Nat /\ Cardinality(Kept(a)') \in Nat
    BY <2>1, <2>2, FS_Subset, FS_CardinalityType
  <2>4. Cardinality(Kept(a)) <= MaxSlots
    BY DEF SlotInv, AccountLimit, Kept
  <2> QED BY <2>3, <2>4, SlotBound
<1> QED BY <1>1, <1>2 DEF AccountLimit, Kept

LEMMA SlotsOfNew ==
  ASSUME TypeOK, SlotInv, NEW p \in Player, CreateChar(p)
  PROVE  SlotsDistinct' /\ AccountLimit'
<1> DEFINE a == account[reading]
<1>1. /\ a \in Account /\ AccountCharCount(a) < MaxSlots
      /\ owner' = [owner EXCEPT ![p] = a] /\ deleted' = deleted
  BY DEF CreateChar, MayEnter, TypeOK
<1>2. PICK s \in 0..MaxSlots : StopsAt(s, a) /\ slot' = [slot EXCEPT ![p] = s]
  BY DEF CreateChar
<1>3. s \notin AccountUsedSlots(a)
  BY <1>1, <1>2, FreeSlot
<1>4. \A q \in Kept(a) : slot[q] # s
  BY <1>1, <1>3, KeptIsCollected DEF AccountUsedSlots, SlotInv
<1>5. SlotsDistinct'
  BY <1>1, <1>2, <1>4 DEF SlotsDistinct, SlotInv, Kept, TypeOK
<1>6. ASSUME NEW b \in Account PROVE Cardinality(Kept(b)') <= MaxSlots
  <2>1. /\ IsFiniteSet(Kept(b)) /\ Cardinality(Kept(b)) \in Nat
        /\ Cardinality(Kept(b)) <= AccountCharCount(b)
    BY <1>1, KeptIsCollected, CollectIsFinite, FS_Subset, FS_CardinalityType
       DEF SlotInv, AccountCharCount
  <2>2. CASE b = a
    <3>1. Kept(b)' \subseteq Kept(b) \cup {p}
      BY <1>1 DEF Kept, TypeOK
    <3>2. /\ IsFiniteSet(Kept(b) \cup {p})
          /\ Cardinality(Kept(b) \cup {p}) \in {Cardinality(Kept(b)), Cardinality(Kept(b)) + 1}
      BY <2>1, FS_AddElement
    <3>3. Cardinality(Kept(b)') <= Cardinality(Kept(b) \cup {p}) /\ Cardinality(Kept(b)') \in Nat
      BY <3>1, <3>2, FS_Subset, FS_CardinalityType
    <3>4. AccountCharCount(b) \in Nat
      BY CollectIsFinite
    <3> QED BY <1>1, <2>1, <2>2, <3>2, <3>3, <3>4, SlotBound
  <2>3. CASE b # a
    <3>1. Kept(b)' \subseteq Kept(b)
      BY <1>1, <2>3 DEF Kept, TypeOK
    <3>2. Cardinality(Kept(b)') <= Cardinality(Kept(b)) /\ Cardinality(Kept(b)') \in Nat
      BY <2>1, <3>1, FS_Subset, FS_CardinalityType
    <3>3. Cardinality(Kept(b)) <= MaxSlots
      BY DEF SlotInv, AccountLimit, Kept
    <3> QED BY <2>1, <3>2, <3>3, SlotBound
  <2> QED BY <2>2, <2>3
<1> QED BY <1>5, <1>6 DEF AccountLimit, Kept

LEMMA SlotStep == TypeOK /\ SlotInv /\ [Next]_vars => SlotInv'
<1> SUFFICES ASSUME TypeOK, SlotInv, [Next]_vars PROVE SlotInv'
  OBVIOUS
<1>1. Collected'
  BY CollectedStep DEF SlotInv
<1>2. ASSUME NEW p \in Player, CreateChar(p) PROVE SlotInv'
  BY <1>1, <1>2, SlotsOfNew DEF SlotInv
<1>3. (\E p \in Player : CreateChar(p)) \/ (UNCHANGED <<owner, slot>> /\ deleted \subseteq deleted')
  BY DEF vars, Next, Loop, Clients, BeginSelect, EndRead, EndSelect, EndCleanup, Destroy, Accept,
         HangUp, BeginRead, Authenticate, SelectChar, DelChar, ScriptLogOut, IdleDisconnect
<1> QED BY <1>1, <1>2, <1>3, SlotsKept DEF SlotInv

LEMMA SlotInit == Init => SlotInv
<1> SUFFICES ASSUME Init PROVE SlotInv
  OBVIOUS
<1>1. Collected /\ SlotsDistinct
  BY DEF Init, Collected, SlotsDistinct
<1>2. ASSUME NEW a \in Account PROVE Kept(a) = {}
  BY Nulls DEF Init, Kept
<1>3. AccountLimit
  BY <1>2, FS_EmptySet, SlotBound DEF AccountLimit, Kept
<1> QED BY <1>1, <1>3 DEF SlotInv

(* No two characters of an account share a slot, and none has more than    *)
(* there are: NewCharacter counts and looks for a slot among the same      *)
(* characters, the listed and the archived (player.c:6638).                *)
THEOREM SlotsStayInOrder == Spec => []SlotsInOrder
<1>1. SlotInv => SlotsInOrder
  BY DEF SlotInv, SlotsInOrder
<1> QED BY <1>1, TypeCorrect, SlotInit, SlotStep, PTL DEF Spec

-----------------------------------------------------------------------------
(* Connections and players.                                                *)

(* While a batch is read the loop is in its select, so the connection read *)
(* from is not destroyed under the handlers.                               *)
Reading ==
  /\ ready # {} \/ reading # NoConn => phase = "select"
  /\ reading # NoConn => status[reading] # "free"

(* A character not yet created is nobody's.                                *)
Unborn == \A p \in Player : place[p] = "none" => usersock[p] = NoConn

ConnInv == Reading /\ Unborn /\ PointersAgree /\ OnlineHasConnection /\ Placed

LEMMA ReadingStep == TypeOK /\ Reading /\ [Next]_vars => Reading'
<1> SUFFICES ASSUME TypeOK, Reading, [Next]_vars PROVE Reading'
  OBVIOUS
<1> USE DEF Reading
<1>1. CASE BeginSelect \/ EndRead \/ EndSelect \/ EndCleanup
  BY <1>1 DEF BeginSelect, EndRead, EndSelect, EndCleanup
<1>2. ASSUME NEW c \in Conn, Destroy(c) \/ Accept(c) \/ HangUp(c) \/ BeginRead(c) PROVE Reading'
  BY <1>2 DEF Destroy, Accept, HangUp, BeginRead, MayRead, TypeOK
<1>3. ASSUME NEW p \in Player, SelectChar(p) PROVE Reading'
  BY <1>3 DEF SelectChar, TypeOK
<1>4. UNCHANGED <<status, loop>> => Reading'
  OBVIOUS
<1>5. ASSUME NEW p \in Player, \/ CreateChar(p) \/ DelChar(p)
                               \/ ScriptLogOut(p) \/ IdleDisconnect(p)
      PROVE Reading'
  BY <1>4, <1>5 DEF CreateChar, DelChar, ScriptLogOut, IdleDisconnect
<1>6. ASSUME NEW a \in Account, Authenticate(a) PROVE Reading'
  BY <1>4, <1>6 DEF Authenticate
<1> QED BY <1>1, <1>2, <1>3, <1>4, <1>5, <1>6 DEF Next, Loop, Clients, vars

(* Steps that touch neither pointers nor places; a connection may open,    *)
(* start to close, or learn its account.                                   *)
LEMMA ConnUnmoved ==
  ASSUME TypeOK, ConnInv, UNCHANGED <<player, usersock, online, place, listed, deleted>>,
         \A c \in Conn : status[c] # "free" => status'[c] # "free"
  PROVE  Unborn' /\ PointersAgree' /\ OnlineHasConnection' /\ Placed'
BY DEF ConnInv, Unborn, PointersAgree, OnlineHasConnection, Placed

(* LOGIN: the new character and the connection being read are paired.      *)
LEMMA ConnCreate ==
  ASSUME ~Relogin, TypeOK, ConnInv, NEW p \in Player, CreateChar(p)
  PROVE  Unborn' /\ PointersAgree' /\ OnlineHasConnection' /\ Placed'
<1> USE DEF ConnInv, CreateChar, MayEnter, TypeOK
<1>1. reading \in Conn /\ usersock[p] = NoConn /\ status[reading] # "free"
  BY DEF Unborn, Reading
<1>2. player[reading] = NoPlayer
  BY <1>1, Nulls DEF PointersAgree
<1>3. \A q \in Player : usersock[q] # reading
  BY <1>1, <1>2, Nulls DEF PointersAgree
<1>4. \A c \in Conn : player[c] # p
  BY <1>1, Nulls DEF PointersAgree
<1>5. PointersAgree'
  BY <1>1, <1>3, <1>4, Nulls DEF PointersAgree
<1>6. OnlineHasConnection'
  BY <1>1, <1>2, Nulls DEF OnlineHasConnection
<1>7. Unborn'
  BY DEF Unborn
<1>8. Placed'
  BY DEF Placed
<1> QED BY <1>5, <1>6, <1>7, <1>8

(* PRELOGIN: the character leaves the connection it had for the one being  *)
(* read.                                                                   *)
LEMMA ConnSelect ==
  ASSUME ~Relogin, TypeOK, ConnInv, NEW p \in Player, SelectChar(p)
  PROVE  Unborn' /\ PointersAgree' /\ OnlineHasConnection' /\ Placed'
<1> USE DEF ConnInv, TypeOK
<1> DEFINE old == usersock[p]
<1>1. /\ reading \in Conn /\ status[reading] # "free"
      /\ player[reading] \in {p, NoPlayer}
  BY DEF SelectChar, MayEnter, Reading
<1>2. \A c \in Conn : player'[c] = IF c = reading THEN p
                                   ELSE IF c = old THEN NoPlayer ELSE player[c]
  BY <1>1 DEF SelectChar, Kicked
<1>3. \A q \in Player : usersock'[q] = IF q = p THEN reading ELSE usersock[q]
  BY DEF SelectChar
<1>4. \A q \in Player \ {p} : usersock[q] # NoConn => usersock[q] # reading /\ usersock[q] # old
  BY <1>1, Nulls DEF PointersAgree
<1>5. \A c \in Conn : player[c] = p => c = old
  BY Nulls DEF PointersAgree
<1>6. PointersAgree'
  BY <1>1, <1>2, <1>3, <1>4, <1>5, Nulls DEF PointersAgree
<1>7. \A c \in Conn : status[c] # "free" => status'[c] # "free"
  BY DEF SelectChar
<1>8. OnlineHasConnection'
  <2>1. ASSUME NEW q \in online', q # p PROVE \E c \in Conn : status'[c] # "free" /\ player'[c] = q
    <3>1. q \in online
      BY <2>1 DEF SelectChar
    <3>2. PICK c \in Conn : status[c] # "free" /\ player[c] = q
      BY <3>1 DEF OnlineHasConnection
    <3>3. c = usersock[q] /\ c # NoConn
      BY <3>1, <3>2, Nulls DEF PointersAgree
    <3>4. c # reading /\ c # old
      BY <1>4, <2>1, <3>1, <3>3
    <3> QED BY <1>2, <1>7, <3>2, <3>4
  <2>2. status'[reading] # "free" /\ player'[reading] = p
    BY <1>1, <1>2, <1>7
  <2> QED BY <1>1, <2>1, <2>2 DEF OnlineHasConnection
<1>9. Unborn'
  BY DEF Unborn, SelectChar
<1>10. Placed'
  BY DEF Placed, SelectChar, ListedAgain, CollectByAccountID, Archived
<1> QED BY <1>6, <1>8, <1>9, <1>10

(* CUserSock_Delete: both pointers of the pair are cleared, and the player *)
(* is logged out if it was still online.                                   *)
LEMMA ConnDestroy ==
  ASSUME TypeOK, ConnInv, NEW c \in Conn, Destroy(c)
  PROVE  Unborn' /\ PointersAgree' /\ OnlineHasConnection' /\ Placed'
<1> USE DEF ConnInv, TypeOK
<1>1. /\ player' = [player EXCEPT ![c] = NoPlayer]
      /\ usersock' = [p \in Player |-> IF p = player[c] THEN NoConn ELSE usersock[p]]
      /\ status' = [status EXCEPT ![c] = "free"] /\ deleted' = deleted
  BY DEF Destroy
<1>2. PointersAgree'
  BY <1>1, Nulls DEF PointersAgree
<1>3. /\ online' = online \ {player[c]}
      /\ \/ UNCHANGED <<place, listed>>
         \/ /\ player[c] \in Player
            /\ place' = [place EXCEPT ![player[c]] = "archive"] /\ listed' = listed \ {player[c]}
  <2>1. CASE player[c] \in online
    BY <2>1, LogOutEffect DEF Destroy
  <2>2. CASE player[c] \notin online
    BY <2>2 DEF Destroy
  <2> QED BY <2>1, <2>2
<1>4. OnlineHasConnection'
  BY <1>1, <1>3 DEF OnlineHasConnection
<1>5. Unborn'
  BY <1>1, <1>3 DEF Unborn
<1>6. Placed'
  BY <1>1, <1>3 DEF Placed
<1> QED BY <1>2, <1>4, <1>5, <1>6

(* A deletion, a script's log-out and an idle disconnect.                  *)
LEMMA ConnLeave ==
  ASSUME TypeOK, ConnInv, NEW p \in Player, DelChar(p) \/ ScriptLogOut(p) \/ IdleDisconnect(p)
  PROVE  Unborn' /\ PointersAgree' /\ OnlineHasConnection' /\ Placed'
<1> USE DEF ConnInv, TypeOK
<1>1. UNCHANGED <<status, player, usersock>> /\ online' \subseteq online
  BY LogOutEffect DEF DelChar, ScriptLogOut, IdleDisconnect
<1>2. PointersAgree' /\ OnlineHasConnection'
  BY <1>1 DEF PointersAgree, OnlineHasConnection
<1>3. CASE DelChar(p)
  <2>1. p \notin online
    BY <1>3, Nulls DEF DelChar, PointersAgree, OnlineHasConnection
  <2>2. Unborn'
    BY <1>3 DEF DelChar, Unborn
  <2>3. Placed'
    BY <1>3, <2>1 DEF DelChar, Placed
  <2> QED BY <1>2, <2>2, <2>3
<1>4. CASE ScriptLogOut(p)
  BY <1>2, <1>4, LogOutEffect DEF ScriptLogOut, Unborn, Placed
<1>5. CASE IdleDisconnect(p)
  BY <1>2, <1>5 DEF IdleDisconnect, IdleExempt, Unborn, Placed
<1> QED BY <1>3, <1>4, <1>5

LEMMA ConnStep == ASSUME ~Relogin PROVE TypeOK /\ ConnInv /\ [Next]_vars => ConnInv'
<1> SUFFICES ASSUME TypeOK, ConnInv, [Next]_vars PROVE ConnInv'
  OBVIOUS
<1>1. Reading'
  BY ReadingStep DEF ConnInv
<1> SUFFICES Unborn' /\ PointersAgree' /\ OnlineHasConnection' /\ Placed'
  BY <1>1 DEF ConnInv
<1>2. CASE UNCHANGED vars
  BY <1>2, ConnUnmoved DEF vars
<1>3. CASE BeginSelect \/ EndRead \/ EndSelect \/ EndCleanup
  BY <1>3, ConnUnmoved DEF BeginSelect, EndRead, EndSelect, EndCleanup
<1>4. ASSUME NEW c \in Conn, Accept(c) \/ HangUp(c) \/ BeginRead(c)
      PROVE  Unborn' /\ PointersAgree' /\ OnlineHasConnection' /\ Placed'
  <2>1. \A d \in Conn : status[d] # "free" => status'[d] # "free"
    BY <1>4 DEF Accept, HangUp, BeginRead, TypeOK
  <2> QED BY <1>4, <2>1, ConnUnmoved DEF Accept, HangUp, BeginRead
<1>5. ASSUME NEW a \in Account, Authenticate(a)
      PROVE  Unborn' /\ PointersAgree' /\ OnlineHasConnection' /\ Placed'
  BY <1>5, ConnUnmoved DEF Authenticate
<1> QED BY <1>2, <1>3, <1>4, <1>5, ConnCreate, ConnSelect, ConnDestroy, ConnLeave
        DEF Next, Loop, Clients

LEMMA ConnInit == Init => ConnInv
BY Nulls DEF Init, ConnInv, Reading, Unborn, PointersAgree, OnlineHasConnection, Placed

(* As long as a client enters with one character on a connection, the      *)
(* pointers of connections and players agree, an online player has a       *)
(* connection that will log it out, and the list holds who is in the world *)
(* (usersock.c:397, packet_handler.c:1725).                                *)
THEOREM ConnectionsAgree == ASSUME ~Relogin PROVE Spec => []Connected
<1>1. ConnInv => Connected
  BY DEF ConnInv, Connected
<1> QED BY <1>1, TypeCorrect, ConnInit, ConnStep, PTL DEF Spec

(* Nobody is logged out by a connection other than its own: the kicked one *)
(* no longer points at the player (packet_handler.c:1722).                 *)
THEOREM LoggedOutByOwn == ASSUME ~Relogin PROVE Spec => OnlyOwnConnection
<1> DEFINE Off == \A p \in online \ online' :
                    \/ usersock[p] # NoConn /\ status'[usersock[p]] = "free"
                    \/ usersock' = usersock /\ UNCHANGED conns
<1>1. ASSUME TypeOK, ConnInv, Next PROVE Off
  <2>1. ASSUME NEW c \in Conn, Destroy(c) PROVE Off
    <3> SUFFICES ASSUME NEW p \in online, p \notin online'
                 PROVE  usersock[p] # NoConn /\ status'[usersock[p]] = "free"
      OBVIOUS
    <3>1. p = player[c] /\ p \in Player
      BY <1>1, <2>1, LogOutEffect DEF Destroy, TypeOK
    <3>2. usersock[p] = c
      BY <1>1, <3>1, Nulls DEF ConnInv, PointersAgree
    <3> QED BY <1>1, <2>1, <3>2, Nulls DEF Destroy, TypeOK
  <2>2. ASSUME NEW p \in Player, ScriptLogOut(p) PROVE Off
    BY <2>2 DEF ScriptLogOut
  <2>3. ASSUME online \subseteq online' PROVE Off
    BY <2>3
  <2> QED
    BY <1>1, <2>1, <2>2, <2>3
    DEF Next, Loop, Clients, BeginSelect, EndRead, EndSelect, EndCleanup, Accept, HangUp,
        BeginRead, Authenticate, CreateChar, SelectChar, DelChar, IdleDisconnect
<1>2. TypeOK /\ ConnInv /\ [Next]_vars => [Off]_vars
  BY <1>1
<1> QED BY <1>2, TypeCorrect, ConnInit, ConnStep, PTL DEF Spec, OnlyOwnConnection

-----------------------------------------------------------------------------
(* The promise of Presence.                                                *)

(* Who is online, or in the player list, is in the world.                  *)
InWorld == \A p \in online \cup listed : place[p] = "world"

LEMMA InWorldStep == TypeOK /\ InWorld /\ [Next]_vars => InWorld'
<1> SUFFICES ASSUME TypeOK, InWorld, [Next]_vars PROVE InWorld'
  OBVIOUS
<1> USE DEF InWorld
<1>1. UNCHANGED <<online, listed, place>> => InWorld'
  OBVIOUS
<1>2. CASE BeginSelect \/ EndRead \/ EndSelect \/ EndCleanup \/ UNCHANGED vars
  BY <1>1, <1>2 DEF BeginSelect, EndRead, EndSelect, EndCleanup, vars
<1>3. ASSUME NEW c \in Conn, Accept(c) \/ HangUp(c) \/ BeginRead(c) PROVE InWorld'
  BY <1>1, <1>3 DEF Accept, HangUp, BeginRead
<1>4. ASSUME NEW a \in Account, Authenticate(a) PROVE InWorld'
  BY <1>1, <1>4 DEF Authenticate
<1>5. ASSUME NEW p \in Player, LogOut(p) PROVE InWorld'
  BY <1>5 DEF LogOut, LoggedOut, TypeOK
<1>6. ASSUME NEW c \in Conn, Destroy(c) PROVE InWorld'
  <2>1. player[c] \in online => player[c] \in Player
    BY DEF TypeOK
  <2> QED BY <1>1, <1>5, <1>6, <2>1 DEF Destroy
<1>7. ASSUME NEW p \in Player, CreateChar(p) \/ SelectChar(p) PROVE InWorld'
  BY <1>7 DEF CreateChar, SelectChar, ListedAgain, TypeOK
<1>8. ASSUME NEW p \in Player, DelChar(p) PROVE InWorld'
  BY <1>8 DEF DelChar, TypeOK
<1>9. ASSUME NEW p \in Player, ScriptLogOut(p) PROVE InWorld'
  BY <1>5, <1>9 DEF ScriptLogOut
<1>10. ASSUME NEW p \in Player, IdleDisconnect(p) PROVE InWorld'
  BY <1>10 DEF IdleDisconnect, IdleExempt, TypeOK
<1> QED BY <1>2, <1>3, <1>4, <1>6, <1>7, <1>8, <1>9, <1>10 DEF Next, Loop, Clients

LEMMA WhereValue ==
  ASSUME NEW p \in Player
  PROVE  Where[p] = IF place[p] = "none" THEN "unborn"
                    ELSE IF place[p] = "erased" THEN "erased"
                    ELSE IF place[p] = "archive" THEN "away"
                    ELSE IF p \in online THEN "online" ELSE "lingering"
BY DEF Where

LEMMA WhereNext ==
  ASSUME NEW p \in Player
  PROVE  Where'[p] = IF place'[p] = "none" THEN "unborn"
                     ELSE IF place'[p] = "erased" THEN "erased"
                     ELSE IF place'[p] = "archive" THEN "away"
                     ELSE IF p \in online' THEN "online" ELSE "lingering"
BY DEF Where

(* A step that touches one player moves that character only.               *)
LEMMA OneMoves ==
  ASSUME NEW p \in Player, \A q \in Player \ {p} : place'[q] = place[q] /\ (q \in online' <=> q \in online)
  PROVE  Where' = [Where EXCEPT ![p] = Where'[p]]
BY DEF Where

LEMMA LeavesOrDrops ==
  ASSUME TypeOK, InWorld, NEW p \in Player, place[p] = "world", LogOut(p)
  PROVE  [P!Next]_Where
<1>1. Where' = [Where EXCEPT ![p] = Where'[p]]
  BY OneMoves DEF LogOut, LoggedOut, TypeOK
<1>2. /\ Where[p] = IF p \in online THEN "online" ELSE "lingering"
      /\ Where'[p] \in {"lingering", "away"}
  BY WhereValue, WhereNext DEF LogOut, LoggedOut, TypeOK
<1>3. CASE Where'[p] = Where[p]
  <2>1. Where = [Where EXCEPT ![p] = Where[p]]
    BY DEF Where
  <2> QED BY <1>1, <1>3, <2>1
<1>4. CASE Where'[p] # Where[p]
  BY <1>1, <1>2, <1>4 DEF P!Next, P!Leave, P!Drop, P!Move
<1> QED BY <1>3, <1>4

LEMMA PresenceStep == TypeOK /\ InWorld /\ [Next]_vars => [P!Next]_Where
<1> SUFFICES ASSUME TypeOK, InWorld, [Next]_vars PROVE [P!Next]_Where
  OBVIOUS
<1>1. UNCHANGED <<online, place>> => UNCHANGED Where
  BY DEF Where
<1>2. CASE BeginSelect \/ EndRead \/ EndSelect \/ EndCleanup \/ UNCHANGED vars
  BY <1>1, <1>2 DEF BeginSelect, EndRead, EndSelect, EndCleanup, vars
<1>3. ASSUME NEW c \in Conn, Accept(c) \/ HangUp(c) \/ BeginRead(c) PROVE UNCHANGED Where
  BY <1>1, <1>3 DEF Accept, HangUp, BeginRead
<1>4. ASSUME NEW a \in Account, Authenticate(a) PROVE UNCHANGED Where
  BY <1>1, <1>4 DEF Authenticate
<1>5. ASSUME NEW c \in Conn, Destroy(c) PROVE [P!Next]_Where
  <2>1. CASE player[c] \in online
    <3>1. player[c] \in Player /\ place[player[c]] = "world" /\ LogOut(player[c])
      BY <1>5, <2>1 DEF Destroy, TypeOK, InWorld
    <3> QED BY <3>1, LeavesOrDrops
  <2>2. CASE player[c] \notin online
    BY <1>1, <1>5, <2>2 DEF Destroy
  <2> QED BY <2>1, <2>2
<1>6. ASSUME NEW p \in Player, CreateChar(p) \/ SelectChar(p) PROVE [P!Next]_Where
  <2>1. Where' = [Where EXCEPT ![p] = Where'[p]]
    BY <1>6, OneMoves DEF CreateChar, SelectChar, TypeOK
  <2>2. Where'[p] = "online"
    BY <1>6, WhereNext DEF CreateChar, SelectChar, TypeOK
  <2>3. Where[p] \in {"unborn", "lingering", "away", "online"}
    <3>1. CreateChar(p) => place[p] = "none"
      BY DEF CreateChar
    <3>2. SelectChar(p) => place[p] \in {"world", "archive"}
      BY DEF SelectChar, CollectByAccountID, Archived, InWorld
    <3> QED BY <1>6, <3>1, <3>2, WhereValue
  <2>4. CASE Where[p] = "online"
    <3>1. Where = [Where EXCEPT ![p] = Where[p]]
      BY DEF Where
    <3> QED BY <2>1, <2>2, <2>4, <3>1
  <2>5. CASE Where[p] # "online"
    BY <2>1, <2>2, <2>3, <2>5 DEF P!Next, P!Enter, P!Move
  <2> QED BY <2>4, <2>5
<1>7. ASSUME NEW p \in Player, DelChar(p) PROVE [P!Next]_Where
  <2>1. CASE place[p] = "archive"
    <3>1. Where' = [Where EXCEPT ![p] = Where'[p]]
      BY <1>7, OneMoves DEF DelChar, TypeOK
    <3>2. Where[p] = "away" /\ Where'[p] = "erased"
      BY <1>7, <2>1, WhereValue, WhereNext DEF DelChar, TypeOK
    <3> QED BY <3>1, <3>2 DEF P!Next, P!Erase, P!Move
  <2>2. CASE place[p] # "archive"
    <3>1. UNCHANGED <<online, place>>
      BY <1>7, <2>2 DEF DelChar, TypeOK
    <3> QED BY <1>1, <3>1
  <2> QED BY <2>1, <2>2
<1>8. ASSUME NEW p \in Player, ScriptLogOut(p) PROVE [P!Next]_Where
  BY <1>8, LeavesOrDrops DEF ScriptLogOut
<1>9. ASSUME NEW p \in Player, IdleDisconnect(p) PROVE [P!Next]_Where
  <2>1. Where' = [Where EXCEPT ![p] = Where'[p]]
    BY <1>9, OneMoves DEF IdleDisconnect, TypeOK
  <2>2. Where[p] = "lingering" /\ Where'[p] = "away"
    BY <1>9, WhereValue, WhereNext DEF IdleDisconnect, IdleExempt, TypeOK
  <2> QED BY <2>1, <2>2 DEF P!Next, P!Leave, P!Move
<1> QED BY <1>2, <1>3, <1>4, <1>5, <1>6, <1>7, <1>8, <1>9 DEF Next, Loop, Clients

(* Whatever clients, scripts and the loop do, two characters selected on   *)
(* one connection included, a character moves only as Presence allows: it  *)
(* enters the world from a body or the archive, is archived only once it   *)
(* is out of the player list, and is erased only out of the archive        *)
(* (packet_handler.c:1722, usersock.c:397, player.c:2168).  That a body    *)
(* also leaves in the end is liveness, and is checked, not proved.         *)
THEOREM PresenceKept == Spec => P!Spec
<1>1. Init => TypeOK /\ InWorld /\ P!Init
  BY TypeInit DEF Init, InWorld, P!Init, Where
<1>2. TypeOK /\ InWorld /\ [Next]_vars => (TypeOK /\ InWorld)'
  BY TypeStep, InWorldStep
<1> QED BY <1>1, <1>2, PresenceStep, PTL DEF Spec, P!Spec
=============================================================================
