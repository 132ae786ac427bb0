------------------------------- MODULE Trade -------------------------------
(***************************************************************************)
(* Secure trading (src/trade.c and the handlers that reach it): dropping   *)
(* an item on another player opens a trade, a pair of boxes with an accept *)
(* flag each.  Every change of a box clears both flags; the second accept  *)
(* swaps the boxes; a cancel, a log-out, a death or a step out of reach    *)
(* gives every item back.                                                  *)
(*                                                                         *)
(* Abstractions: an item is whole (no stacks, so a merge or a split is the *)
(* removal or insertion it performs); a pack either holds what it is given *)
(* or lets it fall to the ground; whether a script lets a player reach     *)
(* into another's box is a free choice; a dead player is one whose drops   *)
(* bounce.  A box deleted by a game master is not modelled.                *)
(***************************************************************************)
EXTENDS Naturals, FiniteSets

CONSTANTS
    Player, Item,
    Ground,     \* no player: an item on the map or in a corpse
    Settled,    \* no box and no hand: the item lies where home says
    NoTrade,    \* the party of a trade that is not open
    Trade,      \* identities of CTradeSession objects
    MaxSpot,    \* bound: players stand on spots 0..MaxSpot
    Reach,      \* the distance (2 tiles in the code) beyond which a trade closes
    Crashes     \* whether the server may crash and restart

ASSUME Distinct == /\ Ground \notin Player /\ NoTrade \notin Player \X Player
                   /\ Settled \notin Player \cup (Trade \X {1, 2})
                   /\ Player \cap (Trade \X {1, 2}) = {}
ASSUME Bounds == MaxSpot \in Nat /\ Reach \in Nat /\ Crashes \in BOOLEAN

VARIABLES
    online,  \* PlayerIsOnline
    here,    \* players in the world (the others are archived)
    pos,     \* where each player stands
    home,    \* where an item last lay: its tracking, while it is in a hand or a box
    loc,     \* Settled, the player holding it in equipment[0], or its trade box
    party,   \* <<player1, player2>> of the trades on g_TradeSessionList
    acc,     \* <<accept1, accept2>> of a trade
    saved    \* the world file: home, loc and pos at the last save

people == <<online, here, pos>>
deals == <<party, acc>>
vars == <<online, here, pos, home, loc, party, acc, saved>>

Side == {1, 2}
Box == Trade \X Side
Other(k) == 3 - k
NoAccept == <<FALSE, FALSE>>

open == {t \in Trade : party[t] # NoTrade}

Distance(a, b) == IF a < b THEN b - a ELSE a - b
Near(p, q) == Distance(pos[p], pos[q]) <= Reach

Contents(t, k) == {i \in Item : loc[i] = <<t, k>>}
MutOffered(t) == Contents(t, 1)
Offered(t) == Contents(t, 1) \cup Contents(t, 2)
Held(p) == {i \in Item : loc[i] = p}

Snapshot == [home |-> home, loc |-> loc, pos |-> pos]

TypeOK ==
    /\ online \subseteq here /\ here \subseteq Player
    /\ pos \in [Player -> 0..MaxSpot]
    /\ home \in [Item -> Player \cup {Ground}]
    /\ loc \in [Item -> {Settled} \cup Player \cup Box]
    /\ party \in [Trade -> (Player \X Player) \cup {NoTrade}]
    /\ acc \in [Trade -> BOOLEAN \X BOOLEAN]
    /\ saved \in [home : [Item -> Player \cup {Ground}],
                  loc : [Item -> {Settled} \cup Player \cup Box],
                  pos : [Player -> 0..MaxSpot]]

Init ==
    /\ online = {} /\ here = {}
    /\ pos = [p \in Player |-> 0]
    /\ home = [i \in Item |-> Ground]
    /\ loc = [i \in Item |-> Settled]
    /\ party = [t \in Trade |-> NoTrade]
    /\ acc = [t \in Trade |-> NoAccept]
    /\ saved = Snapshot

-----------------------------------------------------------------------------
(* What the handlers share.                                                *)

\* The trade of an item's box, as SetTradeAcceptState(s, 0, 0) is called for it.
SecuredTrade(i) == {t \in open : i \in Offered(t)}
MutCleared(T) == acc
Cleared(T) == [t \in Trade |-> IF t \in T THEN NoAccept ELSE acc[t]]

MutTradesOf(p) == {t \in open : party[t][1] = p}
TradesOf(p) == {t \in open : p \in {party[t][1], party[t][2]}}

\* CTradeSession_FindOrCreateSession matches player1 and player2 in order.
FindSession(p1, p2) == {t \in open : party[t] = <<p1, p2>>}

\* Emptying the boxes of trades T: every item goes to the pack of its side's
\* player (of the other side's, in a swap), or to the ground if it is in full.
Boxed(T) == {i \in Item : \E t \in T : i \in Offered(t)}
Receiver(i, swap) == party[loc[i][1]][IF swap THEN Other(loc[i][2]) ELSE loc[i][2]]
Emptied(T, swap, full) ==
    [i \in Item |-> IF i \notin Boxed(T) THEN home[i]
                    ELSE IF i \in full THEN Ground ELSE Receiver(i, swap)]
Laid(I) == [i \in Item |-> IF i \in I THEN Settled ELSE loc[i]]

ReturnItems(T, full) == home' = Emptied(T, FALSE, full) /\ loc' = Laid(Boxed(T))
MoveItems(t, full) == home' = Emptied({t}, TRUE, full) /\ loc' = Laid(Boxed({t}))

MutCloseTrade(T) == UNCHANGED <<party, acc>>
CloseTrade(T) ==
    /\ party' = [t \in Trade |-> IF t \in T THEN NoTrade ELSE party[t]]
    /\ acc' = [t \in Trade |-> IF t \in T THEN NoAccept ELSE acc[t]]

\* Player p's trades are called off and what p holds is put down.
LetGo(p, full, dropped) ==
    [i \in Item |-> IF i \in Held(p) THEN dropped ELSE Emptied(TradesOf(p), FALSE, full)[i]]

-----------------------------------------------------------------------------
(* Packets.                                                                *)

\* HandlePacket_REQ_GETOBJ: what is already on the cursor goes back to where
\* it lay (or falls if that place is gone); the new item is lifted from a
\* pack, the ground or a trade box, its own or, if scripts allow, another's.
Reaches(p, i) ==
    IF loc[i] = Settled THEN home[i] = Ground \/ (home[i] \in here /\ Near(p, home[i]))
    ELSE \E t \in open, k \in Side : loc[i] = <<t, k>> /\ Near(p, party[t][k])

PutBack(p, i) == loc[i] = p

\* CItem_ReturnToTracked finds the pack an item came from only while its
\* owner is in the world.
Returnable(i) == home[i] \in here \cup {Ground}

PickUp(p, i) ==
    /\ p \in online
    /\ Reaches(p, i)
    /\ \E lost \in BOOLEAN :
        /\ lost \/ \A j \in Held(p) : Returnable(j)
        /\ home' = [j \in Item |-> IF PutBack(p, j) /\ lost THEN Ground ELSE home[j]]
    /\ loc' = [j \in Item |-> CASE j = i -> p
                                [] PutBack(p, j) -> Settled
                                [] OTHER -> loc[j]]
    /\ acc' = Cleared(SecuredTrade(i))
    /\ UNCHANGED <<people, party, saved>>

\* HandlePacket_REQ_DROPOBJ onto another player: the item goes into the
\* dropper's box of the trade with player1 the receiver, opened if need be.
FreeTrade == {t \in Trade \ open : Offered(t) = {}}

DropOnPlayer(p, q, i) ==
    /\ p \in online /\ q \in here /\ p # q /\ loc[i] = p /\ Near(p, q)
    /\ \/ \E t \in FindSession(q, p) :
            /\ loc' = [loc EXCEPT ![i] = <<t, 2>>]
            /\ acc' = Cleared({t})
            /\ UNCHANGED party
       \/ /\ FindSession(q, p) = {}
          /\ \E t \in FreeTrade :
               /\ party' = [party EXCEPT ![t] = <<q, p>>]
               /\ loc' = [loc EXCEPT ![i] = <<t, 2>>]
               /\ acc' = Cleared({t})
    /\ UNCHANGED <<people, home, saved>>

\* Onto a trade box: the dropper's own, or another's within reach if a script
\* lets it.
DropInBox(p, t, k, i) ==
    /\ p \in online /\ t \in open /\ loc[i] = p /\ Near(p, party[t][k])
    /\ loc' = [loc EXCEPT ![i] = <<t, k>>]
    /\ acc' = Cleared({t})
    /\ UNCHANGED <<people, home, party, saved>>

\* Into the own pack or on the ground; or refused, and the item bounces back.
DropElsewhere(p, i) ==
    /\ p \in online /\ loc[i] = p
    /\ \/ \E h \in {p, Ground} : home' = [home EXCEPT ![i] = h]
       \/ Returnable(i) /\ UNCHANGED home
    /\ loc' = [loc EXCEPT ![i] = Settled]
    /\ UNCHANGED <<people, deals, saved>>

\* HandlePacket_TRADE, subtype 2: a party sets or clears its flag, and the
\* second accept swaps the boxes.
MutBothAccept(a) == a[1] \/ a[2]
BothAccept(a) == a[1] /\ a[2]

Accept(p, t, k, v) ==
    /\ p \in online /\ t \in open
    /\ party[t][k] = p /\ (k = 2 => party[t][1] # p)
    /\ LET a == [acc[t] EXCEPT ![k] = v]
       IN \/ /\ ~BothAccept(a)
             /\ acc' = [acc EXCEPT ![t] = a]
             /\ UNCHANGED <<home, loc, party>>
          \/ /\ BothAccept(a)
             /\ \E full \in SUBSET Offered(t) : MoveItems(t, full)
             /\ CloseTrade({t})
    /\ UNCHANGED <<people, saved>>

\* Subtype 1: the trade is found by a box's serial; who asks is not looked at.
Cancel(p, t) ==
    /\ p \in online /\ t \in open
    /\ \E full \in SUBSET Offered(t) : ReturnItems({t}, full)
    /\ CloseTrade({t})
    /\ UNCHANGED <<people, saved>>

\* DoMove: after a step every trade of the walker out of reach is closed.
TooFar(p, t) == Distance(pos'[party[t][1]], pos'[party[t][2]]) > Reach

Step(p, s) ==
    /\ p \in online /\ s \in 0..MaxSpot /\ Distance(pos[p], s) = 1
    /\ pos' = [pos EXCEPT ![p] = s]
    /\ LET T == {t \in TradesOf(p) : TooFar(p, t)}
       IN /\ \E full \in SUBSET Boxed(T) : ReturnItems(T, full)
          /\ CloseTrade(T)
    /\ UNCHANGED <<online, here, saved>>

\* CItem_TransferTo hides a player and drops it elsewhere (a spell, a script, a
\* boat under way), and hiding a player (CPlayer_HideVT) cancels its trades.
Teleport(p, s) ==
    /\ p \in here /\ s \in 0..MaxSpot
    /\ pos' = [pos EXCEPT ![p] = s]
    /\ \E full \in SUBSET Boxed(TradesOf(p)) : ReturnItems(TradesOf(p), full)
    /\ CloseTrade(TradesOf(p))
    /\ UNCHANGED <<online, here, saved>>

\* CPlayer_OnDeath: the held item falls or goes back to a locked container,
\* trades are cancelled, and what is then in the pack may end in the corpse
\* (or, returned from a box to a full pack, on the ground).
Die(p) ==
    /\ p \in here
    /\ loc' = Laid(Held(p) \cup Boxed(TradesOf(p)))
    /\ \E dropped \in {p, Ground}, looted \in SUBSET Item :
         LET now == LetGo(p, {}, dropped)
         IN home' = [i \in Item |->
                      IF i \in looted /\ now[i] = p /\ loc'[i] = Settled THEN Ground ELSE now[i]]
    /\ CloseTrade(TradesOf(p))
    /\ UNCHANGED <<people, saved>>

-----------------------------------------------------------------------------
(* Presence, the save and a crash.                                         *)

Connect(p) ==
    /\ p \notin online
    /\ online' = online \cup {p}
    /\ here' = here \cup {p}
    /\ UNCHANGED <<pos, home, loc, deals, saved>>

MutOffline(p) == online
Offline(p) == online \ {p}

\* CPlayer_LogOut, at once or leaving the body in the world.
LogOut(p) ==
    /\ p \in online
    /\ online' = Offline(p)
    /\ here' \in {here, here \ {p}}
    /\ \E dropped \in {p, Ground}, full \in SUBSET Boxed(TradesOf(p)) :
         home' = LetGo(p, full, dropped)
    /\ loc' = Laid(Held(p) \cup Boxed(TradesOf(p)))
    /\ CloseTrade(TradesOf(p))
    /\ UNCHANGED <<pos, saved>>

\* The idle disconnect takes the body: CPlayer_HideVT cancels its trades.
Disconnect(p) ==
    /\ p \in here \ online
    /\ here' = here \ {p}
    /\ \E full \in SUBSET Boxed(TradesOf(p)) : ReturnItems(TradesOf(p), full)
    /\ CloseTrade(TradesOf(p))
    /\ UNCHANGED <<online, pos, saved>>

\* SaveDynamic0 writes the boxes among their players' contents, and no trade.
SaveWorld ==
    /\ Crashes
    /\ saved' = Snapshot
    /\ UNCHANGED <<people, home, loc, deals>>

Restart ==
    /\ Crashes
    /\ home' = saved.home /\ loc' = saved.loc /\ pos' = saved.pos
    /\ online' = {} /\ here' = {}
    /\ CloseTrade(open)
    /\ UNCHANGED saved

Next ==
    \/ \E p \in Player :
         \/ Connect(p) \/ LogOut(p) \/ Disconnect(p) \/ Die(p)
         \/ \E i \in Item :
              \/ PickUp(p, i) \/ DropElsewhere(p, i)
              \/ \E q \in Player : DropOnPlayer(p, q, i)
              \/ \E t \in Trade, k \in Side : DropInBox(p, t, k, i)
         \/ \E t \in Trade :
              \/ Cancel(p, t)
              \/ \E k \in Side, v \in BOOLEAN : Accept(p, t, k, v)
         \/ \E s \in 0..MaxSpot : Step(p, s) \/ Teleport(p, s)
    \/ SaveWorld \/ Restart

Spec == Init /\ [][Next]_vars

-----------------------------------------------------------------------------
(* Properties.                                                             *)

\* Both players of an open trade are in the world and in reach of each other:
\* log-outs, disconnects and steps close every trade they affect, whichever
\* side of it the player is on (CPlayer_CancelTrade, DoMove).
TradersTogether ==
    \A t \in open : /\ party[t][1] \in here /\ party[t][2] \in here
                    /\ party[t][1] # party[t][2]
                    /\ Near(party[t][1], party[t][2])

\* FindOrCreateSession never opens a second trade for the same giver and
\* receiver, so a found trade is the only one.
OneTradePerPair ==
    \A t, u \in open : party[t] = party[u] => t = u

\* A hand holds one item: GETOBJ puts back what was on the cursor.
OneInHand == \A p \in Player : Cardinality(Held(p)) <= 1

\* Open trades and held items are what the handlers take them for.
TradesSound == TradersTogether /\ OneTradePerPair /\ OneInHand

\* A flag never outlives the contents it was given for: any step that changes
\* what lies in an open trade leaves both flags clear (SetTradeAcceptState
\* (s, 0, 0) in AddToContainer and Hide).
ChangeClears ==
    \A t \in open :
        (party'[t] = party[t] /\ \E k \in Side : Contents(t, k)' # Contents(t, k))
        => acc'[t] = NoAccept

AcceptIsForContents == [][ChangeClears]_vars

\* An item passes from one side's box to the other side's pack only when the
\* other side had already accepted these very contents, and then everything
\* in both boxes changes sides together.
PassesOver(i, t, k) == loc'[i] = Settled /\ home'[i] = party[t][Other(k)] /\ ~Restart

SwapsWhole ==
    \A t \in open, k \in Side : \A i \in Contents(t, k) :
        PassesOver(i, t, k) =>
            /\ acc[t][1] \/ acc[t][2]
            /\ \A j \in Side : \A x \in Contents(t, j) :
                 loc'[x] = Settled /\ home'[x] \in {party[t][Other(j)], Ground}

SwapIsAgreedAndWhole == [][SwapsWhole]_vars

\* src/trade.c:5 "the trade commits only when both sides check their box,
\* otherwise every item is returned to its original owner": no item lies in
\* the box of a trade that is over.
NothingLeftInBox ==
    \A i \in Item : loc[i] \in Box => loc[i][1] \in open
=============================================================================
