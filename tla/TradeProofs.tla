---------------------------- MODULE TradeProofs ----------------------------
(* Proofs about Trade, for any players, items, trades and distances.       *)
EXTENDS Trade, FiniteSetTheorems, TLAPS

\* The record of a save has the types of the state it was taken from.
LEMMA BoxFacts ==
    ASSUME TypeOK, NEW i \in Item, NEW t \in Trade, i \in Offered(t)
    PROVE  /\ loc[i] \in Box /\ loc[i][1] = t /\ loc[i][2] \in Side
           /\ loc[i] \notin Player /\ loc[i] # Settled
<1>1. PICK k \in Side : loc[i] = <<t, k>>
  BY DEF Offered, Contents, Side
<1> QED BY <1>1, Distinct DEF Box, Side

\* Emptying the boxes of open trades gives every item a home.
LEMMA EmptiedType ==
    ASSUME TypeOK, NEW T \in SUBSET open, NEW swap \in BOOLEAN, NEW full
    PROVE  Emptied(T, swap, full) \in [Item -> Player \cup {Ground}]
<1> SUFFICES ASSUME NEW i \in Item, i \in Boxed(T), i \notin full
             PROVE  Receiver(i, swap) \in Player
  BY DEF Emptied, TypeOK
<1>1. PICK t \in T : i \in Offered(t)
  BY DEF Boxed
<1>2. t \in Trade /\ party[t] \in Player \X Player
  BY DEF open, TypeOK
<1>3. loc[i][1] = t /\ loc[i][2] \in {1, 2}
  BY <1>1, <1>2, BoxFacts DEF Side
<1>4. (IF swap THEN Other(loc[i][2]) ELSE loc[i][2]) \in {1, 2}
  BY <1>3 DEF Other
<1> QED BY <1>2, <1>3, <1>4 DEF Receiver

LEMMA LaidType ==
    ASSUME TypeOK, NEW I
    PROVE  Laid(I) \in [Item -> {Settled} \cup Player \cup Box]
BY DEF Laid, TypeOK

LEMMA CloseType ==
    ASSUME TypeOK, NEW T, CloseTrade(T)
    PROVE  /\ party' \in [Trade -> (Player \X Player) \cup {NoTrade}]
           /\ acc' \in [Trade -> BOOLEAN \X BOOLEAN]
BY DEF CloseTrade, TypeOK, NoAccept

LEMMA TradesAreOpen ==
    ASSUME NEW p PROVE TradesOf(p) \in SUBSET open
BY DEF TradesOf

LEMMA LetGoType ==
    ASSUME TypeOK, NEW p \in Player, NEW full, NEW dropped \in {p, Ground}
    PROVE  LetGo(p, full, dropped) \in [Item -> Player \cup {Ground}]
<1>1. Emptied(TradesOf(p), FALSE, full) \in [Item -> Player \cup {Ground}]
  BY EmptiedType, TradesAreOpen
<1> QED BY <1>1 DEF LetGo

LEMMA ClearedType ==
    ASSUME TypeOK, NEW T PROVE Cleared(T) \in [Trade -> BOOLEAN \X BOOLEAN]
BY DEF Cleared, NoAccept, TypeOK

LEMMA TypeInit == Init => TypeOK
<1> SUFFICES ASSUME Init PROVE TypeOK
  OBVIOUS
<1>1. /\ pos \in [Player -> 0..MaxSpot]
      /\ home \in [Item -> Player \cup {Ground}]
      /\ loc \in [Item -> {Settled} \cup Player \cup Box]
  BY Bounds DEF Init
<1>2. acc \in [Trade -> BOOLEAN \X BOOLEAN]
  BY DEF Init, NoAccept
<1>3. party \in [Trade -> (Player \X Player) \cup {NoTrade}]
  BY DEF Init
<1>4. saved \in [home : [Item -> Player \cup {Ground}],
                loc : [Item -> {Settled} \cup Player \cup Box],
                pos : [Player -> 0..MaxSpot]]
  BY <1>1 DEF Init, Snapshot
<1> QED BY <1>1, <1>2, <1>3, <1>4 DEF Init, TypeOK

LEMMA TypeStep == TypeOK /\ [Next]_vars => TypeOK'
<1> SUFFICES ASSUME TypeOK, [Next]_vars PROVE TypeOK'
  OBVIOUS
<1>1. ASSUME NEW p \in Player, Connect(p) PROVE TypeOK'
  BY <1>1 DEF Connect, TypeOK, deals
<1>2. ASSUME NEW p \in Player, LogOut(p) PROVE TypeOK'
  <2>1. home' \in [Item -> Player \cup {Ground}]
    BY <1>2, LetGoType DEF LogOut
  <2>2. loc' \in [Item -> {Settled} \cup Player \cup Box]
    BY <1>2, LaidType DEF LogOut
  <2>3. CloseTrade(TradesOf(p))
    BY <1>2 DEF LogOut
  <2> QED BY <1>2, <2>1, <2>2, <2>3, CloseType DEF LogOut, Offline, TypeOK
<1>3. ASSUME NEW p \in Player, Disconnect(p) PROVE TypeOK'
  <2>0. PICK full : home' = Emptied(TradesOf(p), FALSE, full)
    BY <1>3 DEF Disconnect, ReturnItems
  <2>1. home' \in [Item -> Player \cup {Ground}]
    BY <2>0, EmptiedType, TradesAreOpen
  <2>2. loc' \in [Item -> {Settled} \cup Player \cup Box]
    BY <1>3, LaidType DEF Disconnect, ReturnItems
  <2>3. CloseTrade(TradesOf(p))
    BY <1>3 DEF Disconnect
  <2> QED BY <1>3, <2>1, <2>2, <2>3, CloseType DEF Disconnect, TypeOK
<1>4. ASSUME NEW p \in Player, Die(p) PROVE TypeOK'
  <2>1. home' \in [Item -> Player \cup {Ground}]
    BY <1>4, LetGoType DEF Die
  <2>2. loc' \in [Item -> {Settled} \cup Player \cup Box]
    BY <1>4, LaidType DEF Die
  <2>3. CloseTrade(TradesOf(p))
    BY <1>4 DEF Die
  <2> QED BY <1>4, <2>1, <2>2, <2>3, CloseType DEF Die, people, TypeOK
<1>5. ASSUME NEW p \in Player, NEW i \in Item, PickUp(p, i) PROVE TypeOK'
  <2>1. acc' \in [Trade -> BOOLEAN \X BOOLEAN]
    BY <1>5, ClearedType DEF PickUp
  <2> QED BY <1>5, <2>1 DEF PickUp, people, TypeOK
<1>6. ASSUME NEW p \in Player, NEW i \in Item, DropElsewhere(p, i) PROVE TypeOK'
  BY <1>6 DEF DropElsewhere, people, deals, TypeOK
<1>7. ASSUME NEW p \in Player, NEW i \in Item, NEW q \in Player, DropOnPlayer(p, q, i)
      PROVE  TypeOK'
  <2>1. PICK t \in Trade : /\ acc' = Cleared({t}) /\ loc' = [loc EXCEPT ![i] = <<t, 2>>]
                           /\ party' \in {party, [party EXCEPT ![t] = <<q, p>>]}
    BY <1>7 DEF DropOnPlayer, FindSession, FreeTrade, open
  <2>2. acc' \in [Trade -> BOOLEAN \X BOOLEAN]
    BY <2>1, ClearedType
  <2>3. loc' \in [Item -> {Settled} \cup Player \cup Box]
    BY <2>1 DEF TypeOK, Box, Side
  <2>4. party' \in [Trade -> (Player \X Player) \cup {NoTrade}]
    BY <2>1 DEF TypeOK
  <2>5. UNCHANGED <<people, home, saved>>
    BY <1>7 DEF DropOnPlayer
  <2> QED BY <2>2, <2>3, <2>4, <2>5 DEF people, TypeOK
<1>8. ASSUME NEW p \in Player, NEW i \in Item, NEW t \in Trade, NEW k \in Side,
             DropInBox(p, t, k, i)
      PROVE  TypeOK'
  <2>1. acc' \in [Trade -> BOOLEAN \X BOOLEAN]
    BY <1>8, ClearedType DEF DropInBox
  <2>2. loc' \in [Item -> {Settled} \cup Player \cup Box]
    BY <1>8 DEF DropInBox, TypeOK, Box
  <2> QED BY <1>8, <2>1, <2>2 DEF DropInBox, people, TypeOK
<1>9. ASSUME NEW p \in Player, NEW t \in Trade, Cancel(p, t) PROVE TypeOK'
  <2>1. {t} \in SUBSET open
    BY <1>9 DEF Cancel
  <2>2. home' \in [Item -> Player \cup {Ground}]
    BY <1>9, <2>1, EmptiedType DEF Cancel, ReturnItems
  <2>3. loc' \in [Item -> {Settled} \cup Player \cup Box]
    BY <1>9, LaidType DEF Cancel, ReturnItems
  <2>4. CloseTrade({t})
    BY <1>9 DEF Cancel
  <2> QED BY <1>9, <2>2, <2>3, <2>4, CloseType DEF Cancel, people, TypeOK
<1>10. ASSUME NEW p \in Player, NEW t \in Trade, NEW k \in Side, NEW v \in BOOLEAN,
              Accept(p, t, k, v)
       PROVE  TypeOK'
  <2> DEFINE a == [acc[t] EXCEPT ![k] = v]
  <2>1. CASE ~BothAccept(a)
    <3>1. a \in BOOLEAN \X BOOLEAN
      <4>1. acc[t] \in BOOLEAN \X BOOLEAN
        BY DEF TypeOK
      <4>2. PICK x \in BOOLEAN, y \in BOOLEAN : acc[t] = <<x, y>>
        BY <4>1
      <4>3. CASE k = 1
        BY <4>2, <4>3
      <4>4. CASE k = 2
        BY <4>2, <4>4
      <4> QED BY <4>3, <4>4 DEF Side
    <3>2. acc' = [acc EXCEPT ![t] = a] /\ UNCHANGED <<home, loc, party>>
      BY <1>10, <2>1 DEF Accept
    <3> HIDE DEF a
    <3> QED BY <1>10, <3>1, <3>2 DEF Accept, people, TypeOK
  <2>2. CASE BothAccept(a)
    <3>1. CloseTrade({t}) /\ \E full \in SUBSET Offered(t) : MoveItems(t, full)
      BY <1>10, <2>2 DEF Accept
    <3>2. {t} \in SUBSET open
      BY <1>10 DEF Accept
    <3>3. home' \in [Item -> Player \cup {Ground}]
      BY ZenonT(60), <3>1, <3>2, EmptiedType DEF MoveItems
    <3>4. loc' \in [Item -> {Settled} \cup Player \cup Box]
      BY <3>1, LaidType DEF MoveItems
    <3> QED BY <1>10, <3>1, <3>3, <3>4, CloseType DEF Accept, people, TypeOK
  <2> QED BY <2>1, <2>2
<1>11. ASSUME NEW p \in Player, NEW s \in 0..MaxSpot, Step(p, s) PROVE TypeOK'
  <2> DEFINE T == {t \in TradesOf(p) : TooFar(p, t)}
  <2>1. T \in SUBSET open
    BY TradesAreOpen
  <2>2. /\ \E full \in SUBSET Boxed(T) : ReturnItems(T, full)
        /\ CloseTrade(T)
    BY <1>11 DEF Step
  <2> HIDE DEF T
  <2>3. home' \in [Item -> Player \cup {Ground}]
    BY <2>1, <2>2, EmptiedType DEF ReturnItems
  <2>4. loc' \in [Item -> {Settled} \cup Player \cup Box]
    BY <2>2, LaidType DEF ReturnItems
  <2> QED BY <1>11, <2>2, <2>3, <2>4, CloseType DEF Step, TypeOK
<1>12. ASSUME NEW p \in Player, NEW s \in 0..MaxSpot, Teleport(p, s) PROVE TypeOK'
  <2>0. PICK full : home' = Emptied(TradesOf(p), FALSE, full)
    BY <1>12 DEF Teleport, ReturnItems
  <2>1. home' \in [Item -> Player \cup {Ground}]
    BY <2>0, EmptiedType, TradesAreOpen
  <2>2. loc' \in [Item -> {Settled} \cup Player \cup Box]
    BY <1>12, LaidType DEF Teleport, ReturnItems
  <2> QED BY <1>12, <2>1, <2>2, CloseType DEF Teleport, TypeOK
<1>13. CASE SaveWorld
  BY <1>13 DEF SaveWorld, Snapshot, people, deals, TypeOK
<1>14. CASE Restart
  BY <1>14, CloseType DEF Restart, TypeOK
<1>15. CASE UNCHANGED vars
  BY <1>15 DEF vars, TypeOK
<1> QED BY <1>1, <1>2, <1>3, <1>4, <1>5, <1>6, <1>7, <1>8, <1>9, <1>10, <1>11, <1>13,
           <1>14, <1>15, <1>12 DEF Next

\* Every state of Trade has its types; in particular an item is always in one
\* place that exists.
THEOREM TypeCorrect == Spec => []TypeOK
<1>1. TypeOK /\ [Next]_vars => TypeOK'
  BY TypeStep
<1> QED BY TypeInit, <1>1, PTL DEF Spec

-----------------------------------------------------------------------------
(* The list of trades.                                                     *)

\* Closing trades leaves the others on the list as they were.
LEMMA CloseOpen ==
    ASSUME NEW T, CloseTrade(T)
    PROVE  open' = open \ T /\ \A t \in open' : party'[t] = party[t]
BY DEF CloseTrade, open

\* A step that only closes trades, and moves nobody, keeps what held of the
\* trades that stay, if the players who left had no other trade.
LEMMA TogetherAfterClose ==
    ASSUME TypeOK, TradersTogether, NEW T, CloseTrade(T), pos' = pos,
           \A t \in open \ T : {party[t][1], party[t][2]} \subseteq here'
    PROVE  TradersTogether'
<1>1. open' = open \ T /\ \A t \in open' : party'[t] = party[t]
  BY CloseOpen
<1> SUFFICES ASSUME NEW t \in open'
             PROVE  /\ party[t][1] \in here' /\ party[t][2] \in here'
                    /\ party[t][1] # party[t][2]
                    /\ Near(party[t][1], party[t][2])'
  BY <1>1 DEF TradersTogether, Near, Distance
<1>2. t \in open \ T
  BY <1>1
<1>3. Near(party[t][1], party[t][2])'
  BY <1>1, <1>2 DEF TradersTogether, Near, Distance
<1> QED BY <1>2, <1>3 DEF TradersTogether

LEMMA TogetherUnchanged ==
    ASSUME TradersTogether, UNCHANGED <<party, pos>>, here \subseteq here'
    PROVE  TradersTogether'
BY DEF TradersTogether, open, Near, Distance

LEMMA TogetherStep == TypeOK /\ TradersTogether /\ [Next]_vars => TradersTogether'
<1> SUFFICES ASSUME TypeOK, TradersTogether, [Next]_vars PROVE TradersTogether'
  OBVIOUS
<1>1. ASSUME NEW p \in Player, Connect(p) PROVE TradersTogether'
  BY <1>1, TogetherUnchanged DEF Connect, deals
<1>2. ASSUME NEW p \in Player, LogOut(p) \/ Disconnect(p) PROVE TradersTogether'
  <2>1. CloseTrade(TradesOf(p)) /\ pos' = pos /\ here \ {p} \subseteq here'
    BY <1>2 DEF LogOut, Disconnect
  <2>2. \A t \in open \ TradesOf(p) : {party[t][1], party[t][2]} \subseteq here \ {p}
    BY DEF TradesOf, TradersTogether
  <2> QED BY <2>1, <2>2, TogetherAfterClose
<1>3. ASSUME NEW p \in Player, Die(p) PROVE TradersTogether'
  <2>1. CloseTrade(TradesOf(p)) /\ pos' = pos /\ here' = here
    BY <1>3 DEF Die, people
  <2> QED BY <2>1, TogetherAfterClose DEF TradersTogether
<1>4. ASSUME NEW p \in Player, NEW i \in Item, PickUp(p, i) \/ DropElsewhere(p, i)
      PROVE  TradersTogether'
  BY <1>4, TogetherUnchanged DEF PickUp, DropElsewhere, people, deals
<1>5. ASSUME NEW p \in Player, NEW i \in Item, NEW q \in Player, DropOnPlayer(p, q, i)
      PROVE  TradersTogether'
  <2>1. UNCHANGED <<here, pos>> /\ p \in here /\ q \in here /\ p # q /\ Near(p, q)
    BY <1>5 DEF DropOnPlayer, people, TypeOK
  <2>2. CASE party' = party
    BY <2>1, <2>2, TogetherUnchanged
  <2>3. ASSUME NEW t \in Trade, party' = [party EXCEPT ![t] = <<q, p>>]
        PROVE  TradersTogether'
    <3>1. Near(q, p)
      BY <2>1 DEF Near, Distance, TypeOK
    <3>2. party'[t] = <<q, p>> /\ \A u \in Trade \ {t} : party'[u] = party[u]
      BY <2>3 DEF TypeOK
    <3> SUFFICES ASSUME NEW u \in open'
                 PROVE  /\ party'[u][1] \in here /\ party'[u][2] \in here
                        /\ party'[u][1] # party'[u][2]
                        /\ Near(party'[u][1], party'[u][2])
      BY <2>1 DEF TradersTogether, Near, Distance
    <3>3. CASE u = t
      BY <2>1, <3>1, <3>2, <3>3
    <3>4. CASE u # t
      BY <3>2, <3>4 DEF open, TradersTogether
    <3> QED BY <3>3, <3>4
  <2> QED BY <1>5, <2>2, <2>3 DEF DropOnPlayer, FreeTrade
<1>6. ASSUME NEW p \in Player, NEW i \in Item, NEW t \in Trade, NEW k \in Side,
             DropInBox(p, t, k, i)
      PROVE  TradersTogether'
  BY <1>6, TogetherUnchanged DEF DropInBox, people
<1>7. ASSUME NEW p \in Player, NEW t \in Trade, Cancel(p, t) PROVE TradersTogether'
  <2>1. CloseTrade({t}) /\ pos' = pos /\ here' = here
    BY <1>7 DEF Cancel, people
  <2> QED BY <2>1, TogetherAfterClose DEF TradersTogether
<1>8. ASSUME NEW p \in Player, NEW t \in Trade, NEW k \in Side, NEW v \in BOOLEAN,
             Accept(p, t, k, v)
      PROVE  TradersTogether'
  <2>1. (CloseTrade({t}) \/ party' = party) /\ pos' = pos /\ here' = here
    BY <1>8 DEF Accept, people
  <2> QED BY <2>1, TogetherAfterClose, TogetherUnchanged DEF TradersTogether
<1>9. ASSUME NEW p \in Player, NEW s \in 0..MaxSpot, Step(p, s) PROVE TradersTogether'
  <2> DEFINE T == {t \in TradesOf(p) : TooFar(p, t)}
  <2>1. CloseTrade(T) /\ pos' = [pos EXCEPT ![p] = s] /\ here' = here
    BY <1>9 DEF Step
  <2>2. open' = open \ T /\ \A t \in open' : party'[t] = party[t]
    BY <2>1, CloseOpen
  <2> SUFFICES ASSUME NEW t \in open'
               PROVE  /\ party[t][1] \in here /\ party[t][2] \in here
                      /\ party[t][1] # party[t][2]
                      /\ Distance(pos'[party[t][1]], pos'[party[t][2]]) <= Reach
    BY <2>1, <2>2 DEF TradersTogether, Near
  <2>3. t \in open \ T
    BY <2>2
  <2>4. /\ party[t][1] \in here /\ party[t][2] \in here /\ party[t][1] # party[t][2]
        /\ Near(party[t][1], party[t][2])
    BY <2>3 DEF TradersTogether
  <2>5. CASE t \in TradesOf(p)
    <3>1. ~TooFar(p, t)
      BY <2>3, <2>5
    <3>2. pos' \in [Player -> 0..MaxSpot] /\ party[t] \in Player \X Player
      BY <2>1, <2>3 DEF TypeOK, open
    <3> QED BY <2>4, <3>1, <3>2, Bounds DEF TooFar, Distance
  <2>6. CASE t \notin TradesOf(p)
    <3>1. party[t][1] # p /\ party[t][2] # p
      BY <2>3, <2>6 DEF TradesOf
    <3>2. pos'[party[t][1]] = pos[party[t][1]] /\ pos'[party[t][2]] = pos[party[t][2]]
      BY <2>1, <2>4, <3>1 DEF TypeOK
    <3> QED BY <2>4, <3>2 DEF Near
  <2> QED BY <2>4, <2>5, <2>6
<1>10. ASSUME NEW p \in Player, NEW s \in 0..MaxSpot, Teleport(p, s) PROVE TradersTogether'
  <2>1. CloseTrade(TradesOf(p)) /\ pos' = [pos EXCEPT ![p] = s] /\ here' = here
    BY <1>10 DEF Teleport
  <2>2. open' = open \ TradesOf(p) /\ \A t \in open' : party'[t] = party[t]
    BY <2>1, CloseOpen
  <2> SUFFICES ASSUME NEW t \in open'
               PROVE  /\ party[t][1] \in here /\ party[t][2] \in here
                      /\ party[t][1] # party[t][2]
                      /\ Distance(pos'[party[t][1]], pos'[party[t][2]]) <= Reach
    BY <2>1, <2>2 DEF TradersTogether, Near
  <2>3. t \in open /\ party[t][1] # p /\ party[t][2] # p
    BY <2>2 DEF TradesOf
  <2>4. /\ party[t][1] \in here /\ party[t][2] \in here /\ party[t][1] # party[t][2]
        /\ Near(party[t][1], party[t][2])
    BY <2>3 DEF TradersTogether
  <2>5. pos'[party[t][1]] = pos[party[t][1]] /\ pos'[party[t][2]] = pos[party[t][2]]
    BY <2>1, <2>3, <2>4 DEF TypeOK
  <2> QED BY <2>4, <2>5 DEF Near
<1>11. CASE SaveWorld
  BY <1>11, TogetherUnchanged DEF SaveWorld, people, deals
<1>12. CASE Restart
  <2>1. open' = {}
    BY <1>12, CloseOpen DEF Restart
  <2> QED BY <2>1 DEF TradersTogether
<1>13. CASE UNCHANGED vars
  BY <1>13, TogetherUnchanged DEF vars
<1> QED BY <1>1, <1>2, <1>3, <1>4, <1>5, <1>6, <1>7, <1>8, <1>9, <1>11, <1>12, <1>13,
           <1>10 DEF Next

\* Both sides of an open trade are two players in the world and in reach of
\* each other, whatever log-outs, disconnects, deaths and steps happen.
THEOREM TradersAreTogether == Spec => []TradersTogether
<1>1. Init => TypeOK /\ TradersTogether
  BY TypeInit DEF Init, TradersTogether, open
<1>2. TypeOK /\ TradersTogether /\ [Next]_vars => (TypeOK /\ TradersTogether)'
  BY TypeStep, TogetherStep
<1> QED BY <1>1, <1>2, PTL DEF Spec

-----------------------------------------------------------------------------
(* What a step can do to boxes, hands and trades.                          *)

\* Trades T close, their boxes and the items H out of hands are laid down.
Closing(T, H) ==
    /\ T \subseteq open /\ \A i \in H : loc[i] \in Player
    /\ CloseTrade(T)
    /\ loc' = Laid(H \cup Boxed(T))
    /\ saved' = saved

GivenBack(T) == \A i \in Boxed(T) : home'[i] \in {Receiver(i, FALSE), Ground}

Swapped(t) ==
    /\ acc[t][1] \/ acc[t][2]
    /\ \A i \in Boxed({t}) : home'[i] \in {Receiver(i, TRUE), Ground}

StepKind ==
    \/ \E T, H : Closing(T, H) /\ GivenBack(T)
    \/ \E t \in open : Closing({t}, {}) /\ Swapped(t)
    \/ \E p \in Player, i \in Item : PickUp(p, i)
    \/ \E p \in Player, i \in Item : DropElsewhere(p, i)
    \/ \E p \in Player, q \in Player, i \in Item : DropOnPlayer(p, q, i)
    \/ \E p \in Player, t \in Trade, k \in Side, i \in Item : DropInBox(p, t, k, i)
    \/ UNCHANGED <<loc, party, saved>>
    \/ SaveWorld
    \/ Restart

LEMMA BoxedFacts ==
    ASSUME TypeOK, NEW T, T \subseteq open, NEW i \in Boxed(T)
    PROVE  /\ i \in Item /\ loc[i] \in Box /\ loc[i] \notin Player
           /\ loc[i][1] \in T /\ i \in Contents(loc[i][1], loc[i][2])
<1>1. PICK t \in T : i \in Offered(t)
  BY DEF Boxed
<1>2. t \in Trade /\ i \in Item
  BY <1>1 DEF open, Boxed
<1>3. PICK k \in Side : loc[i] = <<t, k>>
  BY <1>1 DEF Offered, Contents, Side
<1> QED BY <1>1, <1>2, <1>3, BoxFacts DEF Contents

\* What a log-out or a death leaves of an item that was in a box.
LEMMA LetGoBoxed ==
    ASSUME TypeOK, NEW p \in Player, NEW full, NEW dropped, NEW i \in Boxed(TradesOf(p))
    PROVE  LetGo(p, full, dropped)[i] \in {Receiver(i, FALSE), Ground}
<1>1. i \in Item /\ i \notin Held(p)
  BY BoxedFacts, TradesAreOpen DEF Held
<1> QED BY <1>1 DEF LetGo, Emptied

LEMMA EmptiedBoxed ==
    ASSUME TypeOK, NEW T \in SUBSET open, NEW swap, NEW full, NEW i \in Boxed(T)
    PROVE  Emptied(T, swap, full)[i] \in {Receiver(i, swap), Ground}
BY BoxedFacts DEF Emptied

LEMMA StepKinds == TypeOK /\ [Next]_vars => StepKind
<1> SUFFICES ASSUME TypeOK, [Next]_vars PROVE StepKind
  OBVIOUS
<1>1. ASSUME NEW p \in Player, Connect(p) PROVE StepKind
  BY <1>1 DEF Connect, deals, StepKind
<1>2. ASSUME NEW p \in Player, LogOut(p) PROVE StepKind
  <2>1. Closing(TradesOf(p), Held(p))
    BY <1>2, TradesAreOpen DEF Closing, LogOut, Held
  <2>2. GivenBack(TradesOf(p))
    BY <1>2, LetGoBoxed DEF GivenBack, LogOut
  <2> QED BY <2>1, <2>2 DEF StepKind
<1>3. ASSUME NEW p \in Player, Disconnect(p) PROVE StepKind
  <2>1. Closing(TradesOf(p), {})
    BY <1>3, TradesAreOpen DEF Closing, Disconnect, ReturnItems
  <2>2. GivenBack(TradesOf(p))
    BY <1>3, EmptiedBoxed, TradesAreOpen DEF GivenBack, Disconnect, ReturnItems
  <2> QED BY <2>1, <2>2 DEF StepKind
<1>4. ASSUME NEW p \in Player, Die(p) PROVE StepKind
  <2>1. Closing(TradesOf(p), Held(p))
    BY <1>4, TradesAreOpen DEF Closing, Die, Held
  <2>2. ASSUME NEW i \in Boxed(TradesOf(p))
        PROVE  home'[i] \in {Receiver(i, FALSE), Ground}
    <3>1. i \in Item
      BY BoxedFacts, TradesAreOpen
    <3>2. PICK dropped \in {p, Ground} : home'[i] \in {LetGo(p, {}, dropped)[i], Ground}
      BY <1>4, <3>1 DEF Die
    <3> QED BY <3>2, LetGoBoxed
  <2> QED BY <2>1, <2>2 DEF StepKind, GivenBack
<1>5. ASSUME NEW p \in Player, NEW i \in Item, PickUp(p, i) PROVE StepKind
  BY <1>5 DEF StepKind
<1>6. ASSUME NEW p \in Player, NEW i \in Item, DropElsewhere(p, i) PROVE StepKind
  BY <1>6 DEF StepKind
<1>7. ASSUME NEW p \in Player, NEW i \in Item, NEW q \in Player, DropOnPlayer(p, q, i)
      PROVE  StepKind
  BY <1>7 DEF StepKind
<1>8. ASSUME NEW p \in Player, NEW i \in Item, NEW t \in Trade, NEW k \in Side,
             DropInBox(p, t, k, i)
      PROVE  StepKind
  BY <1>8 DEF StepKind
<1>9. ASSUME NEW p \in Player, NEW t \in Trade, Cancel(p, t) PROVE StepKind
  <2>1. {t} \in SUBSET open
    BY <1>9 DEF Cancel
  <2>2. Closing({t}, {})
    BY <1>9, <2>1 DEF Closing, Cancel, ReturnItems
  <2>3. GivenBack({t})
    BY <1>9, <2>1, EmptiedBoxed DEF GivenBack, Cancel, ReturnItems
  <2> QED BY <2>2, <2>3 DEF StepKind
<1>10. ASSUME NEW p \in Player, NEW t \in Trade, NEW k \in Side, NEW v \in BOOLEAN,
              Accept(p, t, k, v)
       PROVE  StepKind
  <2> DEFINE a == [acc[t] EXCEPT ![k] = v]
  <2>1. CASE ~BothAccept(a)
    BY <1>10, <2>1 DEF Accept, StepKind
  <2>2. CASE BothAccept(a)
    <3>1. t \in open /\ {t} \in SUBSET open
      BY <1>10 DEF Accept
    <3>2. CloseTrade({t}) /\ (\E full : MoveItems(t, full)) /\ saved' = saved
      BY <1>10, <2>2 DEF Accept
    <3>3. acc[t][1] \/ acc[t][2]
      <4>1. PICK x \in BOOLEAN, y \in BOOLEAN : acc[t] = <<x, y>>
        BY <3>1 DEF TypeOK, open
      <4>2. CASE k = 1
        BY <2>2, <4>1, <4>2 DEF BothAccept
      <4>3. CASE k = 2
        BY <2>2, <4>1, <4>3 DEF BothAccept
      <4> QED BY <4>2, <4>3 DEF Side
    <3>4. Closing({t}, {})
      BY <3>1, <3>2 DEF Closing, MoveItems
    <3>5. Swapped(t)
      BY <3>1, <3>2, <3>3, EmptiedBoxed DEF Swapped, MoveItems
    <3> QED BY <3>1, <3>4, <3>5 DEF StepKind
  <2> QED BY <2>1, <2>2
<1>11. ASSUME NEW p \in Player, NEW s \in 0..MaxSpot, Step(p, s) PROVE StepKind
  <2> DEFINE T == {t \in TradesOf(p) : TooFar(p, t)}
  <2>1. T \in SUBSET open
    BY TradesAreOpen
  <2>2. (\E full : ReturnItems(T, full)) /\ CloseTrade(T) /\ saved' = saved
    BY <1>11 DEF Step
  <2> HIDE DEF T
  <2>3. Closing(T, {})
    BY <2>1, <2>2 DEF Closing, ReturnItems
  <2>4. GivenBack(T)
    BY <2>1, <2>2, EmptiedBoxed DEF GivenBack, ReturnItems
  <2> QED BY <2>3, <2>4 DEF StepKind
<1>12. ASSUME NEW p \in Player, NEW s \in 0..MaxSpot, Teleport(p, s) PROVE StepKind
  <2>1. Closing(TradesOf(p), {})
    BY <1>12, TradesAreOpen DEF Closing, Teleport, ReturnItems
  <2>2. GivenBack(TradesOf(p))
    BY <1>12, EmptiedBoxed, TradesAreOpen DEF GivenBack, Teleport, ReturnItems
  <2> QED BY <2>1, <2>2 DEF StepKind
<1>13. CASE SaveWorld
  BY <1>13 DEF StepKind
<1>14. CASE Restart
  BY <1>14 DEF StepKind
<1>15. CASE UNCHANGED vars
  BY <1>15 DEF vars, StepKind
<1> QED BY <1>1, <1>2, <1>3, <1>4, <1>5, <1>6, <1>7, <1>8, <1>9, <1>10, <1>11, <1>13,
           <1>14, <1>15, <1>12 DEF Next

-----------------------------------------------------------------------------
(* Safety.                                                                 *)

\* A step adds a trade only where FindOrCreateSession found none.
LEMMA PairStep == TypeOK /\ OneTradePerPair /\ [Next]_vars => OneTradePerPair'
<1> SUFFICES ASSUME TypeOK, OneTradePerPair, StepKind PROVE OneTradePerPair'
  BY StepKinds
<1>1. ASSUME party' = party PROVE OneTradePerPair'
  BY <1>1 DEF OneTradePerPair, open
<1>2. ASSUME NEW T, CloseTrade(T) PROVE OneTradePerPair'
  BY <1>2, CloseOpen DEF OneTradePerPair
<1>3. ASSUME NEW p \in Player, NEW q \in Player, NEW i \in Item, DropOnPlayer(p, q, i)
      PROVE  OneTradePerPair'
  <2>1. ASSUME FindSession(q, p) = {}, NEW t \in Trade, party' = [party EXCEPT ![t] = <<q, p>>]
        PROVE  OneTradePerPair'
    <3>1. party'[t] = <<q, p>> /\ \A u \in Trade \ {t} : party'[u] = party[u]
      BY <2>1 DEF TypeOK
    <3>2. \A u \in open : party[u] # <<q, p>>
      BY <2>1 DEF FindSession
    <3>3. \A u \in open' : u # t => u \in open /\ party'[u] = party[u] /\ party'[u] # <<q, p>>
      BY <3>1, <3>2 DEF open
    <3> QED BY <3>1, <3>3 DEF OneTradePerPair
  <2> QED BY <1>1, <1>3, <2>1 DEF DropOnPlayer, FreeTrade
<1>4. ASSUME NEW T, NEW H, Closing(T, H) PROVE OneTradePerPair'
  BY <1>2, <1>4 DEF Closing
<1>5. ASSUME NEW p \in Player, NEW i \in Item, PickUp(p, i) PROVE OneTradePerPair'
  BY <1>1, <1>5 DEF PickUp
<1>6. ASSUME NEW p \in Player, NEW i \in Item, DropElsewhere(p, i) PROVE OneTradePerPair'
  BY <1>1, <1>6 DEF DropElsewhere, deals
<1>7. ASSUME NEW p \in Player, NEW t \in Trade, NEW k \in Side, NEW i \in Item,
             DropInBox(p, t, k, i)
      PROVE  OneTradePerPair'
  BY <1>1, <1>7 DEF DropInBox
<1>8. CASE UNCHANGED <<loc, party, saved>>
  BY <1>1, <1>8
<1>9. CASE SaveWorld
  BY <1>1, <1>9 DEF SaveWorld, deals
<1>10. CASE Restart
  BY <1>2, <1>10 DEF Restart
<1> QED BY <1>3, <1>4, <1>5, <1>6, <1>7, <1>8, <1>9, <1>10 DEF StepKind

\* The list never holds two trades of the same giver and receiver, so the one
\* FindOrCreateSession finds is the only one.
THEOREM TradesAreDistinct == Spec => []OneTradePerPair
<1>1. Init => TypeOK /\ OneTradePerPair
  BY TypeInit DEF Init, OneTradePerPair, open
<1>2. TypeOK /\ OneTradePerPair /\ [Next]_vars => (TypeOK /\ OneTradePerPair)'
  BY TypeStep, PairStep
<1> QED BY <1>1, <1>2, PTL DEF Spec

\* No two items are in the same hand, now or in the world file.
LocOneInHand(l) == \A i, j \in Item : l[i] \in Player /\ l[i] = l[j] => i = j
HandInv == LocOneInHand(loc) /\ LocOneInHand(saved.loc)

LEMMA HandStep == TypeOK /\ HandInv /\ [Next]_vars => HandInv'
<1> SUFFICES ASSUME TypeOK, HandInv, StepKind PROVE HandInv'
  BY StepKinds
<1>1. ASSUME saved' = saved, \A i \in Item : loc'[i] \in Player => loc'[i] = loc[i]
      PROVE  HandInv'
  BY <1>1 DEF HandInv, LocOneInHand
<1>2. ASSUME NEW T, NEW H, Closing(T, H) PROVE HandInv'
  BY <1>1, <1>2, Distinct DEF Closing, Laid
<1>3. ASSUME NEW p \in Player, NEW i \in Item, PickUp(p, i) PROVE HandInv'
  <2>1. saved' = saved /\ LocOneInHand(saved.loc)
    BY <1>3 DEF PickUp, HandInv
  <2>2. /\ loc'[i] = p
        /\ \A j \in Item \ {i} : loc'[j] = IF loc[j] = p THEN Settled ELSE loc[j]
    <3>1. loc' = [j \in Item |-> CASE j = i -> p
                                   [] loc[j] = p -> Settled
                                   [] OTHER -> loc[j]]
      BY <1>3 DEF PickUp, PutBack
    <3>2. loc'[i] = p
      <4>1. loc[i] # p
        <5>1. loc[i] = Settled \/ \E t \in Trade, k \in Side : loc[i] = <<t, k>>
          BY <1>3 DEF PickUp, Reaches, open
        <5>2. \A t \in Trade, k \in Side : <<t, k>> # p
          BY Distinct DEF Side
        <5> QED BY <5>1, <5>2, Distinct
      <4> QED BY <3>1, <4>1
    <3>3. ASSUME NEW j \in Item, j # i
          PROVE  loc'[j] = IF loc[j] = p THEN Settled ELSE loc[j]
      BY <3>1, <3>3
    <3> QED BY <3>2, <3>3
  <2>3. \A j \in Item \ {i} : loc'[j] # p /\ (loc'[j] \in Player => loc'[j] = loc[j])
    BY <2>2, Distinct
  <2>4. LocOneInHand(loc')
    BY <2>2, <2>3 DEF HandInv, LocOneInHand
  <2> QED BY <2>1, <2>4 DEF HandInv, LocOneInHand
<1>4. ASSUME NEW p \in Player, NEW i \in Item, DropElsewhere(p, i) PROVE HandInv'
  BY <1>1, <1>4, Distinct DEF DropElsewhere, TypeOK
<1>5. ASSUME NEW p \in Player, NEW q \in Player, NEW i \in Item, DropOnPlayer(p, q, i)
      PROVE  HandInv'
  <2>1. PICK t \in Trade : loc' = [loc EXCEPT ![i] = <<t, 2>>]
    BY <1>5 DEF DropOnPlayer, FindSession, FreeTrade, open
  <2>2. <<t, 2>> \notin Player
    BY Distinct
  <2> QED BY <1>1, <1>5, <2>1, <2>2 DEF DropOnPlayer, TypeOK
<1>6. ASSUME NEW p \in Player, NEW t \in Trade, NEW k \in Side, NEW i \in Item,
             DropInBox(p, t, k, i)
      PROVE  HandInv'
  <2>1. <<t, k>> \notin Player
    BY Distinct DEF Side
  <2> QED BY <1>1, <1>6, <2>1 DEF DropInBox, TypeOK
<1>7. CASE UNCHANGED <<loc, party, saved>>
  BY <1>1, <1>7
<1>8. CASE SaveWorld
  BY <1>8 DEF SaveWorld, Snapshot, HandInv, LocOneInHand
<1>9. CASE Restart
  BY <1>9 DEF Restart, HandInv, LocOneInHand
<1> QED BY <1>2, <1>3, <1>4, <1>5, <1>6, <1>7, <1>8, <1>9 DEF StepKind

\* A cursor never holds two items, across pick-ups, bounces, saves and
\* restarts.
THEOREM HandsHoldOne == Spec => []OneInHand
<1>1. Init => TypeOK /\ HandInv
  BY TypeInit, Distinct DEF Init, HandInv, LocOneInHand, Snapshot
<1>2. TypeOK /\ HandInv /\ [Next]_vars => (TypeOK /\ HandInv)'
  BY TypeStep, HandStep
<1>3. HandInv => OneInHand
  <2> SUFFICES ASSUME HandInv, NEW p \in Player PROVE Cardinality(Held(p)) <= 1
    BY DEF OneInHand
  <2>1. \A i, j \in Held(p) : i = j
    BY DEF Held, HandInv, LocOneInHand
  <2>2. CASE Held(p) = {}
    BY <2>2, FS_EmptySet
  <2>3. CASE Held(p) # {}
    <3>1. PICK i \in Held(p) : TRUE
      BY <2>3
    <3>2. Held(p) = {i}
      BY <2>1, <3>1
    <3>3. Cardinality({i}) = 1
      BY FS_Singleton
    <3> QED BY <3>2, <3>3
  <2> QED BY <2>2, <2>3
<1> QED BY <1>1, <1>2, <1>3, PTL DEF Spec

\* At every moment, a trade is between two players who are both there, a pair
\* has one at most, and a cursor holds one item at most.
THEOREM TradesAreSound == Spec => []TradesSound
<1>1. TradersTogether /\ OneTradePerPair /\ OneInHand => TradesSound
  BY DEF TradesSound
<1> QED BY <1>1, TradersAreTogether, TradesAreDistinct, HandsHoldOne, PTL

\* No item lies in the box of a trade that is over, as long as the server does
\* not restart from its world file.
LEMMA BoxStep ==
    ASSUME ~Crashes PROVE TypeOK /\ NothingLeftInBox /\ [Next]_vars => NothingLeftInBox'
<1> SUFFICES ASSUME TypeOK, NothingLeftInBox, StepKind PROVE NothingLeftInBox'
  BY StepKinds
<1>1. ASSUME open \subseteq open', \A i \in Item : loc'[i] \in Box => loc'[i] = loc[i]
      PROVE  NothingLeftInBox'
  BY <1>1 DEF NothingLeftInBox
<1>2. ASSUME party' = party PROVE open' = open
  BY <1>2 DEF open
<1>3. ASSUME NEW T, NEW H, Closing(T, H) PROVE NothingLeftInBox'
  <2> SUFFICES ASSUME NEW i \in Item, loc'[i] \in Box PROVE loc'[i][1] \in open'
    BY DEF NothingLeftInBox
  <2>1. loc'[i] = loc[i] /\ i \notin Boxed(T)
    <3>1. Settled \notin Box
      BY Distinct DEF Box, Side
    <3> QED BY <1>3, <3>1 DEF Closing, Laid
  <2>2. PICK t \in Trade, k \in Side : loc[i] = <<t, k>>
    BY <2>1 DEF Box
  <2>3. t \in open
    BY <2>1, <2>2 DEF NothingLeftInBox
  <2>4. t \notin T
    BY <2>1, <2>2 DEF Boxed, Offered, Contents, Side
  <2>5. open' = open \ T
    BY <1>3, CloseOpen DEF Closing
  <2> QED BY <2>1, <2>2, <2>3, <2>4, <2>5
<1>4. ASSUME NEW p \in Player, NEW i \in Item, PickUp(p, i) PROVE NothingLeftInBox'
  <2>1. \A j \in Item : loc'[j] \in {loc[j], p, Settled}
    BY <1>4 DEF PickUp
  <2>2. p \notin Box /\ Settled \notin Box
    BY Distinct DEF Box, Side
  <2> QED BY <1>1, <1>2, <1>4, <2>1, <2>2 DEF PickUp
<1>5. ASSUME NEW p \in Player, NEW i \in Item, DropElsewhere(p, i) PROVE NothingLeftInBox'
  <2>1. Settled \notin Box
    BY Distinct DEF Box, Side
  <2> QED BY <1>1, <1>2, <1>5, <2>1 DEF DropElsewhere, TypeOK, deals
<1>6. ASSUME NEW p \in Player, NEW q \in Player, NEW i \in Item, DropOnPlayer(p, q, i)
      PROVE  NothingLeftInBox'
  <2>1. PICK t \in Trade : /\ loc' = [loc EXCEPT ![i] = <<t, 2>>]
                           /\ open' = open \cup {t}
    <3>1. CASE \E t \in FindSession(q, p) : loc' = [loc EXCEPT ![i] = <<t, 2>>] /\ party' = party
      BY <1>2, <3>1 DEF FindSession, open
    <3>2. ASSUME NEW t \in FreeTrade, party' = [party EXCEPT ![t] = <<q, p>>],
                 loc' = [loc EXCEPT ![i] = <<t, 2>>]
          PROVE  open' = open \cup {t}
      <4>1. <<q, p>> # NoTrade
        BY Distinct
      <4> QED BY <3>2, <4>1 DEF open, TypeOK, FreeTrade
    <3> QED BY <1>6, <3>1, <3>2 DEF DropOnPlayer, FreeTrade
  <2> SUFFICES ASSUME NEW j \in Item, loc'[j] \in Box PROVE loc'[j][1] \in open'
    BY DEF NothingLeftInBox
  <2>2. loc'[j] = IF j = i THEN <<t, 2>> ELSE loc[j]
    BY <2>1 DEF TypeOK
  <2> QED BY <2>1, <2>2 DEF NothingLeftInBox
<1>7. ASSUME NEW p \in Player, NEW t \in Trade, NEW k \in Side, NEW i \in Item,
             DropInBox(p, t, k, i)
      PROVE  NothingLeftInBox'
  <2>1. open' = open /\ t \in open /\ loc' = [loc EXCEPT ![i] = <<t, k>>]
    BY <1>2, <1>7 DEF DropInBox
  <2> SUFFICES ASSUME NEW j \in Item, loc'[j] \in Box PROVE loc'[j][1] \in open'
    BY DEF NothingLeftInBox
  <2>2. loc'[j] = IF j = i THEN <<t, k>> ELSE loc[j]
    BY <2>1 DEF TypeOK
  <2> QED BY <2>1, <2>2 DEF NothingLeftInBox
<1>8. CASE UNCHANGED <<loc, party, saved>>
  BY <1>1, <1>2, <1>8
<1>9. CASE SaveWorld
  BY <1>9 DEF SaveWorld
<1>10. CASE Restart
  BY <1>10 DEF Restart
<1> QED BY <1>3, <1>4, <1>5, <1>6, <1>7, <1>8, <1>9, <1>10 DEF StepKind

\* Without a restart, an item is never left behind in a trade box, whatever
\* the server's players do (trade.c:5).  A restart may: the boxes
\* are saved with their contents (dynamic.c:835) and the trades are not.
THEOREM BoxesAreEmptied == ASSUME ~Crashes PROVE Spec => []NothingLeftInBox
<1>1. Init => TypeOK /\ NothingLeftInBox
  <2>1. Settled \notin Box
    BY Distinct DEF Box, Side
  <2> QED BY TypeInit, <2>1 DEF Init, NothingLeftInBox
<1>2. TypeOK /\ NothingLeftInBox /\ [Next]_vars => (TypeOK /\ NothingLeftInBox)'
  BY TypeStep, BoxStep
<1> QED BY <1>1, <1>2, PTL DEF Spec

-----------------------------------------------------------------------------
(* What no step may do.                                                    *)

LEMMA ContentsKept ==
    ASSUME NEW t, NEW k, \A j \in Item : loc[j] = <<t, k>> <=> loc'[j] = <<t, k>>
    PROVE  Contents(t, k)' = Contents(t, k)
BY DEF Contents

LEMMA ClearsStep == TypeOK /\ [Next]_vars => ChangeClears
<1> SUFFICES ASSUME TypeOK, StepKind,
                    NEW t \in open, party'[t] = party[t],
                    NEW k \in Side, Contents(t, k)' # Contents(t, k)
             PROVE  acc'[t] = NoAccept
  BY StepKinds DEF ChangeClears
<1>0. t \in Trade /\ party[t] # NoTrade /\ <<t, k>> \in Box
  BY DEF open, Box
<1>1. PICK j \in Item : ~(loc[j] = <<t, k>> <=> loc'[j] = <<t, k>>)
  BY ContentsKept
<1>2. <<t, k>> \notin Player /\ <<t, k>> # Settled
  BY <1>0, Distinct DEF Box, Side
<1>3. ASSUME NEW T, NEW H, Closing(T, H) PROVE FALSE
  <2>1. t \notin T
    BY <1>0, <1>3 DEF Closing, CloseTrade
  <2>2. loc'[j] = loc[j] \/ j \in H \cup Boxed(T)
    BY <1>3 DEF Closing, Laid
  <2>3. j \in H \cup Boxed(T) /\ loc'[j] = Settled /\ loc[j] = <<t, k>>
    BY <1>1, <1>2, <1>3, <2>2 DEF Closing, Laid
  <2>4. j \in Boxed(T) /\ T \subseteq open
    BY <1>2, <1>3, <2>3 DEF Closing
  <2> QED BY <2>1, <2>3, <2>4, BoxedFacts
<1>4. ASSUME NEW p \in Player, NEW i \in Item, PickUp(p, i) PROVE acc'[t] = NoAccept
  <2>1. j = i /\ loc[i] = <<t, k>>
    <3>1. loc'[j] = CASE j = i -> p [] loc[j] = p -> Settled [] OTHER -> loc[j]
      BY <1>4 DEF PickUp, PutBack
    <3>2. loc'[j] # <<t, k>> \/ loc'[j] = loc[j]
      BY <1>2, <3>1
    <3>3. loc[j] = <<t, k>> /\ loc'[j] # <<t, k>>
      BY <1>1, <3>2
    <3> QED BY <1>2, <3>1, <3>3
  <2>2. t \in SecuredTrade(i)
    BY <2>1 DEF SecuredTrade, Offered, Contents, Side
  <2> QED BY <1>0, <1>4, <2>2 DEF PickUp, Cleared
<1>5. ASSUME NEW p \in Player, NEW i \in Item, DropElsewhere(p, i) PROVE FALSE
  <2>1. loc' = [loc EXCEPT ![i] = Settled] /\ loc[i] = p
    BY <1>5 DEF DropElsewhere
  <2> QED BY <1>1, <1>2, <2>1 DEF TypeOK
<1>6. ASSUME NEW u, NEW b \in Side, NEW p \in Player, NEW i \in Item,
             loc[i] = p, loc' = [loc EXCEPT ![i] = <<u, b>>], acc' = Cleared({u})
      PROVE  acc'[t] = NoAccept
  <2>1. loc'[j] = IF j = i THEN <<u, b>> ELSE loc[j]
    BY <1>6 DEF TypeOK
  <2>2. j = i /\ loc'[j] = <<t, k>>
    BY <1>1, <1>2, <1>6, <2>1
  <2>3. u = t
    BY <2>1, <2>2
  <2> QED BY <1>0, <1>6, <2>3 DEF Cleared
<1>7. ASSUME NEW p \in Player, NEW q \in Player, NEW i \in Item, DropOnPlayer(p, q, i)
      PROVE  acc'[t] = NoAccept
  <2>1. \E u : loc' = [loc EXCEPT ![i] = <<u, 2>>] /\ acc' = Cleared({u})
    BY <1>7 DEF DropOnPlayer
  <2>2. loc[i] = p /\ 2 \in Side
    BY <1>7 DEF DropOnPlayer, Side
  <2> QED BY <1>6, <2>1, <2>2
<1>8. ASSUME NEW p \in Player, NEW u \in Trade, NEW b \in Side, NEW i \in Item,
             DropInBox(p, u, b, i)
      PROVE  acc'[t] = NoAccept
  BY <1>6, <1>8 DEF DropInBox
<1>9. CASE UNCHANGED <<loc, party, saved>>
  BY <1>1, <1>9
<1>10. CASE SaveWorld
  BY <1>1, <1>10 DEF SaveWorld
<1>11. CASE Restart
  BY <1>0, <1>11 DEF Restart, CloseTrade
<1> QED BY <1>3, <1>4, <1>5, <1>7, <1>8, <1>9, <1>10, <1>11 DEF StepKind

\* No accept flag survives a change of the contents it was given for, whoever
\* makes the change and however.
THEOREM AcceptsAreForContents == Spec => AcceptIsForContents
<1>1. TypeOK /\ [Next]_vars => [ChangeClears]_vars
  BY ClearsStep
<1> QED BY <1>1, TypeCorrect, PTL DEF Spec, AcceptIsForContents

LEMMA SwapStep == TypeOK /\ TradersTogether /\ [Next]_vars => SwapsWhole
<1> SUFFICES ASSUME TypeOK, TradersTogether, StepKind,
                    NEW t \in open, NEW k \in Side, NEW i \in Contents(t, k),
                    PassesOver(i, t, k)
             PROVE  /\ acc[t][1] \/ acc[t][2]
                    /\ \A j \in Side : \A x \in Contents(t, j) :
                         loc'[x] = Settled /\ home'[x] \in {party[t][Other(j)], Ground}
  BY StepKinds DEF SwapsWhole
<1>0. /\ t \in Trade /\ i \in Item /\ loc[i] = <<t, k>>
      /\ party[t] \in Player \X Player /\ party[t][1] # party[t][2]
  BY DEF open, Contents, TypeOK, TradersTogether
<1>1. <<t, k>> \notin Player /\ <<t, k>> # Settled
  BY <1>0, Distinct DEF Side
<1>2. loc'[i] = Settled /\ home'[i] = party[t][Other(k)] /\ ~Restart
  BY DEF PassesOver
<1>3. ASSUME NEW T, NEW H, Closing(T, H) PROVE i \in Boxed(T) /\ t \in T
  <2>1. i \in H \cup Boxed(T) /\ i \notin H /\ T \subseteq open
    BY <1>0, <1>1, <1>2, <1>3 DEF Closing, Laid
  <2> QED BY <1>0, <2>1, BoxedFacts
<1>4. ASSUME NEW T, NEW H, Closing(T, H), GivenBack(T) PROVE FALSE
  <2>1. home'[i] \in {Receiver(i, FALSE), Ground}
    BY <1>3, <1>4 DEF GivenBack
  <2>2. Receiver(i, FALSE) = party[t][k]
    BY <1>0 DEF Receiver
  <2>3. party[t][Other(k)] # party[t][k] /\ party[t][Other(k)] # Ground
    BY <1>0, Distinct DEF Other, Side
  <2> QED BY <1>2, <2>1, <2>2, <2>3
<1>5. ASSUME NEW u \in open, Closing({u}, {}), Swapped(u)
      PROVE  /\ acc[t][1] \/ acc[t][2]
             /\ \A j \in Side : \A x \in Contents(t, j) :
                  loc'[x] = Settled /\ home'[x] \in {party[t][Other(j)], Ground}
  <2>1. u = t
    BY <1>3, <1>5
  <2>2. ASSUME NEW j \in Side, NEW x \in Contents(t, j)
        PROVE  loc'[x] = Settled /\ home'[x] \in {party[t][Other(j)], Ground}
    <3>1. x \in Boxed({t}) /\ loc[x] = <<t, j>> /\ x \in Item
      BY <2>2 DEF Boxed, Offered, Contents, Side
    <3>2. Receiver(x, TRUE) = party[t][Other(j)]
      BY <3>1 DEF Receiver
    <3> QED BY <1>5, <2>1, <3>1, <3>2 DEF Closing, Laid, Swapped
  <2> QED BY <1>5, <2>1, <2>2 DEF Swapped
<1>6. ASSUME NEW p \in Player, NEW y \in Item, PickUp(p, y) PROVE FALSE
  <2>1. loc'[i] = CASE i = y -> p [] loc[i] = p -> Settled [] OTHER -> loc[i]
    BY <1>0, <1>6 DEF PickUp, PutBack
  <2>2. p # Settled /\ loc[i] # p
    BY <1>0, <1>1, Distinct
  <2> QED BY <1>0, <1>1, <1>2, <2>1, <2>2
<1>7. ASSUME NEW p \in Player, NEW y \in Item, DropElsewhere(p, y) PROVE FALSE
  <2>1. loc' = [loc EXCEPT ![y] = Settled] /\ loc[y] = p
    BY <1>7 DEF DropElsewhere
  <2> QED BY <1>0, <1>1, <1>2, <2>1 DEF TypeOK
<1>8. ASSUME NEW p \in Player, NEW q \in Player, NEW y \in Item, DropOnPlayer(p, q, y)
      PROVE  FALSE
  <2>1. PICK u \in Trade : loc' = [loc EXCEPT ![y] = <<u, 2>>]
    BY <1>8 DEF DropOnPlayer, FindSession, FreeTrade, open
  <2>2. <<u, 2>> # Settled
    BY Distinct
  <2> QED BY <1>0, <1>1, <1>2, <2>1, <2>2 DEF TypeOK
<1>9. ASSUME NEW p \in Player, NEW u \in Trade, NEW b \in Side, NEW y \in Item,
             DropInBox(p, u, b, y)
      PROVE  FALSE
  <2>1. loc' = [loc EXCEPT ![y] = <<u, b>>]
    BY <1>9 DEF DropInBox
  <2>2. <<u, b>> # Settled
    BY Distinct DEF Side
  <2> QED BY <1>0, <1>1, <1>2, <2>1, <2>2 DEF TypeOK
<1>10. CASE UNCHANGED <<loc, party, saved>>
  BY <1>0, <1>1, <1>2, <1>10
<1>11. CASE SaveWorld
  BY <1>0, <1>1, <1>2, <1>11 DEF SaveWorld
<1> QED BY <1>2, <1>4, <1>5, <1>6, <1>7, <1>8, <1>9, <1>10, <1>11 DEF StepKind

\* A trade is all or nothing: an item reaches the other party only by a swap
\* of everything that a flag already set had accepted.
THEOREM SwapsAreAgreedAndWhole == Spec => SwapIsAgreedAndWhole
<1>1. TypeOK /\ TradersTogether /\ [Next]_vars => [SwapsWhole]_vars
  BY SwapStep
<1> QED BY <1>1, TypeCorrect, TradersAreTogether, PTL DEF Spec, SwapIsAgreedAndWhole
=============================================================================
