------------------------------ MODULE Weights ------------------------------
(***************************************************************************)
(* Containment, piles of gold and cached weights (item.c, container.c,     *)
(* mobile.c, the pick-up and drop packets).  A player wears a pack and a   *)
(* bank box, may hold one item on the cursor, and moves piles and bags     *)
(* between them and the ground.  Every container caches the weight of its  *)
(* contents; each operation takes items out and puts them back one by one  *)
(* and corrects the caches of all containers above as it goes.  An item    *)
(* out of place remembers where it was, a pile split from another the pile *)
(* it came from, and a refused move "returns" it there.                    *)
(*                                                                         *)
(* The state is one record, so that an operation of the code is a function *)
(* from records to records and handlers compose them in the code's order.  *)
(* Left out: trades' locked boxes, scripts' vetoes other than as refusals, *)
(* the 125-item limit of a container, and 16-bit wrap of the caches.       *)
(***************************************************************************)
EXTENDS Integers, FiniteSets, Sequences, SequencesExt, FiniteSetsExt

CONSTANTS Stack,       \* serials of piles of gold, split ones included
          Bag,         \* bags
          Body, Pack, Bank,  \* the player, its backpack, its bank box
          Ground, Null, \* the ground, no item
          Gold,        \* bound: the gold in the world
          Per,         \* coins per unit of weight (50 in the code)
          Own,         \* what an empty bag, pack or bank box weighs
          Limit,       \* the weight a container holds (400 in the code)
          PileMax      \* the coins a pile holds (60000 in the code)

VARIABLES s,           \* the items and containers
          taken        \* coins handed to the scripts that charge the player

Worn == {Pack, Bank}
Thing == Stack \cup Bag
Box == Worn \cup Bag
Ceil(n) == (n + Per - 1) \div Per

\* What the items and containers can be in.
World == [live : SUBSET Thing, worn : SUBSET Worn,
          cont : [Box -> Seq(Thing)],
          hand : Thing \cup {Null}, ground : SUBSET Thing,
          amount : [Stack -> Nat],
          stored : [Box \cup {Body} -> Nat],
          last : [Thing -> Box \cup Stack \cup {Ground, Null}]]

TypeOK == s \in World /\ s.amount \in [Stack -> 0..Gold] /\ taken \in 0..Gold

-----------------------------------------------------------------------------
(* Where things are, and what they weigh. *)

Parent(w, x) ==
    IF x \in w.worn \/ x = w.hand THEN Body
    ELSE LET boxes == {b \in Box : Contains(w.cont[b], x)}
         IN  IF boxes = {} THEN Null ELSE CHOOSE b \in boxes : TRUE

\* x, what x lies in, what that lies in, and on for as long as Past holds.
Upward(w, x, Past(_)) ==
    LET up[y \in Thing \cup Worn \cup {Body, Null}] ==
            IF y = Null THEN {}
            ELSE {y} \cup (IF y # Body /\ Past(y) THEN up[Parent(w, y)] ELSE {})
    IN  up[x]
Above(w, x) == Upward(w, x, LAMBDA y : TRUE) \ {Body}

InBank(w, x) == Bank \in Above(w, x) /\ Bank \in w.worn
Placed(w, x) == Parent(w, x) # Null \/ x \in w.ground

\* Gold in the bank box weighs nothing there, nor does the bank box (layer 29)
\* on its owner.
IsNonCountable(w, x) == (x \in Stack /\ InBank(w, x)) \/ (x = Bank /\ Bank \in w.worn)

GetWeight(w, x) ==
    IF x \in Stack THEN Ceil(IF w.amount[x] <= 0 THEN 1 ELSE w.amount[x])
    ELSE Own + w.stored[x]

\* The containers whose caches a change of the weight in b reaches.
Carriers(w, b) == Upward(w, b, LAMBDA y : ~IsNonCountable(w, y))

Heavier(w, over, n) ==
    [w EXCEPT !.stored = [c \in Box \cup {Body} |-> IF c \in over THEN @[c] + n ELSE @[c]]]
Lighter(w, over, n) ==
    [w EXCEPT !.stored = [c \in Box \cup {Body} |->
        IF c \in over THEN IF @[c] < n THEN 0 ELSE @[c] - n ELSE @[c]]]
AddStoredWeight(w, b, n) == Heavier(w, Carriers(w, b), n)
SubtractStoredWeight(w, b, n) == Lighter(w, Carriers(w, b), n)

\* A bag inside counts with its contents' weight, not with its own.
Counted(w, x) ==
    IF x \in Bag THEN w.stored[x] ELSE IF IsNonCountable(w, x) THEN 0 ELSE GetWeight(w, x)
Recalc(w, b) ==
    LET sum[k \in 0..Len(w.cont[b])] ==
            IF k = 0 THEN 0 ELSE sum[k - 1] + Counted(w, w.cont[b][k])
    IN  [w EXCEPT !.stored[b] = sum[Len(w.cont[b])]]

-----------------------------------------------------------------------------
(* Taking out of place and putting in place. *)

\* CItem_HideVT: the caches first, then the memory of the place, then the links.
Lightened(w, x, p) ==
    IF p # Null /\ ~IsNonCountable(w, x) THEN SubtractStoredWeight(w, p, GetWeight(w, x)) ELSE w
Unlinked(w, x, p) ==
    [w EXCEPT !.last = IF x \in Worn \/ x = w.hand THEN @
                       ELSE [@ EXCEPT ![x] = IF p = Null THEN Ground ELSE p],
              !.hand = IF @ = x THEN Null ELSE @,
              !.worn = @ \ {x}, !.ground = @ \ {x},
              !.cont = IF p \in Box THEN [@ EXCEPT ![p] = RemoveFirst(w.cont[p], x)] ELSE @]
HideFrom(w, x, p) == Unlinked(Lightened(w, x, p), x, p)
RecalcIf(w, x, banked) == IF x \in Bag /\ banked THEN Recalc(w, x) ELSE w
Hide(w, x) == RecalcIf(HideFrom(w, x, Parent(w, x)), x, InBank(w, x))
HideIfPlaced(w, x) == IF Placed(w, x) THEN Hide(w, x) ELSE w

DropAtFeet(w, x) == [w EXCEPT !.ground = @ \cup {x}, !.last[x] = Null]

Weighing(w, x, b) == IF IsNonCountable(w, x) THEN w ELSE AddStoredWeight(w, b, GetWeight(w, x))

EquipOnMobile(w, x) ==
    Weighing(IF x \in Worn THEN [w EXCEPT !.worn = @ \cup {x}] ELSE [w EXCEPT !.hand = x], x, Body)

\* The end of AddToContainer; a bag linked into the bank box is weighed anew.
Banked(w, x) == RecalcIf(w, x, InBank(w, x))
Link(w, x, b) ==
    [Weighing(Banked([w EXCEPT !.cont[b] = <<x>> \o @], x), x, b) EXCEPT !.last[x] = Null]

Stacks(w, x, y) ==
    /\ {x, y} \subseteq Stack /\ x # y
    /\ w.amount[x] > 0 /\ w.amount[y] > 0
    /\ w.amount[x] + w.amount[y] <= PileMax

\* Both piles leave their places, and the target takes all the coins.
Merged(w, x, y) ==
    [HideIfPlaced(HideIfPlaced(w, y), x) EXCEPT
        !.amount = [@ EXCEPT ![y] = w.amount[y] + w.amount[x], ![x] = 0],
        !.live = @ \ {x}, !.last[x] = Null]

\* Back to the box it remembers, or else to the player's feet.
PutBack(w, x) ==
    IF w.last[x] \in Worn \cup (Bag \cap w.live) THEN Link(w, x, w.last[x]) ELSE DropAtFeet(w, x)

\* A pile that came from another goes back into that, which goes back itself.
Rejoined(r) ==
    LET y == r.w.last[r.x] IN
    IF y \in Stack \cap r.w.live /\ Stacks(r.w, r.x, y)
    THEN [w |-> Merged(r.w, r.x, y), x |-> y] ELSE r
AllRejoined(start) ==
    LET r[k \in 0..Cardinality(Stack)] == IF k = 0 THEN start ELSE Rejoined(r[k - 1])
    IN  r[Cardinality(Stack)]
ReturnToTracked(w, x) ==
    LET Back(end) == PutBack(end.w, end.x) IN Back(AllRejoined([w |-> w, x |-> x]))
MergeInto(w, x, y) == ReturnToTracked(Merged(w, x, y), y)

\* AddToContainer at a place the server picks: the first pile that takes it.
AddToContainer(w, x, b) ==
    LET k == SelectInSeq(w.cont[b], LAMBDA y : Stacks(w, x, y))
    IN  IF k = 0 THEN Link(w, x, b) ELSE MergeInto(w, x, w.cont[b][k])

\* n coins of x become the pile y, which remembers x.
MutSplitByAmount(w, x, n, y) ==
    LET out == HideIfPlaced(w, x)
    IN  ReturnToTracked([out EXCEPT !.live = @ \cup {y}, !.last[y] = x, !.amount[y] = n], x)
SplitByAmount(w, x, n, y) ==
    LET out == HideIfPlaced(w, x)
    IN  ReturnToTracked([out EXCEPT !.live = @ \cup {y}, !.last[y] = x,
                                    !.amount = [@ EXCEPT ![y] = n, ![x] = w.amount[x] - n]], x)

\* A serial no item has and none remembers.
Fresh(w) == {y \in Stack \ w.live : \A x \in Thing : w.last[x] # y}

-----------------------------------------------------------------------------
(* Charging: ConsumeResources. *)

Gone(w, x) == [HideIfPlaced(w, x) EXCEPT !.live = @ \ {x}, !.last[x] = Null]
Emptied(w, x) == [w EXCEPT !.amount[x] = 0]

\* What a walk through the containers finds in a bag.  Those in shut are locked,
\* or have a body that hides its contents, at the moment (HasAccessibleContents).
Inside(w, x, shut) == IF x \in shut THEN <<>> ELSE w.cont[x]

\* The children of a container in turn, a bag's before what follows it: a pile
\* that covers the rest is taken out, reduced and put back; a pile that does
\* not is emptied where it lies and deleted.  `got' counts the coins so far.
Consumed(r, want, shut) ==
    LET x == Head(r.list)
        rest == want - r.got
    IN  IF r.list = <<>> \/ r.got = want THEN r
        ELSE IF x \in Bag THEN [r EXCEPT !.list = Inside(r.w, x, shut) \o Tail(@)]
        ELSE IF r.w.amount[x] >= rest
        THEN LET out == [Hide(r.w, x) EXCEPT !.amount[x] = @ - rest]
             IN  [w |-> IF out.amount[x] = 0 THEN Gone(out, x) ELSE ReturnToTracked(out, x),
                  list |-> <<>>, got |-> want]
        ELSE [w |-> Gone(Emptied(r.w, x), x), list |-> Tail(r.list), got |-> r.got + r.w.amount[x]]
AllConsumed(start, want, shut) ==
    LET r[k \in 0..Cardinality(Thing)] == IF k = 0 THEN start ELSE Consumed(r[k - 1], want, shut)
    IN  r[Cardinality(Thing)]
Consume(w, list, want, shut) == AllConsumed([w |-> w, list |-> list, got |-> 0], want, shut)
MutConsumeResources(w, b, want, shut) ==
    Consume(w, SelectSeq(w.cont[b], LAMBDA x : x \in Stack), want, shut)
ConsumeResources(w, b, want, shut) == Consume(w, w.cont[b], want, shut)

\* A bag's contents are deleted first.  `gold' counts the coins that go.
DeletedOne(r) ==
    LET x == Head(r.list) IN
    IF r.list = <<>> THEN r
    ELSE IF x \in Bag /\ r.w.cont[x] # <<>> THEN [r EXCEPT !.list = r.w.cont[x] \o @]
    ELSE [w |-> Gone(r.w, x), list |-> Tail(r.list),
          gold |-> r.gold + IF x \in Stack \cap r.w.live THEN r.w.amount[x] ELSE 0]
AllDeleted(start) ==
    LET r[k \in 0..2 * Cardinality(Thing)] == IF k = 0 THEN start ELSE DeletedOne(r[k - 1])
    IN  r[2 * Cardinality(Thing)]
Deleted(w, x) == AllDeleted([w |-> w, list |-> <<x>>, gold |-> 0])

-----------------------------------------------------------------------------
(* Rebuilding the caches: the script command recalcWeight. *)

\* One after the other out of its place, and if it is a container, refreshed.
TakenOut(w, x, refresh) == LET u == Hide(w, x) IN IF x \in Box THEN refresh[u][x] ELSE u
AllOut(w, list, refresh) ==
    LET out[k \in 0..Len(list)] == IF k = 0 THEN w ELSE TakenOut(out[k - 1], list[k], refresh)
    IN  out[Len(list)]
AllBack(w, list) ==
    LET back[k \in 0..Len(list)] == IF k = 0 THEN w ELSE ReturnToTracked(back[k - 1], list[k])
    IN  back[Len(list)]

\* All children out, their own caches rebuilt, the cache cleared, all back in,
\* for containers in which containers are n deep.
NotRefreshed == [w \in World |-> [b \in Box |-> w]]
Refreshed(refresh) == [w \in World |-> [b \in Box |->
    AllBack([AllOut(w, w.cont[b], refresh) EXCEPT !.stored[b] = 0], w.cont[b])]]
Refresh(n) ==
    LET refresh[d \in 0..n] == IF d = 0 THEN NotRefreshed ELSE Refreshed(refresh[d - 1])
    IN  refresh[n]
RefreshContents(w, b) == Refresh(Cardinality(Bag) + 1)[w][b]

\* The same with what the player wears and holds.
MutWeightRelated(w) == [RefreshContents(w, Pack) EXCEPT !.stored[Body] = 0]
WeightRelated(w) ==
    LET gear == (IF w.hand = Null THEN <<>> ELSE <<w.hand>>) \o <<Pack, Bank>>
        Bare(out) == [out EXCEPT !.stored[Body] = 0]
        Held(bare) == IF w.hand = Null THEN bare ELSE EquipOnMobile(bare, w.hand)
        held == Held(Bare(AllOut(w, gear, Refresh(Cardinality(Bag) + 1))))
    IN  EquipOnMobile(EquipOnMobile(held, Pack), Bank)

-----------------------------------------------------------------------------
(* Whether a container takes an item. *)

Topmost(w, b) == CHOOSE c \in Above(w, b) : Parent(w, c) \in {Body, Null}

WeightExcludingGold(w, x) == Own * Cardinality({y \in Bag : x \in Above(w, y)})

CanHold(w, b, x) ==
    LET top == Topmost(w, b)
    IN  w.stored[top] + (IF InBank(w, top) THEN WeightExcludingGold(w, x) ELSE GetWeight(w, x)) <= Limit

-----------------------------------------------------------------------------
(* The packets and script commands. *)

\* A pile in the pack, one in the bank box, the bags on the ground.
Init ==
    /\ \E x, y \in Stack :
         /\ x # y
         /\ s = [live |-> {x, y} \cup Bag, worn |-> Worn,
                 cont |-> [b \in Box |-> IF b = Pack THEN <<x>> ELSE IF b = Bank THEN <<y>> ELSE <<>>],
                 hand |-> Null, ground |-> Bag,
                 amount |-> [z \in Stack |-> CASE z = x -> Gold - Gold \div 2
                                              [] z = y -> Gold \div 2 [] OTHER -> 0],
                 stored |-> [b \in Box \cup {Body} |-> CASE b = Pack -> Ceil(Gold - Gold \div 2)
                              [] b = Body -> Own + Ceil(Gold - Gold \div 2) [] OTHER -> 0],
                 last |-> [z \in Thing |-> Null]]
    /\ taken = 0

\* What is on the cursor goes back where it came from.
Bounced(w) == IF w.hand = Null THEN w ELSE ReturnToTracked(Hide(w, w.hand), w.hand)

\* REQ_GETOBJ: what is held goes back first, then the request may be refused.
Lift(x) ==
    /\ x \in s.live \ {s.hand}
    /\ LET w == Bounced(s) IN
         \/ s' = w
         \/ s' = EquipOnMobile(Hide(w, x), x)
         \/ /\ x \in Stack
            /\ \E y \in Fresh(w), n \in 1..(w.amount[x] - 1) :
                 s' = EquipOnMobile(SplitByAmount(w, x, n, y), y)
    /\ UNCHANGED taken

\* REQ_DROPOBJ refused: distance, sight, a full or closed container, a script.
DropRefused == s.hand # Null /\ s' = Bounced(s) /\ UNCHANGED taken

DropOnGround ==
    /\ s.hand # Null
    /\ s' = DropAtFeet(Hide(s, s.hand), s.hand)
    /\ UNCHANGED taken

\* Into a container, at a place the client names or one the server picks.
DropInto(b) ==
    /\ s.hand # Null /\ b \in Worn \cup (Bag \cap s.live)
    /\ LET x == s.hand IN
         IF x \in Above(s, b) \/ ~CanHold(s, b, x) THEN s' = Bounced(s)
         ELSE s' \in {Link(Hide(s, x), x, b), AddToContainer(Hide(s, x), x, b)}
    /\ UNCHANGED taken

\* Onto a pile; on one that does not take it, it falls to the player's feet.
DropOn(y) ==
    /\ s.hand # Null /\ y \in (Stack \cap s.live) \ {s.hand}
    /\ LET x == s.hand IN
         IF ~Stacks(s, x, y) THEN s' = DropAtFeet(Hide(s, x), x)
         ELSE IF Parent(s, y) # Null /\ ~CanHold(s, Parent(s, y), x) THEN s' = Bounced(s)
         ELSE s' = MergeInto(s, x, y)
    /\ UNCHANGED taken

\* PutMoneyInBank: a whole pile or part of it.
Deposit(x) ==
    /\ x \in Stack \cap s.live
    /\ \/ s' = AddToContainer(Hide(s, x), x, Bank)
       \/ \E y \in Fresh(s), n \in 1..(s.amount[x] - 1) :
            s' = AddToContainer(SplitByAmount(s, x, n, y), y, Bank)
    /\ UNCHANGED taken

\* A script charges the player n coins (doTakeMoney, SubtractGold).  Scripts lock
\* and open bags as they like.
Charge(b, n, shut) ==
    LET r == ConsumeResources(s, b, n, shut)
    IN  s' = r.w /\ taken' = taken + r.got

RecalcWeight(b) ==
    /\ s' = IF b = Body THEN WeightRelated(s) ELSE RefreshContents(s, b)
    /\ UNCHANGED taken

\* Decay, or a script that deletes the item.
Delete(x) ==
    /\ x \in s.live
    /\ LET r == Deleted(s, x) IN s' = r.w /\ taken' = taken + r.gold

Next ==
    \/ \E x \in Thing : Lift(x) \/ Delete(x)
    \/ DropRefused \/ DropOnGround
    \/ \E b \in Box : DropInto(b)
    \/ \E y \in Stack : DropOn(y) \/ Deposit(y)
    \/ \E b \in Worn, n \in 1..Gold, shut \in SUBSET Bag : Charge(b, n, shut)
    \/ \E b \in {Body} \cup Worn \cup (Bag \cap s.live) : RecalcWeight(b)

vars == <<s, taken>>
Spec == Init /\ [][Next]_vars

-----------------------------------------------------------------------------
(* Properties. *)

\* An item in the world is in one place, the cursor, the ground or one
\* container, and once; a deleted item is in none.  (Every operation takes
\* items out of the chains and relies on the next to put them back.)
Spots(w, x) ==
    {<<Body, 0>> : i \in {i \in {0} : x = w.hand}} \cup {<<Ground, 0>> : i \in {i \in {0} : x \in w.ground}}
      \cup UNION {{<<b, i>> : i \in {i \in DOMAIN w.cont[b] : w.cont[b][i] = x}} : b \in Box}
OnePlace == \A x \in Thing : Cardinality(Spots(s, x)) = IF x \in s.live THEN 1 ELSE 0

\* Splitting, merging, bouncing, depositing and charging neither make gold
\* nor lose it (MergeInto and SplitByAmount move the coins between piles that
\* are out of the world).
GoldConserved == SumFunctionOnSet(s.amount, Stack \cap s.live) + taken = Gold

\* The gold in x that is not in a bag in shut.
GoldIn(w, x, shut) ==
    SumFunctionOnSet(w.amount, {y \in Stack \cap w.live : x \in Above(w, y) /\ Above(w, y) \cap shut = {}})

\* In whatever state a charge comes, it takes what was asked, or all it can reach
\* if that is less, and only that, whatever piles and bags the gold lies in and
\* whichever of the bags are locked (ConsumeResources).
ChargedInFull ==
    LET Taken(r, b, n, shut) ==
            /\ r.got = Min({n, GoldIn(s, b, shut)})
            /\ GoldIn(r.w, b, shut) = GoldIn(s, b, shut) - r.got
    IN  \A b \in Worn, n \in 1..Gold, shut \in SUBSET Bag : Taken(ConsumeResources(s, b, n, shut), b, n, shut)

\* The weight of a container's contents.
Contents(w, b) ==
    SumFunction([x \in {x \in Thing \ {b} : b \in Above(w, x)} |->
                    IF x \in Stack THEN GetWeight(w, x) ELSE Own])

\* The caches of the pack, of the bags in it and of the player are exact.
Exact(w) ==
    /\ \A b \in {Pack} \cup Bag : Pack \in Above(w, b) => w.stored[b] = Contents(w, b)
    /\ w.stored[Body] = Own + Contents(w, Pack) +
          (IF w.hand = Null THEN 0 ELSE IF w.hand \in Stack THEN GetWeight(w, w.hand)
           ELSE Own + Contents(w, w.hand))

\* In whatever state it comes, recalcWeight on a player leaves his caches exact
\* (WeightRelated).
RecalcRepairs == Exact(WeightRelated(s))

\* "cached total contents weight" (container.h:52), "the cached contents
\* weight" (container.c:561): what the pack's cache holds is the weight of
\* what is in the pack.
StoredIsContents == s.stored[Pack] = Contents(s, Pack)
=============================================================================
