------------------------------ MODULE MCTrade ------------------------------
(* Instances for TLC of what moves items: trades on a server that does not  *)
(* restart; a smaller server that is saved, crashes and restarts at any     *)
(* moment; and the piles of gold of one player.  They share no part of      *)
(* their state; a behaviour moves one of the three (`part') and leaves the  *)
(* others as they were.                                                     *)
EXTENDS Trade, TLC

CONSTANTS p1, p2, p3, i1, i2, t1, t2, Trader, Ware, Deal,
          Stack, Bag, Body, Pack, Bank, Null, Gold, Per, Own, Limit, PileMax, s1, s2

\* The things of the goods are told apart, and as many as anybody likes.
ASSUME Goods ==
    /\ IsFiniteSet(Stack) /\ IsFiniteSet(Bag) /\ Stack \cap Bag = {}
    /\ Pack # Bank /\ {Pack, Bank} \cap (Stack \cup Bag) = {}
    /\ Cardinality({Body, Ground, Null}) = 3
    /\ {Body, Ground, Null} \cap (Stack \cup Bag \cup {Pack, Bank}) = {}
    /\ Per \in Nat \ {0} /\ {Own, Gold, Limit, PileMax} \subseteq Nat

\* So are the players and trades of the server that restarts.
ASSUME Restarted ==
    /\ Ground \notin Trader /\ NoTrade \notin Trader \X Trader
    /\ Settled \notin Trader \cup (Deal \X {1, 2})
    /\ Trader \cap (Deal \X {1, 2}) = {}

VARIABLES
    part,
    online2, here2, pos2, home2, loc2, party2, acc2, saved2,      \* Trade, restarted
    s, taken                                                      \* Weights

R == INSTANCE Trade WITH
    Player <- Trader, Item <- Ware, Trade <- Deal,
    MaxSpot <- 0, Reach <- 0, Crashes <- TRUE,
    online <- online2, here <- here2, pos <- pos2, home <- home2,
    loc <- loc2, party <- party2, acc <- acc2, saved <- saved2

G == INSTANCE Weights

restarted == <<online2, here2, pos2, home2, loc2, party2, acc2, saved2>>
goods == <<s, taken>>
all == <<part, vars, restarted, goods>>

\* The piles are alike: s1 may as well be the one in the pack.  Where the goods
\* do not move there are none.
MCInit ==
    /\ part \in {"played", "restarted", "goods"}
    /\ Init /\ R!Init
    /\ IF part = "goods" THEN G!Init /\ s.cont[Pack] = <<s1>> /\ s.cont[Bank] = <<s2>>
       ELSE s = Null /\ taken = 0

MCNext ==
    /\ UNCHANGED part
    /\ \/ part = "played" /\ Next /\ UNCHANGED <<restarted, goods>>
       \/ part = "restarted" /\ R!Next /\ UNCHANGED <<vars, goods>>
       \/ part = "goods" /\ G!Next /\ UNCHANGED <<vars, restarted>>

MCSpec == MCInit /\ [][MCNext]_all

Symmetry == Permutations(Player) \cup Permutations(Item) \cup Permutations(Trade)

-----------------------------------------------------------------------------
\* A crash and a restart from any earlier save leave no open trade whose
\* players are not there (dynamic.c:2637).
AlsoAfterRestart == R!TypeOK /\ R!TradersTogether

\* What is said of the goods is looked at where they move.
When(p, F) == part = p => F

\* No item is in two places and no coin is lost or made, whatever is split,
\* merged, bounced, banked and charged (item.c:4393, 4481, container.c:576).
ItemsConserved == When("goods", G!TypeOK /\ G!OnePlace /\ G!GoldConserved)

\* A charge takes what was asked, or all there is if that is less, whatever
\* piles and bags the gold lies in (container.c:576, mobile.c:2663).
ChargedInFull == When("goods", G!ChargedInFull)

\* Cached weights that went wrong are right again after a recalculation
\* (mobile.c:6120, wombat_exec.c:18514).
RecalcRepairs == When("goods", G!RecalcRepairs)

\* container.c:561 "the cached contents weight": what a container has stored is
\* the weight of its contents.
StoredIsContents == When("goods", G!StoredIsContents)
=============================================================================
