--------------------------- MODULE MCPersistence ---------------------------
(* Instances of Persistence for TLC and, beside it, of the table through    *)
(* which a client that logged in to an account reaches the game.  In the    *)
(* code an entry of that table is made from an account and holds no pointer *)
(* to it; the two share no state.  A behaviour moves one of them (`part')   *)
(* and leaves the other as it was.                                          *)
EXTENDS Persistence, TLC

CONSTANTS anne, bob, Conn, Slots, Expiry, MaxTime, MaxNonce

ASSUME HandoffBounds == Slots \in Nat \ {0} /\ Expiry \in Nat /\ MaxTime \in Nat /\ MaxNonce \in Nat

VARIABLES
    part,
    pending, issued, now, conn, uses     \* LoginHandoff

L == INSTANCE LoginHandoff

handoff == <<pending, issued, now, conn, uses>>
all == <<part, vars, handoff>>

MCInit == part \in {"saves", "logins"} /\ Init /\ L!Init

MCNext ==
    /\ UNCHANGED part
    /\ \/ part = "saves" /\ Next /\ UNCHANGED handoff
       \/ part = "logins" /\ L!Next /\ UNCHANGED vars

MCSpec == MCInit /\ [][MCNext]_all

\* Bound: an administrator's edits and signals and the failing calls of a save
\* touch different files, and are explored in different behaviours.
ByHand == hup \/ unread \/ \E l \in Login : \E a \in {acct[l], list[l]} : a # None /\ a.level # 0
EditsOrFailures == ~("call" \in cut /\ ByHand)

Symmetry == Permutations({anne, bob})

-----------------------------------------------------------------------------
\* Every variable of both parts keeps its type.
TypesOK == TypeOK /\ L!TypeOK

\* A nonce configures one connection of all that present it, and leaves no
\* entry behind (pending_auth.c, the seed branch of UserSock_DoHandlePacket).
NonceServesOnce == L!NonceServesOnce

\* A login that is not spent stays until it expires or as many others as there
\* are slots have come since (PendingAuth_Create).
KeptWhileRoom == L!KeptWhileRoom
=============================================================================
