---------------------------- MODULE LoginHandoff ----------------------------
(* The table that carries a client from its login connection to its game   *)
(* connection (pending_auth.c).  BRITANNIA_SELECT parks the cipher it      *)
(* chose under a random nonce and redirects the client, which presents the *)
(* nonce as the seed of a new connection.  Sixteen slots are shared by all *)
(* logins; entries age, are evicted when the table is full, and are spent  *)
(* by the connection that presents them (UserSock_DoHandlePacket).  Any    *)
(* number of connections may present one nonce: a client that saw no       *)
(* answer tries again before the server has noticed that its first         *)
(* connection is lost.  Nonces are 32 random bits; they are taken to be    *)
(* fresh, and numbered in the order they are given out.                    *)
EXTENDS Integers, FiniteSets, Sequences

CONSTANTS
  Conn,        \* game connections that may be open at once
  Slots,       \* MAX_PENDING
  Expiry,      \* EXPIRY_SECS
  MaxTime,     \* bound on the clock, in seconds
  MaxNonce     \* bound on the logins

VARIABLES
  pending,     \* the slots: the nonce in each, 0 for a free one
  issued,      \* what was parked under each nonce: whether its cipher takes
               \* a trial decryption (GAME_BF_TF), and when it was made
  now,         \* time(NULL)
  conn,        \* the game connections
  uses         \* how many connections were configured from each nonce

vars == <<pending, issued, now, conn, uses>>

Slot == 1..Slots
Nonce == 1..MaxNonce
Given == DOMAIN issued
Unconnected == [st |-> "none", seed |-> 0]

(* st: "seed" holds the seed and awaits more bytes; "game" was configured  *)
(* from the table; "guess" found no entry and was left to detection.       *)
TypeOK ==
  /\ pending \in [Slot -> {0} \cup Nonce]
  /\ \E k \in 0..MaxNonce : issued \in [1..k -> [trial : BOOLEAN, created : 0..MaxTime]]
  /\ now \in 0..MaxTime
  /\ conn \in [Conn -> [st : {"none", "seed", "game", "guess", "closed"},
                        seed : {0} \cup Nonce]]
  /\ uses \in [Nonce -> Nat]

Init ==
  /\ pending = [s \in Slot |-> 0]
  /\ issued = <<>>
  /\ now = 0
  /\ conn = [i \in Conn |-> Unconnected]
  /\ uses = [n \in Nonce |-> 0]

Age(n) == now - issued[n].created

(* PendingAuth_ExpireStale: looked at only when an entry is made.          *)
MutExpireStale == [s \in Slot |-> IF pending[s] # 0 /\ Age(pending[s]) >= Expiry THEN 0 ELSE pending[s]]
ExpireStale == [s \in Slot |-> IF pending[s] # 0 /\ Age(pending[s]) > Expiry THEN 0 ELSE pending[s]]

(* The lowest free slot, or else the lowest of those with the oldest       *)
(* entry, in seconds.                                                      *)
First(S) == CHOOSE s \in S : \A t \in S : s <= t
SlotFor(p) ==
  LET free == {s \in Slot : p[s] = 0}
  IN IF free # {} THEN First(free)
     ELSE First({s \in Slot : \A t \in Slot : issued[p[s]].created <= issued[p[t]].created})

(* HandlePacket_BRITANNIA_SELECT, PendingAuth_Create.  A client may select *)
(* again and again.                                                        *)
PendingAuth_Create(trial) ==
  /\ Len(issued) < MaxNonce
  /\ LET p == ExpireStale
         n == Len(issued) + 1
     IN /\ pending' = [p EXCEPT ![SlotFor(p)] = n]
        /\ issued' = Append(issued, [trial |-> trial, created |-> now])
  /\ UNCHANGED <<now, conn, uses>>

(* PendingAuth_Find: at any age.                                           *)
Found(n) == \E s \in Slot : pending[s] = n

MutRemove(n) == pending
Remove(n) == [s \in Slot |-> IF pending[s] = n THEN 0 ELSE pending[s]]

(* The seed branch of UserSock_DoHandlePacket with client detection on,    *)
(* once four bytes are there and whenever more arrive until the seed is    *)
(* consumed.  "more" says whether bytes follow the seed, "fits" whether    *)
(* the trial decryption, or the detection, succeeds.                       *)
DoHandlePacket(i, n, more, fits) ==
  LET becomes(st) == conn' = [conn EXCEPT ![i] = [st |-> st, seed |-> n]]
  IN \/ /\ ~more /\ (Found(n) => issued[n].trial)
        /\ becomes("seed") /\ UNCHANGED <<pending, uses>>
     \/ /\ Found(n) /\ (issued[n].trial => more /\ fits)
        /\ pending' = Remove(n)
        /\ becomes("game") /\ uses' = [uses EXCEPT ![n] = @ + 1]
     \/ /\ Found(n) /\ issued[n].trial /\ more /\ ~fits
        /\ pending' = Remove(n)
        /\ becomes("closed") /\ UNCHANGED uses
     \/ /\ ~Found(n) /\ more
        /\ becomes(IF fits THEN "guess" ELSE "closed") /\ UNCHANGED <<pending, uses>>

(* A redirected client connects and sends a seed that was given out.       *)
Connect(i) ==
  /\ conn[i].st = "none"
  /\ \E n \in Given, more, fits \in BOOLEAN : DoHandlePacket(i, n, more, fits)
  /\ UNCHANGED <<issued, now>>

(* More bytes arrive behind a seed that waits for them.                    *)
Receive(i) ==
  /\ conn[i].st = "seed"
  /\ \E fits \in BOOLEAN : DoHandlePacket(i, conn[i].seed, TRUE, fits)
  /\ UNCHANGED <<issued, now>>

(* The connection is lost; the client may try again.                       *)
Disconnect(i) ==
  /\ conn[i].st # "none"
  /\ conn' = [conn EXCEPT ![i] = Unconnected]
  /\ UNCHANGED <<pending, issued, now, uses>>

Second ==
  /\ now < MaxTime
  /\ now' = now + 1
  /\ UNCHANGED <<pending, issued, conn, uses>>

Next ==
  \/ \E trial \in BOOLEAN : PendingAuth_Create(trial)
  \/ \E i \in Conn : Connect(i) \/ Receive(i) \/ Disconnect(i)
  \/ Second

Spec == Init /\ [][Next]_vars

-----------------------------------------------------------------------------
(* Properties.                                                             *)

(* A nonce configures one connection at most, although several may hold it *)
(* at once, waiting behind their seed; and one that got past its seed,     *)
(* configured, left to detection or closed, leaves no entry under it for   *)
(* another to find (PendingAuth_Find and PendingAuth_Remove on every path  *)
(* of the branch).                                                         *)
NonceServesOnce ==
  /\ \A n \in Nonce : uses[n] <= 1
  /\ \A i \in Conn : conn[i].st \in {"game", "guess", "closed"} => ~Found(conn[i].seed)

(* A login not yet spent is still there until it is older than the expiry, *)
(* unless as many others as there are slots came in the same second or     *)
(* later.  Those of the same second count because the evicted entry is the *)
(* lowest of the oldest second: in a burst it is the one just made.        *)
KeptWhileRoom ==
  [][\A n \in Given :
       /\ Found(n) /\ ~(\E s \in Slot : pending'[s] = n)
       /\ Age(n) <= Expiry
       /\ Cardinality({m \in DOMAIN issued' \ {n} : issued'[m].created >= issued[n].created}) < Slots
       => \E i \in Conn : conn'[i] # conn[i] /\ conn'[i].seed = n]_vars
=============================================================================
