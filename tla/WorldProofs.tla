----------------------------- MODULE WorldProofs -----------------------------
(***************************************************************************)
(* That a lookup by serial finds exactly what is in the world and that the *)
(* archive's lists stay apart from the world's, for any entities, serials  *)
(* and table sizes; and theorems about Scripts, for any entities, classes, *)
(* pool and depth of nested calls.  A chain of the world's table is        *)
(* described by a rank of each entity that falls along it; the archive's   *)
(* links need no more than to point back, since a save leaves them broken. *)
(***************************************************************************)
EXTENDS MCWorld, FiniteSetTheorems, SequenceTheorems, TLAPS

-----------------------------------------------------------------------------
(* Walks.                                                                  *)

(* Every set of numbers that is not empty has a least one, which stands    *)
(* for induction in what follows.                                          *)
LEMMA LeastNumber ==
  ASSUME NEW T \in SUBSET Nat, T # {}
  PROVE  \E m \in T : \A k \in T : m <= k
<1> DEFINE R == OpToRel(<, Nat)
<1>1. IsWellFoundedOn(R, Nat)
  BY NatLessThanWellFounded
<1>2. PICK m \in T : \A k \in T : ~(<<k, m>> \in R)
  <2> HIDE DEF R
  <2> QED BY <1>1, WFMin
<1>3. \A k \in T : k < m => <<k, m>> \in R
  BY DEF OpToRel
<1> HIDE DEF R
<1>4. \A k \in T : k \in Nat /\ m \in Nat /\ ~(k < m)
  BY <1>2, <1>3
<1> QED BY <1>4


Longest == Cardinality(Entity)
Further(S) == S \cup ({hash.next[e] : e \in S} \ {Null})

(* f lists what the first n steps of a walk from head visit.               *)
Visits(f, head, k) ==
  /\ DOMAIN f = 0..k
  /\ f[0] = {head} \ {Null}
  /\ \A n \in 1..k : f[n] = Further(f[n - 1])

(* The recursion that defines a walk has a solution.                       *)
LEMMA VisitsExist ==
  ASSUME NEW head, NEW K \in Nat
  PROVE  \E f : Visits(f, head, K)
<1> SUFFICES ASSUME \A f : ~Visits(f, head, K) PROVE FALSE
  OBVIOUS
<1> DEFINE T == {k \in Nat : \A f : ~Visits(f, head, k)}
<1>1. PICK m \in T : \A k \in T : m <= k
  BY LeastNumber
<1>2. CASE m = 0
  <2> DEFINE f == [n \in 0..0 |-> {head} \ {Null}]
  <2>1. Visits(f, head, 0)
    BY DEF Visits
  <2> QED BY <1>1, <1>2, <2>1
<1>3. CASE m # 0
  <2>1. m - 1 \in Nat /\ m - 1 \notin T /\ m \in Nat
    BY <1>1, <1>3
  <2>2. PICK f : Visits(f, head, m - 1)
    BY <2>1
  <2> DEFINE g == [n \in 0..m |-> IF n < m THEN f[n] ELSE Further(f[m - 1])]
  <2>3. Visits(g, head, m)
    <3>1. \A n \in 1..m : g[n] = Further(g[n - 1])
      <4> TAKE n \in 1..m
      <4>1. CASE n = m
        BY <2>1, <4>1
      <4>2. CASE n # m
        <5>1. n \in 1..(m - 1) /\ n - 1 \in 0..m /\ n \in 0..m /\ n - 1 < m /\ n < m
          BY <2>1, <4>2
        <5>2. f[n] = Further(f[n - 1])
          BY <2>2, <5>1 DEF Visits
        <5> QED BY <5>1, <5>2
      <4> QED BY <4>1, <4>2
    <3>2. g[0] = {head} \ {Null} /\ DOMAIN g = 0..m
      BY <2>1, <2>2, <1>3 DEF Visits
    <3> QED BY <3>1, <3>2 DEF Visits
  <2> QED BY <1>1, <2>3
<1> QED BY <1>2, <1>3

LEMMA WalkVisits ==
  ASSUME NEW head, Longest \in Nat
  PROVE  \E f : Visits(f, head, Longest) /\ Walk(head) = f[Longest]
<1> DEFINE K == Longest
           Eq(f) == f = [n \in 0..K |-> IF n = 0 THEN {head} \ {Null}
                           ELSE f[n - 1] \cup ({hash.next[e] : e \in f[n - 1]} \ {Null})]
<1>1. PICK f : Visits(f, head, K)
  BY VisitsExist
<1> DEFINE g == [n \in 0..K |-> f[n]]
<1>2. Eq(g)
  <2>1. \A n \in 0..K : g[n] = IF n = 0 THEN {head} \ {Null}
                           ELSE g[n - 1] \cup ({hash.next[e] : e \in g[n - 1]} \ {Null})
    BY <1>1 DEF Visits, Further
  <2> QED BY <2>1
<1> DEFINE u == CHOOSE h : Eq(h)
<1>3. Eq(u)
  BY <1>2
<1>4. Walk(head) = u[K]
  BY DEF Walk, Longest
<1>5. Visits(u, head, K)
  <2> HIDE DEF u
  <2>1. DOMAIN u = 0..K
    BY <1>3
  <2>2. \A n \in 0..K : u[n] = IF n = 0 THEN {head} \ {Null}
                           ELSE u[n - 1] \cup ({hash.next[e] : e \in u[n - 1]} \ {Null})
    BY <1>3
  <2> QED BY <2>1, <2>2 DEF Visits, Further
<1> QED BY <1>4, <1>5

-----------------------------------------------------------------------------
(* What the operations on the tables do, field by field.                   *)
Hash == [next : [Entity -> OrNull], prev : [Entity -> OrNull],
         world : [0..(WorldSize - 1) -> OrNull],
         arch : [0..(ArchiveSize - 1) -> OrNull]]
Bucket == 0..(WorldSize - 1)
ArchBucket == 0..(ArchiveSize - 1)

LEMMA BucketTypes ==
  ASSUME NEW e \in Entity
  PROVE  WB(e) \in Bucket /\ AB(e) \in ArchBucket
BY Serials, Sizes DEF WB, AB, Bucket, ArchBucket

LEMMA WorldInsertIs ==
  ASSUME NEW h \in Hash, NEW e \in Entity, NEW g, g = WorldInsert(h, e)
  PROVE  /\ g \in Hash /\ g.arch = h.arch
         /\ \A y \in Entity :
              /\ g.next[y] = IF y = e THEN h.world[WB(e)] ELSE h.next[y]
              /\ g.prev[y] = IF y = e THEN Null
                             ELSE IF y = h.world[WB(e)] THEN e ELSE h.prev[y]
         /\ \A b \in Bucket : g.world[b] = IF b = WB(e) THEN e ELSE h.world[b]
BY BucketTypes DEF Hash, WorldInsert, Linked, Bucket, OrNull

LEMMA UnlinkedIs ==
  ASSUME NEW h \in Hash, NEW e \in Entity, NEW g, g = Unlinked(h, e)
  PROVE  /\ g \in Hash /\ g.arch = h.arch /\ g.world = h.world
         /\ \A y \in Entity :
              /\ g.next[y] = IF y = e THEN Null
                             ELSE IF y = h.prev[e] THEN h.next[e] ELSE h.next[y]
              /\ g.prev[y] = IF y = e THEN Null
                             ELSE IF y = h.next[e] THEN h.prev[e] ELSE h.prev[y]
BY DEF Hash, Unlinked, OrNull

LEMMA WorldRemoveIs ==
  ASSUME NEW h \in Hash, NEW e \in Entity, NEW g, g = WorldRemove(h, e)
  PROVE  /\ g \in Hash /\ g.arch = h.arch
         /\ \A y \in Entity :
              /\ g.next[y] = IF y = e THEN Null
                             ELSE IF y = h.prev[e] THEN h.next[e] ELSE h.next[y]
              /\ g.prev[y] = IF y = e THEN Null
                             ELSE IF y = h.next[e] THEN h.prev[e] ELSE h.prev[y]
         /\ \A b \in Bucket :
              g.world[b] = IF b = WB(e) /\ h.prev[e] = Null /\ h.world[b] = e
                           THEN h.next[e] ELSE h.world[b]
<1> DEFINE u == Unlinked(h, e)
<1>1. u \in Hash /\ u.world = h.world /\ u.arch = h.arch
  BY UnlinkedIs
<1>2. /\ g \in Hash /\ g.arch = u.arch /\ g.next = u.next /\ g.prev = u.prev
      /\ \A b \in Bucket :
              g.world[b] = IF b = WB(e) /\ h.prev[e] = Null /\ u.world[b] = e
                           THEN h.next[e] ELSE u.world[b]
  <2> DEFINE v == IF h.prev[e] = Null /\ u.world[WB(e)] = e THEN h.next[e] ELSE u.world[WB(e)]
  <2>1. g = [u EXCEPT !.world[WB(e)] = v]
    BY DEF WorldRemove
  <2>2. v \in OrNull /\ WB(e) \in Bucket
    BY <1>1, BucketTypes DEF Hash, Bucket
  <2>3. \A w \in OrNull, b \in Bucket :
           LET q == [u EXCEPT !.world[b] = w] IN
           /\ q \in Hash /\ q.arch = u.arch /\ q.next = u.next /\ q.prev = u.prev
           /\ \A c \in Bucket : q.world[c] = IF c = b THEN w ELSE u.world[c]
    <3> HIDE DEF u
    <3> QED BY <1>1 DEF Hash, Bucket
  <2> HIDE DEF u
  <2> QED BY <2>1, <2>2, <2>3
<1>3. \A y \in Entity :
              /\ u.next[y] = IF y = e THEN Null
                             ELSE IF y = h.prev[e] THEN h.next[e] ELSE h.next[y]
              /\ u.prev[y] = IF y = e THEN Null
                             ELSE IF y = h.next[e] THEN h.prev[e] ELSE h.prev[y]
  BY UnlinkedIs
<1> QED BY <1>1, <1>2, <1>3

LEMMA ArchiveInsertIs ==
  ASSUME NEW h \in Hash, NEW e \in Entity, NEW g, g = ArchiveInsert(h, e)
  PROVE  /\ g \in Hash /\ g.world = h.world
         /\ \A y \in Entity :
              /\ g.next[y] = IF y = e THEN h.arch[AB(e)] ELSE h.next[y]
              /\ g.prev[y] = IF y = e THEN Null
                             ELSE IF y = h.arch[AB(e)] THEN e ELSE h.prev[y]
         /\ \A b \in ArchBucket : g.arch[b] = IF b = AB(e) THEN e ELSE h.arch[b]
BY BucketTypes DEF Hash, ArchiveInsert, Linked, ArchBucket, OrNull

LEMMA ArchiveRemoveIs ==
  ASSUME NEW h \in Hash, NEW e \in Entity, NEW g, g = ArchiveRemove(h, e)
  PROVE  /\ g \in Hash /\ g.world = h.world
         /\ \A y \in Entity :
              /\ g.next[y] = IF y = e THEN Null
                             ELSE IF y = h.prev[e] THEN h.next[e] ELSE h.next[y]
              /\ g.prev[y] = IF y = e THEN Null
                             ELSE IF y = h.next[e] THEN h.prev[e] ELSE h.prev[y]
         /\ \A b \in ArchBucket :
              g.arch[b] = IF b = AB(e) /\ h.prev[e] = Null THEN h.next[e] ELSE h.arch[b]
<1> DEFINE u == Unlinked(h, e)
<1>1. u \in Hash /\ u.world = h.world /\ u.arch = h.arch
  BY UnlinkedIs
<1>2. /\ g \in Hash /\ g.world = u.world /\ g.next = u.next /\ g.prev = u.prev
      /\ \A b \in ArchBucket :
              g.arch[b] = IF b = AB(e) /\ h.prev[e] = Null THEN h.next[e] ELSE u.arch[b]
  <2> DEFINE v == IF h.prev[e] = Null THEN h.next[e] ELSE u.arch[AB(e)]
  <2>1. g = [u EXCEPT !.arch[AB(e)] = v]
    BY DEF ArchiveRemove
  <2>2. v \in OrNull /\ AB(e) \in ArchBucket
    BY <1>1, BucketTypes DEF Hash, ArchBucket
  <2>3. \A w \in OrNull, b \in ArchBucket :
           LET q == [u EXCEPT !.arch[b] = w] IN
           /\ q \in Hash /\ q.world = u.world /\ q.next = u.next /\ q.prev = u.prev
           /\ \A c \in ArchBucket : q.arch[c] = IF c = b THEN w ELSE u.arch[c]
    <3> HIDE DEF u
    <3> QED BY <1>1 DEF Hash, ArchBucket
  <2> HIDE DEF u
  <2> QED BY <2>1, <2>2, <2>3
<1>3. \A y \in Entity :
              /\ u.next[y] = IF y = e THEN Null
                             ELSE IF y = h.prev[e] THEN h.next[e] ELSE h.next[y]
              /\ u.prev[y] = IF y = e THEN Null
                             ELSE IF y = h.next[e] THEN h.prev[e] ELSE h.prev[y]
  BY UnlinkedIs
<1> QED BY <1>1, <1>2, <1>3

-----------------------------------------------------------------------------
(* The chains of the world's table.                                        *)

(* The world's buckets chain exactly the entities of S.  The order of a    *)
(* chain is witnessed by ranks that fall along it: an entity gets, when it *)
(* is put in front, a rank above all that were given before.               *)
Follows(h, S, r, e) ==
  IF h.next[e] = Null
  THEN \A f \in S : WB(f) = WB(e) => r[e] <= r[f]
  ELSE /\ h.next[e] \in S /\ WB(h.next[e]) = WB(e)
       /\ r[h.next[e]] < r[e] /\ h.prev[h.next[e]] = e
       /\ \A f \in S : WB(f) = WB(e) => r[f] <= r[h.next[e]] \/ r[e] <= r[f]

Heads(h, S, r, b) ==
  IF h.world[b] = Null
  THEN \A f \in S : WB(f) # b
  ELSE /\ h.world[b] \in S /\ WB(h.world[b]) = b /\ h.prev[h.world[b]] = Null
       /\ \A f \in S : WB(f) = b => r[f] <= r[h.world[b]]

Ranked(h, S, r, k) ==
  /\ r \in [Entity -> Nat] /\ k \in Nat
  /\ \A e \in S : r[e] < k
  /\ \A e, f \in S : r[e] = r[f] => e = f
  /\ \A e \in S : Follows(h, S, r, e)
  /\ \A e \in S : h.prev[e] = Null \/ (h.prev[e] \in S /\ h.next[h.prev[e]] = e)
  /\ \A e \in S : h.prev[e] = Null => h.world[WB(e)] = e
  /\ \A b \in Bucket : Heads(h, S, r, b)

Chains(h, S) == \E r, k : Ranked(h, S, r, k)

LEMMA ChainsFrame ==
  ASSUME NEW h \in Hash, NEW g \in Hash, NEW S \in SUBSET Entity, Chains(h, S),
         \A e \in S : g.next[e] = h.next[e] /\ g.prev[e] = h.prev[e],
         \A b \in Bucket : g.world[b] = h.world[b]
  PROVE  Chains(g, S)
<1>1. PICK r, k : Ranked(h, S, r, k)
  BY DEF Chains
<1>2. Ranked(g, S, r, k)
  <2>1. \A e \in S : Follows(g, S, r, e)
    BY <1>1 DEF Ranked, Follows
  <2>2. \A b \in Bucket : Heads(g, S, r, b)
    BY <1>1 DEF Ranked, Heads
  <2> QED BY <1>1, <2>1, <2>2, BucketTypes DEF Ranked
<1> QED BY <1>2 DEF Chains

LEMMA ChainsInsert ==
  ASSUME NEW h \in Hash, NEW S \in SUBSET Entity, Chains(h, S),
         NEW e \in Entity, e \notin S
  PROVE  Chains(WorldInsert(h, e), S \cup {e})
<1>1. PICK r, k : Ranked(h, S, r, k)
  BY DEF Chains
<1> DEFINE q == [r EXCEPT ![e] = k]
           g == WorldInsert(h, e)
           x == h.world[WB(e)]
           Z == S \cup {e}
<1>2. /\ g \in Hash
      /\ \A y \in Entity :
              /\ g.next[y] = IF y = e THEN x ELSE h.next[y]
              /\ g.prev[y] = IF y = e THEN Null ELSE IF y = x THEN e ELSE h.prev[y]
      /\ \A b \in Bucket : g.world[b] = IF b = WB(e) THEN e ELSE h.world[b]
  BY WorldInsertIs
<1>3. /\ q \in [Entity -> Nat] /\ q[e] = k /\ k \in Nat /\ k + 1 \in Nat
      /\ \A f \in S : q[f] = r[f] /\ q[f] < k /\ r[f] \in Nat
  BY <1>1 DEF Ranked
<1>4. x = Null \/ (x \in S /\ WB(x) = WB(e) /\ \A f \in S : WB(f) = WB(e) => r[f] <= r[x])
  BY <1>1, BucketTypes DEF Ranked, Heads
<1>5. x = Null => \A f \in S : WB(f) # WB(e)
  BY <1>1, BucketTypes DEF Ranked, Heads
<1> HIDE DEF q, g, x
<1>6. \A d, f \in Z : q[d] = q[f] => d = f
  BY <1>1, <1>3 DEF Ranked
<1>7. ASSUME NEW f \in Z PROVE Follows(g, Z, q, f)
  <2>1. CASE f = e
    BY <1>2, <1>3, <1>4, <1>5, <2>1, Entities DEF Follows
  <2>2. CASE f # e
    <3>1. f \in S /\ Follows(h, S, r, f) /\ g.next[f] = h.next[f] /\ f \in Entity
      BY <1>1, <1>2, <2>2 DEF Ranked
    <3>2. CASE h.next[f] = Null
      BY <1>3, <3>1, <3>2 DEF Follows
    <3>3. CASE h.next[f] # Null
      <4> DEFINE n == h.next[f]
      <4>1. n \in S /\ WB(n) = WB(f) /\ r[n] < r[f] /\ h.prev[n] = f
            /\ \A y \in S : WB(y) = WB(f) => r[y] <= r[n] \/ r[f] <= r[y]
        BY <3>1, <3>3 DEF Follows
      <4>2. n # e /\ n # x
        <5>1. h.prev[n] # Null /\ n # e
          BY <3>1, <4>1, Entities
        <5>2. x # Null => h.prev[x] = Null
          BY <1>1, BucketTypes DEF Ranked, Heads, x
        <5>3. n # Null
          BY <3>3
        <5> QED BY <5>1, <5>2, <5>3
      <4>3. g.prev[n] = f
        BY <1>2, <4>1, <4>2
      <4>4. \A y \in Z : WB(y) = WB(f) => q[y] <= q[n] \/ q[f] <= q[y]
        BY <1>3, <3>1, <4>1
      <4> QED BY <1>3, <3>1, <3>3, <4>1, <4>3, <4>4 DEF Follows
    <3> QED BY <3>2, <3>3
  <2> QED BY <2>1, <2>2
<1>8. ASSUME NEW f \in Z PROVE g.prev[f] = Null \/ (g.prev[f] \in Z /\ g.next[g.prev[f]] = f)
  <2>1. CASE f = e
    BY <1>2, <2>1
  <2>2. CASE f = x /\ f # e
    BY <1>2, <2>2
  <2>3. CASE f # x /\ f # e
    <3>1. f \in S /\ g.prev[f] = h.prev[f]
      BY <1>2, <2>3
    <3>2. h.prev[f] = Null \/ (h.prev[f] \in S /\ h.next[h.prev[f]] = f)
      BY <1>1, <3>1 DEF Ranked
    <3> QED BY <1>2, <3>1, <3>2
  <2> QED BY <2>1, <2>2, <2>3
<1>9. ASSUME NEW f \in Z, g.prev[f] = Null PROVE g.world[WB(f)] = f
  <2>1. CASE f = e
    BY <1>2, <2>1, BucketTypes
  <2>2. CASE f # e
    <3>1. f # x /\ h.prev[f] = Null /\ f \in S
      BY <1>2, <1>9, <2>2, Entities
    <3>2. h.world[WB(f)] = f
      BY <1>1, <3>1 DEF Ranked
    <3> QED BY <1>2, <3>1, <3>2, BucketTypes DEF x
  <2> QED BY <2>1, <2>2
<1>10. ASSUME NEW b \in Bucket PROVE Heads(g, Z, q, b)
  <2>1. CASE b = WB(e)
    BY <1>2, <1>3, <2>1, Entities DEF Heads
  <2>2. CASE b # WB(e)
    <3>1. Heads(h, S, r, b) /\ g.world[b] = h.world[b]
      BY <1>1, <1>2, <2>2 DEF Ranked
    <3>2. h.world[b] # Null => h.world[b] # x /\ h.world[b] # e
      BY <1>4, <3>1, <2>2 DEF Heads
    <3> QED BY <1>2, <1>3, <2>2, <3>1, <3>2 DEF Heads
  <2> QED BY <2>1, <2>2
<1>11. Ranked(g, Z, q, k + 1)
  <2>1. \A f \in Z : q[f] < k + 1
    BY <1>3
  <2> QED BY <1>3, <1>6, <1>7, <1>8, <1>9, <1>10, <2>1 DEF Ranked
<1> QED BY <1>11 DEF Chains, g

LEMMA ChainsRemove ==
  ASSUME NEW h \in Hash, NEW S \in SUBSET Entity, Chains(h, S), NEW e \in S
  PROVE  Chains(WorldRemove(h, e), S \ {e})
<1>1. PICK r, k : Ranked(h, S, r, k)
  BY DEF Chains
<1> DEFINE g == WorldRemove(h, e)
           n == h.next[e]
           p == h.prev[e]
           Z == S \ {e}
<1>2. /\ g \in Hash
      /\ \A y \in Entity :
              /\ g.next[y] = IF y = e THEN Null ELSE IF y = p THEN n ELSE h.next[y]
              /\ g.prev[y] = IF y = e THEN Null ELSE IF y = n THEN p ELSE h.prev[y]
      /\ \A b \in Bucket :
              g.world[b] = IF b = WB(e) /\ p = Null /\ h.world[b] = e THEN n ELSE h.world[b]
  BY WorldRemoveIs
<1>3. Follows(h, S, r, e) /\ \A f \in S : r[f] \in Nat
  BY <1>1 DEF Ranked
<1>4. p = Null \/ (p \in S /\ h.next[p] = e)
  BY <1>1 DEF Ranked
<1>5. n = Null \/ (n \in S /\ WB(n) = WB(e) /\ r[n] < r[e] /\ h.prev[n] = e)
  BY <1>3 DEF Follows
<1>6. p # Null => WB(e) = WB(p) /\ r[e] < r[p] /\ \A f \in S : WB(f) = WB(p) => r[f] <= r[e] \/ r[p] <= r[f]
  BY <1>1, <1>4, Entities DEF Ranked, Follows
<1>7. n # Null => \A f \in S : WB(f) = WB(e) => r[f] <= r[n] \/ r[e] <= r[f]
  BY <1>3 DEF Follows
<1>8. n = Null => \A f \in S : WB(f) = WB(e) => r[e] <= r[f]
  BY <1>3 DEF Follows
<1>9. \A d, f \in S : r[d] = r[f] => d = f
  BY <1>1 DEF Ranked
<1> HIDE DEF g, n, p
<1>10. n # e /\ p # e /\ (p # Null => p # n)
  BY <1>3, <1>4, <1>5, <1>6, Entities
<1>11. ASSUME NEW f \in Z PROVE Follows(g, Z, r, f)
  <2>1. Follows(h, S, r, f) /\ f \in S /\ f # e /\ f \in Entity
    BY <1>1 DEF Ranked
  <2>2. CASE f = p
    <3>1. g.next[f] = n /\ p # Null
      BY <1>2, <2>1, <2>2, Entities
    <3>2. CASE n = Null
      <4>1. ASSUME NEW d \in Z, WB(d) = WB(f) PROVE r[f] <= r[d]
        <5>1. r[e] <= r[d] /\ r[d] # r[e] /\ r[d] \in Nat /\ r[e] \in Nat /\ r[f] \in Nat
          BY <1>3, <1>6, <1>8, <1>9, <2>2, <3>1, <3>2, <4>1
        <5>2. r[d] <= r[e] \/ r[p] <= r[d]
          BY <1>6, <2>2, <3>1, <4>1
        <5> QED BY <2>2, <5>1, <5>2
      <4> QED BY <3>1, <3>2, <4>1 DEF Follows
    <3>3. CASE n # Null
      <4>1. n \in Z /\ WB(n) = WB(f) /\ r[n] < r[f] /\ g.prev[n] = f
        BY <1>2, <1>3, <1>5, <1>6, <1>10, <2>2, <3>1, <3>3
      <4>2. ASSUME NEW d \in Z, WB(d) = WB(f) PROVE r[d] <= r[n] \/ r[f] <= r[d]
        <5>1. r[d] # r[e] /\ r[d] \in Nat /\ r[e] \in Nat /\ r[f] \in Nat /\ r[n] \in Nat
          BY <1>3, <1>5, <1>9, <3>3
        <5>2. r[d] <= r[e] \/ r[p] <= r[d]
          BY <1>6, <2>2, <3>1, <4>2
        <5>3. r[d] <= r[n] \/ r[e] <= r[d]
          BY <1>6, <1>7, <2>2, <3>1, <3>3, <4>2
        <5> QED BY <2>2, <5>1, <5>2, <5>3
      <4> QED BY <3>1, <3>3, <4>1, <4>2 DEF Follows
    <3> QED BY <3>2, <3>3
  <2>3. CASE f # p
    <3>1. g.next[f] = h.next[f]
      BY <1>2, <2>1, <2>3
    <3>2. CASE h.next[f] = Null
      BY <2>1, <3>1, <3>2 DEF Follows
    <3>3. CASE h.next[f] # Null
      <4> DEFINE m == h.next[f]
      <4>1. m \in S /\ WB(m) = WB(f) /\ r[m] < r[f] /\ h.prev[m] = f
            /\ \A y \in S : WB(y) = WB(f) => r[y] <= r[m] \/ r[f] <= r[y]
        BY <2>1, <3>3 DEF Follows
      <4>2. m # e /\ m # n
        BY <1>5, <2>1, <2>3, <4>1, Entities DEF p
      <4>3. g.prev[m] = f
        BY <1>2, <4>1, <4>2
      <4> QED BY <3>1, <3>3, <4>1, <4>2, <4>3 DEF Follows
    <3> QED BY <3>2, <3>3
  <2> QED BY <2>2, <2>3
<1>12. ASSUME NEW f \in Z PROVE g.prev[f] = Null \/ (g.prev[f] \in Z /\ g.next[g.prev[f]] = f)
  <2>1. f \in S /\ f # e /\ f \in Entity /\ (h.prev[f] = Null \/ (h.prev[f] \in S /\ h.next[h.prev[f]] = f))
    BY <1>1 DEF Ranked
  <2>2. CASE f = n
    <3>1. g.prev[f] = p
      BY <1>2, <2>1, <2>2
    <3> QED BY <1>2, <1>4, <1>10, <2>2, <3>1
  <2>3. CASE f # n
    <3>1. g.prev[f] = h.prev[f]
      BY <1>2, <2>1, <2>3
    <3>2. h.prev[f] # e
      BY <2>1, <2>3, Entities DEF n
    <3>3. h.prev[f] # p \/ p = Null
      BY <1>4, <2>1
    <3> QED BY <1>2, <2>1, <3>1, <3>2, <3>3
  <2> QED BY <2>2, <2>3
<1>13. ASSUME NEW f \in Z, g.prev[f] = Null PROVE g.world[WB(f)] = f
  <2>1. f \in S /\ f # e /\ f \in Entity /\ WB(f) \in Bucket
    BY BucketTypes
  <2>2. CASE f = n
    <3>1. p = Null /\ WB(f) = WB(e)
      BY <1>2, <1>5, <1>13, <2>1, <2>2, Entities
    <3>2. h.world[WB(e)] = e
      BY <1>1, <3>1 DEF Ranked, p
    <3> QED BY <1>2, <2>1, <2>2, <3>1, <3>2
  <2>3. CASE f # n
    <3>1. h.prev[f] = Null
      BY <1>2, <1>13, <2>1, <2>3
    <3>2. h.world[WB(f)] = f
      BY <1>1, <2>1, <3>1 DEF Ranked
    <3> QED BY <1>2, <2>1, <3>2
  <2> QED BY <2>2, <2>3
<1>14. ASSUME NEW b \in Bucket PROVE Heads(g, Z, r, b)
  <2>1. Heads(h, S, r, b)
    BY <1>1 DEF Ranked
  <2>2. CASE h.world[b] = e
    <3>1. b = WB(e) /\ p = Null /\ g.world[b] = n /\ \A f \in S : WB(f) = b => r[f] <= r[e]
      BY <1>2, <2>1, <2>2, Entities DEF Heads, p
    <3>2. CASE n = Null
      <4>1. ASSUME NEW f \in Z, WB(f) = b PROVE FALSE
        <5>1. r[f] <= r[e] /\ r[e] <= r[f] /\ r[e] \in Nat /\ r[f] \in Nat
          BY <1>3, <1>8, <3>1, <3>2, <4>1
        <5> QED BY <1>9, <5>1
      <4> QED BY <3>1, <3>2, <4>1 DEF Heads
    <3>3. CASE n # Null
      <4>1. n \in Z /\ WB(n) = b /\ g.prev[n] = Null
        BY <1>2, <1>5, <1>10, <3>1, <3>3
      <4>2. ASSUME NEW f \in Z, WB(f) = b PROVE r[f] <= r[n]
        <5>1. r[f] <= r[e] /\ (r[f] <= r[n] \/ r[e] <= r[f]) /\ r[e] \in Nat /\ r[f] \in Nat
          BY <1>3, <1>7, <3>1, <3>3, <4>2
        <5> QED BY <1>9, <5>1
      <4> QED BY <3>1, <3>3, <4>1, <4>2 DEF Heads
    <3> QED BY <3>2, <3>3
  <2>3. CASE h.world[b] # e
    <3>1. g.world[b] = h.world[b]
      BY <1>2, <2>3
    <3>2. CASE h.world[b] = Null
      BY <2>1, <3>1, <3>2 DEF Heads
    <3>3. CASE h.world[b] # Null
      <4>1. h.world[b] \in S /\ h.world[b] # n
        BY <1>5, <2>1, <3>3, Entities DEF Heads
      <4>2. g.prev[h.world[b]] = Null
        BY <1>2, <2>1, <2>3, <3>3, <4>1 DEF Heads
      <4> QED BY <2>1, <2>3, <3>1, <3>3, <4>1, <4>2 DEF Heads
    <3> QED BY <3>2, <3>3
  <2> QED BY <2>2, <2>3
<1>15. Ranked(g, Z, r, k)
  BY <1>1, <1>9, <1>11, <1>12, <1>13, <1>14 DEF Ranked
<1> QED BY <1>15 DEF Chains, g

-----------------------------------------------------------------------------
(* A walk from a bucket's head visits the bucket's entities and nothing    *)
(* else.                                                                   *)
LEMMA WalkIsExact ==
  ASSUME hash \in Hash, IsFiniteSet(Entity),
         NEW S \in SUBSET Entity, Chains(hash, S), NEW b \in Bucket
  PROVE  Walk(hash.world[b]) = {e \in S : WB(e) = b}
<1> DEFINE B == {e \in S : WB(e) = b}
           K == Longest
<1>1. PICK r, k : Ranked(hash, S, r, k)
  BY DEF Chains
<1>2. K \in Nat
  BY FS_CardinalityType DEF Longest
<1>3. PICK f : Visits(f, hash.world[b], K) /\ Walk(hash.world[b]) = f[K]
  BY <1>2, WalkVisits
<1> DEFINE Closed(U) == /\ U \subseteq B
                        /\ \A e \in U, d \in B : r[e] <= r[d] => d \in U
           Good(n) == Closed(f[n]) /\ (B \subseteq f[n] \/ Cardinality(f[n]) > n)
           T == {n \in 0..K : ~Good(n)}
<1>4. /\ \A e \in S : r[e] \in Nat
      /\ \A d, e \in S : r[d] = r[e] => d = e
  BY <1>1 DEF Ranked
<1>5. \A e \in B : /\ hash.next[e] = Null => \A d \in B : r[e] <= r[d]
                   /\ hash.next[e] # Null =>
                        /\ hash.next[e] \in B /\ r[hash.next[e]] < r[e]
                        /\ \A d \in B : r[d] <= r[hash.next[e]] \/ r[e] <= r[d]
  BY <1>1 DEF Ranked, Follows
<1>6. Good(0)
  <2>1. f[0] = {hash.world[b]} \ {Null}
    BY <1>3 DEF Visits
  <2>2. Heads(hash, S, r, b)
    BY <1>1 DEF Ranked
  <2>3. CASE hash.world[b] = Null
    BY <2>1, <2>2, <2>3 DEF Heads
  <2>4. CASE hash.world[b] # Null
    <3>1. f[0] = {hash.world[b]} /\ Cardinality(f[0]) = 1
      <4>1. f[0] = {hash.world[b]}
        BY <2>1, <2>4
      <4>2. Cardinality({hash.world[b]}) = 1
        BY FS_Singleton
      <4> QED BY <4>1, <4>2
    <3>2. hash.world[b] \in B /\ \A d \in B : r[d] <= r[hash.world[b]]
      BY <2>2, <2>4 DEF Heads
    <3>3. Closed(f[0])
      BY <1>4, <3>1, <3>2
    <3> QED BY <3>1, <3>3
  <2> QED BY <2>3, <2>4
<1>7. ASSUME NEW n \in 1..K, Good(n - 1) PROVE Good(n)
  <2> DEFINE U == f[n - 1]
             V == f[n]
  <2>1. V = U \cup ({hash.next[e] : e \in U} \ {Null}) /\ Closed(U)
    BY <1>3, <1>7 DEF Visits, Further
  <2>2. n - 1 \in Nat /\ n \in Nat
    BY <1>2
  <2> HIDE DEF U, V, B
  <2>3. V \subseteq B
    BY <1>5, <2>1
  <2>4. ASSUME NEW e \in V, NEW d \in B, r[e] <= r[d] PROVE d \in V
    <3>1. CASE e \in U
      BY <2>1, <2>4, <3>1
    <3>2. CASE e \notin U
      <4>1. PICK c \in U : e = hash.next[c] /\ hash.next[c] # Null
        BY <2>1, <3>2
      <4>2. c \in B /\ (r[d] <= r[e] \/ r[c] <= r[d])
        BY <1>5, <2>1, <4>1
      <4>3. e \in B /\ B \subseteq S
        BY <2>3 DEF B
      <4>4. d = e \/ r[c] <= r[d]
        BY <1>4, <2>4, <4>2, <4>3
      <4>5. d = e \/ d \in U
        BY <2>1, <4>1, <4>4
      <4> QED BY <2>1, <4>5
    <3> QED BY <3>1, <3>2
  <2>5. CASE B \subseteq U
    BY <2>1, <2>3, <2>4, <2>5 DEF U, V
  <2>6. CASE ~(B \subseteq U)
    <3>1. Cardinality(U) > n - 1
      BY <1>7, <2>6 DEF U, B
    <3>2. IsFiniteSet(V) /\ IsFiniteSet(U) /\ U \subseteq V
      <4>1. V \subseteq Entity
        BY <2>3 DEF B
      <4> QED BY <2>1, <4>1, FS_Subset
    <3>3. U # {}
      <4>1. U = {} => Cardinality(U) = 0
        BY FS_EmptySet
      <4> QED BY <2>2, <3>1, <4>1
    <3>4. PICK e \in U : \A d \in U : r[e] <= r[d]
      <4> DEFINE R == {r[d] : d \in U}
      <4>1. R \subseteq Nat /\ R # {}
        BY <1>4, <2>1, <3>3 DEF B
      <4>2. PICK m \in R : \A j \in R : m <= j
        <5> HIDE DEF R
        <5> QED BY <4>1, LeastNumber
      <4> QED BY <4>2
    <3>5. PICK d \in B : d \notin U
      BY <2>6
    <3>6. e \in B /\ r[d] < r[e]
      <4>1. e \in B /\ d \in S /\ e \in S
        BY <2>1 DEF B
      <4>2. ~(r[e] <= r[d])
        BY <2>1, <3>5
      <4> QED BY <1>4, <4>1, <4>2
    <3>7. hash.next[e] # Null
      <4>1. d \in S /\ e \in S
        BY <3>6 DEF B
      <4> QED BY <1>4, <1>5, <3>6, <4>1
    <3>8. hash.next[e] \in V /\ hash.next[e] \notin U
      <4>1. hash.next[e] \in B /\ r[hash.next[e]] < r[e]
        BY <1>5, <3>6, <3>7
      <4>2. hash.next[e] \in S /\ e \in S
        BY <3>6, <4>1 DEF B
      <4>3. ~(r[e] <= r[hash.next[e]])
        BY <1>4, <4>1, <4>2
      <4> QED BY <2>1, <3>4, <3>7, <4>3
    <3>9. Cardinality(V) > n
      <4>1. U \cup {hash.next[e]} \in SUBSET V
        BY <3>2, <3>8
      <4>2. Cardinality(U \cup {hash.next[e]}) = Cardinality(U) + 1
        BY <3>2, <3>8, FS_AddElement
      <4>3. Cardinality(U \cup {hash.next[e]}) <= Cardinality(V)
        BY <3>2, <4>1, FS_Subset
      <4>4. Cardinality(U) \in Nat /\ Cardinality(V) \in Nat
        BY <3>2, FS_CardinalityType
      <4> QED BY <2>2, <3>1, <4>2, <4>3, <4>4
    <3> QED BY <2>3, <2>4, <3>9 DEF V
  <2> QED BY <2>5, <2>6
<1>8. T = {}
  <2> SUFFICES ASSUME T # {} PROVE FALSE
    OBVIOUS
  <2>1. PICK m \in T : \A j \in T : m <= j
    <3>1. T \subseteq Nat
      OBVIOUS
    <3> HIDE DEF T
    <3> QED BY <3>1, LeastNumber
  <2>2. m # 0 /\ m \in 0..K /\ ~Good(m)
    <3> HIDE DEF Good
    <3> QED BY <1>6, <2>1
  <2>3. m \in 1..K /\ m - 1 \in 0..K /\ ~(m <= m - 1)
    BY <1>2, <2>2
  <2>4. Good(m - 1)
    <3> HIDE DEF Good
    <3> QED BY <2>1, <2>3
  <2> HIDE DEF Good
  <2> QED BY <1>7, <2>2, <2>3, <2>4
<1>9. Good(K)
  <2> HIDE DEF Good
  <2> QED BY <1>2, <1>8
<1>10. ~(Cardinality(f[K]) > K)
  <2>1. f[K] \in SUBSET Entity
    BY <1>9
  <2> QED BY <1>2, <2>1, FS_Subset, FS_CardinalityType DEF Longest
<1> QED BY <1>3, <1>9, <1>10

-----------------------------------------------------------------------------
(* The invariant.  No reachable state violates LocalInv on the instances   *)
(* that TLC has run; Chains adds the order of the world's chains.          *)

Saving == doing \in {"add", "write", "remove"}

(* Whose things are in the archive or on their way to it.                  *)
Owners == list \cup (IF doing = "archive" THEN {who} ELSE {})
Kept == {e \in Entity : life[e] = "archived" /\ \E p \in Owners : e \in Family(p)}
Gone == {e \in Entity : life[e] \in {"archived", "erased"}}

Families ==
  /\ \A p \in list :
       \/ doing = "restore" /\ p = who
       \/ \A e \in Family(p) : life[e] = "archived"
  /\ \A p, q \in Owners : p # q => pack[p] \cap pack[q] = {}

Underway ==
  /\ doing = "archive" =>
       /\ who \in Player \ list /\ todo \subseteq Family(who)
       /\ \A e \in Family(who) : life[e] = IF e \in todo THEN "world" ELSE "archived"
  /\ doing = "restore" =>
       /\ who \in list /\ todo \subseteq Family(who)
       /\ \A e \in Family(who) : life[e] = IF e \in todo THEN "archived" ELSE "world"
  /\ doing \in {"add", "remove"} => todo \subseteq Listed
  /\ doing \in {"idle", "down"} => todo = {}

Sides(e) == {hash.next[e], hash.prev[e]} \ {Null}

(* What is kept hangs between entities that have left the world, which     *)
(* point back at it except while the world is saved.                       *)
KeptApart ==
  \A e \in Kept \ Faulted :
    /\ Sides(e) \subseteq Gone
    /\ ~Saving => /\ hash.next[e] # Null => hash.prev[hash.next[e]] = e
                  /\ hash.prev[e] # Null => hash.next[hash.prev[e]] = e
                  /\ \A x \in Sides(e) : AB(x) = AB(e)

ArchiveHeads ==
  \A b \in ArchBucket : hash.arch[b] # Null =>
    /\ hash.arch[b] \in Gone /\ AB(hash.arch[b]) = b
    /\ ~Saving => /\ hash.arch[b] \in Kept => hash.prev[hash.arch[b]] = Null
                  /\ \A e \in Kept : hash.next[e] # hash.arch[b]

Written == doing = "remove" => \A e \in Listed \ todo : Sides(e) = {}

AllKept == NoneErased => \A e \in Entity : life[e] = "archived" => e \in Kept

LocalInv == TypeOK /\ Families /\ Underway /\ KeptApart /\ ArchiveHeads /\ Written /\ AllKept

HashInv == LocalInv /\ Chains(hash, InWorld)

-----------------------------------------------------------------------------
LEMMA TypesOfHash == TypeOK => hash \in Hash /\ hash.arch \in [ArchBucket -> OrNull]
BY DEF TypeOK, Hash, ArchBucket

(* The neighbours of an entity of a chain are in it or Null.               *)
LEMMA ChainSides ==
  ASSUME NEW h \in Hash, NEW S \in SUBSET Entity, Chains(h, S), NEW e \in S
  PROVE  h.next[e] \in S \cup {Null} /\ h.prev[e] \in S \cup {Null}
BY DEF Chains, Ranked, Follows

LEMMA ChainHeads ==
  ASSUME NEW h \in Hash, NEW S \in SUBSET Entity, Chains(h, S), NEW b \in Bucket
  PROVE  h.world[b] \in S \cup {Null}
BY DEF Chains, Ranked, Heads

LEMMA HashInit == Init => HashInv
<1> SUFFICES ASSUME Init PROVE HashInv
  OBVIOUS
<1>1. TypeOK
  BY Entities, Sizes DEF Init, TypeOK, OrNull
<1>2. Families /\ Underway /\ Written /\ AllKept /\ Kept = {} /\ InWorld = {}
  BY DEF Init, Families, Underway, Written, AllKept, Kept, Owners, InWorld, Faulted
<1>3. KeptApart /\ ArchiveHeads
  BY <1>2 DEF Init, KeptApart, ArchiveHeads, ArchBucket
<1>4. Ranked(hash, {}, [e \in Entity |-> 0], 0)
  BY DEF Init, Ranked, Heads, Bucket
<1> QED BY <1>1, <1>2, <1>3, <1>4 DEF HashInv, LocalInv, Chains

(* Outside a save nothing archived moves when only entities of the world   *)
(* are linked or unlinked.                                                 *)
LEMMA ArchiveFrame ==
  ASSUME KeptApart, ArchiveHeads, ~Saving, ~Saving', hash \in Hash, hash' \in Hash,
         Kept' = Kept, Gone' = Gone, hash'.arch = hash.arch,
         \A y \in Gone : hash'.next[y] = hash.next[y] /\ hash'.prev[y] = hash.prev[y]
  PROVE  KeptApart' /\ ArchiveHeads'
<1>1. Kept \subseteq Gone /\ Faulted = {} /\ Faulted' = {}
  BY DEF Kept, Gone, Faulted, Saving
<1>2. \A e \in Kept : Sides(e)' = Sides(e)
  BY <1>1 DEF Sides
<1>3. KeptApart'
  <2> SUFFICES ASSUME NEW e \in Kept
               PROVE /\ Sides(e) \subseteq Gone
                     /\ hash'.next[e] # Null => hash'.prev[hash'.next[e]] = e
                     /\ hash'.prev[e] # Null => hash'.next[hash'.prev[e]] = e
                     /\ \A x \in Sides(e) : AB(x) = AB(e)
    BY <1>1, <1>2 DEF KeptApart, AB
  <2>1. /\ Sides(e) \subseteq Gone
        /\ hash.next[e] # Null => hash.prev[hash.next[e]] = e
        /\ hash.prev[e] # Null => hash.next[hash.prev[e]] = e
        /\ \A x \in Sides(e) : AB(x) = AB(e)
    BY <1>1 DEF KeptApart
  <2> QED BY <1>1, <2>1 DEF Sides
<1>4. ArchiveHeads'
  BY <1>1 DEF ArchiveHeads, AB
<1> QED BY <1>3, <1>4

LEMMA CreateStep == ASSUME HashInv, NEW e \in Entity, Create(e) PROVE HashInv'
<1>1. hash \in Hash /\ hash' = WorldInsert(hash, e) /\ e \notin InWorld
      /\ Chains(hash, InWorld) /\ InWorld \in SUBSET Entity
  BY TypesOfHash DEF HashInv, LocalInv, Create, InWorld, Faulted, Idle, Listed, Family, TypeOK
<1>2. life' = [life EXCEPT ![e] = "world"] /\ life[e] = "none" /\ doing = "idle"
      /\ UNCHANGED <<list, pack, doing, who, todo>>
  BY DEF Create, Idle
<1>3. InWorld' = InWorld \cup {e} /\ Kept' = Kept /\ Gone' = Gone /\ e \notin Gone
  BY <1>2 DEF InWorld, Faulted, Kept, Owners, Family, Gone, HashInv, LocalInv, TypeOK
<1>4. Chains(hash', InWorld')
  BY <1>1, <1>3, ChainsInsert
<1>5. /\ hash' \in Hash /\ hash'.arch = hash.arch
      /\ \A y \in Gone : hash'.next[y] = hash.next[y] /\ hash'.prev[y] = hash.prev[y]
  <2>1. hash.world[WB(e)] \notin Gone
    <3>1. hash.world[WB(e)] \in InWorld \cup {Null}
      BY <1>1, ChainHeads, BucketTypes
    <3>2. InWorld \cap Gone = {}
      BY <1>2 DEF InWorld, Gone, Faulted
    <3> QED BY <3>1, <3>2, Entities DEF Gone
  <2>2. /\ hash' \in Hash /\ hash'.arch = hash.arch
        /\ \A y \in Entity :
              /\ hash'.next[y] = IF y = e THEN hash.world[WB(e)] ELSE hash.next[y]
              /\ hash'.prev[y] = IF y = e THEN Null
                                 ELSE IF y = hash.world[WB(e)] THEN e ELSE hash.prev[y]
    BY <1>1, WorldInsertIs
  <2> QED BY <1>3, <2>1, <2>2 DEF Gone
<1>6. KeptApart' /\ ArchiveHeads'
  BY <1>1, <1>2, <1>3, <1>5, ArchiveFrame DEF HashInv, LocalInv, Saving
<1>7. TypeOK'
  BY <1>2, <1>5 DEF HashInv, LocalInv, TypeOK, Hash
<1>8. Families' /\ Underway' /\ Written' /\ AllKept'
  BY <1>2, <1>3 DEF HashInv, LocalInv, TypeOK, Families, Underway, Written, AllKept, NoneErased,
     Owners, Family, Listed
<1> QED BY <1>4, <1>6, <1>7, <1>8 DEF HashInv, LocalInv

LEMMA DestroyStep == ASSUME HashInv, NEW i \in Item, Destroy(i) PROVE HashInv'
<1>1. hash \in Hash /\ hash' = WorldRemove(hash, i) /\ i \in InWorld /\ i \in Entity
      /\ Chains(hash, InWorld) /\ InWorld \in SUBSET Entity
  BY TypesOfHash DEF HashInv, LocalInv, Destroy, InWorld, Faulted, Idle, Listed, Family, TypeOK, Entity
<1>2. life' = [life EXCEPT ![i] = "none"] /\ life[i] = "world" /\ doing = "idle"
      /\ UNCHANGED <<list, pack, doing, who, todo>>
  BY DEF Destroy, Idle
<1>3. InWorld' = InWorld \ {i} /\ Kept' = Kept /\ Gone' = Gone /\ i \notin Gone
  BY <1>1, <1>2 DEF InWorld, Faulted, Kept, Owners, Family, Gone, HashInv, LocalInv, TypeOK
<1>4. Chains(hash', InWorld')
  BY <1>1, <1>3, ChainsRemove
<1>5. /\ hash' \in Hash /\ hash'.arch = hash.arch
      /\ \A y \in Gone : hash'.next[y] = hash.next[y] /\ hash'.prev[y] = hash.prev[y]
  <2>1. hash.next[i] \notin Gone /\ hash.prev[i] \notin Gone
    <3>1. hash.next[i] \in InWorld \cup {Null} /\ hash.prev[i] \in InWorld \cup {Null}
      BY <1>1, ChainSides
    <3>2. InWorld \cap Gone = {}
      BY <1>2 DEF InWorld, Gone, Faulted
    <3> QED BY <3>1, <3>2, Entities DEF Gone
  <2> QED BY <1>1, <1>3, <2>1, WorldRemoveIs DEF Gone
<1>6. KeptApart' /\ ArchiveHeads'
  BY <1>1, <1>2, <1>3, <1>5, ArchiveFrame DEF HashInv, LocalInv, Saving
<1>7. TypeOK'
  BY <1>2, <1>5 DEF HashInv, LocalInv, TypeOK, Hash
<1>8. Families' /\ Underway' /\ Written' /\ AllKept'
  BY <1>1, <1>2, <1>3 DEF HashInv, LocalInv, TypeOK, Families, Underway, Written, AllKept, NoneErased,
     Owners, Family, Listed
<1> QED BY <1>4, <1>6, <1>7, <1>8 DEF HashInv, LocalInv

(* Steps that only begin or end an operation.                              *)
LEMMA ArchiveStep ==
  ASSUME HashInv, NEW p \in Player, NEW I \in SUBSET Item, Archive(p, I) PROVE HashInv'
<1>1. /\ life[p] = "world" /\ \A i \in I : life[i] = "world"
      /\ doing = "idle" /\ doing' = "archive" /\ who' = p /\ todo' = {p} \cup I
      /\ pack' = [pack EXCEPT ![p] = I] /\ UNCHANGED <<hash, life, list>>
  BY DEF Archive, Start, Idle
<1>2. TypeOK'
  BY <1>1 DEF HashInv, LocalInv, TypeOK, Entity
<1>3. p \in Player \ list /\ \A q \in list : pack'[q] = pack[q] /\ pack[q] \cap I = {}
  BY <1>1 DEF HashInv, LocalInv, TypeOK, Families, Family
<1>4. pack'[p] = I /\ Owners' = list \cup {p} /\ Owners = list
  BY <1>1 DEF HashInv, LocalInv, TypeOK, Owners
<1>5. Kept' = Kept /\ Gone' = Gone /\ InWorld' = InWorld /\ ~Saving /\ ~Saving' /\ hash' = hash
      /\ Faulted = {} /\ Faulted' = {}
  BY <1>1, <1>3, <1>4 DEF Kept, Family, Gone, InWorld, Saving, Faulted
<1>6. KeptApart' /\ ArchiveHeads'
  BY <1>5 DEF HashInv, LocalInv, KeptApart, ArchiveHeads, Sides, AB
<1>7. Families' /\ Underway' /\ Written' /\ AllKept'
  BY <1>1, <1>3, <1>4, <1>5 DEF HashInv, LocalInv, TypeOK, Families, Underway, Written, AllKept, NoneErased,
     Family, Listed
<1> QED BY <1>2, <1>5, <1>6, <1>7 DEF HashInv, LocalInv

LEMMA ArchiveDoneStep == ASSUME HashInv, ArchiveDone PROVE HashInv'
<1>1. /\ doing = "archive" /\ todo = {} /\ doing' = "idle" /\ who' = Null /\ todo' = {}
      /\ list' = list \cup {who} /\ UNCHANGED <<hash, life, pack>>
  BY DEF ArchiveDone, Finish
<1>2. who \in Player /\ \A e \in Family(who) : life[e] = "archived"
  BY <1>1 DEF HashInv, LocalInv, Underway
<1>3. TypeOK'
  BY <1>1, <1>2 DEF HashInv, LocalInv, TypeOK
<1>4. Owners' = Owners /\ Kept' = Kept /\ Gone' = Gone /\ InWorld' = InWorld /\ ~Saving /\ ~Saving' /\ hash' = hash
      /\ Faulted = {} /\ Faulted' = {}
  BY <1>1 DEF Owners, Kept, Family, Gone, InWorld, Saving, Faulted
<1>5. KeptApart' /\ ArchiveHeads'
  BY <1>4 DEF HashInv, LocalInv, KeptApart, ArchiveHeads, Sides, AB
<1>6. Families' /\ Underway' /\ Written' /\ AllKept'
  BY <1>1, <1>2, <1>4 DEF HashInv, LocalInv, Families, Underway, Written, AllKept, NoneErased,
     Family, Listed
<1> QED BY <1>3, <1>4, <1>5, <1>6 DEF HashInv, LocalInv

LEMMA RestoreStep == ASSUME HashInv, NEW p \in Player, Restore(p) PROVE HashInv'
<1>1. /\ p \in list /\ doing = "idle" /\ doing' = "restore" /\ who' = p /\ todo' = Family(p)
      /\ UNCHANGED <<hash, life, list, pack>>
  BY DEF Restore, Start, Idle
<1>2. \A e \in Family(p) : life[e] = "archived"
  BY <1>1 DEF HashInv, LocalInv, Families
<1>3. TypeOK'
  BY <1>1 DEF HashInv, LocalInv, TypeOK, Family, Entity
<1>4. Owners' = Owners /\ Kept' = Kept /\ Gone' = Gone /\ InWorld' = InWorld /\ ~Saving /\ ~Saving' /\ hash' = hash
      /\ Faulted = {} /\ Faulted' = {}
  BY <1>1 DEF Owners, Kept, Family, Gone, InWorld, Saving, Faulted
<1>5. KeptApart' /\ ArchiveHeads'
  BY <1>4 DEF HashInv, LocalInv, KeptApart, ArchiveHeads, Sides, AB
<1>6. Families' /\ Underway' /\ Written' /\ AllKept'
  BY <1>1, <1>2, <1>4 DEF HashInv, LocalInv, Families, Underway, Written, AllKept, NoneErased,
     Family, Listed
<1> QED BY <1>3, <1>4, <1>5, <1>6 DEF HashInv, LocalInv

LEMMA RestoreDoneStep == ASSUME HashInv, RestoreDone PROVE HashInv'
<1>1. /\ doing = "restore" /\ todo = {} /\ doing' = "idle" /\ who' = Null /\ todo' = {}
      /\ list' = list \ {who} /\ pack' = [pack EXCEPT ![who] = {}] /\ UNCHANGED <<hash, life>>
  BY DEF RestoreDone, Finish
<1>2. who \in list /\ who \in Player /\ \A e \in Family(who) : life[e] = "world"
  BY <1>1 DEF HashInv, LocalInv, Underway, TypeOK
<1>3. TypeOK'
  BY <1>1, <1>2 DEF HashInv, LocalInv, TypeOK
<1>4. Owners' = Owners \ {who} /\ Kept' = Kept /\ Gone' = Gone /\ InWorld' = InWorld
      /\ ~Saving /\ ~Saving' /\ hash' = hash /\ Faulted = {} /\ Faulted' = {}
      /\ \A q \in list' : pack'[q] = pack[q]
  <2>1. Owners' = Owners \ {who} /\ Owners = list
    BY <1>1 DEF Owners
  <2>2. \A q \in list' : pack'[q] = pack[q]
    BY <1>1 DEF HashInv, LocalInv, TypeOK
  <2>3. Kept' = Kept
    BY <1>1, <1>2, <2>1, <2>2 DEF Kept, Family
  <2> QED BY <1>1, <2>1, <2>2, <2>3 DEF Gone, InWorld, Saving, Faulted
<1>5. KeptApart' /\ ArchiveHeads'
  BY <1>4 DEF HashInv, LocalInv, KeptApart, ArchiveHeads, Sides, AB
<1>6. Families' /\ Underway' /\ Written' /\ AllKept'
  BY <1>1, <1>2, <1>4 DEF HashInv, LocalInv, Families, Underway, Written, AllKept, NoneErased,
     Family, Listed, Owners
<1> QED BY <1>3, <1>4, <1>5, <1>6 DEF HashInv, LocalInv

-----------------------------------------------------------------------------
(* The world save.                                                         *)

LEMMA SaveWorldStep == ASSUME HashInv, SaveWorld PROVE HashInv'
<1>1. /\ doing = "idle" /\ doing' = "add" /\ who' = Null /\ todo' = Listed
      /\ UNCHANGED <<hash, life, list, pack>>
  BY DEF SaveWorld, Start, Idle
<1>2. TypeOK' /\ Listed' = Listed /\ todo' \subseteq Entity
  BY <1>1 DEF HashInv, LocalInv, TypeOK, Listed, Family, Entity
<1>3. Faulted = {} /\ Faulted' = {}
  BY <1>1, <1>2 DEF Faulted
<1>4. Owners' = Owners /\ Kept' = Kept /\ Gone' = Gone /\ InWorld' = InWorld /\ Saving'
  BY <1>1, <1>3 DEF Owners, Kept, Family, Gone, InWorld, Saving
<1>5. KeptApart' /\ ArchiveHeads'
  BY <1>1, <1>3, <1>4 DEF HashInv, LocalInv, KeptApart, ArchiveHeads, Sides, AB
<1>6. Families' /\ Underway' /\ Written' /\ AllKept'
  BY <1>1, <1>2, <1>4 DEF HashInv, LocalInv, Families, Underway, Written, AllKept, NoneErased, Family
<1> QED BY <1>1, <1>2, <1>4, <1>5, <1>6 DEF HashInv, LocalInv

LEMMA WriteCommitStep == ASSUME HashInv, WriteCommit PROVE HashInv'
<1>1. /\ doing = "add" /\ doing' = "write" /\ todo = {}
      /\ UNCHANGED <<hash, life, list, pack, who, todo>>
  BY DEF WriteCommit
<1>2. TypeOK' /\ Listed' = Listed
  BY <1>1 DEF HashInv, LocalInv, TypeOK, Listed, Family
<1>3. Faulted' = Faulted
  BY <1>1, <1>2 DEF Faulted
<1>4. Owners' = Owners /\ Kept' = Kept /\ Gone' = Gone /\ InWorld' = InWorld /\ Saving' /\ Saving
  BY <1>1, <1>3 DEF Owners, Kept, Family, Gone, InWorld, Saving
<1>5. KeptApart' /\ ArchiveHeads'
  BY <1>1, <1>3, <1>4 DEF HashInv, LocalInv, KeptApart, ArchiveHeads, Sides, AB
<1>6. Families' /\ Underway' /\ Written' /\ AllKept'
  BY <1>1, <1>2, <1>4 DEF HashInv, LocalInv, Families, Underway, Written, AllKept, NoneErased, Family
<1> QED BY <1>1, <1>2, <1>4, <1>5, <1>6 DEF HashInv, LocalInv

LEMMA RemoveAllStep == ASSUME HashInv, RemoveAll PROVE HashInv'
<1>1. /\ doing = "write" /\ doing' = "remove" /\ todo' = Listed
      /\ UNCHANGED <<hash, life, list, pack, who>>
  BY DEF RemoveAll
<1>2. TypeOK' /\ Listed' = Listed
  BY <1>1 DEF HashInv, LocalInv, TypeOK, Listed, Family, Entity
<1>3. Faulted' = Faulted
  BY <1>1, <1>2 DEF Faulted
<1>4. Owners' = Owners /\ Kept' = Kept /\ Gone' = Gone /\ InWorld' = InWorld /\ Saving' /\ Saving
  BY <1>1, <1>3 DEF Owners, Kept, Family, Gone, InWorld, Saving
<1>5. KeptApart' /\ ArchiveHeads'
  BY <1>1, <1>3, <1>4 DEF HashInv, LocalInv, KeptApart, ArchiveHeads, Sides, AB
<1>6. Families' /\ Underway' /\ Written' /\ AllKept'
  BY <1>1, <1>2, <1>4 DEF HashInv, LocalInv, Families, Underway, Written, AllKept, NoneErased, Family
<1> QED BY <1>1, <1>2, <1>4, <1>5, <1>6 DEF HashInv, LocalInv

(* The links of everything listed are empty when the save is over.         *)
LEMMA SavedStep ==
  ASSUME HashInv, SaveDone \/ ShutDown PROVE HashInv'
<1>1. /\ doing = "remove" /\ todo = {} /\ doing' \in {"idle", "down"} /\ todo' = {}
      /\ who' \in {who, Null} /\ UNCHANGED <<hash, life, list, pack>>
  BY DEF SaveDone, ShutDown, Finish
<1>2. TypeOK' /\ Listed' = Listed /\ Listed \subseteq Entity
  BY <1>1 DEF HashInv, LocalInv, TypeOK, Listed, Family, Entity
<1>3. Faulted = {} /\ Faulted' = {}
  BY <1>1 DEF Faulted
<1>4. Owners' = Owners /\ Owners = list /\ Kept' = Kept /\ Gone' = Gone /\ InWorld' = InWorld /\ ~Saving'
  BY <1>1, <1>3 DEF Owners, Kept, Family, Gone, InWorld, Saving
<1>5. \A e \in Kept : Sides(e) = {} /\ hash.next[e] = Null /\ hash.prev[e] = Null
  <2>1. Kept \subseteq Listed
    BY <1>4 DEF Kept, Listed
  <2>2. \A e \in Listed : Sides(e) = {}
    BY <1>1 DEF HashInv, LocalInv, Written
  <2> QED BY <2>1, <2>2 DEF Sides
<1>6. KeptApart'
  BY <1>1, <1>3, <1>4, <1>5 DEF KeptApart, Sides
<1>7. ArchiveHeads'
  BY <1>1, <1>4, <1>5 DEF HashInv, LocalInv, ArchiveHeads, AB
<1>8. Families' /\ Underway' /\ Written' /\ AllKept'
  BY <1>1, <1>2, <1>4 DEF HashInv, LocalInv, Families, Underway, Written, AllKept, NoneErased, Family
<1> QED BY <1>1, <1>2, <1>4, <1>6, <1>7, <1>8 DEF HashInv, LocalInv

LEMMA AddOneStep == ASSUME HashInv, NEW e \in Entity, AddOne(e) PROVE HashInv'
<1>1. /\ doing = "add" /\ doing' = "add" /\ e \in todo /\ todo' = todo \ {e}
      /\ hash' = WorldInsert(hash, e) /\ UNCHANGED <<life, list, pack, who>>
  BY DEF AddOne
<1>2. hash \in Hash /\ Chains(hash, InWorld) /\ InWorld \in SUBSET Entity /\ e \in Listed
  BY <1>1, TypesOfHash DEF HashInv, LocalInv, InWorld, Faulted, Listed, Family, TypeOK, Entity, Underway
<1>3. life[e] = "archived" /\ Faulted = Listed \ todo /\ Listed' = Listed
  BY <1>1, <1>2 DEF HashInv, LocalInv, Families, Listed, Family, Faulted
<1>4. Faulted' = Faulted \cup {e} /\ e \notin InWorld
  BY <1>1, <1>2, <1>3 DEF Faulted, InWorld
<1>5. InWorld' = InWorld \cup {e} /\ Kept' = Kept /\ Gone' = Gone /\ Saving /\ Saving'
  BY <1>1, <1>2, <1>4 DEF InWorld, Kept, Owners, Family, Gone, Saving
<1>6. Chains(hash', InWorld')
  BY <1>1, <1>2, <1>4, <1>5, ChainsInsert
<1>7. /\ hash' \in Hash /\ hash'.arch = hash.arch
      /\ \A y \in Kept \ Faulted' : Sides(y)' = Sides(y)
  <2>1. hash.world[WB(e)] \in InWorld \cup {Null}
    BY <1>2, ChainHeads, BucketTypes
  <2>2. Kept \ Faulted' \subseteq Entity \ (InWorld \cup {e})
    BY <1>4 DEF Kept, InWorld
  <2>3. /\ hash' \in Hash /\ hash'.arch = hash.arch
        /\ \A y \in Entity :
              /\ hash'.next[y] = IF y = e THEN hash.world[WB(e)] ELSE hash.next[y]
              /\ hash'.prev[y] = IF y = e THEN Null
                                 ELSE IF y = hash.world[WB(e)] THEN e ELSE hash.prev[y]
    BY <1>1, <1>2, WorldInsertIs
  <2> QED BY <2>1, <2>2, <2>3, Entities DEF Sides
<1>8. KeptApart'
  <2>1. \A y \in Kept \ Faulted : Sides(y) \subseteq Gone
    BY DEF HashInv, LocalInv, KeptApart
  <2> QED BY <1>4, <1>5, <1>7, <2>1 DEF KeptApart
<1>9. ArchiveHeads'
  BY <1>5, <1>7 DEF HashInv, LocalInv, ArchiveHeads, AB
<1>10. TypeOK'
  BY <1>1, <1>7 DEF HashInv, LocalInv, TypeOK, Hash
<1>11. Families' /\ Underway' /\ Written' /\ AllKept'
  BY <1>1, <1>3, <1>5 DEF HashInv, LocalInv, Families, Underway, Written, AllKept, NoneErased, Owners, Family
<1> QED BY <1>6, <1>8, <1>9, <1>10, <1>11 DEF HashInv, LocalInv

LEMMA RemoveOneStep == ASSUME HashInv, NEW e \in Entity, RemoveOne(e) PROVE HashInv'
<1>1. /\ doing = "remove" /\ doing' = "remove" /\ e \in todo /\ todo' = todo \ {e}
      /\ hash' = WorldRemove(hash, e) /\ UNCHANGED <<life, list, pack, who>>
  BY DEF RemoveOne
<1>2. hash \in Hash /\ Chains(hash, InWorld) /\ InWorld \in SUBSET Entity /\ e \in Listed
  BY <1>1, TypesOfHash DEF HashInv, LocalInv, InWorld, Faulted, Listed, Family, TypeOK, Entity, Underway
<1>3. life[e] = "archived" /\ Faulted = todo /\ Listed' = Listed
  BY <1>1, <1>2 DEF HashInv, LocalInv, Families, Listed, Family, Faulted
<1>4. Faulted' = Faulted \ {e} /\ e \in InWorld
  BY <1>1, <1>2, <1>3 DEF Faulted, InWorld
<1>5. InWorld' = InWorld \ {e} /\ Kept' = Kept /\ Gone' = Gone /\ Saving /\ Saving'
  BY <1>1, <1>2, <1>3, <1>4 DEF InWorld, Kept, Owners, Family, Gone, Saving
<1>6. Chains(hash', InWorld')
  BY <1>1, <1>2, <1>4, <1>5, ChainsRemove
<1>7. /\ hash' \in Hash /\ hash'.arch = hash.arch /\ Sides(e)' = {}
      /\ \A y \in Entity \ InWorld : Sides(y)' = Sides(y)
  <2>1. hash.next[e] \in InWorld \cup {Null} /\ hash.prev[e] \in InWorld \cup {Null}
    BY <1>2, <1>4, ChainSides
  <2>2. /\ hash' \in Hash /\ hash'.arch = hash.arch
        /\ \A y \in Entity :
              /\ hash'.next[y] = IF y = e THEN Null
                                 ELSE IF y = hash.prev[e] THEN hash.next[e] ELSE hash.next[y]
              /\ hash'.prev[y] = IF y = e THEN Null
                                 ELSE IF y = hash.next[e] THEN hash.prev[e] ELSE hash.prev[y]
    BY <1>1, <1>2, WorldRemoveIs
  <2> QED BY <1>4, <2>1, <2>2, Entities DEF Sides
<1>8. KeptApart'
  <2>1. \A y \in Kept \ Faulted : Sides(y) \subseteq Gone /\ y \in Entity \ InWorld
    BY DEF HashInv, LocalInv, KeptApart, Kept, InWorld
  <2> QED BY <1>4, <1>5, <1>7, <2>1 DEF KeptApart
<1>9. ArchiveHeads'
  BY <1>5, <1>7 DEF HashInv, LocalInv, ArchiveHeads, AB
<1>10. TypeOK'
  BY <1>1, <1>7 DEF HashInv, LocalInv, TypeOK, Hash
<1>11. Written'
  <2>1. \A y \in Listed \ todo : y \in Entity \ InWorld /\ Sides(y) = {}
    BY <1>1, <1>3 DEF HashInv, LocalInv, Written, Families, InWorld, Listed, Family, TypeOK, Entity
  <2> QED BY <1>1, <1>3, <1>7, <2>1 DEF Written
<1>12. Families' /\ Underway' /\ AllKept'
  BY <1>1, <1>3, <1>5 DEF HashInv, LocalInv, Families, Underway, AllKept, NoneErased, Owners, Family
<1> QED BY <1>6, <1>8, <1>9, <1>10, <1>11, <1>12 DEF HashInv, LocalInv

-----------------------------------------------------------------------------
(* Steps that move one entity between the tables.                          *)

(* The links of the archived entities K, outside a save, in a table h.     *)
LinksWell(h, K, G) ==
  \A e \in K :
    /\ h.next[e] # Null =>
         h.next[e] \in G /\ h.prev[h.next[e]] = e /\ AB(h.next[e]) = AB(e)
    /\ h.prev[e] # Null =>
         h.prev[e] \in G /\ h.next[h.prev[e]] = e /\ AB(h.prev[e]) = AB(e)

HeadsWell(h, K, G) ==
  \A b \in ArchBucket : h.arch[b] # Null =>
    /\ h.arch[b] \in G /\ AB(h.arch[b]) = b
    /\ h.arch[b] \in K => h.prev[h.arch[b]] = Null
    /\ \A e \in K : h.next[e] # h.arch[b]

LEMMA WellOutsideSave ==
  ASSUME ~Saving
  PROVE  KeptApart /\ ArchiveHeads <=> LinksWell(hash, Kept, Gone) /\ HeadsWell(hash, Kept, Gone)
<1>1. Kept \ Faulted = Kept
  BY DEF Faulted, Saving
<1> QED BY <1>1 DEF KeptApart, ArchiveHeads, LinksWell, HeadsWell, Sides

LEMMA WellOutsideSaveNext ==
  ASSUME ~Saving', LinksWell(hash', Kept', Gone'), HeadsWell(hash', Kept', Gone')
  PROVE  KeptApart' /\ ArchiveHeads'
<1>1. (Kept \ Faulted)' = Kept'
  BY DEF Faulted, Saving
<1> QED BY <1>1 DEF KeptApart, ArchiveHeads, LinksWell, HeadsWell, Sides, AB

LEMMA ArchiveRemoveWell ==
  ASSUME NEW h \in Hash, NEW G \in SUBSET Entity, NEW K \in SUBSET G, NEW e \in K,
         LinksWell(h, K, G), HeadsWell(h, K, G), NEW g, g = ArchiveRemove(h, e)
  PROVE  LinksWell(g, K \ {e}, G \ {e}) /\ HeadsWell(g, K \ {e}, G \ {e})
<1> DEFINE n == h.next[e]
           p == h.prev[e]
           M == K \ {e}
           F == G \ {e}
<1>1. /\ g \in Hash
      /\ \A y \in Entity :
              /\ g.next[y] = IF y = e THEN Null ELSE IF y = p THEN n ELSE h.next[y]
              /\ g.prev[y] = IF y = e THEN Null ELSE IF y = n THEN p ELSE h.prev[y]
      /\ \A b \in ArchBucket : g.arch[b] = IF b = AB(e) /\ p = Null THEN n ELSE h.arch[b]
  BY ArchiveRemoveIs
<1>2. /\ n # Null => n \in G /\ h.prev[n] = e /\ AB(n) = AB(e)
      /\ p # Null => p \in G /\ h.next[p] = e /\ AB(p) = AB(e)
  BY DEF LinksWell
<1> HIDE DEF n, p
<1>3. LinksWell(g, M, F)
  <2> SUFFICES ASSUME NEW f \in M
               PROVE /\ g.next[f] # Null =>
                          g.next[f] \in F /\ g.prev[g.next[f]] = f /\ AB(g.next[f]) = AB(f)
                     /\ g.prev[f] # Null =>
                          g.prev[f] \in F /\ g.next[g.prev[f]] = f /\ AB(g.prev[f]) = AB(f)
    BY DEF LinksWell
  <2>1. /\ h.next[f] # Null => h.next[f] \in G /\ h.prev[h.next[f]] = f /\ AB(h.next[f]) = AB(f)
        /\ h.prev[f] # Null => h.prev[f] \in G /\ h.next[h.prev[f]] = f /\ AB(h.prev[f]) = AB(f)
    BY DEF LinksWell
  <2>2. f # e /\ f \in Entity /\ f # Null /\ e # Null
    BY Entities
  <2>3. ASSUME g.next[f] # Null
        PROVE  g.next[f] \in F /\ g.prev[g.next[f]] = f /\ AB(g.next[f]) = AB(f)
    <3>1. CASE f = p
      <4>1. g.next[f] = n
        BY <1>1, <2>2, <3>1
      <4>2. n # e
        BY <1>2, <2>2, <3>1 DEF n, p
      <4> QED BY <1>1, <1>2, <2>2, <2>3, <3>1, <4>1, <4>2
    <3>2. CASE f # p
      <4>1. g.next[f] = h.next[f] /\ h.next[f] # e
        BY <1>1, <2>1, <2>2, <3>2 DEF p
      <4>2. h.next[f] # n
        BY <1>2, <2>1, <2>2, <2>3, <4>1
      <4> QED BY <1>1, <2>1, <2>3, <4>1, <4>2
    <3> QED BY <3>1, <3>2
  <2>4. ASSUME g.prev[f] # Null
        PROVE  g.prev[f] \in F /\ g.next[g.prev[f]] = f /\ AB(g.prev[f]) = AB(f)
    <3>1. CASE f = n
      <4>1. g.prev[f] = p
        BY <1>1, <2>2, <3>1
      <4>2. p # e
        BY <1>2, <2>2, <3>1 DEF n, p
      <4> QED BY <1>1, <1>2, <2>2, <2>4, <3>1, <4>1, <4>2
    <3>2. CASE f # n
      <4>1. g.prev[f] = h.prev[f] /\ h.prev[f] # e
        BY <1>1, <2>1, <2>2, <3>2 DEF n
      <4>2. h.prev[f] # p
        BY <1>2, <2>1, <2>2, <2>4, <4>1
      <4> QED BY <1>1, <2>1, <2>4, <4>1, <4>2
    <3> QED BY <3>1, <3>2
  <2> QED BY <2>3, <2>4
<1>4. HeadsWell(g, M, F)
  <2> SUFFICES ASSUME NEW b \in ArchBucket, g.arch[b] # Null
               PROVE /\ g.arch[b] \in F /\ AB(g.arch[b]) = b
                     /\ g.arch[b] \in M => g.prev[g.arch[b]] = Null
                     /\ \A f \in M : g.next[f] # g.arch[b]
    BY DEF HeadsWell
  <2> DEFINE a == h.arch[b]
  <2>1. a # Null => /\ a \in G /\ AB(a) = b
                    /\ a \in K => h.prev[a] = Null
                    /\ \A f \in K : h.next[f] # a
    BY DEF HeadsWell
  <2>2. CASE b = AB(e) /\ p = Null
    <3>1. g.arch[b] = n /\ n # Null
      BY <1>1, <2>2
    <3>2. n # e
      BY <1>2, <2>2, <3>1 DEF p
    <3>3. g.prev[n] = Null
      BY <1>1, <1>2, <2>2, <3>1, <3>2
    <3>4. ASSUME NEW f \in M, g.next[f] = n PROVE FALSE
      <4>1. g.prev[n] = f
        BY <1>3, <3>1, <3>4 DEF LinksWell
      <4> QED BY <3>3, <4>1, Entities
    <3> QED BY <1>2, <2>2, <3>1, <3>2, <3>3, <3>4
  <2>3. CASE ~(b = AB(e) /\ p = Null)
    <3>1. g.arch[b] = a /\ a # Null
      BY <1>1, <2>3
    <3>2. a # e
      BY <2>1, <2>3, <3>1 DEF p
    <3>3. a # n
      BY <2>1, <3>1 DEF n
    <3>4. a \in M => g.prev[a] = Null
      BY <1>1, <2>1, <3>1, <3>2, <3>3
    <3>5. \A f \in M : g.next[f] # a
      BY <1>1, <2>1, <3>1, <3>3
    <3> QED BY <2>1, <3>1, <3>2, <3>4, <3>5
  <2> QED BY <2>2, <2>3
<1> QED BY <1>3, <1>4

LEMMA ArchiveInsertWell ==
  ASSUME NEW h \in Hash, NEW G \in SUBSET Entity, NEW K \in SUBSET G,
         NEW e \in Entity, e \notin G,
         LinksWell(h, K, G), HeadsWell(h, K, G), NEW g, g = ArchiveInsert(h, e)
  PROVE  LinksWell(g, K \cup {e}, G \cup {e}) /\ HeadsWell(g, K \cup {e}, G \cup {e})
<1> DEFINE x == h.arch[AB(e)]
           M == K \cup {e}
           F == G \cup {e}
<1>1. /\ g \in Hash
      /\ \A y \in Entity :
              /\ g.next[y] = IF y = e THEN x ELSE h.next[y]
              /\ g.prev[y] = IF y = e THEN Null ELSE IF y = x THEN e ELSE h.prev[y]
      /\ \A b \in ArchBucket : g.arch[b] = IF b = AB(e) THEN e ELSE h.arch[b]
  BY ArchiveInsertIs
<1>2. x # Null => /\ x \in G /\ AB(x) = AB(e)
                  /\ x \in K => h.prev[x] = Null
                  /\ \A f \in K : h.next[f] # x
  BY BucketTypes DEF HeadsWell
<1> HIDE DEF x
<1>3. LinksWell(g, M, F)
  <2>1. ASSUME NEW f \in M, g.next[f] # Null
        PROVE  g.next[f] \in F /\ g.prev[g.next[f]] = f /\ AB(g.next[f]) = AB(f)
    <3>1. CASE f = e
      BY <1>1, <1>2, <2>1, <3>1
    <3>2. CASE f # e
      <4>1. g.next[f] = h.next[f] /\ f \in K
        BY <1>1, <2>1, <3>2
      <4>2. h.next[f] \in G /\ h.prev[h.next[f]] = f /\ AB(h.next[f]) = AB(f)
        BY <2>1, <4>1 DEF LinksWell
      <4>3. h.next[f] # x
        BY <1>2, <2>1, <4>1
      <4> QED BY <1>1, <4>1, <4>2, <4>3
    <3> QED BY <3>1, <3>2
  <2>2. ASSUME NEW f \in M, g.prev[f] # Null
        PROVE  g.prev[f] \in F /\ g.next[g.prev[f]] = f /\ AB(g.prev[f]) = AB(f)
    <3>1. f # e /\ f \in K
      BY <1>1, <2>2
    <3>2. CASE f = x
      BY <1>1, <1>2, <3>1, <3>2, Entities
    <3>3. CASE f # x
      <4>1. g.prev[f] = h.prev[f]
        BY <1>1, <3>1, <3>3
      <4>2. h.prev[f] \in G /\ h.next[h.prev[f]] = f /\ AB(h.prev[f]) = AB(f)
        BY <2>2, <3>1, <4>1 DEF LinksWell
      <4> QED BY <1>1, <4>1, <4>2
    <3> QED BY <3>2, <3>3
  <2> QED BY <2>1, <2>2 DEF LinksWell
<1>4. HeadsWell(g, M, F)
  <2> SUFFICES ASSUME NEW b \in ArchBucket, g.arch[b] # Null
               PROVE /\ g.arch[b] \in F /\ AB(g.arch[b]) = b
                     /\ g.arch[b] \in M => g.prev[g.arch[b]] = Null
                     /\ \A f \in M : g.next[f] # g.arch[b]
    BY DEF HeadsWell
  <2>1. CASE b = AB(e)
    <3>1. g.arch[b] = e /\ g.prev[e] = Null
      BY <1>1, <2>1
    <3>2. ASSUME NEW f \in M, g.next[f] = e PROVE FALSE
      <4>1. CASE f = e
        BY <1>1, <1>2, <3>2, <4>1, Entities
      <4>2. CASE f # e
        BY <1>1, <3>2, <4>2, Entities DEF LinksWell
      <4> QED BY <4>1, <4>2
    <3> QED BY <2>1, <3>1, <3>2
  <2>2. CASE b # AB(e)
    <3> DEFINE a == h.arch[b]
    <3>1. g.arch[b] = a /\ a # Null
      BY <1>1, <2>2
    <3>2. /\ a \in G /\ AB(a) = b
          /\ a \in K => h.prev[a] = Null
          /\ \A f \in K : h.next[f] # a
      BY <3>1 DEF HeadsWell
    <3> HIDE DEF a
    <3>3. a # e /\ a # x
      BY <1>2, <2>2, <3>1, <3>2
    <3> QED BY <1>1, <3>1, <3>2, <3>3
  <2> QED BY <2>1, <2>2
<1> QED BY <1>3, <1>4

LEMMA WellFrame ==
  ASSUME NEW h \in Hash, NEW g \in Hash, NEW G \in SUBSET Entity, NEW K \in SUBSET G,
         LinksWell(h, K, G), HeadsWell(h, K, G), g.arch = h.arch,
         \A y \in G : g.next[y] = h.next[y] /\ g.prev[y] = h.prev[y]
  PROVE  LinksWell(g, K, G) /\ HeadsWell(g, K, G)
<1>1. LinksWell(g, K, G)
  BY DEF LinksWell
<1>2. HeadsWell(g, K, G)
  BY DEF HeadsWell
<1> QED BY <1>1, <1>2

LEMMA ArchiveOneStep == ASSUME HashInv, NEW e \in Entity, ArchiveOne(e) PROVE HashInv'
<1> DEFINE h == WorldRemove(hash, e)
<1>1. /\ doing = "archive" /\ doing' = "archive" /\ e \in todo /\ todo' = todo \ {e}
      /\ hash' = ArchiveInsert(h, e) /\ life' = [life EXCEPT ![e] = "archived"]
      /\ UNCHANGED <<list, pack, who>>
  BY DEF ArchiveOne, PutAway
<1>2. /\ hash \in Hash /\ Chains(hash, InWorld) /\ InWorld \in SUBSET Entity
      /\ who \in Player \ list /\ e \in Family(who) /\ life[e] = "world" /\ e \in InWorld
  BY <1>1, TypesOfHash DEF HashInv, LocalInv, InWorld, Faulted, TypeOK, Entity, Underway
<1>3. /\ InWorld' = InWorld \ {e} /\ Kept' = Kept \cup {e} /\ Gone' = Gone \cup {e}
      /\ e \notin Gone /\ Kept \subseteq Gone /\ Gone \subseteq Entity
      /\ ~Saving /\ ~Saving' /\ InWorld \cap Gone = {}
  BY <1>1, <1>2 DEF InWorld, Faulted, Kept, Owners, Family, Gone, Saving, HashInv, LocalInv, TypeOK
<1>4. /\ h \in Hash /\ h.arch = hash.arch /\ Chains(h, InWorld \ {e})
      /\ \A y \in Gone : h.next[y] = hash.next[y] /\ h.prev[y] = hash.prev[y]
  <2>1. hash.next[e] \in InWorld \cup {Null} /\ hash.prev[e] \in InWorld \cup {Null}
    BY <1>2, ChainSides
  <2>2. /\ h \in Hash /\ h.arch = hash.arch
         /\ \A y \in Entity :
              /\ h.next[y] = IF y = e THEN Null
                             ELSE IF y = hash.prev[e] THEN hash.next[e] ELSE hash.next[y]
              /\ h.prev[y] = IF y = e THEN Null
                             ELSE IF y = hash.next[e] THEN hash.prev[e] ELSE hash.prev[y]
    BY <1>2, WorldRemoveIs
  <2>3. Chains(h, InWorld \ {e})
    BY <1>2, ChainsRemove
  <2> HIDE DEF h
  <2> QED BY <1>3, <2>1, <2>2, <2>3, Entities
<1> HIDE DEF h
<1>5. LinksWell(hash, Kept, Gone) /\ HeadsWell(hash, Kept, Gone)
  BY <1>3, WellOutsideSave DEF HashInv, LocalInv
<1>6. LinksWell(h, Kept, Gone) /\ HeadsWell(h, Kept, Gone)
  BY <1>2, <1>3, <1>4, <1>5, WellFrame
<1>7. LinksWell(hash', Kept', Gone') /\ HeadsWell(hash', Kept', Gone')
  BY <1>1, <1>2, <1>3, <1>4, <1>6, ArchiveInsertWell
<1>8. KeptApart' /\ ArchiveHeads'
  BY <1>3, <1>7, WellOutsideSaveNext
<1>9. hash' \in Hash /\ Chains(hash', InWorld')
  <2>1. /\ hash' \in Hash /\ hash'.world = h.world
         /\ \A y \in Entity :
              /\ hash'.next[y] = IF y = e THEN h.arch[AB(e)] ELSE h.next[y]
              /\ hash'.prev[y] = IF y = e THEN Null
                             ELSE IF y = h.arch[AB(e)] THEN e ELSE h.prev[y]
    BY <1>1, <1>2, <1>4, ArchiveInsertIs
  <2>2. h.arch[AB(e)] \in Gone \cup {Null}
    BY <1>6, BucketTypes DEF HeadsWell
  <2>3. \A f \in InWorld \ {e} : hash'.next[f] = h.next[f] /\ hash'.prev[f] = h.prev[f]
    BY <1>2, <1>3, <2>1, <2>2, Entities
  <2> QED BY <1>2, <1>3, <1>4, <2>1, <2>3, ChainsFrame
<1>10. TypeOK'
  BY <1>1, <1>9 DEF HashInv, LocalInv, TypeOK, Hash
<1>11. Families' /\ Underway' /\ Written' /\ AllKept'
  <2>1. \A q \in list : e \notin Family(q)
    BY <1>1, <1>2 DEF HashInv, LocalInv, Families
  <2>2. Families'
    BY <1>1, <1>2, <2>1 DEF HashInv, LocalInv, TypeOK, Families, Owners, Family, Entity
  <2>3. Underway' /\ Written'
    BY <1>1, <1>2 DEF HashInv, LocalInv, TypeOK, Underway, Family, Entity, Written
  <2>4. AllKept'
    BY <1>1, <1>2, <1>3 DEF HashInv, LocalInv, TypeOK, AllKept, NoneErased
  <2> QED BY <2>2, <2>3, <2>4
<1> QED BY <1>8, <1>9, <1>10, <1>11 DEF HashInv, LocalInv

LEMMA RestoreOneStep == ASSUME HashInv, NEW e \in Entity, RestoreOne(e) PROVE HashInv'
<1> DEFINE h == ArchiveRemove(hash, e)
<1>1. /\ doing = "restore" /\ doing' = "restore" /\ e \in todo /\ todo' = todo \ {e}
      /\ hash' = WorldInsert(h, e) /\ life' = [life EXCEPT ![e] = "world"]
      /\ UNCHANGED <<list, pack, who>>
  BY DEF RestoreOne, TakeOut
<1>2. /\ hash \in Hash /\ Chains(hash, InWorld) /\ InWorld \in SUBSET Entity
      /\ who \in list /\ e \in Family(who) /\ life[e] = "archived" /\ e \notin InWorld
  BY <1>1, TypesOfHash DEF HashInv, LocalInv, InWorld, Faulted, TypeOK, Entity, Underway
<1>3. /\ InWorld' = InWorld \cup {e} /\ Kept' = Kept \ {e} /\ Gone' = Gone \ {e}
      /\ e \in Kept /\ Kept \subseteq Gone /\ Gone \subseteq Entity
      /\ ~Saving /\ ~Saving' /\ InWorld \cap Gone = {}
  BY <1>1, <1>2 DEF InWorld, Faulted, Kept, Owners, Family, Gone, Saving, HashInv, LocalInv, TypeOK
<1>4. LinksWell(hash, Kept, Gone) /\ HeadsWell(hash, Kept, Gone)
  BY <1>3, WellOutsideSave DEF HashInv, LocalInv
<1>5. LinksWell(h, Kept', Gone') /\ HeadsWell(h, Kept', Gone')
  BY <1>2, <1>3, <1>4, ArchiveRemoveWell
<1>6. h \in Hash /\ Chains(h, InWorld)
  <2>1. /\ h \in Hash /\ h.world = hash.world
         /\ \A y \in Entity :
              /\ h.next[y] = IF y = e THEN Null
                             ELSE IF y = hash.prev[e] THEN hash.next[e] ELSE hash.next[y]
              /\ h.prev[y] = IF y = e THEN Null
                             ELSE IF y = hash.next[e] THEN hash.prev[e] ELSE hash.prev[y]
    BY <1>2, ArchiveRemoveIs
  <2>2. hash.next[e] \in Gone \cup {Null} /\ hash.prev[e] \in Gone \cup {Null}
    BY <1>3, <1>4 DEF LinksWell
  <2> HIDE DEF h
  <2>3. \A f \in InWorld : h.next[f] = hash.next[f] /\ h.prev[f] = hash.prev[f]
    BY <1>2, <1>3, <2>1, <2>2, Entities
  <2> QED BY <1>2, <2>1, <2>3, ChainsFrame
<1> HIDE DEF h
<1>7. /\ hash' \in Hash /\ hash'.arch = h.arch
      /\ \A y \in Entity :
              /\ hash'.next[y] = IF y = e THEN h.world[WB(e)] ELSE h.next[y]
              /\ hash'.prev[y] = IF y = e THEN Null
                             ELSE IF y = h.world[WB(e)] THEN e ELSE h.prev[y]
  BY <1>1, <1>6, WorldInsertIs
<1>8. KeptApart' /\ ArchiveHeads'
  <2>1. h.world[WB(e)] \in InWorld \cup {Null}
    BY <1>2, <1>6, ChainHeads, BucketTypes
  <2>2. \A y \in Gone' : hash'.next[y] = h.next[y] /\ hash'.prev[y] = h.prev[y]
    BY <1>3, <1>7, <2>1, Entities
  <2>3. LinksWell(hash', Kept', Gone') /\ HeadsWell(hash', Kept', Gone')
    BY <1>3, <1>5, <1>6, <1>7, <2>2, WellFrame
  <2> QED BY <1>3, <2>3, WellOutsideSaveNext
<1>9. Chains(hash', InWorld')
  BY <1>1, <1>2, <1>3, <1>6, ChainsInsert
<1>10. TypeOK'
  BY <1>1, <1>7 DEF HashInv, LocalInv, TypeOK, Hash
<1>11. Families' /\ Underway' /\ Written' /\ AllKept'
  <2>1. \A q \in list : q # who => e \notin Family(q)
    <3> SUFFICES ASSUME NEW q \in list, q # who, e \in Family(q) PROVE FALSE
      OBVIOUS
    <3>1. pack[q] \cap pack[who] = {} /\ pack[q] \subseteq Item /\ pack[who] \subseteq Item
          /\ q \in Player /\ who \in Player
      BY <1>1, <1>2 DEF HashInv, LocalInv, TypeOK, Families, Owners
    <3> QED BY <1>2, <3>1, Entities DEF Family
  <2>2. Families'
    BY <1>1, <1>2, <2>1 DEF HashInv, LocalInv, TypeOK, Families, Owners, Family, Entity
  <2>3. Underway' /\ Written'
    BY <1>1, <1>2 DEF HashInv, LocalInv, TypeOK, Underway, Family, Entity, Written
  <2>4. AllKept'
    BY <1>1, <1>2, <1>3 DEF HashInv, LocalInv, TypeOK, AllKept, NoneErased
  <2> QED BY <2>2, <2>3, <2>4
<1> QED BY <1>7, <1>8, <1>9, <1>10, <1>11 DEF HashInv, LocalInv

LEMMA EraseStep ==
  ASSUME HashInv, "lingering" \notin Deletes, NEW p \in Player, EraseEntity(p)
  PROVE  HashInv'
<1>1. /\ doing = "idle" /\ p \in list /\ hash' = ArchiveRemove(hash, p) /\ list' = list \ {p}
      /\ life' = [life EXCEPT ![p] = "erased"] /\ UNCHANGED <<pack, doing, who, todo>>
  BY DEF EraseEntity, Idle, Deletable
<1>2. /\ hash \in Hash /\ Chains(hash, InWorld) /\ InWorld \in SUBSET Entity
      /\ p \in Kept /\ life[p] = "archived" /\ p \in Entity
  BY <1>1, TypesOfHash DEF HashInv, LocalInv, InWorld, Faulted, TypeOK, Entity, Families, Kept, Owners, Family
<1>3. /\ InWorld' = InWorld /\ Kept' \subseteq Kept \ {p} /\ Gone' = Gone
      /\ Kept \subseteq Gone /\ Gone \subseteq Entity
      /\ ~Saving /\ ~Saving' /\ InWorld \cap Gone = {}
  BY <1>1, <1>2 DEF InWorld, Faulted, Kept, Owners, Family, Gone, Saving, HashInv, LocalInv, TypeOK
<1>4. LinksWell(hash, Kept, Gone) /\ HeadsWell(hash, Kept, Gone)
  BY <1>3, WellOutsideSave DEF HashInv, LocalInv
<1>5. LinksWell(hash', Kept \ {p}, Gone \ {p}) /\ HeadsWell(hash', Kept \ {p}, Gone \ {p})
  BY <1>1, <1>2, <1>3, <1>4, ArchiveRemoveWell
<1>6. KeptApart' /\ ArchiveHeads'
  <2>1. LinksWell(hash', Kept', Gone') /\ HeadsWell(hash', Kept', Gone')
    BY <1>3, <1>5 DEF LinksWell, HeadsWell
  <2> QED BY <1>3, <2>1, WellOutsideSaveNext
<1>7. hash' \in Hash /\ Chains(hash', InWorld')
  <2>1. /\ hash' \in Hash /\ hash'.world = hash.world
         /\ \A y \in Entity :
              /\ hash'.next[y] = IF y = p THEN Null
                             ELSE IF y = hash.prev[p] THEN hash.next[p] ELSE hash.next[y]
              /\ hash'.prev[y] = IF y = p THEN Null
                             ELSE IF y = hash.next[p] THEN hash.prev[p] ELSE hash.prev[y]
    BY <1>1, <1>2, ArchiveRemoveIs
  <2>2. hash.next[p] \in Gone \cup {Null} /\ hash.prev[p] \in Gone \cup {Null} /\ p \in Gone
    BY <1>2, <1>3, <1>4 DEF LinksWell
  <2>3. \A f \in InWorld : hash'.next[f] = hash.next[f] /\ hash'.prev[f] = hash.prev[f]
    BY <1>2, <1>3, <2>1, <2>2, Entities
  <2> QED BY <1>2, <1>3, <2>1, <2>3, ChainsFrame
<1>8. TypeOK'
  BY <1>1, <1>7 DEF HashInv, LocalInv, TypeOK, Hash
<1>9. Families' /\ Underway' /\ Written' /\ AllKept'
  <2>1. \A q \in list' : p \notin Family(q)
    BY <1>1, Entities DEF Family, HashInv, LocalInv, TypeOK
  <2>2. Families'
    BY <1>1, <1>2, <2>1 DEF HashInv, LocalInv, TypeOK, Families, Owners, Family
  <2>3. Underway' /\ Written' /\ AllKept'
    BY <1>1, <1>2 DEF HashInv, LocalInv, TypeOK, Underway, Written, AllKept, NoneErased
  <2> QED BY <2>2, <2>3
<1> QED BY <1>6, <1>7, <1>8, <1>9 DEF HashInv, LocalInv

(* "lingering" would be the deletion of a character whose body is still in *)
(* the world: ArchiveHash_Remove then cuts a chain of the world's table.   *)
LEMMA HashStep ==
  ASSUME "lingering" \notin Deletes
  PROVE  HashInv /\ [Next]_vars => HashInv'
<1> SUFFICES ASSUME HashInv, [Next]_vars PROVE HashInv'
  OBVIOUS
<1>1. ASSUME NEW e \in Entity, Create(e) \/ ArchiveOne(e) \/ RestoreOne(e) \/ AddOne(e) \/ RemoveOne(e)
      PROVE  HashInv'
  BY <1>1, CreateStep, ArchiveOneStep, RestoreOneStep, AddOneStep, RemoveOneStep
<1>2. ASSUME NEW i \in Item, Destroy(i) PROVE HashInv'
  BY <1>2, DestroyStep
<1>3. ASSUME NEW p \in Player, Restore(p) \/ EraseEntity(p) \/ \E I \in SUBSET Item : Archive(p, I)
      PROVE  HashInv'
  BY <1>3, RestoreStep, EraseStep, ArchiveStep
<1>4. CASE ArchiveDone \/ RestoreDone \/ SaveWorld \/ WriteCommit \/ RemoveAll \/ SaveDone \/ ShutDown
  BY <1>4, ArchiveDoneStep, RestoreDoneStep, SaveWorldStep, WriteCommitStep, RemoveAllStep, SavedStep
<1>5. CASE UNCHANGED vars
  <2>1. UNCHANGED <<hash, life, list, pack, doing, who, todo>>
    BY <1>5 DEF vars
  <2> QED BY <2>1 DEF HashInv, LocalInv, TypeOK, Families, Underway, KeptApart, ArchiveHeads,
        Written, AllKept, InWorld, Faulted, Kept, Owners, Family, Gone, Saving, Listed, Sides, NoneErased, AB
<1> QED BY <1>1, <1>2, <1>3, <1>4, <1>5 DEF Next

LEMMA HashInvariant ==
  ASSUME "lingering" \notin Deletes PROVE Spec => []HashInv
BY HashInit, HashStep, PTL DEF Spec

LEMMA ExactFromInv == HashInv => LookupIsExact
<1> SUFFICES ASSUME HashInv, NEW b \in Bucket
             PROVE Walk(hash.world[b]) = {e \in InWorld : WB(e) = b}
  BY DEF LookupIsExact, Bucket
<1>1. hash \in Hash /\ Chains(hash, InWorld) /\ InWorld \in SUBSET Entity
  BY TypesOfHash DEF HashInv, LocalInv, InWorld, Faulted, Listed, Family, TypeOK, Entity, Underway
<1> QED BY <1>1, Finite, WalkIsExact

(* A walk stays in any set that its head is in and that links do not leave.*)
LEMMA WalkStays ==
  ASSUME NEW X, NEW head, head \in X \cup {Null},
         \A e \in X : hash.next[e] \in X \cup {Null}
  PROVE  Walk(head) \subseteq X
<1>1. Longest \in Nat
  BY Finite, FS_CardinalityType DEF Longest
<1>2. PICK f : Visits(f, head, Longest) /\ Walk(head) = f[Longest]
  BY <1>1, WalkVisits
<1> SUFFICES ASSUME ~(f[Longest] \subseteq X) PROVE FALSE
  BY <1>2
<1> DEFINE T == {n \in 0..Longest : ~(f[n] \subseteq X)}
<1>3. PICK m \in T : \A k \in T : m <= k
  <2>1. T \subseteq Nat /\ Longest \in T
    BY <1>1
  <2> HIDE DEF T
  <2> QED BY <2>1, LeastNumber
<1>4. f[0] \subseteq X
  BY <1>2 DEF Visits
<1>5. m \in 1..Longest /\ m - 1 \in 0..Longest /\ m - 1 \notin T
  BY <1>1, <1>3, <1>4
<1>6. f[m] = Further(f[m - 1]) /\ f[m - 1] \subseteq X
  BY <1>2, <1>5 DEF Visits
<1>7. f[m] \subseteq X
  BY <1>6 DEF Further
<1> QED BY <1>3, <1>7

LEMMA ApartFromInv == HashInv => ListsAreApart
<1> SUFFICES ASSUME HashInv PROVE ArchiveIsApart /\ NoDanglingLink
  BY DEF ListsAreApart
<1>1. hash \in Hash /\ Chains(hash, InWorld) /\ InWorld \in SUBSET Entity
  BY TypesOfHash DEF HashInv, LocalInv, InWorld, Faulted, Listed, Family, TypeOK, Entity, Underway
<1>2. NoneErased => Kept = Gone /\ \A e \in Entity : life[e] \in {"none", "world"} \/ e \in Kept
  BY DEF HashInv, LocalInv, AllKept, NoneErased, Kept, Gone, TypeOK
<1>3. ArchiveIsApart
  <2> SUFFICES ASSUME doing \in {"idle", "down"}, NoneErased, NEW b \in ArchBucket
               PROVE  \A e \in Walk(hash.arch[b]) : life[e] = "archived" /\ AB(e) = b
    BY DEF ArchiveIsApart, ArchBucket
  <2> DEFINE X == {e \in Kept : AB(e) = b}
  <2>1. LinksWell(hash, Kept, Gone) /\ HeadsWell(hash, Kept, Gone)
    BY WellOutsideSave DEF Saving, HashInv, LocalInv
  <2>2. hash.arch[b] \in X \cup {Null}
    BY <1>2, <2>1 DEF HeadsWell
  <2>3. \A e \in X : hash.next[e] \in X \cup {Null}
    BY <1>2, <2>1 DEF LinksWell
  <2>4. Walk(hash.arch[b]) \subseteq X
    <3> HIDE DEF X
    <3> QED BY <2>2, <2>3, WalkStays
  <2> QED BY <2>4 DEF Kept
<1>4. NoDanglingLink
  <2> SUFFICES ASSUME NoneErased, NEW e \in Entity, life[e] # "none",
                      NEW x \in Sides(e)
               PROVE  life[x] # "none"
    BY DEF NoDanglingLink, Sides
  <2>1. CASE e \in InWorld
    <3>1. x \in InWorld
      BY <1>1, <2>1, ChainSides DEF Sides
    <3> QED BY <3>1 DEF InWorld, Faulted, Listed, HashInv, LocalInv, Families, Underway
  <2>2. CASE e \notin InWorld
    <3>1. e \in Kept \ Faulted
      BY <1>2, <2>2 DEF InWorld
    <3> QED BY <3>1 DEF HashInv, LocalInv, KeptApart, Gone
  <2> QED BY <2>1, <2>2
<1> QED BY <1>3, <1>4

(* CWorld_FindBySerial meets every entity in the world and nothing else,   *)
(* at any moment of any archiving, restoring and saving.                   *)
THEOREM HashLookupIsExact ==
  ASSUME "lingering" \notin Deletes PROVE Spec => []LookupIsExact
BY HashInvariant, ExactFromInv, PTL

(* Outside a save the archive's chains hold archived entities only, and no *)
(* link leads to a destroyed one, until an archived character is deleted.  *)
THEOREM HashListsAreApart ==
  ASSUME "lingering" \notin Deletes PROVE Spec => []ListsAreApart
BY HashInvariant, ApartFromInv, PTL

-----------------------------------------------------------------------------
(* The types hold whatever is deleted: only the end of an archiving needs    *)
(* to know that somebody is being archived.                                  *)

HashTypes == TypeOK /\ (doing \in {"archive", "restore"} => who \in Player)

LEMMA HashMoves ==
  ASSUME NEW h \in Hash, NEW e \in Entity
  PROVE  /\ WorldInsert(h, e) \in Hash /\ WorldRemove(h, e) \in Hash /\ ArchiveRemove(h, e) \in Hash
         /\ PutAway(h, e) \in Hash /\ TakeOut(h, e) \in Hash
<1>1. \A g \in Hash : WorldInsert(g, e) \in Hash /\ WorldRemove(g, e) \in Hash
                      /\ ArchiveRemove(g, e) \in Hash /\ ArchiveInsert(g, e) \in Hash
  BY WorldInsertIs, WorldRemoveIs, ArchiveInsertIs, ArchiveRemoveIs
<1> QED BY <1>1 DEF PutAway, TakeOut

LEMMA HashTypesStep == HashTypes /\ [Next]_vars => HashTypes'
<1> SUFFICES ASSUME HashTypes, [Next]_vars PROVE HashTypes'
  OBVIOUS
<1> DEFINE Rest == /\ life \in [Entity -> {"none", "world", "archived", "erased"}]
                   /\ list \subseteq Player /\ pack \in [Player -> SUBSET Item]
                   /\ doing \in {"idle", "archive", "restore", "add", "write", "remove", "down"}
                   /\ who \in Player \cup {Null} /\ todo \subseteq Entity
                   /\ doing \in {"archive", "restore"} => who \in Player
<1>1. HashTypes <=> hash \in Hash /\ Rest
  BY DEF HashTypes, TypeOK, Hash, Bucket, ArchBucket
<1>2. HashTypes' <=> hash' \in Hash /\ Rest'
  BY DEF HashTypes, TypeOK, Hash, Bucket, ArchBucket
<1>3. Player \subseteq Entity /\ Item \subseteq Entity /\ Listed \subseteq Entity
      /\ \A p \in Player : Family(p) \subseteq Entity
  BY <1>1 DEF Entity, Listed, Family
<1>4. ASSUME NEW e \in Entity, Create(e) \/ ArchiveOne(e) \/ RestoreOne(e) \/ AddOne(e) \/ RemoveOne(e)
      PROVE  hash' \in Hash /\ Rest'
  <2>1. hash' \in Hash
    BY <1>1, <1>4, HashMoves DEF Create, ArchiveOne, RestoreOne, AddOne, RemoveOne
  <2>2. Rest'
    BY <1>1, <1>4 DEF Create, ArchiveOne, RestoreOne, AddOne, RemoveOne
  <2> QED BY <2>1, <2>2
<1>5. ASSUME NEW i \in Item, Destroy(i) PROVE hash' \in Hash /\ Rest'
  <2>1. hash' \in Hash
    BY <1>1, <1>3, <1>5, HashMoves DEF Destroy
  <2> QED BY <1>1, <1>5, <2>1 DEF Destroy
<1>6. ASSUME NEW p \in Player, Restore(p) PROVE hash' \in Hash /\ Rest'
  BY <1>1, <1>3, <1>6 DEF Restore, Start
<1>7. ASSUME NEW p \in Player, EraseEntity(p) PROVE hash' \in Hash /\ Rest'
  <2>1. hash' \in Hash
    BY <1>1, <1>3, <1>7, HashMoves DEF EraseEntity
  <2> QED BY <1>1, <1>7, <2>1 DEF EraseEntity
<1>8. ASSUME NEW p \in Player, NEW I \in SUBSET Item, Archive(p, I) PROVE hash' \in Hash /\ Rest'
  BY <1>1, <1>3, <1>8 DEF Archive, Start
<1>9. CASE ArchiveDone \/ RestoreDone
  BY <1>1, <1>2, <1>9 DEF ArchiveDone, RestoreDone, Finish
<1>10. CASE SaveWorld \/ WriteCommit \/ RemoveAll \/ SaveDone \/ ShutDown
  BY <1>1, <1>2, <1>3, <1>10 DEF SaveWorld, WriteCommit, RemoveAll, SaveDone, ShutDown, Start, Finish
<1>11. CASE UNCHANGED vars
  BY <1>1, <1>2, <1>11 DEF vars
<1> HIDE DEF Rest
<1> QED BY <1>2, <1>4, <1>5, <1>6, <1>7, <1>8, <1>9, <1>10, <1>11 DEF Next

LEMMA HashTypesInit == Init => HashTypes
BY HashInit DEF HashInv, LocalInv, HashTypes, Init

-----------------------------------------------------------------------------
(* Scripts.                                                                *)

Holding == [class : Script \cup {Null}, entity : Being \cup {Null},
            state : {"free", "held", "poisoned"}, born : 0..MaxBorn]
Pair == [node : C!Node, born : Nat]
Call == [snap : Seq(Pair), next : Nat \ {0}, event : C!Event,
         running : BOOLEAN, ref : C!Node \cup {Null}, value : {0, 1}]

\* A snapshot that names what the nodes of a list hold.
Depicts(snap, nodes, held) ==
    \A j \in DOMAIN snap : \E k \in DOMAIN nodes :
        snap[j].node = nodes[k] /\ snap[j].born = held[nodes[k]].born

(* `Found' is what the recursion of Triggers collects from the first k of   *)
(* a list's nodes: pairs of nodes that are in the list.                     *)
Found(f, nodes, held, event, n) ==
    f = [k \in 0..n |->
            IF k = 0 THEN <<>>
            ELSE IF event # "time" \/ held[nodes[k]].class \in Timed
                 THEN Append(f[k - 1], [node |-> nodes[k], born |-> held[nodes[k]].born])
                 ELSE f[k - 1]]

LEMMA FoundExists ==
  ASSUME NEW nodes, NEW held, NEW event, NEW n \in Nat
  PROVE  \E f : Found(f, nodes, held, event, n)
<1> DEFINE T == {m \in Nat : ~\E f : Found(f, nodes, held, event, m)}
<1>1. SUFFICES ASSUME T # {} PROVE FALSE
  OBVIOUS
<1>2. PICK m \in T : \A k \in T : m <= k
  BY <1>1, LeastNumber
<1>3. CASE m = 0
  <2> DEFINE f == [k \in 0..0 |-> <<>>]
  <2>1. Found(f, nodes, held, event, 0)
    BY DEF Found
  <2> QED BY <1>2, <1>3, <2>1
<1>4. CASE m # 0
  <2>1. m - 1 \in Nat /\ m - 1 \notin T /\ m \in Nat
    BY <1>2, <1>4
  <2>2. PICK f : Found(f, nodes, held, event, m - 1)
    BY <2>1
  <2> DEFINE last == IF event # "time" \/ held[nodes[m]].class \in Timed
                     THEN Append(f[m - 1], [node |-> nodes[m], born |-> held[nodes[m]].born])
                     ELSE f[m - 1]
             g == [k \in 0..m |-> IF k < m THEN f[k] ELSE last]
  <2>3. Found(g, nodes, held, event, m)
    <3>1. ASSUME NEW k \in 0..m
          PROVE  g[k] = IF k = 0 THEN <<>>
                        ELSE IF event # "time" \/ held[nodes[k]].class \in Timed
                             THEN Append(g[k - 1], [node |-> nodes[k], born |-> held[nodes[k]].born])
                             ELSE g[k - 1]
      <4>1. CASE k < m
        <5>1. k \in 0..(m - 1) /\ g[k] = f[k] /\ (k # 0 => k - 1 \in 0..m /\ k - 1 < m /\ g[k - 1] = f[k - 1])
          BY <2>1, <4>1
        <5> HIDE DEF g
        <5> QED BY <5>1, <2>2 DEF Found
      <4>2. CASE k = m
        <5>1. k # 0 /\ m \in 0..m /\ ~(m < m) /\ m - 1 \in 0..m /\ m - 1 < m
          BY <1>4, <2>1, <4>2
        <5>2. g[k] = last /\ g[m - 1] = f[m - 1]
          BY <4>2, <5>1
        <5> HIDE DEF g
        <5> QED BY <4>2, <5>1, <5>2
      <4> QED BY <2>1, <4>1, <4>2
    <3>2. g = [k \in 0..m |-> g[k]]
      OBVIOUS
    <3> HIDE DEF g
    <3> QED BY <3>1, <3>2 DEF Found
  <2> QED BY <1>2, <2>3
<1> QED BY <1>3, <1>4

LEMMA TriggersFound ==
  ASSUME NEW nodes, Len(nodes) \in Nat, NEW held, NEW event
  PROVE  \E f : Found(f, nodes, held, event, Len(nodes)) /\ C!Triggers(nodes, held, event) = f[Len(nodes)]
<1> DEFINE f == CHOOSE f : Found(f, nodes, held, event, Len(nodes))
<1>1. Found(f, nodes, held, event, Len(nodes))
  BY FoundExists
<1>2. C!Triggers(nodes, held, event) = f[Len(nodes)]
  BY DEF C!Triggers, Found
<1> QED BY <1>1, <1>2

LEMMA TriggersDepict ==
  ASSUME NEW nodes \in Seq(C!Node), NEW held \in [C!Node -> Holding], NEW event
  PROVE  /\ C!Triggers(nodes, held, event) \in Seq(Pair)
         /\ Depicts(C!Triggers(nodes, held, event), nodes, held)
<1>0. Len(nodes) \in Nat /\ DOMAIN nodes = 1..Len(nodes) /\ \A k \in 1..Len(nodes) : nodes[k] \in C!Node
  OBVIOUS
<1>1. PICK f : Found(f, nodes, held, event, Len(nodes)) /\ C!Triggers(nodes, held, event) = f[Len(nodes)]
  BY <1>0, TriggersFound
<1> DEFINE Right(s) == s \in Seq(Pair) /\ Depicts(s, nodes, held)
           T == {m \in Nat : m <= Len(nodes) /\ ~Right(f[m])}
<1>2. T = {}
  <2>1. SUFFICES ASSUME T # {} PROVE FALSE
    OBVIOUS
  <2>2. PICK m \in T : \A k \in T : m <= k
    BY <2>1, LeastNumber
  <2>3. m \in 0..Len(nodes) /\ ~Right(f[m])
    BY <1>0, <2>2
  <2>4. m # 0
    <3>1. f[0] = <<>>
      BY <1>0, <1>1 DEF Found
    <3>2. Right(<<>>)
      BY DEF Depicts
    <3> HIDE DEF Right
    <3> QED BY <2>3, <3>1, <3>2
  <2>5. Right(f[m - 1])
    <3>1. m - 1 \in Nat /\ m - 1 <= Len(nodes) /\ ~(m <= m - 1)
      BY <1>0, <2>3, <2>4
    <3> QED BY <2>2, <3>1
  <2> DEFINE p == [node |-> nodes[m], born |-> held[nodes[m]].born]
  <2>6. f[m] = f[m - 1] \/ f[m] = Append(f[m - 1], p)
    BY <1>1, <2>3, <2>4 DEF Found
  <2>7. p \in Pair /\ m \in DOMAIN nodes
    <3>1. nodes[m] \in C!Node /\ m \in DOMAIN nodes
      BY <1>0, <2>3, <2>4
    <3>2. held[nodes[m]] \in Holding
      BY <3>1
    <3>3. held[nodes[m]].born \in Nat
      BY <3>2 DEF Holding
    <3> QED BY <3>1, <3>3 DEF Pair
  <2>8. ASSUME f[m] = Append(f[m - 1], p) PROVE FALSE
    <3> DEFINE old == f[m - 1]
    <3>1. old \in Seq(Pair) /\ Depicts(old, nodes, held) /\ f[m] = Append(old, p)
      BY <2>5, <2>8
    <3> HIDE DEF old
    <3>2. Append(old, p) \in Seq(Pair)
      BY <2>7, <3>1, AppendProperties
    <3>3. \A j \in DOMAIN Append(old, p) : Append(old, p)[j] = p \/ (j \in DOMAIN old /\ Append(old, p)[j] = old[j])
      BY <2>7, <3>1, AppendProperties
    <3>4. Depicts(Append(old, p), nodes, held)
      BY <2>7, <3>1, <3>3 DEF Depicts
    <3> QED BY <2>3, <3>1, <3>2, <3>4
  <2> QED BY <2>3, <2>5, <2>6, <2>8
<1>3. Right(f[Len(nodes)])
  BY <1>0, <1>2
<1> QED BY <1>1, <1>3

LEMMA OnlyOfIsPart ==
  ASSUME NEW snap \in Seq(Pair), NEW n
  PROVE  /\ C!OnlyOf(snap, n) \in Seq(Pair)
         /\ \A j \in DOMAIN C!OnlyOf(snap, n) : \E k \in DOMAIN snap : C!OnlyOf(snap, n)[j] = snap[k]
<1> DEFINE I == {k \in 1..Len(snap) : snap[k].node = n}
<1>1. CASE I = {}
  <2>1. C!OnlyOf(snap, n) = <<>>
    BY <1>1 DEF C!OnlyOf, C!SelectInSeq
  <2> QED BY <2>1
<1>2. CASE I # {}
  <2> DEFINE k == C!SelectInSeq(snap, LAMBDA p : p.node = n)
  <2>1. k = C!Min(I)
    BY <1>2 DEF C!SelectInSeq
  <2>2. \E m \in I : \A j \in I : m <= j
    <3>1. I \in SUBSET Nat
      OBVIOUS
    <3> QED BY <1>2, <3>1, LeastNumber
  <2>3. C!Min(I) \in I
    BY <2>2 DEF C!Min
  <2>4. k \in 1..Len(snap) /\ k # 0
    BY <2>1, <2>3
  <2>5. C!OnlyOf(snap, n) = IF k = 0 THEN <<>> ELSE <<snap[k]>>
    BY DEF C!OnlyOf
  <2> HIDE DEF k
  <2>6. C!OnlyOf(snap, n) = <<snap[k]>> /\ k \in DOMAIN snap /\ snap[k] \in Pair
    BY <2>4, <2>5
  <2> QED BY <2>6
<1> QED BY <1>1, <1>2

-----------------------------------------------------------------------------
(* Sequences.                                                               *)

Apart(q) == \A i, j \in DOMAIN q : q[i] = q[j] => i = j
On(q) == {q[i] : i \in DOMAIN q}

LEMMA ConcatOn ==
  ASSUME NEW S, NEW q \in Seq(S), NEW r \in Seq(S)
  PROVE  /\ q \o r \in Seq(S)
         /\ On(q \o r) = On(q) \cup On(r)
         /\ Apart(q) /\ Apart(r) /\ On(q) \cap On(r) = {} => Apart(q \o r)
<1> DEFINE m == Len(q)
           n == Len(r)
           c == q \o r
<1>1. m \in Nat /\ n \in Nat /\ DOMAIN q = 1..m /\ DOMAIN r = 1..n
  BY LenProperties
<1>2. /\ c \in Seq(S) /\ Len(c) = m + n
      /\ \A i \in 1..m + n : c[i] = IF i <= m THEN q[i] ELSE r[i - m]
  BY ConcatProperties
<1>3. DOMAIN c = 1..m + n
  BY <1>2, LenProperties
<1> HIDE DEF m, n, c
<1>4. On(c) = On(q) \cup On(r)
  <2>1. ASSUME NEW i \in 1..m + n PROVE c[i] \in On(q) \cup On(r)
    <3>1. CASE i <= m
      <4>1. i \in 1..m /\ c[i] = q[i]
        BY <1>1, <1>2, <2>1, <3>1
      <4> QED BY <1>1, <4>1 DEF On
    <3>2. CASE ~(i <= m)
      <4>1. i - m \in 1..n
        BY <1>1, <2>1, <3>2
      <4> QED BY <1>1, <1>2, <2>1, <3>2, <4>1 DEF On
    <3> QED BY <3>1, <3>2
  <2>2. ASSUME NEW i \in 1..m PROVE q[i] \in On(c)
    <3>1. i \in 1..m + n /\ i <= m
      BY <1>1, <2>2
    <3> QED BY <1>2, <1>3, <3>1 DEF On
  <2>3. ASSUME NEW i \in 1..n PROVE r[i] \in On(c)
    <3>1. i + m \in 1..m + n /\ ~(i + m <= m) /\ (i + m) - m = i
      BY <1>1, <2>3
    <3> QED BY <1>2, <1>3, <3>1 DEF On
  <2> QED BY <1>1, <1>3, <2>1, <2>2, <2>3 DEF On
<1>5. ASSUME Apart(q), Apart(r), On(q) \cap On(r) = {} PROVE Apart(c)
  <2> SUFFICES ASSUME NEW i \in 1..m + n, NEW j \in 1..m + n, c[i] = c[j] PROVE i = j
    BY <1>3 DEF Apart
  <2>1. /\ i <= m => i \in 1..m /\ c[i] = q[i]
        /\ ~(i <= m) => i - m \in 1..n /\ c[i] = r[i - m]
        /\ j <= m => j \in 1..m /\ c[j] = q[j]
        /\ ~(j <= m) => j - m \in 1..n /\ c[j] = r[j - m]
    BY <1>1, <1>2
  <2>2. \A a \in 1..m, b \in 1..n : q[a] # r[b]
    BY <1>1, <1>5 DEF On
  <2>3. CASE i <= m /\ j <= m
    BY <1>1, <1>5, <2>1, <2>3 DEF Apart
  <2>4. CASE ~(i <= m) /\ ~(j <= m)
    <3>1. i - m = j - m
      BY <1>1, <1>5, <2>1, <2>4 DEF Apart
    <3> QED BY <1>1, <3>1
  <2> QED BY <2>1, <2>2, <2>3, <2>4
<1> QED BY <1>2, <1>4, <1>5 DEF c

LEMMA TailOn ==
  ASSUME NEW S, NEW q \in Seq(S), q # <<>>
  PROVE  /\ Tail(q) \in Seq(S) /\ Len(Tail(q)) = Len(q) - 1 /\ Head(q) \in S /\ Head(q) = q[1] /\ 1 \in DOMAIN q
         /\ \A i \in DOMAIN Tail(q) : i + 1 \in DOMAIN q /\ Tail(q)[i] = q[i + 1]
         /\ On(Tail(q)) \subseteq On(q)
         /\ Apart(q) => Apart(Tail(q)) /\ On(Tail(q)) = On(q) \ {Head(q)}
<1> DEFINE t == Tail(q)
           n == Len(q)
<1>1. /\ t \in Seq(S) /\ Len(t) = n - 1 /\ \A i \in 1..Len(t) : t[i] = q[i + 1]
      /\ Head(q) \in S
  BY HeadTailProperties
<1>2. n \in Nat \ {0} /\ DOMAIN q = 1..n /\ DOMAIN t = 1..(n - 1) /\ Head(q) = q[1]
  BY <1>1, EmptySeq, LenProperties
<1> HIDE DEF t, n
<1>3. \A i \in 1..(n - 1) : i + 1 \in 1..n /\ t[i] = q[i + 1]
  BY <1>1, <1>2
<1>4. On(t) \subseteq On(q)
  BY <1>2, <1>3 DEF On
<1>5. ASSUME Apart(q) PROVE Apart(t) /\ On(t) = On(q) \ {Head(q)}
  <2>1. Apart(t)
    <3> SUFFICES ASSUME NEW i \in 1..(n - 1), NEW j \in 1..(n - 1), t[i] = t[j] PROVE i = j
      BY <1>2 DEF Apart
    <3>1. i + 1 = j + 1
      BY <1>2, <1>3, <1>5 DEF Apart
    <3> QED BY <3>1
  <2>2. \A i \in 1..(n - 1) : t[i] # Head(q)
    <3> SUFFICES ASSUME NEW i \in 1..(n - 1), t[i] = Head(q) PROVE FALSE
      OBVIOUS
    <3>1. i + 1 = 1
      BY <1>2, <1>3, <1>5 DEF Apart
    <3> QED BY <3>1
  <2>3. ASSUME NEW i \in 1..n, q[i] # Head(q) PROVE q[i] \in On(t)
    <3>1. i - 1 \in 1..(n - 1) /\ (i - 1) + 1 = i
      BY <1>2, <2>3
    <3> QED BY <1>2, <1>3, <3>1 DEF On
  <2> QED BY <1>2, <1>4, <2>1, <2>2, <2>3 DEF On
<1>6. 1 \in DOMAIN q
  BY <1>2
<1> QED BY <1>1, <1>2, <1>3, <1>4, <1>5, <1>6 DEF t, n

LEMMA ReverseOn ==
  ASSUME NEW S, NEW q \in Seq(S)
  PROVE  /\ C!Reverse(q) \in Seq(S)
         /\ On(C!Reverse(q)) = On(q)
         /\ Apart(q) => Apart(C!Reverse(q))
<1> DEFINE n == Len(q)
           r == C!Reverse(q)
<1>1. n \in Nat /\ DOMAIN q = 1..n
  BY LenProperties
<1>2. r = [i \in 1..n |-> q[(n - i) + 1]]
  BY DEF C!Reverse
<1> HIDE DEF n, r
<1>3. \A i \in 1..n : (n - i) + 1 \in 1..n /\ (n - ((n - i) + 1)) + 1 = i
  BY <1>1
<1>4. r \in Seq(S)
  <2>1. \A i \in 1..n : q[(n - i) + 1] \in S
    BY <1>1, <1>3
  <2>2. r \in [1..n -> S]
    BY <1>2, <2>1
  <2> QED BY <1>1, <2>2
<1>5. On(r) = On(q)
  <2>1. \A i \in 1..n : r[i] = q[(n - i) + 1]
    BY <1>2
  <2>2. \A i \in 1..n : q[i] = r[(n - i) + 1]
    BY <1>3, <2>1
  <2> QED BY <1>1, <1>2, <1>3, <2>1, <2>2 DEF On
<1>6. ASSUME Apart(q) PROVE Apart(r)
  <2> SUFFICES ASSUME NEW i \in 1..n, NEW j \in 1..n, r[i] = r[j] PROVE i = j
    BY <1>2 DEF Apart
  <2>1. (n - i) + 1 = (n - j) + 1
    BY <1>1, <1>2, <1>3, <1>6 DEF Apart
  <2> QED BY <1>1, <2>1
<1> QED BY <1>4, <1>5, <1>6 DEF r

LEMMA RemoveAtOf ==
  ASSUME NEW S, NEW q \in Seq(S), NEW i \in 1..Len(q)
  PROVE  /\ C!RemoveAt(q, i) \in Seq(S)
         /\ Len(C!RemoveAt(q, i)) = Len(q) - 1
         /\ \A j \in 1..Len(q) - 1 : C!RemoveAt(q, i)[j] = IF j < i THEN q[j] ELSE q[j + 1]
<1> DEFINE a == SubSeq(q, 1, i - 1)
           b == SubSeq(q, i + 1, Len(q))
<1>1. /\ a \in Seq(S) /\ Len(a) = i - 1
      /\ \A j \in 1..i - 1 : a[j] = q[j]
  OBVIOUS
<1>2. /\ b \in Seq(S) /\ Len(b) = Len(q) - i
      /\ \A j \in 1..Len(q) - i : b[j] = q[i + j]
  OBVIOUS
<1> HIDE DEF a, b
<1>3. /\ a \o b \in Seq(S) /\ Len(a \o b) = Len(a) + Len(b)
      /\ \A j \in 1..Len(a) + Len(b) : (a \o b)[j] = IF j <= Len(a) THEN a[j] ELSE b[j - Len(a)]
  BY <1>1, <1>2, ConcatProperties
<1>4. C!RemoveAt(q, i) = a \o b
  BY DEF C!RemoveAt, a, b
<1>5. Len(a \o b) = Len(q) - 1
  BY <1>1, <1>2, <1>3
<1>6. ASSUME NEW j \in 1..Len(q) - 1 PROVE (a \o b)[j] = IF j < i THEN q[j] ELSE q[j + 1]
  <2>1. CASE j < i
    BY <1>1, <1>2, <1>3, <2>1
  <2>2. CASE j >= i
    <3>1. j - (i - 1) \in 1..Len(q) - i /\ i + (j - (i - 1)) = j + 1
      BY <2>2
    <3>2. (a \o b)[j] = b[j - (i - 1)]
      BY <1>1, <1>2, <1>3, <2>2
    <3>3. b[j - (i - 1)] = q[j + 1]
      BY <1>2, <3>1
    <3> QED BY <2>2, <3>2, <3>3
  <2>3. j < i \/ j >= i
    OBVIOUS
  <2> QED BY <2>1, <2>2, <2>3, Zenon
<1> QED BY <1>3, <1>4, <1>5, <1>6

LEMMA RemoveFirstOn ==
  ASSUME NEW S, NEW q \in Seq(S), NEW x \in On(q), Apart(q)
  PROVE  /\ C!RemoveFirst(q, x) \in Seq(S)
         /\ On(C!RemoveFirst(q, x)) = On(q) \ {x}
         /\ Apart(C!RemoveFirst(q, x))
<1> DEFINE n == Len(q)
           r == C!RemoveFirst(q, x)
<1>1. n \in Nat /\ DOMAIN q = 1..n
  BY LenProperties
<1>2. PICK i \in 1..n : r = C!RemoveAt(q, i) /\ q[i] = x
  <2> DEFINE I == {i \in 1..n : q[i] = x}
             k == C!SelectInSeq(q, LAMBDA v : v = x)
  <2>1. I # {} /\ I \in SUBSET Nat
    BY <1>1 DEF On
  <2>2. k = C!Min(I)
    BY <2>1 DEF C!SelectInSeq
  <2>3. k \in I
    <3>1. \E m \in I : \A j \in I : m <= j
      BY <2>1, LeastNumber
    <3> QED BY <2>2, <3>1 DEF C!Min
  <2>4. r = IF \E i \in 1..n : q[i] = x THEN C!RemoveAt(q, k) ELSE q
    BY DEF C!RemoveFirst
  <2> QED BY <2>3, <2>4
<1>3. /\ r \in Seq(S) /\ Len(r) = n - 1
      /\ \A j \in 1..(n - 1) : r[j] = IF j < i THEN q[j] ELSE q[j + 1]
  BY <1>2, RemoveAtOf
<1>4. DOMAIN r = 1..(n - 1)
  BY <1>3
<1> HIDE DEF n, r
<1> DEFINE Of(j) == IF j < i THEN j ELSE j + 1
<1>5. \A j \in 1..(n - 1) : Of(j) \in 1..n /\ Of(j) # i /\ r[j] = q[Of(j)]
  BY <1>1, <1>3
<1>6. \A j, k \in 1..(n - 1) : Of(j) = Of(k) => j = k
  OBVIOUS
<1>7. \A k \in 1..n : k # i => \E j \in 1..(n - 1) : Of(j) = k
  <2> TAKE k \in 1..n
  <2> HAVE k # i
  <2>1. CASE k < i
    <3>1. k \in 1..(n - 1) /\ Of(k) = k
      BY <1>1, <2>1
    <3> QED BY <3>1
  <2>2. CASE k > i
    <3>1. k - 1 \in 1..(n - 1) /\ Of(k - 1) = k
      BY <1>1, <2>2
    <3> QED BY <3>1
  <2> QED BY <1>1, <2>1, <2>2
<1> HIDE DEF Of
<1>8. On(r) = On(q) \ {x}
  <2>1. \A k \in 1..n : k # i => q[k] # x
    BY <1>1, <1>2 DEF Apart
  <2>2. On(r) \subseteq On(q) \ {x}
    BY <1>1, <1>4, <1>5, <2>1 DEF On
  <2>3. \A k \in 1..n : q[k] # x => q[k] \in On(r)
    BY <1>2, <1>4, <1>5, <1>7 DEF On
  <2> QED BY <1>1, <2>2, <2>3 DEF On
<1>9. Apart(r)
  BY <1>1, <1>4, <1>5, <1>6 DEF Apart
<1> QED BY <1>3, <1>8, <1>9 DEF r

LEMMA SetToSeqOn ==
  ASSUME NEW S, IsFiniteSet(S)
  PROVE  C!SetToSeq(S) \in Seq(S) /\ On(C!SetToSeq(S)) = S /\ Apart(C!SetToSeq(S))
<1> DEFINE n == Cardinality(S)
           q == C!SetToSeq(S)
<1>1. n \in Nat /\ C!Cardinality(S) = n
  BY FS_CardinalityType DEF Cardinality, C!Cardinality
<1>2. ExistsBijection(1..n, S)
  BY FS_NatBijection, FS_CountingElements
<1>3. \E f \in [1..n -> S] : C!IsInjective(f)
  BY <1>2 DEF ExistsBijection, Bijection, Injection, IsInjective, C!IsInjective
<1>4. q \in [1..n -> S] /\ C!IsInjective(q)
  BY <1>1, <1>3 DEF C!SetToSeq
<1> HIDE DEF n, q
<1>5. q \in Seq(S) /\ DOMAIN q = 1..n
  BY <1>1, <1>4
<1>6. Apart(q)
  BY <1>4, <1>5 DEF Apart, C!IsInjective
<1>7. On(q) = S
  <2>1. q \in Injection(1..n, S)
    BY <1>4 DEF Injection, IsInjective, C!IsInjective
  <2>2. Cardinality(1..n) = n
    <3>1. 1 \in Int /\ n \in Int /\ (IF 1 > n THEN 0 ELSE n - 1 + 1) = n
      BY <1>1
    <3> QED BY <3>1, FS_Interval
  <2>3. q \in Surjection(1..n, S)
    BY <2>1, <2>2, FS_Injection DEF n
  <2> QED BY <1>5, <2>3 DEF Surjection, On
<1> QED BY <1>5, <1>6, <1>7 DEF q

-----------------------------------------------------------------------------
(* The inductive invariant.                                                 *)

Queued == [serial : Being, param : C!Node \cup {Null}, born : Nat]

Used(held, n) == held[n].state # "free"
Live(held, n) == held[n].state = "held"

(* The pool: a node is free exactly when it is on the free list, poisoned   *)
(* exactly when it waits to go back there, and on either list once.         *)
PoolHolds ==
    /\ \A n \in C!Node : node[n].state = "free" <=> n \in On(free)
    /\ \A n \in C!Node : node[n].state = "poisoned" <=> n \in On(returned)
    /\ Apart(free) /\ Apart(returned)

(* The lists of the entities: what they hold are the live nodes.            *)
ListsHold ==
    /\ \A e \in Being, n \in C!Node :
           n \in On(scripts[e]) => e \in alive /\ Live(node, n) /\ node[n].entity = e
    /\ \A e \in Being : Apart(scripts[e])
    /\ \A n \in C!Node :
           Live(node, n) => node[n].entity \in alive /\ n \in On(scripts[node[n].entity])

(* Instances are numbered: no two nodes in use hold the same one.           *)
BornHolds ==
    /\ \A n \in C!Node : Used(node, n) => node[n].born \in 1..count
    /\ \A n, m \in C!Node : Used(node, n) /\ Used(node, m) /\ node[n].born = node[m].born => n = m

(* What names a node: snapshots name it as they found it, in use since, and *)
(* threads, subscriptions and queued events a live one.                     *)
Recalls(snap, held) ==
    \A j \in DOMAIN snap : Used(held, snap[j].node) /\ held[snap[j].node].born = snap[j].born
CallHolds(c, held) == Recalls(c.snap, held) /\ (c.ref # Null => Live(held, c.ref))
CallsHold(stack, held) == \A k \in DOMAIN stack : CallHolds(stack[k], held)
Names(q, held) ==
    q.param # Null => Live(held, q.param) /\ held[q.param].entity = q.serial
                      /\ held[q.param].born = q.born
RingHolds(q, held) == \A k \in DOMAIN q : Names(q[k], held)
NamesHold ==
    /\ CallsHold(calls, node)
    /\ \A n \in timed : Live(node, n)
    /\ RingHolds(ring, node)

(* The types, with the sets above for those of Scripts.                     *)
PoolTypes ==
    /\ alive \subseteq Being
    /\ scripts \in [Being -> Seq(C!Node)]
    /\ node \in [C!Node -> Holding]
    /\ free \in Seq(C!Node) /\ returned \in Seq(C!Node)
    /\ timed \subseteq C!Node /\ count \in 0..MaxBorn
Stack == {stack \in Seq(Call) : Len(stack) <= Cap + 1}
Recording == Seq([serial : Being, param : C!Node, born : Nat])
WorkTypes ==
    /\ ring \in Seq(Queued) /\ deferred \in Recording /\ calls \in Stack
    /\ phase \in C!Phase /\ turn \in 0..Len(deferred) /\ created \subseteq 1..MaxBorn

LEMMA ScriptTypes == C!TypeOK <=> PoolTypes /\ WorkTypes
BY DEF C!TypeOK, PoolTypes, WorkTypes, Stack, Recording, Holding, Queued, Call, Pair

PoolInv == PoolTypes /\ PoolHolds /\ ListsHold /\ BornHolds
ScriptInv == PoolInv /\ WorkTypes /\ NamesHold

LEMMA InvGivesHolds == ScriptInv => SnapshotsHold /\ HoldersAreLive
<1> SUFFICES ASSUME ScriptInv PROVE SnapshotsHold /\ HoldersAreLive
  OBVIOUS
<1>1. /\ calls \in Seq(Call) /\ DOMAIN calls = 1..Len(calls)
      /\ \A k \in DOMAIN calls : calls[k] \in Call
      /\ ring \in Seq(Queued) /\ DOMAIN ring = 1..Len(ring)
      /\ \A k \in DOMAIN ring : ring[k] \in Queued
  BY DEF ScriptInv, WorkTypes, Stack
<1>2. SnapshotsHold
  <2> SUFFICES ASSUME NEW k \in DOMAIN calls, NEW j \in 1..Len(calls[k].snap)
               PROVE  LET pair == calls[k].snap[j] IN
                      node[pair.node].born = pair.born /\ node[pair.node].state \in {"held", "poisoned"}
    BY <1>1 DEF SnapshotsHold, C!SnapshotsHold
  <2> DEFINE snap == calls[k].snap
             pair == snap[j]
  <2>1. snap \in Seq(Pair)
    BY <1>1 DEF Call
  <2>2. j \in DOMAIN snap /\ pair \in Pair
    BY <2>1
  <2>3. pair.node \in C!Node
    BY <2>2 DEF Pair
  <2>4. Recalls(snap, node)
    BY DEF ScriptInv, NamesHold, CallsHold, CallHolds
  <2>5. Used(node, pair.node) /\ node[pair.node].born = pair.born
    BY <2>2, <2>4 DEF Recalls
  <2>6. node[pair.node] \in Holding
    BY <2>3 DEF ScriptInv, PoolInv, PoolTypes
  <2> QED BY <2>5, <2>6 DEF Holding, Used
<1>3. \A n \in C!Node : Live(node, n) =>
          node[n].entity \in alive /\ n \in C!Range(scripts[node[n].entity])
  BY DEF ScriptInv, PoolInv, ListsHold, On, C!Range
<1>4. \A k \in DOMAIN calls : calls[k].ref # Null => calls[k].ref \in C!Node /\ Live(node, calls[k].ref)
  BY <1>1 DEF ScriptInv, NamesHold, CallsHold, CallHolds, Call
<1>5. \A n \in timed : n \in C!Node /\ Live(node, n)
  BY DEF ScriptInv, NamesHold, PoolInv, PoolTypes
<1>6. \A k \in DOMAIN ring : ring[k].param # Null => ring[k].param \in C!Node /\ Names(ring[k], node)
  BY <1>1 DEF ScriptInv, NamesHold, RingHolds, Queued
<1>7. HoldersAreLive
  BY <1>1, <1>3, <1>4, <1>5, <1>6 DEF HoldersAreLive, C!HoldersAreLive, Live, Names
<1> QED BY <1>2, <1>7

LEMMA ScriptsInit == C!Init => ScriptInv
<1> SUFFICES ASSUME C!Init PROVE ScriptInv
  OBVIOUS
<1>1. MaxBorn \in Nat /\ Cap \in Nat /\ C!Node = 1..MaxBorn
  BY ScriptBounds DEF C!Node
<1>2. \A n \in C!Node : node[n] = [class |-> Null, entity |-> Null, state |-> "free", born |-> 0]
  BY DEF C!Init
<1>3. free \in Seq(C!Node) /\ On(free) = C!Node /\ Apart(free)
  BY <1>1 DEF C!Init, On, Apart
<1>4. <<>> \in Seq(C!Node) /\ <<>> \in Seq(Queued) /\ <<>> \in Recording /\ <<>> \in Stack
      /\ Len(<<>>) = 0 /\ DOMAIN <<>> = {} /\ On(<<>>) = {} /\ Apart(<<>>)
  BY <1>1 DEF Recording, Stack, On, Apart
<1>5. PoolTypes
  BY <1>1, <1>2, <1>3, <1>4 DEF C!Init, PoolTypes, Holding
<1>6. WorkTypes
  BY <1>4 DEF C!Init, WorkTypes, C!Phase
<1>7. PoolHolds
  BY <1>2, <1>3, <1>4 DEF C!Init, PoolHolds
<1>8. ListsHold
  BY <1>2, <1>4 DEF C!Init, ListsHold, Live
<1>9. BornHolds
  BY <1>2 DEF BornHolds, Used
<1>10. NamesHold
  BY <1>4 DEF C!Init, NamesHold, CallsHold, RingHolds
<1> QED BY <1>5, <1>6, <1>7, <1>8, <1>9, <1>10 DEF ScriptInv, PoolInv

-----------------------------------------------------------------------------
(* The stack of dispatches.                                                 *)

LEMMA TriggersHold ==
  ASSUME NEW nodes \in Seq(C!Node), NEW held \in [C!Node -> Holding], NEW event,
         \A n \in On(nodes) : Live(held, n)
  PROVE  C!Triggers(nodes, held, event) \in Seq(Pair) /\ Recalls(C!Triggers(nodes, held, event), held)
<1> DEFINE snap == C!Triggers(nodes, held, event)
<1>1. snap \in Seq(Pair) /\ Depicts(snap, nodes, held)
  BY TriggersDepict
<1> HIDE DEF snap
<1>2. \A k \in DOMAIN nodes : Used(held, nodes[k])
  BY DEF On, Live, Used
<1>3. Recalls(snap, held)
  BY <1>1, <1>2 DEF Depicts, Recalls
<1> QED BY <1>1, <1>3 DEF snap

LEMMA OnlyOfHolds ==
  ASSUME NEW snap \in Seq(Pair), NEW held, Recalls(snap, held), NEW n
  PROVE  C!OnlyOf(snap, n) \in Seq(Pair) /\ Recalls(C!OnlyOf(snap, n), held)
BY OnlyOfIsPart DEF Recalls

LEMMA DispatchedHolds ==
  ASSUME NEW stack \in Stack, NEW held, CallsHold(stack, held),
         NEW snap \in Seq(Pair), Recalls(snap, held), NEW event \in C!Event
  PROVE  C!Dispatched(stack, snap, event) \in Stack /\ CallsHold(C!Dispatched(stack, snap, event), held)
<1> DEFINE c == [snap |-> snap, next |-> 1, event |-> event,
                 running |-> FALSE, ref |-> Null, value |-> 0]
           s == C!Dispatched(stack, snap, event)
<1>1. s = stack \/ (Len(stack) <= Cap /\ s = <<c>> \o stack)
  <2>1. Len(stack) \in Nat /\ Cap \in Nat
    BY ScriptBounds DEF Stack
  <2> QED BY <2>1 DEF C!Dispatched
<1>2. c \in Call /\ CallHolds(c, held)
  BY DEF Call, CallHolds
<1> HIDE DEF c, s
<1>3. ASSUME Len(stack) <= Cap, s = <<c>> \o stack PROVE s \in Stack /\ CallsHold(s, held)
  <2>1. /\ <<c>> \in Seq(Call) /\ Len(<<c>>) = 1 /\ <<c>>[1] = c
        /\ stack \in Seq(Call) /\ Len(stack) \in Nat /\ DOMAIN stack = 1..Len(stack)
    BY <1>2 DEF Stack
  <2>2. s \in Seq(Call) /\ Len(s) = 1 + Len(stack) /\ DOMAIN s = 1..1 + Len(stack)
        /\ \A i \in 1..1 + Len(stack) : s[i] = IF i <= 1 THEN <<c>>[i] ELSE stack[i - 1]
    BY <1>3, <2>1, ConcatProperties, LenProperties
  <2>3. \A i \in DOMAIN s : s[i] = c \/ (i - 1 \in DOMAIN stack /\ s[i] = stack[i - 1])
    BY <2>1, <2>2
  <2>4. CallsHold(s, held)
    BY <1>2, <2>3 DEF CallsHold
  <2>5. Len(s) <= Cap + 1
    BY <1>3, <2>1, <2>2, ScriptBounds
  <2> QED BY <2>2, <2>4, <2>5 DEF Stack
<1> QED BY <1>1, <1>3 DEF s

LEMMA ReturnedHolds ==
  ASSUME NEW stack \in Stack, stack # <<>>, NEW held, CallsHold(stack, held)
  PROVE  Tail(stack) \in Stack /\ CallsHold(Tail(stack), held)
<1>1. stack \in Seq(Call) /\ Len(stack) \in Nat /\ Cap \in Nat
  BY ScriptBounds DEF Stack
<1>2. /\ Tail(stack) \in Seq(Call) /\ Len(Tail(stack)) = Len(stack) - 1
      /\ \A i \in DOMAIN Tail(stack) : i + 1 \in DOMAIN stack /\ Tail(stack)[i] = stack[i + 1]
  BY <1>1, TailOn
<1>3. Len(Tail(stack)) <= Cap + 1
  BY <1>1, <1>2 DEF Stack
<1> QED BY <1>2, <1>3 DEF Stack, CallsHold

\* The innermost call replaced by another.
LEMMA TopHolds ==
  ASSUME NEW stack \in Stack, stack # <<>>, NEW held, CallsHold(stack, held),
         NEW c \in Call, CallHolds(c, held)
  PROVE  [stack EXCEPT ![1] = c] \in Stack /\ CallsHold([stack EXCEPT ![1] = c], held)
<1>1. stack \in Seq(Call) /\ Len(stack) \in Nat \ {0} /\ DOMAIN stack = 1..Len(stack)
  BY EmptySeq, LenProperties DEF Stack
<1> DEFINE s == [stack EXCEPT ![1] = c]
<1>2. s \in Seq(Call) /\ Len(s) = Len(stack) /\ DOMAIN s = DOMAIN stack
  BY <1>1
<1>3. \A i \in DOMAIN s : s[i] = IF i = 1 THEN c ELSE stack[i]
  BY <1>1
<1> HIDE DEF s
<1>4. CallsHold(s, held)
  BY <1>2, <1>3 DEF CallsHold
<1> QED BY <1>2, <1>4 DEF Stack, s

LEMMA TopIs ==
  ASSUME ScriptInv, calls # <<>>
  PROVE  /\ calls \in Stack /\ CallsHold(calls, node)
         /\ 1 \in DOMAIN calls /\ calls[1] \in Call /\ CallHolds(calls[1], node)
<1>1. calls \in Seq(Call) /\ Len(calls) \in Nat \ {0} /\ DOMAIN calls = 1..Len(calls)
  BY EmptySeq, LenProperties DEF ScriptInv, WorkTypes, Stack
<1>2. 1 \in DOMAIN calls /\ calls[1] \in Call
  BY <1>1
<1> QED BY <1>2 DEF ScriptInv, WorkTypes, NamesHold, CallsHold

(* A step that leaves the nodes and the lists alone.                        *)
Pool == <<alive, scripts, node, free, returned, timed, count>>

LEMMA PoolStays ==
  ASSUME ScriptInv, UNCHANGED Pool, WorkTypes', CallsHold(calls', node), RingHolds(ring', node)
  PROVE  ScriptInv'
<1>1. PoolInv'
  BY DEF ScriptInv, PoolInv, Pool, PoolTypes, PoolHolds, ListsHold, BornHolds, Live, Used
<1>2. NamesHold'
  BY DEF ScriptInv, NamesHold, Pool, CallsHold, CallHolds, Recalls, RingHolds, Names, Live, Used
<1> QED BY <1>1, <1>2 DEF ScriptInv

\* Of those, the steps that move only the calls.
LEMMA CallsMove ==
  ASSUME ScriptInv, UNCHANGED <<Pool, ring, deferred, turn, phase>>, created' \subseteq 1..MaxBorn,
         calls' \in Stack, CallsHold(calls', node)
  PROVE  ScriptInv'
<1>1. WorkTypes'
  BY DEF ScriptInv, WorkTypes, Stack
<1>2. RingHolds(ring', node)
  BY DEF ScriptInv, NamesHold
<1>3. UNCHANGED Pool
  OBVIOUS
<1> QED BY <1>1, <1>2, <1>3, PoolStays

LEMMA ListIsLive ==
  ASSUME ScriptInv, NEW e \in Being
  PROVE  /\ scripts[e] \in Seq(C!Node) /\ node \in [C!Node -> Holding]
         /\ \A n \in On(scripts[e]) : n \in C!Node /\ Live(node, n)
<1>1. scripts[e] \in Seq(C!Node) /\ node \in [C!Node -> Holding]
  BY DEF ScriptInv, PoolInv, PoolTypes
<1>2. On(scripts[e]) \subseteq C!Node
  BY <1>1 DEF On
<1> QED BY <1>1, <1>2 DEF ScriptInv, PoolInv, ListsHold

-----------------------------------------------------------------------------
(* The steps that only run or stop handlers.                                *)

LEMMA FireStep ==
  ASSUME ScriptInv, NEW e \in Being, C!Fire(e)
  PROVE  ScriptInv'
<1> DEFINE snap == C!Triggers(scripts[e], node, "use")
<1>1. snap \in Seq(Pair) /\ Recalls(snap, node)
  BY ListIsLive, TriggersHold
<1>2. calls' = C!Dispatched(calls, snap, "use") /\ "use" \in C!Event
  BY DEF C!Fire, C!Event
<1> HIDE DEF snap
<1>3. calls' \in Stack /\ CallsHold(calls', node)
  BY <1>1, <1>2, DispatchedHolds DEF ScriptInv, WorkTypes, NamesHold
<1>4. UNCHANGED <<Pool, ring, deferred, turn, phase, created>>
  BY DEF C!Fire, Pool
<1> QED BY <1>3, <1>4, CallsMove DEF ScriptInv, WorkTypes

\* The innermost call goes on to its next trigger.
LEMMA NextTrigger ==
  ASSUME ScriptInv, calls # <<>>, calls[1].next <= Len(calls[1].snap),
         NEW pair, pair = calls[1].snap[calls[1].next]
  PROVE  pair \in Pair /\ Used(node, pair.node) /\ node[pair.node].born = pair.born
         /\ pair.born \in 1..MaxBorn
<1>1. calls[1] \in Call /\ Recalls(calls[1].snap, node)
  BY TopIs DEF CallHolds
<1>2. calls[1].snap \in Seq(Pair) /\ calls[1].next \in Nat /\ calls[1].next # 0
  BY <1>1 DEF Call
<1>3. calls[1].next \in DOMAIN calls[1].snap
  BY <1>2
<1>4. pair \in Pair /\ pair.node \in C!Node
  <2>1. pair \in Pair
    BY <1>2, <1>3
  <2> QED BY <2>1 DEF Pair
<1>5. Used(node, pair.node) /\ node[pair.node].born = pair.born
  BY <1>1, <1>3 DEF Recalls
<1>6. pair.born \in 1..MaxBorn
  BY <1>4, <1>5, ScriptBounds DEF ScriptInv, PoolInv, BornHolds, PoolTypes
<1> QED BY <1>4, <1>5, <1>6

LEMMA BeginTriggerStep ==
  ASSUME ScriptInv, C!BeginTrigger
  PROVE  ScriptInv'
<1> DEFINE call == calls[1]
           pair == call.snap[call.next]
           skip == [call EXCEPT !.next = @ + 1]
           run == [call EXCEPT !.next = @ + 1, !.running = TRUE, !.ref = pair.node, !.value = 0]
<1>1. /\ calls # <<>> /\ calls \in Stack /\ CallsHold(calls, node)
      /\ 1 \in DOMAIN calls /\ call \in Call /\ CallHolds(call, node)
  BY TopIs DEF C!BeginTrigger
<1>2. UNCHANGED <<Pool, ring, deferred, turn, phase>>
  BY DEF C!BeginTrigger, Pool
<1>3. CASE call.next > Len(call.snap)
  <2>1. calls' = Tail(calls) /\ created' = created
    BY <1>3 DEF C!BeginTrigger
  <2> QED BY <1>1, <1>2, <2>1, ReturnedHolds, CallsMove DEF ScriptInv, WorkTypes
<1>4. CASE ~(call.next > Len(call.snap))
  <2>1. call.next <= Len(call.snap)
    <3>1. call.next \in Nat /\ Len(call.snap) \in Nat
      BY <1>1 DEF Call
    <3> QED BY <1>4, <3>1
  <2>2. pair \in Pair /\ Used(node, pair.node) /\ node[pair.node].born = pair.born
        /\ pair.born \in 1..MaxBorn /\ pair.node \in C!Node
    BY <1>1, <2>1, NextTrigger DEF Pair
  <2>3. CASE C!Poisoned(pair.node)
    <3>1. calls' = [calls EXCEPT ![1] = skip] /\ created' = created
      BY <1>1, <1>4, <2>3 DEF C!BeginTrigger
    <3>2. skip \in Call /\ CallHolds(skip, node)
      BY <1>1 DEF Call, CallHolds
    <3> HIDE DEF skip
    <3>3. calls' \in Stack /\ CallsHold(calls', node)
      BY <1>1, <3>1, <3>2, TopHolds
    <3> QED BY <1>2, <3>1, <3>3, CallsMove DEF ScriptInv, WorkTypes
  <2>4. CASE ~C!Poisoned(pair.node)
    <3>1. calls' = [calls EXCEPT ![1] = run]
      BY <1>1, <1>4, <2>4 DEF C!BeginTrigger
    <3>2. created' = created \/ created' = created \cup {pair.born}
      BY <1>4, <2>4 DEF C!BeginTrigger
    <3>3. Live(node, pair.node)
      <4>1. node[pair.node] \in Holding
        BY <2>2 DEF ScriptInv, PoolInv, PoolTypes
      <4> QED BY <2>2, <2>4, <4>1 DEF Holding, Live, Used, C!Poisoned
    <3>4. run \in Call /\ CallHolds(run, node)
      <4>1. ASSUME NEW c \in Call, NEW n \in C!Node
            PROVE  LET d == [c EXCEPT !.next = @ + 1, !.running = TRUE, !.ref = n, !.value = 0]
                   IN  d \in Call /\ d.snap = c.snap /\ d.ref = n
        <5> DEFINE c1 == [c EXCEPT !.next = @ + 1]
                   c2 == [c1 EXCEPT !.running = TRUE]
                   c3 == [c2 EXCEPT !.ref = n]
                   c4 == [c3 EXCEPT !.value = 0]
        <5>1. c1 \in Call /\ c1.snap = c.snap
          BY DEF Call
        <5> HIDE DEF c1
        <5>2. c2 \in Call /\ c2.snap = c.snap
          BY <5>1 DEF Call
        <5> HIDE DEF c2
        <5>3. c3 \in Call /\ c3.snap = c.snap /\ c3.ref = n
          BY <5>2 DEF Call
        <5> HIDE DEF c3
        <5>4. c4 \in Call /\ c4.snap = c.snap /\ c4.ref = n
          BY <5>3 DEF Call
        <5> QED BY <5>4 DEF c1, c2, c3, c4
      <4> HIDE DEF call, pair
      <4>2. run \in Call /\ run.snap = call.snap /\ run.ref = pair.node
        BY <1>1, <2>2, <4>1
      <4> HIDE DEF run
      <4> QED BY <1>1, <3>3, <4>2 DEF CallHolds
    <3> HIDE DEF run
    <3>5. calls' \in Stack /\ CallsHold(calls', node)
      BY <1>1, <3>1, <3>4, TopHolds
    <3>6. created' \subseteq 1..MaxBorn
      BY <2>2, <3>2 DEF ScriptInv, WorkTypes
    <3> QED BY <1>2, <3>5, <3>6, CallsMove
  <2> QED BY <2>3, <2>4
<1> QED BY <1>3, <1>4

LEMMA HandlerStep ==
  ASSUME ScriptInv,
         \/ C!SetDefaultReturn \/ C!AbortCurrent \/ C!Abandon
         \/ \E v \in {0, 1} : C!Return(v)
  PROVE  ScriptInv'
<1> DEFINE call == calls[1]
           kept == [call EXCEPT !.value = 1]
           stopped == [call EXCEPT !.ref = Null]
           done == [call EXCEPT !.running = FALSE, !.ref = Null]
<1>1. calls # <<>>
  BY DEF C!SetDefaultReturn, C!AbortCurrent, C!Abandon, C!Return
<1>2. /\ calls \in Stack /\ CallsHold(calls, node)
      /\ 1 \in DOMAIN calls /\ call \in Call /\ CallHolds(call, node)
  BY <1>1, TopIs
<1>3. UNCHANGED <<Pool, ring, deferred, turn, phase, created>>
  BY DEF C!SetDefaultReturn, C!AbortCurrent, C!Abandon, C!Return, Pool
<1>4. \/ calls' = [calls EXCEPT ![1] = kept] \/ calls' = [calls EXCEPT ![1] = stopped]
      \/ calls' = [calls EXCEPT ![1] = done] \/ calls' = Tail(calls)
  BY <1>1, <1>2 DEF C!SetDefaultReturn, C!AbortCurrent, C!Abandon, C!Return, C!Ended
<1>5. kept \in Call /\ CallHolds(kept, node)
  BY <1>2 DEF Call, CallHolds
<1>6. stopped \in Call /\ CallHolds(stopped, node)
  BY <1>2 DEF Call, CallHolds
<1>7. done \in Call /\ CallHolds(done, node)
  BY <1>2 DEF Call, CallHolds
<1> HIDE DEF kept, stopped, done
<1>8. calls' \in Stack /\ CallsHold(calls', node)
  BY <1>1, <1>2, <1>4, <1>5, <1>6, <1>7, TopHolds, ReturnedHolds
<1> QED BY <1>3, <1>8, CallsMove DEF ScriptInv, WorkTypes

-----------------------------------------------------------------------------
(* The flush of the creation events, and the tick.                          *)

LEMMA FlushStep ==
  ASSUME ScriptInv, C!EndLoad \/ C!FlushDeferred \/ C!EndFlush
  PROVE  ScriptInv'
<1>1. UNCHANGED <<Pool, ring>>
  BY DEF C!EndLoad, C!FlushDeferred, C!EndFlush, Pool
<1>2. calls' \in Stack /\ CallsHold(calls', node)
  <2>1. CASE calls' = calls
    BY <2>1 DEF ScriptInv, WorkTypes, NamesHold
  <2>2. CASE C!FlushDeferred
    <3> DEFINE entry == deferred[turn + 1]
               found == C!Triggers(scripts[entry.serial], node, "creation")
               snap == C!OnlyOf(found, C!Recorded(entry.param))
    <3>1. CASE calls' = calls
      BY <2>1, <3>1
    <3>2. CASE calls' # calls
      <4>1. entry.serial \in alive /\ calls' = C!Dispatched(calls, snap, "creation")
        BY <2>2, <3>2 DEF C!FlushDeferred
      <4>2. entry.serial \in Being
        BY <4>1 DEF ScriptInv, PoolInv, PoolTypes
      <4>3. found \in Seq(Pair) /\ Recalls(found, node)
        BY <4>2, ListIsLive, TriggersHold
      <4> HIDE DEF found, entry
      <4>4. snap \in Seq(Pair) /\ Recalls(snap, node)
        BY <4>3, OnlyOfHolds
      <4> HIDE DEF snap
      <4>5. "creation" \in C!Event
        BY DEF C!Event
      <4> QED BY <4>1, <4>4, <4>5, DispatchedHolds DEF ScriptInv, WorkTypes, NamesHold
    <3> QED BY <3>1, <3>2
  <2> QED BY <2>1, <2>2 DEF C!EndLoad, C!EndFlush
<1>3. WorkTypes'
  <2>1. deferred \in Recording /\ Len(deferred) \in Nat /\ turn \in 0..Len(deferred)
    BY DEF ScriptInv, WorkTypes, Recording
  <2>2. deferred' \in Recording /\ turn' \in 0..Len(deferred')
    <3>1. <<>> \in Recording /\ Len(<<>>) = 0
      BY DEF Recording
    <3> QED BY <2>1, <3>1 DEF C!EndLoad, C!FlushDeferred, C!EndFlush
  <2>3. phase' \in C!Phase /\ created' \subseteq 1..MaxBorn
    BY DEF C!EndLoad, C!FlushDeferred, C!EndFlush, C!Phase, ScriptInv, WorkTypes
  <2> QED BY <1>1, <1>2, <2>2, <2>3 DEF ScriptInv, WorkTypes
<1>4. RingHolds(ring', node)
  BY <1>1 DEF ScriptInv, NamesHold
<1>5. UNCHANGED Pool
  BY <1>1
<1> QED BY <1>2, <1>3, <1>4, <1>5, PoolStays

LEMMA DrainStep ==
  ASSUME ScriptInv, C!DispatchQueued \/ C!EndTick
  PROVE  ScriptInv'
<1>1. UNCHANGED <<Pool, deferred, turn, created>> /\ phase' \in C!Phase
  BY DEF C!DispatchQueued, C!EndTick, Pool, C!Phase, ScriptInv, WorkTypes
<1>2. ring \in Seq(Queued) /\ RingHolds(ring, node) /\ calls \in Stack /\ CallsHold(calls, node)
  BY DEF ScriptInv, WorkTypes, NamesHold
<1>3. ring' \in Seq(Queued) /\ RingHolds(ring', node)
  <2>1. CASE ring # <<>> /\ ring' = Tail(ring)
    BY <1>2, <2>1, TailOn DEF RingHolds
  <2>2. CASE ring' = ring
    BY <1>2, <2>2
  <2> QED BY <2>1, <2>2 DEF C!DispatchQueued, C!EndTick
<1>4. calls' \in Stack /\ CallsHold(calls', node)
  <2>1. CASE calls' = calls
    BY <1>2, <2>1
  <2>2. CASE calls' # calls
    <3> DEFINE e == Head(ring).serial
               snap == C!Triggers(scripts[e], node, "time")
    <3>1. e \in alive /\ calls' = C!Dispatched(calls, snap, "time")
      BY <2>2 DEF C!DispatchQueued, C!EndTick
    <3>2. e \in Being
      BY <3>1 DEF ScriptInv, PoolInv, PoolTypes
    <3>3. snap \in Seq(Pair) /\ Recalls(snap, node)
      BY <3>2, ListIsLive, TriggersHold
    <3> HIDE DEF snap
    <3>4. "time" \in C!Event
      BY DEF C!Event
    <3> QED BY <1>2, <3>1, <3>3, <3>4, DispatchedHolds
  <2> QED BY <2>1, <2>2
<1>5. WorkTypes'
  BY <1>1, <1>3, <1>4 DEF ScriptInv, WorkTypes
<1>6. UNCHANGED Pool
  BY <1>1
<1> QED BY <1>3, <1>4, <1>5, <1>6, PoolStays

LEMMA TimeTickStep ==
  ASSUME ScriptInv, NEW due \in SUBSET timed, C!TimeTick(due)
  PROVE  ScriptInv'
<1> DEFINE seq == C!SetToSeq(due)
           fired == [k \in 1..Len(seq) |-> [serial |-> node[seq[k]].entity, param |-> seq[k],
                                            born |-> node[seq[k]].born]]
<1>1. UNCHANGED <<Pool, deferred, turn, calls, created>> /\ phase' \in C!Phase /\ ring' = ring \o fired
  BY DEF C!TimeTick, Pool, C!Phase
<1>2. ring \in Seq(Queued) /\ RingHolds(ring, node) /\ calls \in Stack /\ CallsHold(calls, node)
      /\ timed \subseteq C!Node /\ \A n \in timed : Live(node, n)
  BY DEF ScriptInv, WorkTypes, NamesHold, PoolInv, PoolTypes
<1>3. IsFiniteSet(due)
  <2>1. IsFiniteSet(C!Node)
    BY FS_Interval, ScriptBounds DEF C!Node
  <2> QED BY <1>2, <2>1, FS_Subset
<1>4. seq \in Seq(due) /\ Len(seq) \in Nat
  BY <1>3, SetToSeqOn
<1>5. ASSUME NEW k \in 1..Len(seq) PROVE fired[k] \in Queued /\ Names(fired[k], node)
  <2>1. seq[k] \in timed
    BY <1>4
  <2> HIDE DEF seq
  <2>2. seq[k] \in C!Node /\ Live(node, seq[k]) /\ node[seq[k]] \in Holding
    BY <1>2, <2>1 DEF ScriptInv, PoolInv, PoolTypes
  <2>3. node[seq[k]].entity \in Being /\ node[seq[k]].born \in Nat
    BY <2>2 DEF ScriptInv, PoolInv, PoolTypes, ListsHold, Holding
  <2> QED BY <2>2, <2>3 DEF Queued, Names
<1> HIDE DEF seq
<1>6. fired \in Seq(Queued) /\ Len(fired) = Len(seq) /\ DOMAIN fired = 1..Len(seq)
  <2>1. fired \in [1..Len(seq) -> Queued]
    BY <1>5
  <2> HIDE DEF fired
  <2> QED BY <1>4, <2>1
<1> HIDE DEF fired
<1>7. ring' \in Seq(Queued) /\ RingHolds(ring', node)
  <2>1. ring' \in Seq(Queued) /\ On(ring') = On(ring) \cup On(fired)
    BY <1>1, <1>2, <1>6, ConcatOn
  <2>2. \A q \in On(ring') : Names(q, node)
    BY <1>2, <1>5, <1>6, <2>1 DEF On, RingHolds
  <2> QED BY <2>1, <2>2 DEF On, RingHolds
<1>8. WorkTypes'
  BY <1>1, <1>7 DEF ScriptInv, WorkTypes
<1>9. UNCHANGED Pool /\ CallsHold(calls', node)
  BY <1>1, <1>2
<1> QED BY <1>7, <1>8, <1>9, PoolStays

-----------------------------------------------------------------------------
(* Nodes leave the pool: scripts are attached.                              *)

(* The pool lasts: as many instances as nodes would have to share numbers.  *)
LEMMA PoolLasts ==
  ASSUME ScriptInv, count < MaxBorn
  PROVE  free # <<>>
<1> SUFFICES ASSUME free = <<>> PROVE FALSE
  OBVIOUS
<1>1. count \in Nat /\ MaxBorn \in Nat /\ C!Node = 1..MaxBorn
  BY ScriptBounds DEF ScriptInv, PoolInv, PoolTypes, C!Node
<1>2. On(free) = {}
  BY DEF On
<1>3. \A n \in C!Node : Used(node, n) /\ node[n].born \in 1..count
  BY <1>2 DEF ScriptInv, PoolInv, PoolHolds, BornHolds, Used
<1> DEFINE f == [n \in C!Node |-> node[n].born]
<1>4. f \in [C!Node -> 1..count]
  BY <1>3
<1>5. \A n \in C!Node : f[n] = node[n].born
  OBVIOUS
<1> HIDE DEF f
<1>6. Cardinality(C!Node) = MaxBorn /\ IsFiniteSet(C!Node) /\ Cardinality(1..count) = count /\ IsFiniteSet(1..count)
  <2>1. \A n \in Nat : 1 \in Int /\ n \in Int /\ (IF 1 > n THEN 0 ELSE n - 1 + 1) = n
    OBVIOUS
  <2> QED BY <1>1, <2>1, FS_Interval
<1>7. \E x, y \in C!Node : x # y /\ f[x] = f[y]
  <2>1. Cardinality(1..count) < Cardinality(C!Node)
    BY <1>6
  <2> QED BY <1>4, <1>6, <2>1, FS_PigeonHole
<1> QED BY <1>3, <1>5, <1>7 DEF ScriptInv, PoolInv, BornHolds

\* What names nodes in use does not see the others change.
LEMMA UsedAreKept ==
  ASSUME NEW held, NEW now, \A n \in C!Node : Used(held, n) => now[n] = held[n]
  PROVE  /\ \A stack \in Stack : CallsHold(stack, held) => CallsHold(stack, now)
         /\ \A q \in Seq(Queued) : RingHolds(q, held) => RingHolds(q, now)
<1>1. ASSUME NEW stack \in Stack, CallsHold(stack, held) PROVE CallsHold(stack, now)
  <2> SUFFICES ASSUME NEW k \in DOMAIN stack PROVE CallHolds(stack[k], now)
    BY DEF CallsHold
  <2>1. stack[k] \in Call /\ CallHolds(stack[k], held)
    BY <1>1 DEF Stack, CallsHold
  <2>2. stack[k].snap \in Seq(Pair) /\ stack[k].ref \in C!Node \cup {Null}
    BY <2>1 DEF Call
  <2>3. \A j \in DOMAIN stack[k].snap : stack[k].snap[j].node \in C!Node
    <3> TAKE j \in DOMAIN stack[k].snap
    <3>1. stack[k].snap[j] \in Pair
      BY <2>2
    <3> QED BY <3>1 DEF Pair
  <2> QED BY <2>1, <2>2, <2>3 DEF CallHolds, Recalls, Used, Live
<1>2. ASSUME NEW q \in Seq(Queued), RingHolds(q, held) PROVE RingHolds(q, now)
  <2> SUFFICES ASSUME NEW k \in DOMAIN q PROVE Names(q[k], now)
    BY DEF RingHolds
  <2>1. q[k] \in Queued /\ Names(q[k], held)
    BY <1>2 DEF RingHolds
  <2> QED BY <2>1 DEF Queued, Names, Live, Used
<1> QED BY <1>1, <1>2

LEMMA AttachPool ==
  ASSUME ScriptInv, NEW e \in Being, NEW s \in Script, C!AttachToEntity(e, s),
         UNCHANGED <<alive, returned>>
  PROVE  /\ PoolInv' /\ Head(free) \in C!Node
         /\ \A n \in C!Node : Used(node, n) => node'[n] = node[n]
         /\ \A n \in timed' : Live(node', n)
<1> DEFINE h == Head(free)
<1>1. /\ e \in alive /\ count < MaxBorn /\ count' = count + 1
      /\ node' = [node EXCEPT ![h] = [class |-> s, entity |-> e, state |-> "held", born |-> count + 1]]
      /\ free' = Tail(free) /\ scripts' = [scripts EXCEPT ![e] = <<h>> \o @]
      /\ timed' = timed \/ timed' = timed \cup {h}
  BY DEF C!AttachToEntity, C!Instance
<1>2. /\ PoolTypes /\ PoolHolds /\ ListsHold /\ BornHolds /\ \A n \in timed : Live(node, n)
      /\ count \in Nat /\ MaxBorn \in Nat
  BY ScriptBounds DEF ScriptInv, PoolInv, NamesHold, PoolTypes
<1>3. free # <<>> /\ free \in Seq(C!Node)
  BY <1>1, <1>2, PoolLasts DEF PoolTypes
<1>4. h \in C!Node /\ h \in On(free) /\ free' \in Seq(C!Node) /\ On(free') = On(free) \ {h} /\ Apart(free')
  <2>1. /\ h \in C!Node /\ h = free[1] /\ 1 \in DOMAIN free /\ Tail(free) \in Seq(C!Node)
        /\ Apart(free) => Apart(Tail(free)) /\ On(Tail(free)) = On(free) \ {h}
    BY <1>3, TailOn
  <2>2. h \in On(free)
    BY <2>1 DEF On
  <2> QED BY <1>1, <1>2, <2>1, <2>2 DEF PoolHolds
<1>5. ~Used(node, h)
  BY <1>2, <1>4 DEF PoolHolds, Used
<1> HIDE DEF h
<1>6. /\ node' \in [C!Node -> Holding]
      /\ node'[h].entity = e /\ node'[h].state = "held" /\ node'[h].born = count + 1
      /\ \A n \in C!Node : n # h => node'[n] = node[n]
  <2>1. [class |-> s, entity |-> e, state |-> "held", born |-> count + 1] \in Holding
    BY <1>1, <1>2 DEF Holding
  <2> QED BY <1>1, <1>2, <1>4, <2>1 DEF PoolTypes
<1>7. /\ scripts' \in [Being -> Seq(C!Node)]
      /\ On(scripts'[e]) = On(scripts[e]) \cup {h} /\ Apart(scripts'[e])
      /\ \A d \in Being : d # e => scripts'[d] = scripts[d]
  <2>1. scripts[e] \in Seq(C!Node) /\ Apart(scripts[e]) /\ h \notin On(scripts[e])
    BY <1>2, <1>4, <1>5 DEF PoolTypes, ListsHold, Live, Used
  <2>2. <<h>> \in Seq(C!Node) /\ On(<<h>>) = {h} /\ Apart(<<h>>)
    BY <1>4 DEF On, Apart
  <2>3. /\ <<h>> \o scripts[e] \in Seq(C!Node)
        /\ On(<<h>> \o scripts[e]) = On(<<h>>) \cup On(scripts[e])
        /\ Apart(<<h>>) /\ Apart(scripts[e]) /\ On(<<h>>) \cap On(scripts[e]) = {} => Apart(<<h>> \o scripts[e])
    BY <2>1, <2>2, ConcatOn
  <2>4. scripts'[e] = <<h>> \o scripts[e]
    BY <1>1, <1>2 DEF PoolTypes
  <2> QED BY <1>1, <1>2, <2>1, <2>2, <2>3, <2>4 DEF PoolTypes
<1>8. PoolTypes'
  BY <1>1, <1>2, <1>4, <1>6, <1>7 DEF PoolTypes
<1>9. PoolHolds'
  BY <1>2, <1>4, <1>6 DEF PoolHolds
<1>10. ListsHold'
  <2>1. ASSUME NEW d \in Being, NEW n \in C!Node, n \in On(scripts'[d])
        PROVE  d \in alive' /\ Live(node', n) /\ node'[n].entity = d
    BY <1>1, <1>2, <1>5, <1>6, <1>7, <2>1 DEF ListsHold, Live, Used
  <2>2. \A d \in Being : Apart(scripts'[d])
    BY <1>2, <1>7 DEF ListsHold
  <2>3. ASSUME NEW n \in C!Node, Live(node', n)
        PROVE  node'[n].entity \in alive' /\ n \in On(scripts'[node'[n].entity])
    <3>1. CASE n = h
      BY <1>1, <1>6, <1>7, <3>1
    <3>2. CASE n # h
      <4>1. node'[n] = node[n] /\ Live(node, n)
        BY <1>6, <2>3, <3>2 DEF Live
      <4>2. node[n].entity \in alive /\ node[n].entity \in Being /\ n \in On(scripts[node[n].entity])
        BY <1>2, <4>1 DEF ListsHold, PoolTypes
      <4> QED BY <1>7, <4>1, <4>2
    <3> QED BY <3>1, <3>2
  <2> QED BY <2>1, <2>2, <2>3 DEF ListsHold, Live
<1>11. BornHolds'
  <2>1. \A n \in C!Node : n # h /\ Used(node', n) => Used(node, n) /\ node'[n].born = node[n].born
    BY <1>6 DEF Used
  <2>2. \A n \in C!Node : n # h /\ Used(node', n) => node'[n].born \in 1..count
    BY <1>2, <2>1 DEF BornHolds
  <2>3. \A n \in C!Node : Used(node', n) => node'[n].born \in 1..count'
    BY <1>1, <1>2, <1>6, <2>2
  <2>4. \A n, m \in C!Node : Used(node', n) /\ Used(node', m) /\ node'[n].born = node'[m].born => n = m
    BY <1>1, <1>2, <1>6, <2>1, <2>2 DEF BornHolds
  <2> QED BY <2>3, <2>4 DEF BornHolds, Used
<1>12. \A n \in C!Node : Used(node, n) => node'[n] = node[n]
  BY <1>5, <1>6
<1>13. \A n \in timed' : Live(node', n)
  <2>1. \A n \in timed : n \in C!Node /\ Used(node, n)
    BY <1>2 DEF PoolTypes, Live, Used
  <2> QED BY <1>1, <1>2, <1>6, <1>12, <2>1 DEF Live
<1> QED BY <1>4, <1>8, <1>9, <1>10, <1>11, <1>12, <1>13 DEF PoolInv, h

LEMMA AttachStep ==
  ASSUME ScriptInv, NEW e \in Being, NEW s \in Script, NEW b \in BOOLEAN,
         C!AttachScript(e, s, b) \/ C!LoadScript(e, s, b)
  PROVE  ScriptInv'
<1>1. C!AttachToEntity(e, s) /\ UNCHANGED <<alive, returned, ring, turn, phase, created>>
  BY DEF C!AttachScript, C!LoadScript
<1>2. /\ PoolInv' /\ Head(free) \in C!Node /\ \A n \in timed' : Live(node', n)
      /\ \A n \in C!Node : Used(node, n) => node'[n] = node[n]
  BY <1>1, AttachPool
<1>3. ring \in Seq(Queued) /\ RingHolds(ring, node') /\ calls \in Stack /\ CallsHold(calls, node')
  BY <1>2, UsedAreKept DEF ScriptInv, WorkTypes, NamesHold
<1>4. calls' \in Stack /\ CallsHold(calls', node')
  <2>1. CASE calls' = calls
    BY <1>3, <2>1
  <2>2. CASE calls' # calls
    <3> DEFINE found == C!Triggers(scripts'[e], node', "creation")
               snap == C!OnlyOf(found, Head(free))
    <3>1. calls' = C!Dispatched(calls, snap, "creation")
      BY <2>2 DEF C!AttachScript, C!LoadScript
    <3>2. /\ scripts'[e] \in Seq(C!Node) /\ node' \in [C!Node -> Holding]
          /\ \A n \in On(scripts'[e]) : Live(node', n)
      <4>1. scripts'[e] \in Seq(C!Node) /\ node' \in [C!Node -> Holding]
        BY <1>2 DEF PoolInv, PoolTypes
      <4>2. On(scripts'[e]) \subseteq C!Node
        BY <4>1 DEF On
      <4> QED BY <1>2, <4>1, <4>2 DEF PoolInv, ListsHold, Live
    <3>3. found \in Seq(Pair) /\ Recalls(found, node')
      BY <3>2, TriggersHold
    <3> HIDE DEF found
    <3>4. snap \in Seq(Pair) /\ Recalls(snap, node')
      BY <3>3, OnlyOfHolds
    <3> HIDE DEF snap
    <3>5. "creation" \in C!Event
      BY DEF C!Event
    <3> QED BY <1>3, <3>1, <3>4, <3>5, DispatchedHolds
  <2> QED BY <2>1, <2>2
<1>5. deferred' \in Recording /\ turn' \in 0..Len(deferred')
  <2> DEFINE r == [serial |-> e, param |-> Head(free), born |-> count + 1]
             Record == [serial : Being, param : C!Node, born : Nat]
  <2>1. r \in Record
    BY <1>2 DEF ScriptInv, PoolInv, PoolTypes
  <2>2. deferred \in Seq(Record) /\ turn \in 0..Len(deferred) /\ Len(deferred) \in Nat
    BY DEF ScriptInv, WorkTypes, Recording
  <2>3. deferred' = deferred \/ deferred' = Append(deferred, r)
    BY DEF C!AttachScript, C!LoadScript
  <2> HIDE DEF r, Record
  <2>4. deferred' \in Seq(Record) /\ turn' \in 0..Len(deferred')
    BY <1>1, <2>1, <2>2, <2>3, AppendProperties
  <2> QED BY <2>4 DEF Recording, Record
<1>6. WorkTypes'
  BY <1>1, <1>3, <1>4, <1>5 DEF ScriptInv, WorkTypes
<1>7. NamesHold'
  BY <1>1, <1>2, <1>3, <1>4 DEF NamesHold, CallsHold, CallHolds, Recalls, RingHolds, Names, Live, Used
<1> QED BY <1>2, <1>6, <1>7 DEF ScriptInv

-----------------------------------------------------------------------------
(* Nodes are cleared, and wait until the next tick for the pool.            *)

LEMMA SilencedHolds ==
  ASSUME NEW stack \in Stack, NEW held, NEW now, NEW gone \in SUBSET C!Node, CallsHold(stack, held),
         \A n \in C!Node : n \notin gone => now[n] = held[n],
         \A n \in gone : Used(now, n) /\ now[n].born = held[n].born
  PROVE  C!Silenced(stack, gone) \in Stack /\ CallsHold(C!Silenced(stack, gone), now)
<1> DEFINE Quiet(k) == IF stack[k].ref \in gone THEN [stack[k] EXCEPT !.ref = Null] ELSE stack[k]
           s == C!Silenced(stack, gone)
<1>1. s = [k \in 1..Len(stack) |-> Quiet(k)]
  BY DEF C!Silenced
<1>2. stack \in Seq(Call) /\ Len(stack) \in Nat /\ DOMAIN stack = 1..Len(stack)
  BY LenProperties DEF Stack
<1>3. ASSUME NEW k \in DOMAIN stack PROVE Quiet(k) \in Call /\ CallHolds(Quiet(k), now)
  <2>1. stack[k] \in Call /\ CallHolds(stack[k], held)
    BY <1>2 DEF CallsHold
  <2>2. stack[k].snap \in Seq(Pair) /\ stack[k].ref \in C!Node \cup {Null}
    BY <2>1 DEF Call
  <2>3. Recalls(stack[k].snap, now)
    <3> SUFFICES ASSUME NEW j \in DOMAIN stack[k].snap
                 PROVE  Used(now, stack[k].snap[j].node)
                        /\ now[stack[k].snap[j].node].born = stack[k].snap[j].born
      BY DEF Recalls
    <3>1. stack[k].snap[j] \in Pair
      BY <2>2
    <3>2. stack[k].snap[j].node \in C!Node
      BY <3>1 DEF Pair
    <3>3. Used(held, stack[k].snap[j].node) /\ held[stack[k].snap[j].node].born = stack[k].snap[j].born
      BY <2>1 DEF CallHolds, Recalls
    <3> QED BY <3>2, <3>3 DEF Used
  <2>4. CASE stack[k].ref \in gone
    <3>1. Quiet(k) \in Call /\ Quiet(k).snap = stack[k].snap /\ Quiet(k).ref = Null
      BY <2>1, <2>4 DEF Call
    <3> QED BY <2>3, <3>1 DEF CallHolds
  <2>5. CASE stack[k].ref \notin gone
    <3>1. Quiet(k) = stack[k]
      BY <2>5
    <3> HIDE DEF Quiet
    <3> QED BY <2>1, <2>2, <2>3, <2>5, <3>1 DEF CallHolds, Live
  <2> QED BY <2>4, <2>5
<1> HIDE DEF Quiet, s
<1>4. s \in Seq(Call) /\ Len(s) = Len(stack) /\ DOMAIN s = DOMAIN stack
  BY <1>1, <1>2, <1>3
<1>5. CallsHold(s, now)
  BY <1>1, <1>2, <1>3, <1>4 DEF CallsHold
<1> QED BY <1>4, <1>5 DEF s, Stack

LEMMA PurgedHolds ==
  ASSUME NEW q \in Seq(Queued), NEW held, NEW now, NEW gone \in SUBSET C!Node, RingHolds(q, held),
         \A n \in C!Node : n \notin gone => now[n] = held[n]
  PROVE  C!Purged(q, gone) \in Seq(Queued) /\ RingHolds(C!Purged(q, gone), now)
<1> DEFINE Quiet(k) == IF q[k].param \in gone THEN [q[k] EXCEPT !.param = Null] ELSE q[k]
           s == C!Purged(q, gone)
<1>1. s = [k \in 1..Len(q) |-> Quiet(k)]
  BY DEF C!Purged
<1>2. Len(q) \in Nat /\ DOMAIN q = 1..Len(q)
  BY LenProperties
<1>3. ASSUME NEW k \in DOMAIN q PROVE Quiet(k) \in Queued /\ Names(Quiet(k), now)
  <2>1. q[k] \in Queued /\ Names(q[k], held)
    BY <1>2 DEF RingHolds
  <2>2. CASE q[k].param \in gone
    <3>1. Quiet(k) \in Queued /\ Quiet(k).param = Null
      BY <2>1, <2>2 DEF Queued
    <3> QED BY <3>1 DEF Names
  <2>3. CASE q[k].param \notin gone
    <3>1. Quiet(k) = q[k]
      BY <2>3
    <3> HIDE DEF Quiet
    <3> QED BY <2>1, <2>3, <3>1 DEF Queued, Names, Live
  <2> QED BY <2>2, <2>3
<1> HIDE DEF Quiet, s
<1>4. s \in Seq(Queued) /\ Len(s) = Len(q) /\ DOMAIN s = DOMAIN q
  BY <1>1, <1>2, <1>3
<1>5. RingHolds(s, now)
  BY <1>1, <1>2, <1>3, <1>4 DEF RingHolds
<1> QED BY <1>4, <1>5 DEF s

LEMMA ClearStep ==
  ASSUME ScriptInv, NEW gone \in SUBSET C!Node, \A n \in gone : Live(node, n),
         C!ReturnToPool(gone), UNCHANGED <<deferred, turn, phase, count, created>>,
         alive' \subseteq alive, scripts' \in [Being -> Seq(C!Node)],
         \A e \in Being : Apart(scripts'[e]) /\ On(scripts'[e]) = On(scripts[e]) \ gone,
         \A e \in alive \ alive' : On(scripts[e]) \subseteq gone
  PROVE  ScriptInv'
<1>1. /\ calls' = C!Silenced(calls, gone) /\ ring' = C!Purged(ring, gone) /\ timed' = timed \ gone
      /\ node' = [n \in C!Node |-> IF n \in gone
                     THEN [node[n] EXCEPT !.class = Null, !.entity = Null, !.state = "poisoned"]
                     ELSE node[n]]
      /\ returned' = returned \o C!SetToSeq(gone) /\ free' = free
  BY DEF C!ReturnToPool
<1>2. /\ PoolTypes /\ PoolHolds /\ ListsHold /\ BornHolds
      /\ calls \in Stack /\ CallsHold(calls, node) /\ ring \in Seq(Queued) /\ RingHolds(ring, node)
      /\ \A n \in timed : Live(node, n)
  BY DEF ScriptInv, PoolInv, WorkTypes, NamesHold
<1>3. /\ node' \in [C!Node -> Holding]
      /\ \A n \in C!Node : n \notin gone => node'[n] = node[n]
      /\ \A n \in gone : node'[n].state = "poisoned" /\ node'[n].born = node[n].born
  <2>1. \A n \in gone : LET new == [node[n] EXCEPT !.class = Null, !.entity = Null, !.state = "poisoned"]
                         IN  new \in Holding /\ new.state = "poisoned" /\ new.born = node[n].born
    <3> TAKE m \in gone
    <3>1. node[m] \in Holding
      BY <1>2 DEF PoolTypes
    <3> QED BY <3>1 DEF Holding
  <2> QED BY <1>1, <1>2, <2>1 DEF PoolTypes
<1> DEFINE now == node'
<1>3a. /\ \A n \in C!Node : n \notin gone => now[n] = node[n]
       /\ \A n \in gone : n \in C!Node /\ now[n].state = "poisoned" /\ now[n].born = node[n].born
                          /\ node[n].state = "held"
  BY <1>3 DEF Live
<1> HIDE DEF now
<1>4. calls' \in Stack /\ CallsHold(calls', node')
  <2>1. \A n \in gone : Used(now, n) /\ now[n].born = node[n].born
    BY <1>3a DEF Used
  <2>2. CallsHold(C!Silenced(calls, gone), now) /\ C!Silenced(calls, gone) \in Stack
    BY <1>2, <1>3a, <2>1, SilencedHolds
  <2> QED BY <1>1, <2>2 DEF now
<1>5. ring' \in Seq(Queued) /\ RingHolds(ring', node')
  BY <1>1, <1>2, <1>3, PurgedHolds
<1>6. /\ returned' \in Seq(C!Node) /\ On(returned') = On(returned) \cup gone /\ Apart(returned')
  <2>1. IsFiniteSet(gone)
    <3>1. IsFiniteSet(C!Node)
      BY FS_Interval, ScriptBounds DEF C!Node
    <3> QED BY <3>1, FS_Subset
  <2> DEFINE q == C!SetToSeq(gone)
  <2>2. q \in Seq(gone) /\ On(q) = gone /\ Apart(q)
    BY <2>1, SetToSeqOn
  <2>5. returned' = returned \o q
    BY <1>1
  <2> HIDE DEF q
  <2>3. q \in Seq(C!Node) /\ returned \in Seq(C!Node)
    BY <1>2, <2>2 DEF PoolTypes
  <2>4. On(returned) \cap gone = {} /\ Apart(returned)
    BY <1>2 DEF PoolHolds, Live
  <2> QED BY <2>2, <2>3, <2>4, <2>5, ConcatOn
<1>7. PoolTypes'
  BY <1>1, <1>2, <1>3, <1>6 DEF PoolTypes
<1>8. PoolHolds'
  <2>1. \A n \in C!Node : now[n].state = "free" <=> node[n].state = "free"
    BY <1>3a
  <2>2. \A n \in C!Node : now[n].state = "poisoned" <=> node[n].state = "poisoned" \/ n \in gone
    BY <1>3a
  <2> QED BY <1>1, <1>2, <1>6, <2>1, <2>2 DEF PoolHolds, now
<1>9. ListsHold'
  <2>1. \A n \in C!Node : Live(now, n) => n \notin gone /\ Live(node, n) /\ now[n] = node[n]
    BY <1>3a DEF Live
  <2>2. ASSUME NEW e \in Being, NEW n \in C!Node, n \in On(scripts'[e])
        PROVE  e \in alive' /\ Live(node', n) /\ node'[n].entity = e
    <3>1. n \in On(scripts[e]) /\ n \notin gone
      BY <2>2
    <3>2. e \in alive /\ Live(node, n) /\ node[n].entity = e
      BY <1>2, <3>1 DEF ListsHold
    <3> QED BY <1>3a, <3>1, <3>2 DEF Live, now
  <2>3. ASSUME NEW n \in C!Node, Live(node', n)
        PROVE  node'[n].entity \in alive' /\ n \in On(scripts'[node'[n].entity])
    <3>1. n \notin gone /\ Live(node, n) /\ node'[n] = node[n]
      BY <2>1, <2>3 DEF now
    <3>2. node[n].entity \in alive /\ node[n].entity \in Being /\ n \in On(scripts[node[n].entity])
      BY <1>2, <3>1 DEF ListsHold, PoolTypes
    <3> QED BY <3>1, <3>2
  <2> QED BY <2>2, <2>3 DEF ListsHold, Live
<1>10. BornHolds'
  <2>1. \A n \in C!Node : Used(now, n) => Used(node, n) /\ now[n].born = node[n].born
    BY <1>3a DEF Used
  <2> QED BY <1>2, <2>1 DEF BornHolds, Used, now
<1>11. \A n \in timed' : Live(node', n)
  BY <1>1, <1>2, <1>3a DEF Live, PoolTypes, now
<1>12. WorkTypes'
  BY <1>4, <1>5 DEF ScriptInv, WorkTypes
<1>13. NamesHold'
  BY <1>4, <1>5, <1>11 DEF NamesHold, CallsHold, CallHolds, Recalls, RingHolds, Names, Live, Used
<1> QED BY <1>7, <1>8, <1>9, <1>10, <1>12, <1>13 DEF ScriptInv, PoolInv

LEMMA DetachStep ==
  ASSUME ScriptInv, NEW e \in Being, NEW n \in C!Node, C!DetachScript(e, n)
  PROVE  ScriptInv'
<1>1. /\ n \in On(scripts[e]) /\ scripts' = [scripts EXCEPT ![e] = C!RemoveFirst(@, n)] /\ alive' = alive
      /\ C!ReturnToPool({n}) /\ UNCHANGED <<deferred, turn, phase, count, created>>
  BY DEF C!DetachScript, C!Range, On
<1>2. PoolTypes /\ ListsHold
  BY DEF ScriptInv, PoolInv
<1>3. /\ C!RemoveFirst(scripts[e], n) \in Seq(C!Node) /\ Apart(C!RemoveFirst(scripts[e], n))
      /\ On(C!RemoveFirst(scripts[e], n)) = On(scripts[e]) \ {n}
  BY <1>1, <1>2, RemoveFirstOn DEF PoolTypes, ListsHold
<1>4. \A d \in Being : d # e => n \notin On(scripts[d])
  BY <1>1, <1>2 DEF ListsHold
<1>5. /\ scripts' \in [Being -> Seq(C!Node)]
      /\ \A d \in Being : scripts'[d] = IF d = e THEN C!RemoveFirst(scripts[e], n) ELSE scripts[d]
  BY <1>1, <1>2, <1>3 DEF PoolTypes
<1>6. \A d \in Being : Apart(scripts'[d]) /\ On(scripts'[d]) = On(scripts[d]) \ {n}
  BY <1>2, <1>3, <1>4, <1>5 DEF ListsHold
<1>7. {n} \in SUBSET C!Node /\ \A m \in {n} : Live(node, m)
  BY <1>1, <1>2 DEF ListsHold
<1> QED BY <1>1, <1>5, <1>6, <1>7, ClearStep

LEMMA DeleteStep ==
  ASSUME ScriptInv, NEW e \in Being, C!DeleteEntity(e)
  PROVE  ScriptInv'
<1> DEFINE gone == On(scripts[e])
<1>1. /\ scripts' = [scripts EXCEPT ![e] = <<>>] /\ alive' = alive \ {e}
      /\ C!ReturnToPool(gone) /\ UNCHANGED <<deferred, turn, phase, count, created>>
  BY DEF C!DeleteEntity, C!Range, On
<1>2. PoolTypes /\ ListsHold
  BY DEF ScriptInv, PoolInv
<1>3. gone \in SUBSET C!Node /\ \A n \in gone : Live(node, n)
  BY ListIsLive
<1>4. \A d \in Being : d # e => On(scripts[d]) \cap gone = {}
  BY <1>2, <1>3 DEF ListsHold
<1> HIDE DEF gone
<1>5. /\ scripts' \in [Being -> Seq(C!Node)]
      /\ \A d \in Being : scripts'[d] = IF d = e THEN <<>> ELSE scripts[d]
  BY <1>1, <1>2 DEF PoolTypes
<1>6. On(<<>>) = {} /\ Apart(<<>>)
  BY DEF On, Apart
<1>7. \A d \in Being : Apart(scripts'[d]) /\ On(scripts'[d]) = On(scripts[d]) \ gone
  BY <1>2, <1>4, <1>5, <1>6 DEF ListsHold, gone
<1>8. \A d \in alive \ alive' : On(scripts[d]) \subseteq gone
  BY <1>1 DEF gone
<1> QED BY <1>1, <1>3, <1>5, <1>7, <1>8, ClearStep

\* TagNodePool_FlushB, when no dispatch is under way.
LEMMA UpdateStep ==
  ASSUME ScriptInv, C!Update
  PROVE  ScriptInv'
<1>1. /\ calls = <<>> /\ free' = C!Reverse(returned) \o free /\ returned' = <<>>
      /\ node' = [n \in C!Node |-> IF n \in On(returned) THEN [node[n] EXCEPT !.state = "free"] ELSE node[n]]
      /\ UNCHANGED <<alive, scripts, timed, ring, deferred, turn, calls, count, created>>
      /\ phase' \in C!Phase
  BY DEF C!Update, C!Range, On, C!Phase
<1>2. /\ PoolTypes /\ PoolHolds /\ ListsHold /\ BornHolds
      /\ ring \in Seq(Queued) /\ RingHolds(ring, node) /\ \A n \in timed : Live(node, n)
  BY DEF ScriptInv, PoolInv, WorkTypes, NamesHold
<1>3. /\ free' \in Seq(C!Node) /\ On(free') = On(returned) \cup On(free) /\ Apart(free')
  <2>1. free \in Seq(C!Node) /\ returned \in Seq(C!Node) /\ Apart(free) /\ Apart(returned)
    BY <1>2 DEF PoolTypes, PoolHolds
  <2>2. On(returned) \cap On(free) = {}
    <3>1. On(returned) \subseteq C!Node
      BY <2>1 DEF On
    <3> QED BY <1>2, <3>1 DEF PoolHolds
  <2>3. C!Reverse(returned) \in Seq(C!Node) /\ On(C!Reverse(returned)) = On(returned)
        /\ Apart(C!Reverse(returned))
    BY <2>1, ReverseOn
  <2> QED BY <1>1, <2>1, <2>2, <2>3, ConcatOn
<1>4. returned' \in Seq(C!Node) /\ On(returned') = {} /\ Apart(returned')
  BY <1>1 DEF On, Apart
<1>5. /\ node' \in [C!Node -> Holding]
      /\ \A n \in C!Node : n \notin On(returned) => node'[n] = node[n]
      /\ \A n \in On(returned) : n \in C!Node /\ node'[n].state = "free"
  <2>1. On(returned) \subseteq C!Node
    BY <1>2 DEF On, PoolTypes
  <2>2. \A n \in C!Node : LET new == [node[n] EXCEPT !.state = "free"] IN new \in Holding /\ new.state = "free"
    <3> TAKE n \in C!Node
    <3>1. node[n] \in Holding
      BY <1>2 DEF PoolTypes
    <3> QED BY <3>1 DEF Holding
  <2> QED BY <1>1, <1>2, <2>1, <2>2 DEF PoolTypes
<1>6. \A n \in C!Node : n \in On(returned) => ~Live(node, n)
  BY <1>2 DEF PoolHolds, Live
<1>7. \A n \in C!Node : Live(node', n) <=> Live(node, n)
  BY <1>5, <1>6 DEF Live
<1>8. \A n \in C!Node : Live(node, n) => node'[n] = node[n]
  BY <1>5, <1>6
<1>9. PoolTypes'
  BY <1>1, <1>2, <1>3, <1>4, <1>5 DEF PoolTypes
<1>10. PoolHolds'
  BY <1>2, <1>3, <1>4, <1>5 DEF PoolHolds
<1>11. ListsHold'
  BY <1>1, <1>2, <1>7, <1>8 DEF ListsHold, Live
<1>12. BornHolds'
  <2>1. \A n \in C!Node : Used(node', n) => Used(node, n) /\ node'[n].born = node[n].born
    BY <1>5 DEF Used
  <2> QED BY <1>1, <1>2, <2>1 DEF BornHolds, Used
<1>13. RingHolds(ring, node')
  <2> SUFFICES ASSUME NEW k \in DOMAIN ring PROVE Names(ring[k], node')
    BY DEF RingHolds
  <2>1. ring[k] \in Queued /\ Names(ring[k], node)
    BY <1>2 DEF RingHolds
  <2> QED BY <1>8, <2>1 DEF Queued, Names, Live
<1>14. \A n \in timed : Live(node', n)
  BY <1>2, <1>7 DEF PoolTypes
<1>15. CallsHold(calls, node')
  BY <1>1 DEF CallsHold
<1>16. NamesHold'
  BY <1>1, <1>13, <1>14, <1>15 DEF NamesHold, CallsHold, CallHolds, Recalls, RingHolds, Names, Live, Used
<1>17. WorkTypes'
  BY <1>1 DEF ScriptInv, WorkTypes
<1> QED BY <1>9, <1>10, <1>11, <1>12, <1>16, <1>17 DEF ScriptInv, PoolInv

-----------------------------------------------------------------------------
(* The theorems.                                                            *)

LEMMA ScriptStep == ScriptInv /\ [C!Next]_C!vars => ScriptInv'
<1> SUFFICES ASSUME ScriptInv, [C!Next]_C!vars PROVE ScriptInv'
  OBVIOUS
<1>1. ASSUME NEW e \in Being, C!Fire(e) \/ C!DeleteEntity(e) PROVE ScriptInv'
  BY <1>1, FireStep, DeleteStep
<1>2. ASSUME NEW e \in Being, NEW s \in Script, NEW b \in BOOLEAN,
             C!AttachScript(e, s, b) \/ C!LoadScript(e, s, b)
      PROVE  ScriptInv'
  BY <1>2, AttachStep
<1>3. ASSUME NEW e \in Being, NEW n \in C!Node, C!DetachScript(e, n) PROVE ScriptInv'
  BY <1>3, DetachStep
<1>4. CASE C!BeginTrigger
  BY <1>4, BeginTriggerStep
<1>5. CASE C!SetDefaultReturn \/ C!AbortCurrent \/ C!Abandon \/ \E v \in {0, 1} : C!Return(v)
  BY <1>5, HandlerStep
<1>6. CASE C!EndLoad \/ C!FlushDeferred \/ C!EndFlush
  BY <1>6, FlushStep
<1>7. CASE C!Update
  BY <1>7, UpdateStep
<1>8. CASE C!DispatchQueued \/ C!EndTick
  BY <1>8, DrainStep
<1>9. ASSUME NEW due \in SUBSET timed, C!TimeTick(due) PROVE ScriptInv'
  BY <1>9, TimeTickStep
<1>10. CASE UNCHANGED C!vars
  <2>1. UNCHANGED <<Pool, ring, deferred, turn, phase, calls, created>>
    BY <1>10 DEF C!vars, Pool
  <2> QED BY <2>1, CallsMove DEF ScriptInv, WorkTypes, NamesHold
<1> QED BY <1>1, <1>2, <1>3, <1>4, <1>5, <1>6, <1>7, <1>8, <1>9, <1>10 DEF C!Next

LEMMA ScriptsHold == MCSpec => []ScriptInv
<1>1. MCInit => ScriptInv
  BY ScriptsInit DEF MCInit
<1>2. ScriptInv /\ [MCNext]_all => ScriptInv'
  <2>1. [MCNext]_all => [C!Next]_C!vars
    BY DEF MCNext, all, code, C!vars
  <2> QED BY <2>1, ScriptStep
<1> QED BY <1>1, <1>2, PTL DEF MCSpec

(* No dispatch calls a script instance that took the place of the one it    *)
(* meant, however deep the handlers nest and whatever they detach, attach   *)
(* and delete: a node in a snapshot is not given out again while the        *)
(* snapshot lasts (DispatchEvent, TagNodePool_FlushB).                      *)
THEOREM SnapshotsAreHeld == MCSpec => []SnapshotsHold
BY ScriptsHold, InvGivesHolds, PTL

(* A script instance that is detached, or whose entity is deleted, is named *)
(* by no thread, subscription or queued event (CScriptInstance_Clear).      *)
THEOREM HoldersAreLiveAlways == MCSpec => []HoldersAreLive
BY ScriptsHold, InvGivesHolds, PTL

(* Every state of the hash tables and of the scripts has its types; the     *)
(* dispatches never nest deeper than the cap.                               *)
THEOREM TypesCorrect == MCSpec => []TypesOK
<1>1. MCInit => HashTypes
  BY HashTypesInit DEF MCInit
<1>2. HashTypes /\ [MCNext]_all => HashTypes'
  <2>1. [MCNext]_all => [Next]_vars
    BY DEF MCNext, all
  <2> QED BY <2>1, HashTypesStep
<1>3. HashTypes /\ ScriptInv => TypesOK
  BY ScriptTypes DEF HashTypes, ScriptInv, PoolInv, TypesOK
<1> QED BY <1>1, <1>2, <1>3, ScriptsHold, PTL DEF MCSpec
=============================================================================
