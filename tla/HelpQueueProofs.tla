-------------------------- MODULE HelpQueueProofs --------------------------
(***************************************************************************)
(* No help request that is being handled is left to nobody, for any number *)
(* of players and staff; and the types of the instances of Session and     *)
(* HelpQueue.  All that the queue's operations are needed for is what they *)
(* leave: entries that were there, one of a player, the one they were      *)
(* about changed or gone.                                                  *)
(***************************************************************************)
EXTENDS MCSession, SessionProofs, SequenceTheorems, WellFoundedInduction

Request == [serial : Caller, type : {"n", "h"}]

(* One request of a player.                                                *)
Single(q) == \A i, j \in DOMAIN q : q[i].serial = q[j].serial => i = j

HelpTypes ==
  /\ queue \in Seq(Request)
  /\ victim \in H!Tags /\ saved \in H!Tags
  /\ role \in [Caller -> SUBSET H!Roles]
  /\ present \subseteq Caller

HelpInv == HelpTypes /\ H!HandledIsHeld

-----------------------------------------------------------------------------
(* The operations on the queue.                                            *)

(* Every set of numbers that is not empty has a least one.                 *)
LEMMA LeastNumber ==
  ASSUME NEW T \in SUBSET Nat, T # {}
  PROVE  \E m \in T : \A k \in T : m <= k
<1> DEFINE R == OpToRel(<, Nat)
<1>1. IsWellFoundedOn(R, Nat)
  BY NatLessThanWellFounded
<1>2. PICK m \in T : \A k \in T : ~(<<k, m>> \in R)
  <2> HIDE DEF R
  <2> QED BY <1>1, WFMin
<1>3. \A k \in T : k < m => <<k, m>> \in R
  BY DEF OpToRel
<1> HIDE DEF R
<1>4. \A k \in T : k \in Nat /\ m \in Nat /\ ~(k < m)
  BY <1>2, <1>3
<1> QED BY <1>4

LEMMA FindBySerialFacts ==
  ASSUME NEW q \in Seq(Request), NEW p
  PROVE  /\ H!FindBySerial(q, p) \in 0..Len(q)
         /\ H!FindBySerial(q, p) # 0 => q[H!FindBySerial(q, p)].serial = p
         /\ H!FindBySerial(q, p) = 0 => \A i \in DOMAIN q : q[i].serial # p
<1> DEFINE I == {i \in 1..Len(q) : q[i].serial = p}
<1>1. CASE I = {}
  <2>1. H!FindBySerial(q, p) = 0
    BY <1>1 DEF H!FindBySerial, H!SelectInSeq
  <2> QED BY <1>1, <2>1
<1>2. CASE I # {}
  <2>1. H!FindBySerial(q, p) = H!Min(I)
    BY <1>2 DEF H!FindBySerial, H!SelectInSeq
  <2>2. \E m \in I : \A k \in I : m <= k
    <3>1. I \in SUBSET Nat
      OBVIOUS
    <3> QED BY <1>2, <3>1, LeastNumber
  <2>3. H!Min(I) \in I
    BY <2>2 DEF H!Min
  <2> QED BY <2>1, <2>3
<1> QED BY <1>1, <1>2

LEMMA FindNextPendingFacts ==
  ASSUME NEW q \in Seq(Request), H!FindNextPending(q) # 0
  PROVE  H!FindNextPending(q) \in DOMAIN q
<1> DEFINE I == {i \in 1..Len(q) : q[i].type = "n"}
<1>1. I # {} /\ H!FindNextPending(q) = H!Min(I)
  BY DEF H!FindNextPending, H!SelectInSeq
<1>2. \E m \in I : \A k \in I : m <= k
  <2>1. I \in SUBSET Nat
    OBVIOUS
  <2> QED BY <1>1, <2>1, LeastNumber
<1>3. H!Min(I) \in I
  BY <1>2 DEF H!Min
<1> QED BY <1>1, <1>3

LEMMA RemoveAtFacts ==
  ASSUME NEW q \in Seq(Request), NEW i \in 1..Len(q)
  PROVE  /\ H!RemoveAt(q, i) \in Seq(Request)
         /\ Len(H!RemoveAt(q, i)) = Len(q) - 1
         /\ \A j \in 1..Len(q) - 1 : H!RemoveAt(q, i)[j] = IF j < i THEN q[j] ELSE q[j + 1]
<1> DEFINE s == SubSeq(q, 1, i - 1)
           t == SubSeq(q, i + 1, Len(q))
<1>1. /\ s \in Seq(Request) /\ Len(s) = i - 1
      /\ \A j \in 1..i - 1 : s[j] = q[j]
  OBVIOUS
<1>2. /\ t \in Seq(Request) /\ Len(t) = Len(q) - i
      /\ \A j \in 1..Len(q) - i : t[j] = q[i + j]
  OBVIOUS
<1> HIDE DEF s, t
<1>3. /\ s \o t \in Seq(Request) /\ Len(s \o t) = Len(s) + Len(t)
      /\ \A j \in 1..Len(s) + Len(t) : (s \o t)[j] = IF j <= Len(s) THEN s[j] ELSE t[j - Len(s)]
  BY <1>1, <1>2, ConcatProperties
<1>4. H!RemoveAt(q, i) = s \o t
  BY DEF H!RemoveAt, s, t
<1>5. Len(s \o t) = Len(q) - 1
  BY <1>1, <1>2, <1>3
<1>6. ASSUME NEW j \in 1..Len(q) - 1 PROVE (s \o t)[j] = IF j < i THEN q[j] ELSE q[j + 1]
  <2>1. CASE j < i
    BY <1>1, <1>2, <1>3, <2>1
  <2>2. CASE j >= i
    <3>1. j - (i - 1) \in 1..Len(q) - i /\ i + (j - (i - 1)) = j + 1
      BY <2>2
    <3>2. (s \o t)[j] = t[j - (i - 1)]
      BY <1>1, <1>2, <1>3, <2>2
    <3>3. t[j - (i - 1)] = q[j + 1]
      BY <1>2, <3>1
    <3> QED BY <2>2, <3>2, <3>3
  <2>3. j < i \/ j >= i
    OBVIOUS
  <2> QED BY <2>1, <2>2, <2>3, Zenon
<1> QED BY <1>3, <1>4, <1>5, <1>6

(* Setting the level of a player's request leaves the others as they were. *)
LEMMA UpdatedFacts ==
  ASSUME NEW q \in Seq(Request), Single(q), NEW p, NEW level \in {"n", "h", "d"}
  PROVE  LET u == H!Updated(q, p, level)
         IN /\ u \in Seq(Request) /\ Single(u)
            /\ \A i \in DOMAIN u :
                 \/ u[i].serial # p /\ \E j \in DOMAIN q : u[i] = q[j]
                 \/ /\ u[i].serial = p /\ level # "d" /\ u[i].type = level
                    /\ \E j \in DOMAIN q : u[i].serial = q[j].serial
<1> DEFINE f == H!FindBySerial(q, p)
           u == H!Updated(q, p, level)
<1>1. /\ f \in 0..Len(q)
      /\ f # 0 => q[f].serial = p
      /\ f = 0 => \A i \in DOMAIN q : q[i].serial # p
  BY FindBySerialFacts
<1>2. u = IF f = 0 THEN q ELSE IF level = "d" THEN H!RemoveAt(q, f) ELSE [q EXCEPT ![f].type = level]
  BY DEF H!Updated
<1> HIDE DEF f, u
<1>3. CASE f = 0
  BY <1>1, <1>2, <1>3 DEF u
<1>4. CASE f # 0 /\ level = "d"
  <2>1. /\ u \in Seq(Request) /\ Len(u) = Len(q) - 1
        /\ \A j \in 1..Len(q) - 1 : u[j] = IF j < f THEN q[j] ELSE q[j + 1]
    BY <1>1, <1>2, <1>4, RemoveAtFacts
  <2>2. f \in 1..Len(q) /\ DOMAIN q = 1..Len(q) /\ DOMAIN u = 1..Len(q) - 1 /\ Len(q) \in Nat
    BY <1>1, <1>4, <2>1
  <2>3. Single(u)
    <3> SUFFICES ASSUME NEW i \in DOMAIN u, NEW j \in DOMAIN u, u[i].serial = u[j].serial PROVE i = j
      BY DEF Single
    <3> DEFINE Of(k) == IF k < f THEN k ELSE k + 1
    <3>1. \A k \in DOMAIN u : u[k] = q[Of(k)] /\ Of(k) \in DOMAIN q
      BY <2>1, <2>2
    <3> HIDE DEF Of
    <3>2. Of(i) = Of(j)
      BY <3>1 DEF Single
    <3> QED BY <2>2, <3>2 DEF Of
  <2>4. ASSUME NEW i \in DOMAIN u PROVE u[i].serial # p /\ \E j \in DOMAIN q : u[i] = q[j]
    <3> DEFINE j == IF i < f THEN i ELSE i + 1
    <3>1. j \in DOMAIN q /\ j # f /\ u[i] = q[j]
      BY <2>1, <2>2
    <3> QED BY <1>1, <1>4, <2>2, <3>1 DEF Single
  <2> QED BY <2>1, <2>3, <2>4 DEF u
<1>5. CASE f # 0 /\ level # "d"
  <2>1. f \in DOMAIN q /\ u = [q EXCEPT ![f].type = level] /\ DOMAIN q = 1..Len(q)
    BY <1>1, <1>2, <1>5
  <2>2. /\ DOMAIN u = DOMAIN q /\ u[f] = [q[f] EXCEPT !.type = level]
        /\ \A i \in DOMAIN q \ {f} : u[i] = q[i]
    BY <2>1
  <2>3. q[f] \in Request /\ u[f] \in Request /\ u[f].serial = q[f].serial /\ u[f].type = level
    <3>1. q[f] \in Request
      BY <2>1
    <3> QED BY <1>5, <2>2, <3>1 DEF Request
  <2>4. u \in Seq(Request)
    <3>1. \A i \in DOMAIN q : u[i] \in Request
      BY <2>1, <2>2, <2>3
    <3>2. u \in [1..Len(q) -> Request]
      BY <2>1, <2>2, <3>1
    <3> QED BY <3>2
  <2>5. Single(u)
    BY <2>2, <2>3 DEF Single
  <2>6. ASSUME NEW i \in DOMAIN u, i # f PROVE u[i].serial # p /\ \E j \in DOMAIN q : u[i] = q[j]
    BY <1>1, <1>5, <2>1, <2>2, <2>6 DEF Single
  <2> QED BY <1>1, <1>5, <2>1, <2>2, <2>3, <2>4, <2>5, <2>6 DEF u
<1> QED BY <1>3, <1>4, <1>5

-----------------------------------------------------------------------------
(* The invariant.                                                          *)

(* The parts of HandledIsHeld, for a queue and tags between two steps.      *)
HeldBy(q, v) ==
  \A i \in DOMAIN q : q[i].type = "h" => \E s \in Staff : v[s] = q[i].serial
Within(q, S) == \A i \in DOMAIN q : q[i].serial \in S

LEMMA HelpInvParts ==
  HelpInv <=> /\ HelpTypes /\ HeldBy(queue, victim) /\ Within(queue, present) /\ Single(queue)
BY DEF HelpInv, H!HandledIsHeld, HeldBy, Within, Single

LEMMA HelpInvPartsNext ==
  HelpInv' <=> /\ HelpTypes' /\ HeldBy(queue', victim') /\ Within(queue', present') /\ Single(queue')
BY DEF HelpInv, H!HandledIsHeld, HeldBy, Within, Single

(* The current request of s is given back or done, and its tag cleared.    *)
LEMMA LetGoKeeps ==
  ASSUME NEW q \in Seq(Request), Single(q), NEW S, Within(q, S), HeldBy(q, victim),
         victim \in H!Tags, NEW s \in Caller, NEW level \in {"n", "d"}
  PROVE  LET u == H!Updated(q, victim[s], level)
         IN u \in Seq(Request) /\ Single(u) /\ Within(u, S)
            /\ HeldBy(u, [victim EXCEPT ![s] = Nobody])
<1> DEFINE u == H!Updated(q, victim[s], level)
           v == [victim EXCEPT ![s] = Nobody]
<1>1. /\ u \in Seq(Request) /\ Single(u)
      /\ \A i \in DOMAIN u :
           \/ u[i].serial # victim[s] /\ \E j \in DOMAIN q : u[i] = q[j]
           \/ /\ u[i].serial = victim[s] /\ level # "d" /\ u[i].type = level
              /\ \E j \in DOMAIN q : u[i].serial = q[j].serial
  BY UpdatedFacts
<1> HIDE DEF u
<1>2. Within(u, S)
  BY <1>1 DEF Within
<1>3. \A t \in Caller \ {s} : v[t] = victim[t]
  BY DEF H!Tags
<1>4. HeldBy(u, v)
  <2> HIDE DEF v
  <2> QED BY <1>1, <1>3, Callers DEF HeldBy
<1> QED BY <1>1, <1>2, <1>4 DEF u

(* A player leaves and its own request with it.                            *)
LEMMA OwnRequestGoes ==
  ASSUME NEW q \in Seq(Request), Single(q), NEW S, Within(q, S), HeldBy(q, victim), NEW p
  PROVE  LET u == H!Updated(q, p, "d")
         IN u \in Seq(Request) /\ Single(u) /\ Within(u, S \ {p}) /\ HeldBy(u, victim)
<1> DEFINE u == H!Updated(q, p, "d")
<1>1. /\ u \in Seq(Request) /\ Single(u)
      /\ \A i \in DOMAIN u : u[i].serial # p /\ \E j \in DOMAIN q : u[i] = q[j]
  BY UpdatedFacts
<1> HIDE DEF u
<1>2. Within(u, S \ {p}) /\ HeldBy(u, victim)
  BY <1>1 DEF Within, HeldBy
<1> QED BY <1>1, <1>2 DEF u

LEMMA HelpInit == H!Init => HelpInv
<1> SUFFICES ASSUME H!Init PROVE HelpInv
  OBVIOUS
<1>1. queue \in Seq(Request) /\ DOMAIN queue = {}
  BY DEF H!Init
<1>2. HelpTypes
  BY <1>1 DEF H!Init, HelpTypes, H!Tags
<1> QED BY <1>1, <1>2 DEF HelpInv, H!HandledIsHeld

LEMMA HelpStep == HelpInv /\ [H!Next]_H!vars => HelpInv'
<1> SUFFICES ASSUME HelpInv, [H!Next]_H!vars PROVE HelpInv'
  OBVIOUS
<1> USE HelpInvParts, HelpInvPartsNext
<1>a. /\ queue \in Seq(Request) /\ victim \in H!Tags /\ saved \in H!Tags
      /\ role \in [Caller -> SUBSET H!Roles] /\ present \subseteq Caller
      /\ HeldBy(queue, victim) /\ Within(queue, present) /\ Single(queue)
  BY DEF HelpTypes
<1>1. ASSUME NEW p \in Caller, H!LogIn(p) PROVE HelpInv'
  <2>1. /\ UNCHANGED <<queue, victim, saved>> /\ present' = present \cup {p}
        /\ role' \in [Caller -> SUBSET H!Roles]
    BY <1>1, <1>a DEF H!LogIn
  <2> QED BY <1>a, <2>1 DEF HelpTypes, Within
<1>2. ASSUME NEW p \in Caller, H!LogOut(p) PROVE HelpInv'
  <2> DEFINE q == H!Updated(queue, p, "d")
  <2>1. q \in Seq(Request) /\ Single(q) /\ Within(q, present \ {p}) /\ HeldBy(q, victim)
    BY <1>a, OwnRequestGoes
  <2>2. present' = present \ {p} /\ UNCHANGED <<role, saved>>
    BY <1>2 DEF H!LogOut
  <2>3. CASE queue' = q /\ victim' = victim
    BY <1>a, <2>1, <2>2, <2>3 DEF HelpTypes
  <2>4. CASE queue' = H!Updated(q, victim[p], "n") /\ victim' = [victim EXCEPT ![p] = Nobody]
    <3> HIDE DEF q
    <3>1. /\ queue' \in Seq(Request) /\ Single(queue') /\ Within(queue', present')
          /\ HeldBy(queue', victim')
      BY <1>a, <2>1, <2>2, <2>4, LetGoKeeps
    <3>2. victim' \in H!Tags
      BY <1>a, <2>4 DEF H!Tags
    <3> QED BY <1>a, <2>2, <3>1, <3>2 DEF HelpTypes
  <2> QED BY <1>2, <2>3, <2>4 DEF H!LogOut
<1>3. ASSUME NEW p \in Caller, H!Add(p) PROVE HelpInv'
  <2> DEFINE e == [serial |-> p, type |-> "n"]
  <2>1. /\ p \in present /\ H!FindBySerial(queue, p) = 0 /\ queue' = Append(queue, e)
        /\ UNCHANGED <<victim, role, present, saved>>
    BY <1>3 DEF H!Add, H!Asks
  <2>2. e \in Request
    BY DEF Request
  <2>3. \A i \in DOMAIN queue : queue[i].serial # p
    BY <1>a, <2>1, FindBySerialFacts
  <2>4. /\ queue' \in Seq(Request) /\ DOMAIN queue' = DOMAIN queue \cup {Len(queue) + 1}
        /\ queue'[Len(queue) + 1] = e /\ Len(queue) + 1 \notin DOMAIN queue
        /\ \A i \in DOMAIN queue : queue'[i] = queue[i]
    BY <1>a, <2>1, <2>2
  <2>5. Single(queue') /\ Within(queue', present') /\ HeldBy(queue', victim')
    BY <1>a, <2>1, <2>3, <2>4 DEF Single, Within, HeldBy
  <2> QED BY <1>a, <2>1, <2>4, <2>5 DEF HelpTypes
<1>4. ASSUME NEW s \in Staff, H!NextRequest(s) PROVE HelpInv'
  <2>1. s \in Caller /\ UNCHANGED <<role, present, saved>>
    BY <1>4, Callers DEF H!NextRequest
  <2> DEFINE q == IF H!Holds(s) THEN H!Updated(queue, victim[s], "d") ELSE queue
             v == [victim EXCEPT ![s] = Nobody]
             i == H!FindNextPending(q)
  <2>2. v \in H!Tags /\ v[s] = Nobody /\ \A t \in Caller \ {s} : v[t] = victim[t]
    BY <1>a, <2>1 DEF H!Tags
  <2>3. q \in Seq(Request) /\ Single(q) /\ Within(q, present) /\ HeldBy(q, v)
    <3>1. CASE H!Holds(s)
      BY <1>a, <2>1, <3>1, LetGoKeeps
    <3>2. CASE ~H!Holds(s)
      <4>1. v = victim
        BY <1>a, <2>1, <3>2 DEF H!Holds, H!Tags
      <4> QED BY <1>a, <3>2, <4>1
    <3> QED BY <3>1, <3>2
  <2> HIDE DEF q, v
  <2>4. CASE i = 0
    <3>1. queue' = q /\ victim' = v
      BY <1>4, <2>4 DEF H!NextRequest, q, v
    <3> QED BY <1>a, <2>1, <2>2, <2>3, <3>1 DEF HelpTypes
  <2>5. CASE i # 0
    <3> DEFINE p == q[i].serial
               u == H!Updated(q, p, "h")
    <3>1. i \in DOMAIN q
      BY <2>3, <2>5, FindNextPendingFacts
    <3>2. p \in Caller
      <4>1. q[i] \in Request
        BY <2>3, <3>1
      <4> QED BY <4>1 DEF Request
    <3>3. queue' = u /\ victim' = [victim EXCEPT ![s] = p]
      BY <1>4, <2>5 DEF H!NextRequest, q
    <3>4. /\ victim' \in H!Tags /\ victim'[s] = p
          /\ \A t \in Caller \ {s} : victim'[t] = v[t]
      <4> HIDE DEF p
      <4> QED BY <1>a, <2>1, <2>2, <3>2, <3>3 DEF H!Tags
    <3>5. /\ u \in Seq(Request) /\ Single(u)
          /\ \A k \in DOMAIN u :
               \/ u[k].serial # p /\ \E j \in DOMAIN q : u[k] = q[j]
               \/ u[k].serial = p /\ \E j \in DOMAIN q : u[k].serial = q[j].serial
      BY <2>3, UpdatedFacts
    <3> HIDE DEF u, p
    <3>6. Within(u, present)
      BY <2>3, <3>5 DEF Within
    <3>7. HeldBy(u, victim')
      <4> SUFFICES ASSUME NEW k \in DOMAIN u, u[k].type = "h"
                   PROVE  \E t \in Staff : victim'[t] = u[k].serial
        BY DEF HeldBy
      <4>1. CASE u[k].serial = p
        BY <3>4, <4>1
      <4>2. CASE u[k].serial # p
        <5>1. PICK j \in DOMAIN q : u[k] = q[j]
          BY <3>5, <4>2
        <5>2. PICK t \in Staff : v[t] = q[j].serial
          BY <2>3, <5>1 DEF HeldBy
        <5>3. q[j].serial \in Caller
          <6>1. q[j] \in Request
            BY <2>3, <5>1
          <6> QED BY <6>1 DEF Request
        <5>4. t # s
          BY <2>2, <5>2, <5>3, Callers
        <5> QED BY <3>4, <5>1, <5>2, <5>4, Callers
      <4> QED BY <4>1, <4>2
    <3> QED BY <1>a, <2>1, <3>3, <3>4, <3>5, <3>6, <3>7 DEF HelpTypes
  <2> QED BY <2>4, <2>5
<1>5. ASSUME NEW s \in Staff, H!Relinquish(s) \/ H!Clear(s) \/ H!Who(s) PROVE HelpInv'
  <2>1. PICK level \in {"n", "d"} : H!LetGo(s, level)
    BY <1>5 DEF H!Relinquish, H!Clear, H!Who
  <2>2. s \in Caller /\ UNCHANGED <<role, present, saved>>
    BY <1>5, Callers DEF H!Relinquish, H!Clear, H!Who
  <2>3. queue' = H!Updated(queue, victim[s], level) /\ victim' = [victim EXCEPT ![s] = Nobody]
    BY <2>1 DEF H!LetGo
  <2>4. /\ queue' \in Seq(Request) /\ Single(queue') /\ Within(queue', present')
        /\ HeldBy(queue', victim')
    BY <1>a, <2>2, <2>3, LetGoKeeps
  <2>5. victim' \in H!Tags
    BY <1>a, <2>3 DEF H!Tags
  <2> QED BY <1>a, <2>2, <2>4, <2>5 DEF HelpTypes
<1>6. ASSUME NEW s \in Staff, NEW r \in H!Roles, H!SetRole(s, r) PROVE HelpInv'
  <2>1. UNCHANGED <<queue, victim, present, saved>> /\ role' \in [Caller -> SUBSET H!Roles]
    BY <1>6, <1>a DEF H!SetRole
  <2> QED BY <1>a, <2>1 DEF HelpTypes
<1>7. CASE H!SaveWorld
  BY <1>7, <1>a DEF H!SaveWorld, HelpTypes
<1>8. CASE H!Restart
  <2>1. queue' \in Seq(Request) /\ DOMAIN queue' = {}
    BY <1>8 DEF H!Restart
  <2> QED BY <1>8, <1>a, <2>1 DEF H!Restart, HelpTypes, HeldBy, Within, Single
<1>9. CASE UNCHANGED H!vars
  BY <1>9, <1>a DEF H!vars, HelpTypes
<1> QED BY <1>1, <1>2, <1>3, <1>4, <1>5, <1>6, <1>7, <1>8, <1>9 DEF H!Next

(* There are never more requests than players.                             *)
LEMMA HelpTypeOK == HelpInv => H!TypeOK
<1> SUFFICES ASSUME HelpInv PROVE H!TypeOK
  OBVIOUS
<1>1. queue \in Seq(Request) /\ Single(queue)
  BY HelpInvParts DEF HelpTypes
<1> DEFINE n == Len(queue)
           f == [i \in 1..n |-> queue[i].serial]
<1>2. n \in Nat /\ queue \in [1..n -> Request] /\ DOMAIN queue = 1..n
  BY <1>1
<1>3. f \in Injection(1..n, Caller)
  <2>1. f \in [1..n -> Caller]
    BY <1>2 DEF Request
  <2>2. \A i, j \in 1..n : f[i] = f[j] => i = j
    BY <1>1, <1>2 DEF Single
  <2> HIDE DEF f, n
  <2> QED BY <2>1, <2>2 DEF Injection, IsInjective
<1>4. Cardinality(1..n) <= Cardinality(Caller)
  BY <1>3, FS_Injection, Callers
<1>5. Cardinality(1..n) = n /\ Cardinality(Caller) \in Nat
  <2>1. 1 \in Int /\ n \in Int /\ (IF 1 > n THEN 0 ELSE n - 1 + 1) = n
    BY <1>2
  <2> HIDE DEF n
  <2>2. Cardinality(1..n) = n
    BY <2>1, FS_Interval
  <2> QED BY <2>2, FS_CardinalityType, Callers
<1>6. n \in 0..Cardinality(Caller)
  BY <1>2, <1>4, <1>5
<1>7. Cardinality(Caller) = H!Cardinality(Caller)
  BY DEF Cardinality, H!Cardinality
<1>8. \E k \in 0..H!Cardinality(Caller) : queue \in [1..k -> [serial : Caller, type : {"n", "h"}]]
  BY <1>2, <1>6, <1>7 DEF Request
<1> QED BY <1>8 DEF HelpInv, HelpTypes, H!TypeOK

-----------------------------------------------------------------------------
(* The theorems.                                                           *)

LEMMA QueueHolds == MCSpec => []HelpInv
<1>1. MCInit => HelpInv
  BY HelpInit DEF MCInit
<1>2. HelpInv /\ [MCNext]_all => HelpInv'
  <2>1. [MCNext]_all => [H!Next]_H!vars
    BY DEF MCNext, all, help, H!vars
  <2> QED BY <2>1, HelpStep
<1> QED BY <1>1, <1>2, PTL DEF MCSpec

(* A request being handled has somebody of the staff who holds it, and     *)
(* each player one request at most, while connected: through commands,     *)
(* log-outs, role changes, tags of earlier requests and restarts           *)
(* (CHelpQueue_Next, CHelpQueue_OnLogout).                                 *)
THEOREM HandledIsHeldByStaff == MCSpec => []HandledIsHeld
<1>1. HelpInv => HandledIsHeld
  BY DEF HelpInv, HandledIsHeld
<1> QED BY <1>1, QueueHolds, PTL

(* Every state of the sessions and of the queue has its types; there are   *)
(* never more requests than players.                                       *)
THEOREM TypesCorrect == MCSpec => []TypesOK
<1>1. MCInit => TypeOK
  BY TypeInit DEF MCInit
<1>2. TypeOK /\ [MCNext]_all => TypeOK'
  <2>1. [MCNext]_all => [Next]_vars
    BY DEF MCNext, all
  <2> QED BY <2>1, TypeStep
<1> QED BY <1>1, <1>2, HelpTypeOK, QueueHolds, PTL DEF MCSpec, TypesOK
=============================================================================
