-------------------------- MODULE PersistenceProofs --------------------------
(***************************************************************************)
(* What a crash may do to the saved world and to the accounts, for any     *)
(* logins, levels, characters and number of accounts.  The proofs rest on  *)
(* where the server is in its list of file operations: the ten operations  *)
(* of a last save are numbered, every list is a run of consecutive ones,   *)
(* and each invariant says what holds before operation k.  At the end, the *)
(* table of logins, for any number of connections, slots and logins.       *)
(***************************************************************************)
EXTENDS MCPersistence, SequenceTheorems, FiniteSetTheorems, WellFoundedInduction, TLAPS

USE DEF mem, history

-----------------------------------------------------------------------------
(* The operations still to be made.                                        *)

Op == {"stage", "unlink", "link", "rename", "open", "write", "exit"}
        \X {"both", "idx", "data", "list", "server"}

Steps == << <<"stage", "both">>,
            <<"unlink", "idx">>, <<"link", "idx">>, <<"rename", "idx">>,
            <<"unlink", "data">>, <<"link", "data">>, <<"rename", "data">>,
            <<"open", "list">>, <<"write", "list">>, <<"exit", "server">> >>

(* s is the n operations behind the first j.                               *)
Piece(s, j, n) ==
  s \in Seq(Op) /\ Len(s) = n /\ \A i \in 1..n : s[i] = Steps[j + i]

(* s is what is left of some plan before its operation k.                  *)
Run(s, k) == \E n \in 1..10 : Piece(s, k - 1, n) /\ k - 1 + n \in {7, 9, 10}

At(k) == IF k = 0 THEN todo = <<>> ELSE Run(todo, k)

Planned == \E k \in 0..10 : At(k)

LEMMA PieceJoin ==
  ASSUME NEW j \in Nat, NEW m \in Nat, NEW n \in Nat, NEW s, NEW t,
         Piece(s, j, m), Piece(t, j + m, n)
  PROVE  Piece(s \o t, j, m + n)
<1>1. /\ s \o t \in Seq(Op) /\ Len(s \o t) = m + n
      /\ \A i \in 1..m + n : (s \o t)[i] = IF i <= m THEN s[i] ELSE t[i - m]
  BY ConcatProperties DEF Piece
<1>2. ASSUME NEW i \in 1..m + n PROVE (s \o t)[i] = Steps[j + i]
  <2>1. CASE i <= m
    BY <1>1, <2>1 DEF Piece
  <2>2. CASE i > m
    <3>1. i - m \in 1..n /\ j + m + (i - m) = j + i
      BY <2>2
    <3> QED BY <1>1, <2>2, <3>1 DEF Piece
  <2>3. i <= m \/ i > m
    OBVIOUS
  <2> QED BY <2>1, <2>2, <2>3, Zenon
<1> QED BY <1>1, <1>2 DEF Piece

(* What is left after the first m operations of a piece.                   *)
LEMMA PieceRest ==
  ASSUME NEW j \in Nat, NEW n \in Nat, NEW m \in 0..n, NEW s, Piece(s, j, n)
  PROVE  Piece(SubSeq(s, m + 1, n), j + m, n - m)
<1> DEFINE t == SubSeq(s, m + 1, n)
<1>1. \A i \in m + 1..n : s[i] \in Op
  BY ElementOfSeq DEF Piece
<1>2. /\ t \in Seq(Op) /\ Len(t) = n - m
      /\ \A i \in 1..n - m : t[i] = s[m + i]
  <2>1. /\ t \in Seq(Op) /\ Len(t) = IF m + 1 <= n THEN n - (m + 1) + 1 ELSE 0
        /\ \A i \in 1..n - (m + 1) + 1 : t[i] = s[m + 1 + i - 1]
    BY <1>1, SubSeqProperties
  <2> HIDE DEF t
  <2> QED BY <2>1
<1>3. ASSUME NEW i \in 1..n - m PROVE t[i] = Steps[j + m + i]
  <2>1. m + i \in 1..n /\ j + (m + i) = j + m + i
    OBVIOUS
  <2> QED BY <1>2, <2>1 DEF Piece
<1> QED BY <1>2, <1>3 DEF Piece

LEMMA PieceEmpty ==
  ASSUME NEW j, NEW s, Piece(s, j, 0)
  PROVE  s = <<>>
BY EmptySeq DEF Piece

LEMMA RunHead ==
  ASSUME NEW k \in 1..10, NEW s, Run(s, k)
  PROVE  s # <<>> /\ Head(s) = Steps[k]
<1>1. PICK n \in 1..10 : Piece(s, k - 1, n)
  BY DEF Run
<1>2. s # <<>> /\ s[1] = Steps[k - 1 + 1] /\ s \in Seq(Op)
  BY <1>1, EmptySeq DEF Piece
<1>3. Head(s) = s[1]
  BY <1>2
<1> QED BY <1>2, <1>3

LEMMA RunTail ==
  ASSUME NEW k \in 1..10, NEW s, Run(s, k)
  PROVE  \/ k \in {7, 9, 10} /\ Tail(s) = <<>>
         \/ k + 1 \in 1..10 /\ Run(Tail(s), k + 1)
<1>1. PICK n \in 1..10 : Piece(s, k - 1, n) /\ k - 1 + n \in {7, 9, 10}
  BY DEF Run
<1>2. Tail(s) = SubSeq(s, 2, n)
  BY <1>1, RunHead, TailIsSubSeq DEF Piece
<1>3. Piece(Tail(s), k, n - 1)
  <2>1. k - 1 \in Nat /\ 1 \in 0..n /\ n \in Nat
    OBVIOUS
  <2>2. Piece(SubSeq(s, 1 + 1, n), k - 1 + 1, n - 1)
    BY <1>1, <2>1, PieceRest, Zenon
  <2>3. 1 + 1 = 2 /\ k - 1 + 1 = k
    OBVIOUS
  <2> QED BY <1>2, <2>2, <2>3, Zenon
<1>4. CASE n = 1
  <2>1. Piece(Tail(s), k, 0) /\ k \in {7, 9, 10}
    BY <1>1, <1>3, <1>4
  <2> QED BY <2>1, PieceEmpty
<1>5. CASE n # 1
  <2>1. n - 1 \in 1..10 /\ k + 1 - 1 = k /\ k + (n - 1) \in {7, 9, 10} /\ k + 1 \in 1..10
    BY <1>1, <1>5
  <2> QED BY <1>3, <2>1 DEF Run
<1> QED BY <1>4, <1>5

(* A failed save skips the world's operations.                             *)
LEMMA RunSkip ==
  ASSUME NEW s, Run(s, 1)
  PROVE  SubSeq(s, 8, Len(s)) = <<>> \/ Run(SubSeq(s, 8, Len(s)), 8)
<1>1. PICK n \in {7, 9, 10} : Piece(s, 0, n)
  BY DEF Run
<1>2. Piece(SubSeq(s, 8, n), 7, n - 7) /\ n = Len(s)
  <2>1. 7 \in 0..n /\ n \in Nat /\ 0 \in Nat
    BY <1>1
  <2>2. Piece(SubSeq(s, 7 + 1, n), 0 + 7, n - 7)
    BY <1>1, <2>1, PieceRest, Zenon
  <2>3. 7 + 1 = 8 /\ 0 + 7 = 7 /\ n = Len(s)
    BY <1>1 DEF Piece
  <2> QED BY <2>2, <2>3, Zenon
<1>3. CASE n = 7
  BY <1>2, <1>3, PieceEmpty
<1>4. CASE n # 7
  <2>1. n - 7 \in 1..10 /\ 8 - 1 + (n - 7) \in {7, 9, 10} /\ 8 - 1 = 7
    BY <1>1, <1>4
  <2>2. Piece(SubSeq(s, 8, Len(s)), 8 - 1, n - 7)
    BY <1>2, <2>1, Zenon
  <2> QED BY <2>1, <2>2, Zenon DEF Run
<1> QED BY <1>3, <1>4

(* An operation is at one place only.                                      *)
LEMMA StepsDiffer ==
  ASSUME NEW k \in 1..10
  PROVE  /\ Steps[k] = <<"stage", "both">> <=> k = 1
         /\ Steps[k] = <<"unlink", "idx">> <=> k = 2
         /\ Steps[k] = <<"link", "idx">> <=> k = 3
         /\ Steps[k] = <<"rename", "idx">> <=> k = 4
         /\ Steps[k] = <<"unlink", "data">> <=> k = 5
         /\ Steps[k] = <<"link", "data">> <=> k = 6
         /\ Steps[k] = <<"rename", "data">> <=> k = 7
         /\ Steps[k][1] = "stage" <=> k = 1
         /\ Steps[k][1] = "open" <=> k = 8
         /\ Steps[k][1] = "write" <=> k = 9
         /\ Steps[k] = <<"exit", "server">> <=> k = 10
BY DEF Steps

LEMMA RunOnce ==
  ASSUME NEW j \in 1..10, NEW k \in 1..10, NEW s, Run(s, j), Run(s, k)
  PROVE  j = k /\ s # <<>>
<1>1. Steps[j] = Steps[k] /\ s # <<>>
  BY RunHead
<1> QED BY <1>1 DEF Steps

LEMMA AtOnce ==
  ASSUME NEW j \in 0..10, NEW k \in 0..10
  PROVE  /\ At(j) /\ At(k) => j = k
         /\ At(j)' /\ At(k)' => j = k
BY RunOnce DEF At

(* The plans.                                                              *)
LEMMA PlanPieces ==
  /\ Piece(SaveAccounts, 7, 2)
  /\ Piece(SaveDynamic0, 0, 7)
  /\ Piece(SaveDynamic0 \o SaveAccounts, 0, 9)
  /\ Piece(SaveDynamic0 \o SaveAccounts \o Stop, 0, 10)
<1>1. Piece(<<<<"stage", "both">>>>, 0, 1)
  BY DEF Piece, Op, Steps
<1>2. Piece(CommitSaveFile("idx"), 1, 3)
  BY DEF Piece, Op, Steps, CommitSaveFile
<1>3. Piece(CommitSaveFile("data"), 4, 3)
  BY DEF Piece, Op, Steps, CommitSaveFile
<1>4. Piece(SaveAccounts, 7, 2)
  BY DEF Piece, Op, Steps, SaveAccounts
<1>5. Piece(Stop, 9, 1)
  BY DEF Piece, Op, Steps, Stop
<1>6. Piece(SaveDynamic0, 0, 7)
  <2>1. Piece(<<<<"stage", "both">>>> \o CommitSaveFile("idx"), 0, 1 + 3)
    BY <1>1, <1>2, PieceJoin
  <2>2. Piece(SaveDynamic0, 0, 1 + 3 + 3)
    BY <2>1, <1>3, PieceJoin DEF SaveDynamic0
  <2> QED BY <2>2
<1>7. Piece(SaveDynamic0 \o SaveAccounts, 0, 9)
  <2>1. Piece(SaveDynamic0 \o SaveAccounts, 0, 7 + 2)
    BY <1>4, <1>6, PieceJoin
  <2> QED BY <2>1
<1>8. Piece(SaveDynamic0 \o SaveAccounts \o Stop, 0, 10)
  <2>1. Piece(SaveDynamic0 \o SaveAccounts \o Stop, 0, 9 + 1)
    BY <1>5, <1>7, PieceJoin
  <2> QED BY <2>1
<1> QED BY <1>4, <1>6, <1>7, <1>8

LEMMA PlansRun ==
  /\ Len(SaveDynamic0) = 7
  /\ Run(SaveAccounts, 8)
  /\ Run(SaveDynamic0, 1)
  /\ Run(SaveDynamic0 \o SaveAccounts, 1)
  /\ Run(SaveDynamic0 \o SaveAccounts \o Stop, 1)
<1>1. Len(SaveDynamic0) = 7
  BY PlanPieces DEF Piece
<1> QED BY <1>1, PlanPieces DEF Run

(* What is still to be made is the end of a plan.                          *)
LEMMA EndOfPlan ==
  ASSUME Planned
  PROVE  \E p \in Plans, n \in 0..10 : n <= Len(p) /\ todo = SubSeq(p, n + 1, Len(p))
<1>1. CASE todo = <<>>
  <2> DEFINE p == <<>>
  <2>1. p \in Plans /\ 0 <= Len(p) /\ todo = SubSeq(p, 0 + 1, Len(p))
    BY <1>1 DEF Plans
  <2> QED BY <2>1
<1>2. ASSUME NEW k \in 1..10, Run(todo, k)
      PROVE  \E p \in Plans, n \in 0..10 : n <= Len(p) /\ todo = SubSeq(p, n + 1, Len(p))
  <2>1. PICK n \in 1..10 : Piece(todo, k - 1, n) /\ k - 1 + n \in {7, 9, 10}
    BY <1>2 DEF Run
  <2>2. PICK p \in Plans : Piece(p, 0, k - 1 + n)
    BY <2>1, PlanPieces DEF Plans
  <2>3. /\ k - 1 \in 0..k - 1 + n /\ k - 1 + n \in Nat /\ 0 + (k - 1) = k - 1
        /\ k - 1 + n - (k - 1) = n /\ k - 1 \in 0..10 /\ k - 1 <= k - 1 + n
    BY <2>1
  <2>4. Piece(SubSeq(p, k - 1 + 1, k - 1 + n), k - 1, n)
    <3> DEFINE j == k - 1
               m == k - 1 + n
    <3>1. 0 \in Nat /\ m \in Nat /\ j \in 0..m /\ Piece(p, 0, m)
      BY <2>2, <2>3
    <3>2. 0 + j = k - 1 /\ m - j = n
      BY <2>3
    <3> HIDE DEF j, m
    <3>3. Piece(SubSeq(p, j + 1, m), 0 + j, m - j)
      BY <3>1, PieceRest
    <3>4. Piece(SubSeq(p, j + 1, m), k - 1, n)
      BY <3>2, <3>3, Zenon
    <3> QED BY <3>4 DEF j, m
  <2>5. Len(p) = k - 1 + n
    BY <2>2 DEF Piece
  <2> DEFINE q == SubSeq(p, k - 1 + 1, k - 1 + n)
  <2>6. todo = q
    <3> HIDE DEF q
    <3>1. q \in Seq(Op) /\ todo \in Seq(Op) /\ Len(q) = Len(todo)
          /\ \A i \in 1..Len(q) : q[i] = todo[i]
      BY <2>1, <2>4 DEF Piece, q
    <3> QED BY <3>1, SeqEqual
  <2> QED BY <2>3, <2>5, <2>6
<1>3. PICK k \in 0..10 : At(k)
  BY DEF Planned
<1>4. k = 0 \/ (k \in 1..10 /\ k # 0)
  OBVIOUS
<1> QED BY <1>1, <1>2, <1>3, <1>4, Zenon DEF At

LEMMA Advance ==
  ASSUME NEW k \in 1..10, At(k), todo' = Tail(todo)
  PROVE  \/ k \in {7, 9, 10} /\ At(0)'
         \/ k + 1 \in 1..10 /\ At(k + 1)'
<1>1. \/ k \in {7, 9, 10} /\ todo' = <<>>
      \/ k + 1 \in 1..10 /\ Run(todo', k + 1)
  BY RunTail DEF At
<1> QED BY <1>1 DEF At

LEMMA HeadAt ==
  ASSUME Planned, todo # <<>>
  PROVE  \E k \in 1..10 : At(k) /\ Head(todo) = Steps[k]
BY RunHead DEF Planned, At

(* Which operation each step is, and which comes next.                     *)
LEMMA WhereStep ==
  ASSUME Planned
  PROVE  /\ Stage => At(1) /\ (At(2)' \/ At(8)' \/ At(0)')
         /\ Unlink("idx") => At(2) /\ At(3)'
         /\ Link("idx") => At(3) /\ At(4)'
         /\ Rename("idx") => At(4) /\ At(5)'
         /\ Unlink("data") => At(5) /\ At(6)'
         /\ Link("data") => At(6) /\ At(7)'
         /\ Rename("data") => At(7) /\ (At(8)' \/ At(0)')
         /\ OpenList => At(8) /\ (At(9)' \/ At(10)' \/ At(0)')
         /\ WriteList => At(9) /\ (At(10)' \/ At(0)')
<1>1. ASSUME Stage PROVE At(1) /\ (At(2)' \/ At(8)' \/ At(0)')
  <2>1. At(1)
    BY <1>1, HeadAt, StepsDiffer DEF Stage
  <2>2. CASE todo' = Tail(todo)
    <3>1. 1 \in 1..10 /\ 1 + 1 = 2
      OBVIOUS
    <3> QED BY <2>1, <2>2, <3>1, Advance
  <2>3. CASE todo' = SubSeq(todo, Len(SaveDynamic0) + 1, Len(todo))
    <3>1. todo' = SubSeq(todo, 8, Len(todo))
      BY <2>3, PlansRun
    <3> QED BY <2>1, <3>1, RunSkip DEF At
  <2> QED BY <1>1, <2>1, <2>2, <2>3 DEF Stage
<1>2. ASSUME Unlink("idx") PROVE At(2) /\ At(3)'
  <2>1. At(2) /\ todo' = Tail(todo)
    BY <1>2, HeadAt, StepsDiffer DEF Unlink, Call
  <2> QED BY <2>1, Advance
<1>3. ASSUME Link("idx") PROVE At(3) /\ At(4)'
  <2>1. At(3) /\ todo' = Tail(todo)
    BY <1>3, HeadAt, StepsDiffer DEF Link, Call
  <2> QED BY <2>1, Advance
<1>4. ASSUME Rename("idx") PROVE At(4) /\ At(5)'
  <2>1. At(4) /\ todo' = Tail(todo)
    BY <1>4, HeadAt, StepsDiffer DEF Rename, Call
  <2> QED BY <2>1, Advance
<1>5. ASSUME Unlink("data") PROVE At(5) /\ At(6)'
  <2>1. At(5) /\ todo' = Tail(todo)
    BY <1>5, HeadAt, StepsDiffer DEF Unlink, Call
  <2> QED BY <2>1, Advance
<1>6. ASSUME Link("data") PROVE At(6) /\ At(7)'
  <2>1. At(6) /\ todo' = Tail(todo)
    BY <1>6, HeadAt, StepsDiffer DEF Link, Call
  <2> QED BY <2>1, Advance
<1>7. ASSUME Rename("data") PROVE At(7) /\ (At(8)' \/ At(0)')
  <2>1. At(7) /\ todo' = Tail(todo)
    BY <1>7, HeadAt, StepsDiffer DEF Rename, Call
  <2> QED BY <2>1, Advance
<1>8. ASSUME OpenList PROVE At(8) /\ (At(9)' \/ At(10)' \/ At(0)')
  <2>1. At(8)
    BY <1>8, HeadAt, StepsDiffer DEF OpenList
  <2>2. CASE todo' = Tail(todo)
    BY <2>1, <2>2, Advance
  <2>3. CASE todo' = Tail(Tail(todo))
    <3>1. Run(todo, 8) /\ 8 \in 1..10 /\ 8 + 1 = 9 /\ 8 \notin {7, 9, 10}
      BY <2>1 DEF At
    <3>2. Run(Tail(todo), 9) /\ 9 \in 1..10 /\ 9 + 1 = 10
      BY <3>1, RunTail
    <3>3. Tail(Tail(todo)) = <<>> \/ Run(Tail(Tail(todo)), 10)
      BY <3>2, RunTail
    <3> QED BY <2>1, <2>3, <3>3 DEF At
  <2> QED BY <1>8, <2>1, <2>2, <2>3 DEF OpenList
<1>9. ASSUME WriteList PROVE At(9) /\ (At(10)' \/ At(0)')
  <2>1. At(9) /\ todo' = Tail(todo)
    BY <1>9, HeadAt, StepsDiffer DEF WriteList
  <2> QED BY <2>1, Advance
<1> QED BY <1>1, <1>2, <1>3, <1>4, <1>5, <1>6, <1>7, <1>8, <1>9

(* Everything else starts with no operation to make, or ends so, or leaves *)
(* them alone.                                                             *)
LEMMA WhereElse ==
  /\ PeriodicSave \/ SaveCommand \/ Shutdown => At(0) /\ At(1)'
  /\ \A l \in Login : Create(l) \/ SetChatName(l) => At(0) /\ At(8)'
  /\ Exit \/ Crash => At(0)'
<1>1. PeriodicSave \/ SaveCommand \/ Shutdown => At(0) /\ At(1)'
  <2>1. \A s : Run(s, 1) /\ Begin(s) => At(0) /\ At(1)'
    BY DEF Begin, At
  <2> QED BY <2>1, PlansRun, Zenon DEF PeriodicSave, SaveCommand, Shutdown
<1>2. \A l \in Login : Create(l) \/ SetChatName(l) => At(0) /\ At(8)'
  BY PlansRun DEF Create, SetChatName, At
<1>3. Exit \/ Crash => At(0)'
  BY DEF Exit, Crash, Down, At
<1> QED BY <1>1, <1>2, <1>3

-----------------------------------------------------------------------------
(* Account numbers.                                                        *)

LEMMA MaxOf ==
  ASSUME NEW N \in Nat, NEW S \in SUBSET (0..N), S # {}
  PROVE  Max(S) \in S /\ \A x \in S : x <= Max(S)
<1> DEFINE T == {N - x : x \in S}
<1>1. T \subseteq Nat /\ T # {}
  OBVIOUS
<1>2. PICK y \in T : \A z \in T : <<z, y>> \notin OpToRel(<, Nat)
  BY <1>1, NatLessThanWellFounded, WFMin
<1>3. \A z \in T : y <= z
  <2>0. y \in Nat /\ \A z \in T : z \in Nat
    BY <1>1, <1>2
  <2> HIDE DEF T
  <2> SUFFICES ASSUME NEW z \in T, z < y PROVE FALSE
    BY <2>0
  <2>1. z \in Nat /\ y \in Nat
    BY <2>0
  <2>2. <<z, y>> \in Nat \X Nat /\ <<z, y>>[1] < <<z, y>>[2]
    BY <2>1
  <2>3. <<z, y>> \in OpToRel(<, Nat)
    BY <2>2, Zenon DEF OpToRel
  <2> QED BY <1>2, <2>3
<1>4. PICK m \in S : y = N - m
  BY <1>2
<1>5. \A x \in S : m >= x
  BY <1>3, <1>4
<1>6. \E m1 \in S : \A x \in S : m1 >= x
  BY <1>4, <1>5
<1>7. Max(S) \in S /\ \A x \in S : Max(S) >= x
  BY <1>6 DEF Max
<1> QED BY <1>7

LEMMA FreshIsNew ==
  ASSUME NEW a \in Accounts
  PROVE  /\ Fresh(a) \in 1..MaxNum + 1
         /\ \A l \in Login : a[l] # None => a[l].num < Fresh(a)
<1> DEFINE S == {0} \cup {a[l].num : l \in {k \in Login : a[k] # None}}
<1>1. S \in SUBSET (0..MaxNum) /\ S # {}
  BY Bound DEF Accounts
<1>2. Max(S) \in S /\ \A x \in S : x <= Max(S)
  BY <1>1, Bound, MaxOf
<1>3. Fresh(a) = Max(S) + 1
  BY DEF Fresh
<1>4. \A l \in Login : a[l] # None => a[l].num \in S
  OBVIOUS
<1> HIDE DEF S
<1>5. Max(S) \in 0..MaxNum
  BY <1>1, <1>2
<1>6. ASSUME NEW l \in Login, a[l] # None PROVE a[l].num < Fresh(a)
  <2>1. a[l].num \in 0..MaxNum /\ a[l].num <= Max(S)
    BY <1>1, <1>2, <1>4, <1>6
  <2> QED BY <1>3, <1>5, <2>1, Bound
<1> QED BY <1>3, <1>5, <1>6, Bound

LEMMA LaterOf ==
  ASSUME NEW m \in 1..MaxNum + 1, NEW n \in 1..MaxNum + 1
  PROVE  Max({m, n}) \in 1..MaxNum + 1 /\ m <= Max({m, n}) /\ n <= Max({m, n})
<1> DEFINE S == {m, n}
<1>1. S \in SUBSET (0..MaxNum + 1) /\ S # {} /\ MaxNum + 1 \in Nat /\ m \in S /\ n \in S
  BY Bound
<1>2. Max(S) \in S /\ \A x \in S : x <= Max(S)
  <2> HIDE DEF S
  <2> QED BY <1>1, MaxOf
<1>3. Max(S) \in 1..MaxNum + 1
  BY <1>2
<1> QED BY <1>1, <1>2, <1>3

-----------------------------------------------------------------------------
(* Types.                                                                  *)

Types ==
  /\ up \in BOOLEAN /\ cut \subseteq {"list", "world", "call"}
  /\ Planned /\ (up \/ At(0))
  /\ world \in World /\ next \in 1..MaxNum + 1
  /\ acct \in Accounts /\ list \in Accounts
  /\ mul \in [now : [File -> World], bkp : [File -> World \cup {None}]]
  /\ maker \in [Char -> Login \cup {None}] /\ unread \in BOOLEAN

LEMMA EmptyTypes == Empty \in World /\ NoAccounts \in Accounts
BY Bound DEF Empty, World, NoAccounts, Accounts

LEMMA ParsedType == ASSUME Types PROVE Parsed \in Accounts
BY DEF Types, Parsed, Accounts

LEMMA TypesInit == Init => Types
<1> SUFFICES ASSUME Init PROVE Types
  OBVIOUS
<1>1. At(0) /\ Planned
  BY DEF Init, At, Planned
<1>2. mul \in [now : [File -> World], bkp : [File -> World \cup {None}]]
  BY EmptyTypes DEF Init
<1>3. next \in 1..MaxNum + 1
  BY Bound DEF Init
<1> QED BY <1>1, <1>2, <1>3, EmptyTypes DEF Init, Types

(* What one call of CommitSaveFile leaves alone, and that it may fail.     *)
LEMMA CallFacts ==
  ASSUME NEW f \in File, Unlink(f) \/ Link(f) \/ Rename(f)
  PROVE  /\ up /\ UNCHANGED <<up, world, acct, next, hup, list, maker, unread>>
         /\ cut' = cut \/ (cut' = cut \cup {"call"} /\ mul' = mul)
BY DEF Unlink, Link, Rename, Call, mem

(* What it does to the files: the backup of f alone, or f itself, becomes  *)
(* what it should or stays as it is.                                       *)
LEMMA CallFiles ==
  ASSUME Types, NEW f \in File
  PROVE  /\ mul' = mul => mul'.now = mul.now /\ mul'.bkp = mul.bkp
         /\ Unlink(f) \/ Link(f) =>
              /\ mul'.now = mul.now
              /\ \A g \in File \ {f} : mul'.bkp[g] = mul.bkp[g]
              /\ mul'.bkp[f] \in {None, mul.bkp[f], mul.now[f]}
         /\ Unlink(f) /\ cut' # cut \cup {"call"} => mul'.bkp[f] = None
         /\ Link(f) /\ cut' # cut \cup {"call"} /\ mul.bkp[f] = None => mul'.bkp[f] = mul.now[f]
         /\ Rename(f) =>
              /\ mul'.bkp = mul.bkp
              /\ \A g \in File \ {f} : mul'.now[g] = mul.now[g]
              /\ mul'.now[f] \in {mul.now[f], world}
         /\ Rename(f) /\ cut' # cut \cup {"call"} => mul'.now[f] = world
<1> DEFINE B(g) == [mul EXCEPT !.bkp[f] = g]
           N == [mul EXCEPT !.now[f] = world]
<1>1. \A g : /\ B(g).now = mul.now /\ B(g).bkp[f] = g
             /\ \A h \in File \ {f} : B(g).bkp[h] = mul.bkp[h]
  BY DEF Types
<1>2. /\ N.bkp = mul.bkp /\ N.now[f] = world
      /\ \A h \in File \ {f} : N.now[h] = mul.now[h]
  BY DEF Types
<1>3. Unlink(f) => mul' = B(None) \/ (mul' = mul /\ cut' = cut \cup {"call"})
  BY DEF Unlink, Call
<1>4. Link(f) => \/ mul.bkp[f] = None /\ mul' = B(mul.now[f])
                 \/ mul' = mul /\ (mul.bkp[f] # None \/ cut' = cut \cup {"call"})
  BY DEF Link, Call
<1>5. Rename(f) => mul' = N \/ (mul' = mul /\ cut' = cut \cup {"call"})
  BY DEF Rename, Call
<1> HIDE DEF B, N
<1> QED BY <1>1, <1>2, <1>3, <1>4, <1>5

(* A step keeps the list of operations a run of the numbered ones.         *)
LEMMA PlannedStep ==
  ASSUME Types, Next
  PROVE  Planned' /\ (up \/ At(0))'
<1>1. ASSUME up' = up, up, NEW k \in 0..10, At(k)' PROVE Planned' /\ (up \/ At(0))'
  BY <1>1 DEF Planned
<1>2. ASSUME At(0)' PROVE Planned' /\ (up \/ At(0))'
  BY <1>2 DEF Planned
<1>3. Planned
  BY DEF Types
<1>4. ASSUME Stage \/ OpenList \/ WriteList PROVE Planned' /\ (up \/ At(0))'
  <2>1. up' = up /\ up
    BY <1>4 DEF Stage, OpenList, WriteList
  <2>2. At(0)' \/ At(2)' \/ At(8)' \/ At(9)' \/ At(10)'
    BY <1>3, <1>4, WhereStep
  <2> QED BY <1>1, <2>1, <2>2
<1>5. ASSUME NEW f \in File, Unlink(f) \/ Link(f) \/ Rename(f) PROVE Planned' /\ (up \/ At(0))'
  <2>1. up' = up /\ up
    BY <1>5, CallFacts
  <2>2. At(0)' \/ At(3)' \/ At(4)' \/ At(5)' \/ At(6)' \/ At(7)' \/ At(8)'
    BY <1>3, <1>5, WhereStep DEF File
  <2> QED BY <1>1, <2>1, <2>2
<1>6. ASSUME NEW l \in Login, Create(l) \/ SetChatName(l) PROVE Planned' /\ (up \/ At(0))'
  <2>1. up' = up /\ up /\ At(8)'
    BY <1>6, WhereElse DEF Create, SetChatName
  <2> QED BY <1>1, <2>1
<1>7. ASSUME PeriodicSave \/ SaveCommand \/ Shutdown PROVE Planned' /\ (up \/ At(0))'
  <2>1. up' = up /\ up /\ At(1)'
    BY <1>7, WhereElse DEF PeriodicSave, SaveCommand, Shutdown, Begin
  <2> QED BY <1>1, <2>1
<1>8. ASSUME Exit \/ Crash PROVE Planned' /\ (up \/ At(0))'
  BY <1>2, <1>8, WhereElse
<1>9. ASSUME UNCHANGED todo, up => up' PROVE Planned' /\ (up \/ At(0))'
  BY <1>9 DEF Planned, At, Types
<1>10. \/ \E l \in Login : \/ \E c \in Char : CreateChar(l, c)
                           \/ \E v \in Level : Edit(l, v)
       \/ \E c \in Char : DeleteChar(c)
       \/ ReloadAll \/ Start \/ Hangup
       => UNCHANGED todo /\ (up => up')
  BY DEF CreateChar, Edit, DeleteChar, ReloadAll, Start, Hangup
<1> QED BY <1>4, <1>5, <1>6, <1>7, <1>8, <1>9, <1>10 DEF Next

LEMMA TypesStep == Types /\ [Next]_vars => Types'
<1> SUFFICES ASSUME Types, [Next]_vars PROVE Types'
  OBVIOUS
<1>1. CASE UNCHANGED vars
  BY <1>1 DEF vars, Types, Planned, At
<1> SUFFICES ASSUME Next PROVE Types'
  BY <1>1
<1>2. Planned' /\ (up \/ At(0))'
  BY PlannedStep
<1>3. CASE Stage \/ PeriodicSave \/ SaveCommand \/ Shutdown \/ Hangup
  BY <1>2, <1>3 DEF Stage, PeriodicSave, SaveCommand, Shutdown, Begin, Hangup, Types
<1>4. CASE OpenList \/ WriteList
  BY <1>2, <1>4, EmptyTypes DEF OpenList, WriteList, Types
<1>5. ASSUME NEW f \in File, Unlink(f) \/ Link(f) \/ Rename(f) PROVE Types'
  <2>1. mul' \in [now : [File -> World], bkp : [File -> World \cup {None}]]
    BY <1>5 DEF Unlink, Link, Rename, Call, Types
  <2> QED BY <1>2, <1>5, <2>1, CallFacts DEF Types
<1>6. ASSUME NEW l \in Login, Create(l) PROVE Types'
  <2>1. next \in 1..MaxNum /\ next' = next + 1
    BY <1>6, Bound DEF Create, Types
  <2>2. acct' \in Accounts
    BY <1>6, <2>1, Levels DEF Create, Types, Accounts
  <2>3. next' \in 1..MaxNum + 1
    BY <2>1, Bound
  <2> QED BY <1>2, <1>6, <2>2, <2>3 DEF Create, Types
<1>7. ASSUME NEW l \in Login, SetChatName(l) PROVE Types'
  BY <1>2, <1>7 DEF SetChatName, Types
<1>8. ASSUME NEW l \in Login, NEW c \in Char, CreateChar(l, c) PROVE Types'
  <2>1. acct[l].num \in 1..MaxNum
    BY <1>8 DEF CreateChar, Types, Accounts
  <2>2. world' \in World
    BY <1>8, <2>1 DEF CreateChar, Types, World
  <2> QED BY <1>2, <1>8, <2>2 DEF CreateChar, Types
<1>9. ASSUME NEW c \in Char, DeleteChar(c) PROVE Types'
  <2>1. world' \in World
    BY <1>9, Bound DEF DeleteChar, Types, World
  <2> QED BY <1>2, <1>9, <2>1 DEF DeleteChar, Types
<1>10. ASSUME NEW l \in Login, NEW v \in Level, Edit(l, v) PROVE Types'
  <2>1. list' \in Accounts
    BY <1>10 DEF Edit, Types, Accounts
  <2> QED BY <1>2, <1>10, <2>1 DEF Edit, Types
<1>11. CASE ReloadAll
  <2> DEFINE a == [l \in Login |-> IF acct[l] = None THEN Parsed[l] ELSE None]
  <2>1. a \in Accounts
    BY ParsedType DEF Types, Accounts
  <2>2. Fresh(a) \in 1..MaxNum + 1
    BY <2>1, FreshIsNew
  <2>3. next' \in 1..MaxNum + 1
    <3>1. next' = Max({next, Fresh(a)})
      BY <1>11 DEF ReloadAll
    <3> QED BY <2>2, <3>1, LaterOf DEF Types
  <2>4. acct' \in Accounts
    BY <1>11, ParsedType DEF ReloadAll, Types, Accounts
  <2> QED BY <1>2, <1>11, <2>3, <2>4 DEF ReloadAll, Types
<1>12. CASE Exit \/ Crash
  <2>1. list' \in Accounts /\ cut' \subseteq {"list", "world", "call"}
    BY <1>12 DEF Exit, Crash, Types, Accounts
  <2>2. UNCHANGED <<mul, maker, unread>>
    BY <1>12 DEF Exit, Crash
  <2>3. Down
    BY <1>12 DEF Exit, Crash
  <2>4. next' \in 1..MaxNum + 1 /\ world' \in World /\ acct' \in Accounts /\ up' \in BOOLEAN
    <3>1. 1 \in 1..MaxNum + 1
      BY Bound
    <3>2. next' = 1 /\ world' = Empty /\ acct' = NoAccounts /\ up' = FALSE
      BY <2>3 DEF Down
    <3> QED BY <3>1, <3>2, EmptyTypes
  <2> QED BY <1>2, <2>1, <2>2, <2>4 DEF Types
<1>13. CASE Start
  <2>1. world' \in World /\ cut' \subseteq {"list", "world", "call"}
    BY <1>13 DEF Start, LoadDynamic0, Types, File
  <2>2. acct' \in Accounts /\ next' \in 1..MaxNum + 1 /\ unread' = FALSE
    BY <1>13, ParsedType, FreshIsNew DEF Start, LoadAll
  <2> QED BY <1>2, <1>13, <2>1, <2>2 DEF Start, Types
<1> QED BY <1>3, <1>4, <1>5, <1>6, <1>7, <1>8, <1>9, <1>10, <1>11, <1>12, <1>13 DEF Next

LEMMA TypesHold == Spec => []Types
BY TypesInit, TypesStep, PTL DEF Spec

-----------------------------------------------------------------------------
(* The accounts.                                                           *)

(* Two accounts that share a number are one.                               *)
Distinct(a) ==
  \A l, k \in Login : a[l] # None /\ a[k] # None /\ a[l].num = a[k].num => l = k

(* a has every login that b has a readable line of, under the same number. *)
Knows(a, b) ==
  \A l \in Login \ Spaced : b[l] # None => a[l] # None /\ a[l].num = b[l].num

NumberInv ==
  /\ Distinct(acct) /\ Distinct(list)
  /\ up => Knows(acct, list) /\ \A l \in Login : acct[l] # None => acct[l].num < next

LEMMA NumberInit == Init => NumberInv
BY DEF Init, NumberInv, NoAccounts, Distinct, Knows

(* ReloadAll adds nothing: what can be read from the list is known.        *)
LEMMA Reloaded ==
  ASSUME Types, NumberInv, ReloadAll, NEW l \in Login
  PROVE  /\ acct'[l] = None <=> acct[l] = None
         /\ acct[l] # None => acct'[l].num = acct[l].num
         /\ l \notin Spaced /\ list[l] # None => acct'[l] = list[l]
<1>1. up /\ acct'[l] = (CASE Parsed[l] = None -> acct[l]
                          [] acct[l] = None -> Parsed[l]
                          [] OTHER -> [acct[l] EXCEPT !.level = Parsed[l].level])
  BY DEF ReloadAll
<1>2. Parsed[l] = IF l \in Spaced THEN None ELSE list[l]
  BY DEF Parsed
<1>3. CASE Parsed[l] = None
  BY <1>1, <1>2, <1>3
<1>4. CASE Parsed[l] # None
  <2>1. /\ l \notin Spaced /\ Parsed[l] = list[l]
        /\ acct[l] # None /\ acct[l].num = list[l].num
    BY <1>1, <1>2, <1>4 DEF NumberInv, Knows
  <2>2. acct'[l] = [acct[l] EXCEPT !.level = list[l].level]
    BY <1>1, <1>4, <2>1
  <2>3. acct[l] \in [num : 1..MaxNum, level : Level] /\ list[l] \in [num : 1..MaxNum, level : Level]
    BY <1>4, <2>1 DEF Types, Accounts
  <2>4. acct'[l] = list[l]
    BY <2>1, <2>2, <2>3
  <2> QED BY <1>4, <2>1, <2>4
<1> QED BY <1>3, <1>4

(* An edit, of a line that is there, keeps its number.                     *)
LEMMA Edited ==
  ASSUME Types, NEW k \in Login, NEW v \in Level, Edit(k, v), NEW l \in Login
  PROVE  /\ list'[l] = None <=> list[l] = None
         /\ list[l] # None => list'[l].num = list[l].num
         /\ l # k => list'[l] = list[l]
<1>1. /\ list[k] # None
      /\ list' = [list EXCEPT ![k] = [list[k] EXCEPT !.level = v]]
  BY DEF Edit
<1>2. list[k] \in [num : 1..MaxNum, level : Level]
  BY <1>1 DEF Types, Accounts
<1>3. /\ [list[k] EXCEPT !.level = v] \in [num : 1..MaxNum, level : Level]
      /\ [list[k] EXCEPT !.level = v].num = list[k].num
  BY <1>2
<1>4. list'[l] = IF l = k THEN [list[k] EXCEPT !.level = v] ELSE list[l]
  BY <1>1 DEF Types, Accounts
<1> QED BY <1>1, <1>3, <1>4, Missing

LEMMA NumberStep == Types /\ NumberInv /\ [Next]_vars => NumberInv'
<1> SUFFICES ASSUME Types, NumberInv, [Next]_vars PROVE NumberInv'
  OBVIOUS
<1>1. ASSUME UNCHANGED <<acct, list, next>>, up' => up PROVE NumberInv'
  BY <1>1 DEF NumberInv, Distinct, Knows
<1>f. ASSUME NEW f \in File, Unlink(f) \/ Link(f) \/ Rename(f) PROVE NumberInv'
  BY <1>1, <1>f, CallFacts
<1>2. CASE \/ Stage \/ PeriodicSave \/ SaveCommand \/ Shutdown \/ Hangup \/ UNCHANGED vars
           \/ \E l \in Login : SetChatName(l) \/ \E c \in Char : CreateChar(l, c)
           \/ \E c \in Char : DeleteChar(c)
  BY <1>1, <1>2 DEF Stage, PeriodicSave, SaveCommand, Shutdown, Begin, Hangup, vars, SetChatName,
     CreateChar, DeleteChar
<1>3. CASE OpenList
  BY <1>3 DEF OpenList, NumberInv, Distinct, Knows, NoAccounts
<1>4. CASE WriteList
  BY <1>4 DEF WriteList, NumberInv, Distinct, Knows
<1>5. ASSUME NEW l \in Login, Create(l) PROVE NumberInv'
  <2>1. /\ up /\ acct[l] = None /\ next \in 1..MaxNum + 1 /\ list' = list /\ next' = next + 1
        /\ \A k \in Login : acct'[k] = IF k = l THEN [num |-> next, level |-> 0] ELSE acct[k]
    BY <1>5 DEF Create, Types, Accounts
  <2>2. \A k \in Login : acct[k] # None => acct[k].num \in 1..MaxNum /\ acct[k].num < next
    BY <2>1 DEF NumberInv, Types, Accounts
  <2>3. Distinct(acct')
    BY <2>1, <2>2 DEF NumberInv, Distinct
  <2>4. Knows(acct', list)
    BY <2>1 DEF NumberInv, Knows
  <2>5. \A k \in Login : acct'[k] # None => acct'[k].num < next'
    BY <2>1, <2>2, Bound
  <2> QED BY <2>1, <2>3, <2>4, <2>5 DEF NumberInv
<1>6. ASSUME NEW k \in Login, NEW v \in Level, Edit(k, v) PROVE NumberInv'
  <2>1. UNCHANGED <<up, acct, next>>
    BY <1>6 DEF Edit
  <2>2. \A l \in Login : (list'[l] = None <=> list[l] = None) /\ (list[l] # None => list'[l].num = list[l].num)
    BY <1>6, Edited
  <2> QED BY <2>1, <2>2 DEF NumberInv, Distinct, Knows
<1>7. CASE ReloadAll
  <2> DEFINE a == [l \in Login |-> IF acct[l] = None THEN Parsed[l] ELSE None]
  <2>1. up /\ up' = up /\ list' = list /\ next' = Max({next, Fresh(a)})
    BY <1>7 DEF ReloadAll
  <2>2. \A l \in Login : /\ acct'[l] = None <=> acct[l] = None
                         /\ acct[l] # None => acct'[l].num = acct[l].num
    BY <1>7, Reloaded
  <2>3. next \in Nat /\ next' \in Nat /\ next <= next'
    <3>1. a \in Accounts
      BY ParsedType DEF Types, Accounts
    <3>2. Fresh(a) \in 1..MaxNum + 1
      BY <3>1, FreshIsNew
    <3> QED BY <2>1, <3>2, LaterOf DEF Types
  <2>4. \A l \in Login : acct[l] # None => acct[l].num \in Nat /\ acct[l].num < next
    BY <2>1 DEF NumberInv, Types, Accounts
  <2>5. \A l \in Login : acct'[l] # None => acct'[l].num < next'
    BY <2>2, <2>3, <2>4
  <2> QED BY <2>1, <2>2, <2>5 DEF NumberInv, Distinct, Knows
<1>8. CASE Exit \/ Crash
  <2>1. ~up' /\ acct' = NoAccounts
    BY <1>8 DEF Exit, Crash, Down
  <2>2. \A l \in Login : list'[l] = None \/ list'[l] = list[l] \/ list'[l] = acct[l]
    BY <1>8 DEF Exit, Crash, Types, Accounts
  <2>3. CASE list' = list
    BY <2>1, <2>3 DEF NumberInv, Distinct, NoAccounts
  <2>4. CASE \A l \in Login : list'[l] = None \/ list'[l] = acct[l]
    BY <2>1, <2>4 DEF NumberInv, Distinct, NoAccounts
  <2>5. list' = list \/ \A l \in Login : list'[l] = None \/ list'[l] = acct[l]
    BY <1>8 DEF Exit, Crash, Types, Accounts
  <2> QED BY <2>3, <2>4, <2>5
<1>9. CASE Start
  <2>1. /\ acct' = Parsed /\ next' = Fresh(Parsed) /\ list' = list
    BY <1>9 DEF Start, LoadAll
  <2>2. \A l \in Login : acct'[l] # None => acct'[l].num < next'
    BY <2>1, ParsedType, FreshIsNew
  <2> QED BY <2>1, <2>2 DEF NumberInv, Distinct, Knows, Parsed
<1> QED BY <1>f, <1>2, <1>3, <1>4, <1>5, <1>6, <1>7, <1>8, <1>9 DEF Next

LEMMA NumbersHold == Spec => []NumberInv
BY TypesHold, NumberInit, NumberStep, PTL DEF Spec

(* While the server runs, does not write the list and never failed to open *)
(* it, the list has its accounts, as they are unless an edit is unread.    *)
ListInv ==
  up /\ "list" \notin cut /\ ~At(8) /\ ~At(9) =>
    \A l \in Login \ Spaced :
      /\ acct[l] # None => list[l] # None
      /\ ~unread => list[l] = acct[l]

LEMMA ListStep == Types /\ NumberInv /\ ListInv /\ [Next]_vars => ListInv'
<1> SUFFICES ASSUME Types, NumberInv, ListInv, [Next]_vars PROVE ListInv'
  OBVIOUS
<1>p. Planned
  BY DEF Types
<1>a. \A j, k \in 0..10 : /\ At(j) /\ At(k) => j = k
                          /\ At(j)' /\ At(k)' => j = k
  BY AtOnce
<1>1. ASSUME UNCHANGED <<up, acct, list, unread>>, cut \subseteq cut',
             (~At(8) /\ ~At(9)) \/ At(8)' \/ At(9)'
      PROVE  ListInv'
  BY <1>1 DEF ListInv
<1>2. CASE Stage
  <2>1. At(1)
    BY <1>p, <1>2, WhereStep
  <2> QED BY <1>a, <1>1, <1>2, <2>1 DEF Stage
<1>3. ASSUME NEW f \in File, Unlink(f) \/ Link(f) \/ Rename(f) PROVE ListInv'
  <2>1. \E k \in 2..7 : At(k)
    BY <1>p, <1>3, WhereStep DEF File
  <2>2. UNCHANGED <<up, acct, list, unread>> /\ cut \subseteq cut'
    BY <1>3, CallFacts
  <2> QED BY <1>a, <1>1, <2>1, <2>2
<1>4. CASE PeriodicSave \/ SaveCommand \/ Shutdown
  <2>1. At(0)
    BY <1>4, WhereElse
  <2> QED BY <1>a, <1>1, <1>4, <2>1 DEF PeriodicSave, SaveCommand, Shutdown, Begin
<1>5. ASSUME NEW l \in Login, Create(l) \/ SetChatName(l) PROVE ListInv'
  BY <1>5, WhereElse DEF ListInv
<1>6. ASSUME UNCHANGED <<todo, up, acct, list, unread, cut>> PROVE ListInv'
  BY <1>1, <1>6 DEF At
<1>7. CASE \/ Hangup \/ UNCHANGED vars
           \/ \E c \in Char : DeleteChar(c) \/ \E l \in Login : CreateChar(l, c)
  BY <1>6, <1>7 DEF Hangup, vars, DeleteChar, CreateChar
<1>8. CASE OpenList
  <2>1. At(8) /\ (At(9)' \/ "list" \in cut')
    <3>1. At(8)
      BY <1>p, <1>8, WhereStep
    <3>2. CASE todo' = Tail(todo)
      BY <1>a, <3>1, <3>2, Advance
    <3> QED BY <1>8, <3>1, <3>2 DEF OpenList
  <2> QED BY <2>1 DEF ListInv
<1>9. CASE WriteList
  BY <1>9 DEF WriteList, ListInv
<1>10. ASSUME NEW k \in Login, NEW v \in Level, Edit(k, v) PROVE ListInv'
  <2>1. UNCHANGED <<todo, up, acct, cut>> /\ unread' = TRUE
    BY <1>10 DEF Edit
  <2>2. \A l \in Login : list'[l] = None <=> list[l] = None
    BY <1>10, Edited
  <2> QED BY <2>1, <2>2 DEF ListInv, At
<1>11. CASE ReloadAll
  <2>1. UNCHANGED <<todo, up, list, cut>> /\ unread' = FALSE /\ At(0)
    BY <1>11 DEF ReloadAll, At
  <2>2. ~At(8) /\ ~At(9)
    BY <1>a, <2>1
  <2>3. \A l \in Login : /\ acct'[l] = None <=> acct[l] = None
                         /\ l \notin Spaced /\ list[l] # None => acct'[l] = list[l]
    BY <1>11, Reloaded
  <2> QED BY <2>1, <2>2, <2>3, <1>11 DEF ListInv, ReloadAll
<1>12. CASE Exit \/ Crash
  BY <1>12 DEF Exit, Crash, Down, ListInv
<1>13. CASE Start
  BY <1>13 DEF Start, LoadAll, Parsed, ListInv
<1> QED BY <1>2, <1>3, <1>4, <1>5, <1>7, <1>8, <1>9, <1>10, <1>11, <1>12, <1>13 DEF Next

LEMMA ListHolds == Spec => []ListInv
<1>1. Init => ListInv
  BY DEF Init, ListInv
<1> QED BY <1>1, TypesHold, NumbersHold, ListStep, PTL DEF Spec

(* A crash loses no account and no edit that was read: between the saves   *)
(* access.list is what the server knows, unless opening it ever failed     *)
(* (Account_SaveAll).                                                      *)
THEOREM ListStaysCurrent == Spec => []ListIsCurrent
<1>1. Types /\ ListInv => ListIsCurrent
  <2>1. todo = <<>> => ~At(8) /\ ~At(9)
    <3>1. todo = <<>> => At(0)
      BY DEF At
    <3> QED BY <3>1, AtOnce
  <2> QED BY <2>1 DEF ListInv, ListIsCurrent
<1> QED BY <1>1, TypesHold, ListHolds, PTL

-----------------------------------------------------------------------------
(* Who owns the characters.                                                *)

(* Every character of w was made under a login, which has its number in a  *)
(* unless its lines cannot be read.                                        *)
Owns(w, a, m) ==
  \A c \in Char : w[c] # 0 =>
    m[c] \in Login /\ (m[c] \notin Spaced => a[m[c]] # None /\ a[m[c]].num = w[c])

(* While access.list never missed an account, the server knows the owners  *)
(* of all it has in memory and in the files, and so does the list unless   *)
(* it is being written.                                                    *)
OwnInv ==
  "list" \notin cut =>
    /\ up => Owns(world, acct, maker) /\ \A f \in File : Owns(mul.now[f], acct, maker)
    /\ ~At(9) => \A f \in File : Owns(mul.now[f], list, maker)

LEMMA OwnInit == Init => OwnInv
BY DEF Init, OwnInv, Owns, Empty

(* Outside Account_SaveAll the list has the numbers of the accounts.       *)
LEMMA OwnsByList ==
  ASSUME NumberInv, ListInv, up, "list" \notin cut, ~At(8), ~At(9),
         NEW w, Owns(w, acct, maker)
  PROVE  Owns(w, list, maker)
<1>1. \A l \in Login \ Spaced : acct[l] # None => list[l] # None /\ list[l].num = acct[l].num
  BY DEF ListInv, NumberInv, Knows
<1> QED BY <1>1 DEF Owns

LEMMA OwnStep == Types /\ NumberInv /\ ListInv /\ OwnInv /\ [Next]_vars => OwnInv'
<1> SUFFICES ASSUME Types, NumberInv, ListInv, OwnInv, [Next]_vars, "list" \notin cut'
             PROVE  OwnInv'
  BY DEF OwnInv
<1>p. Planned /\ (up \/ At(0))
  BY DEF Types
<1>a. \A j, k \in 0..10 : /\ At(j) /\ At(k) => j = k
                          /\ At(j)' /\ At(k)' => j = k
  BY AtOnce
<1>f. "idx" \in File /\ "data" \in File
  BY DEF File
<1>c. "list" \notin cut
  BY DEF Next, vars, Stage, OpenList, WriteList, Unlink, Link, Rename, Create, SetChatName, CreateChar,
     Edit, DeleteChar, PeriodicSave, SaveCommand, Shutdown, Begin, ReloadAll, Exit, Crash, Start,
     LoadDynamic0, Hangup, Call
<1>1. ASSUME UNCHANGED <<world, acct, list, maker>>, mul'.now = mul.now, up' = up, ~At(9) \/ At(9)'
      PROVE  OwnInv'
  BY <1>1, <1>c DEF OwnInv
<1>2. ASSUME UNCHANGED <<todo, world, acct, list, maker, mul, up>> PROVE OwnInv'
  BY <1>1, <1>2 DEF At
<1>3. CASE Hangup \/ UNCHANGED vars
  BY <1>2, <1>3 DEF Hangup, vars
<1>4. CASE Stage
  <2>1. At(1)
    BY <1>p, <1>4, WhereStep
  <2> QED BY <1>a, <1>1, <1>4, <2>1 DEF Stage
<1>5. ASSUME NEW f \in File, Unlink(f) \/ Link(f) PROVE OwnInv'
  <2>1. \E k \in 2..7 : At(k)
    BY <1>p, <1>5, WhereStep DEF File
  <2>2. mul'.now = mul.now
    BY <1>5, CallFiles
  <2>3. UNCHANGED <<world, acct, list, maker, up>>
    BY <1>5, CallFacts
  <2> QED BY <1>a, <1>1, <2>1, <2>2, <2>3
<1>6. ASSUME NEW f \in File, Rename(f) PROVE OwnInv'
  <2>1. At(4) \/ At(7)
    BY <1>p, <1>6, WhereStep DEF File
  <2>2. ~At(8) /\ ~At(9)
    BY <1>a, <2>1
  <2>3. /\ up /\ UNCHANGED <<up, world, acct, list, maker>>
        /\ \A g \in File : mul'.now[g] \in {mul.now[g], world}
    BY <1>6, CallFacts, CallFiles
  <2>4. Owns(world, acct, maker) /\ Owns(world, list, maker)
    BY <1>c, <2>2, <2>3, OwnsByList DEF OwnInv
  <2> QED BY <1>c, <2>2, <2>3, <2>4 DEF OwnInv
<1>7. CASE PeriodicSave \/ SaveCommand \/ Shutdown
  <2>1. At(0)
    BY <1>7, WhereElse
  <2> QED BY <1>a, <1>1, <1>7, <2>1 DEF PeriodicSave, SaveCommand, Shutdown, Begin
<1>8. CASE OpenList
  <2>1. At(8) /\ todo' = Tail(todo)
    BY <1>p, <1>8, WhereStep DEF OpenList
  <2>2. At(9)'
    BY <1>a, <2>1, Advance
  <2> QED BY <1>8, <1>c, <2>2 DEF OpenList, OwnInv
<1>9. CASE WriteList
  BY <1>9, <1>c DEF WriteList, OwnInv
<1>10. ASSUME NEW l \in Login, SetChatName(l) PROVE OwnInv'
  <2>1. At(0)
    BY <1>10, WhereElse
  <2> QED BY <1>a, <1>1, <1>10, <2>1 DEF SetChatName
<1>11. ASSUME NEW l \in Login, Create(l) PROVE OwnInv'
  <2>1. ~At(9)
    BY <1>a, <1>11, WhereElse
  <2>2. /\ up /\ acct[l] = None /\ UNCHANGED <<up, world, list, maker, mul>>
        /\ \A k \in Login : k # l => acct'[k] = acct[k]
    BY <1>11 DEF Create, Types, Accounts
  <2>3. ASSUME NEW w, Owns(w, acct, maker) PROVE Owns(w, acct', maker)
    BY <2>2, <2>3 DEF Owns
  <2> QED BY <1>c, <2>1, <2>2, <2>3 DEF OwnInv
<1>12. ASSUME NEW l \in Login, NEW c \in Char, CreateChar(l, c) PROVE OwnInv'
  <2>1. /\ up /\ maker[c] = None /\ acct[l] # None /\ todo = <<>>
        /\ UNCHANGED <<up, todo, acct, mul, list>>
        /\ world' = [world EXCEPT ![c] = acct[l].num] /\ maker' = [maker EXCEPT ![c] = l]
    BY <1>12 DEF CreateChar
  <2>2. ~At(9)
    BY <1>a, <2>1 DEF At
  <2>3. ASSUME NEW w, NEW a, Owns(w, a, maker) PROVE Owns(w, a, maker')
    <3>1. w[c] = 0
      BY <2>1, <2>3, Logins DEF Owns
    <3> QED BY <2>1, <2>3, <3>1 DEF Owns, Types
  <2>4. Owns(world', acct, maker')
    <3>1. Owns(world, acct, maker)
      BY <1>c, <2>1 DEF OwnInv
    <3>2. ASSUME NEW d \in Char, world'[d] # 0
          PROVE  /\ maker'[d] \in Login
                 /\ maker'[d] \notin Spaced => acct[maker'[d]] # None /\ acct[maker'[d]].num = world'[d]
      <4>1. CASE d = c
        BY <2>1, <4>1 DEF Types, World
      <4>2. CASE d # c
        <5>1. world'[d] = world[d] /\ maker'[d] = maker[d]
          BY <2>1, <4>2 DEF Types, World
        <5> QED BY <3>1, <3>2, <5>1 DEF Owns
      <4> QED BY <4>1, <4>2
    <3> QED BY <3>2 DEF Owns
  <2> QED BY <1>c, <2>1, <2>2, <2>3, <2>4 DEF OwnInv
<1>13. ASSUME NEW c \in Char, DeleteChar(c) PROVE OwnInv'
  <2>1. /\ up /\ UNCHANGED <<up, todo, acct, mul, list, maker>>
        /\ \A d \in Char : world'[d] \in {0, world[d]}
    BY <1>13 DEF DeleteChar, Types, World
  <2> QED BY <1>c, <2>1 DEF OwnInv, Owns, At
<1>14. ASSUME NEW l \in Login, NEW v \in Level, Edit(l, v) PROVE OwnInv'
  <2>1. UNCHANGED <<up, todo, world, acct, mul, maker>>
    BY <1>14 DEF Edit
  <2>2. \A k \in Login : (list'[k] = None <=> list[k] = None) /\ (list[k] # None => list'[k].num = list[k].num)
    BY <1>14, Edited
  <2>3. ASSUME NEW w, Owns(w, list, maker) PROVE Owns(w, list', maker)
    BY <2>2, <2>3 DEF Owns
  <2> QED BY <1>c, <2>1, <2>3 DEF OwnInv, At
<1>15. CASE ReloadAll
  <2>1. UNCHANGED <<up, todo, world, list, mul, maker>>
    BY <1>15 DEF ReloadAll
  <2>2. \A l \in Login : /\ acct'[l] = None <=> acct[l] = None
                         /\ acct[l] # None => acct'[l].num = acct[l].num
    BY <1>15, Reloaded
  <2>3. ASSUME NEW w, Owns(w, acct, maker) PROVE Owns(w, acct', maker)
    BY <2>2, <2>3 DEF Owns
  <2> QED BY <1>c, <2>1, <2>3 DEF OwnInv, At
<1>16. CASE Exit \/ Crash
  <2>1. ~At(9) /\ UNCHANGED <<list, mul, maker>> /\ ~up'
    <3>1. At(9) => todo # <<>> /\ Head(todo) = <<"write", "list">>
      BY RunHead DEF At, Steps
    <3>2. CASE Exit
      <4>1. Head(todo) = <<"exit", "server">>
        BY <3>2 DEF Exit, Stop
      <4> QED BY <3>1, <3>2, <4>1 DEF Exit, Down
    <3>3. CASE Crash
      BY <1>c, <3>1, <3>3 DEF Crash, Down
    <3> QED BY <1>16, <3>2, <3>3
  <2> QED BY <1>c, <2>1 DEF OwnInv
<1>17. CASE Start
  <2>1. /\ ~up /\ acct' = Parsed /\ UNCHANGED <<todo, mul, list, maker>>
        /\ \A c \in Char : world'[c] \in {0, mul.now["data"][c]}
    BY <1>17 DEF Start, LoadAll, LoadDynamic0, Part
  <2>2. ~At(9)
    BY <1>a, <1>p, <2>1
  <2>3. \A f \in File : Owns(mul.now[f], list, maker)
    BY <1>c, <2>2 DEF OwnInv
  <2>4. ASSUME NEW w, Owns(w, list, maker) PROVE Owns(w, acct', maker)
    BY <2>1, <2>4 DEF Owns, Parsed
  <2>5. Owns(world', list, maker)
    BY <1>f, <2>1, <2>3 DEF Owns
  <2> QED BY <2>1, <2>2, <2>3, <2>4, <2>5 DEF OwnInv
<1> QED BY <1>3, <1>4, <1>5, <1>6, <1>7, <1>8, <1>9, <1>10, <1>11, <1>12, <1>13, <1>14, <1>15, <1>16, <1>17 DEF Next

(* No two accounts the server knows share a number, and a player keeps the *)
(* characters of its account over every crash and restart, unless its name *)
(* has a space or access.list missed an account (Account_Create saves      *)
(* before anything else can happen).                                       *)
THEOREM OwnersKeepTheirCharacters == Spec => []OwnersAreKept
<1>1. NumberInv /\ OwnInv => OwnersAreKept
  BY DEF NumberInv, Distinct, OwnInv, Owns, OwnersAreKept
<1> QED BY <1>1, TypesHold, NumbersHold, ListHolds, OwnInit, OwnStep, PTL DEF Spec

-----------------------------------------------------------------------------
(* The saved world.                                                        *)

(* As long as no file call failed: while the data file is put in place the *)
(* index is already the new one; until a server has started from a torn    *)
(* save, files are torn only in between, and the index kept as .bkp is     *)
(* then the one of the data.                                               *)
SaveInv ==
  "call" \notin cut =>
    /\ At(5) \/ At(6) \/ At(7) => mul.now["idx"] = world
    /\ "world" \notin cut =>
         /\ up /\ Torn => At(5) \/ At(6) \/ At(7)
         /\ At(3) => mul.bkp["idx"] = None
         /\ At(4) => mul.bkp["idx"] = mul.now["idx"]
         /\ Torn => mul.bkp["idx"] = mul.now["data"]

LEMMA SaveInit == Init => SaveInv
<1> SUFFICES ASSUME Init PROVE SaveInv
  OBVIOUS
<1>1. At(0)
  BY DEF Init, At
<1>2. ~At(3) /\ ~At(4) /\ ~At(5) /\ ~At(6) /\ ~At(7)
  BY <1>1, AtOnce
<1>3. ~Torn
  BY DEF Init, Torn, File
<1> QED BY <1>2, <1>3 DEF SaveInv

(* A step that touches neither the files nor the world.                    *)
LEMMA SaveUntouched ==
  ASSUME SaveInv, UNCHANGED <<mul, world>>, cut \subseteq cut', up' => up,
         ~(At(5) \/ At(6) \/ At(7)) \/ ~up', ~(At(3) \/ At(4) \/ At(5) \/ At(6) \/ At(7))'
  PROVE  SaveInv'
BY DEF SaveInv, Torn

LEMMA SaveStep == Types /\ SaveInv /\ [Next]_vars => SaveInv'
<1> SUFFICES ASSUME Types, SaveInv, [Next]_vars PROVE SaveInv'
  OBVIOUS
<1>p. Planned
  BY DEF Types
<1>a. \A j, k \in 0..10 : /\ At(j) /\ At(k) => j = k
                          /\ At(j)' /\ At(k)' => j = k
  BY AtOnce
<1>1. ASSUME UNCHANGED <<todo, mul, world>>, cut \subseteq cut', up' = up PROVE SaveInv'
  BY <1>1 DEF SaveInv, Torn, At
<1>c. ASSUME NEW f \in File, Unlink(f) \/ Link(f) \/ Rename(f)
      PROVE  up /\ UNCHANGED <<up, world>> /\ ("call" \notin cut' => cut' = cut /\ cut' # cut \cup {"call"})
  BY <1>c, CallFacts
<1>f. "idx" \in File /\ "data" \in File /\ "idx" # "data"
  BY DEF File
<1>2. CASE Stage
  <2>1. At(1) /\ (At(2)' \/ At(8)' \/ At(0)')
    BY <1>p, <1>2, WhereStep
  <2> QED BY <1>a, <1>2, <2>1, SaveUntouched DEF Stage
<1>3. CASE OpenList \/ WriteList
  <2>1. (At(8) \/ At(9)) /\ (At(9)' \/ At(10)' \/ At(0)')
    BY <1>p, <1>3, WhereStep
  <2> QED BY <1>a, <1>3, <2>1, SaveUntouched DEF OpenList, WriteList
<1>4. CASE PeriodicSave \/ SaveCommand \/ Shutdown
  <2>1. At(0) /\ At(1)'
    BY <1>4, WhereElse
  <2> QED BY <1>a, <1>4, <2>1, SaveUntouched DEF PeriodicSave, SaveCommand, Shutdown, Begin
<1>5. ASSUME NEW l \in Login, Create(l) \/ SetChatName(l) PROVE SaveInv'
  <2>1. At(0) /\ At(8)'
    BY <1>5, WhereElse
  <2> QED BY <1>a, <1>5, <2>1, SaveUntouched DEF Create, SetChatName
<1>6. CASE Unlink("idx")
  <2>1. At(2) /\ At(3)'
    BY <1>p, <1>6, WhereStep
  <2>2. mul'.now = mul.now /\ ("call" \notin cut' => mul'.bkp["idx"] = None)
    BY <1>6, <1>c, <1>f, CallFiles
  <2>3. up /\ UNCHANGED <<up, world>> /\ ("call" \notin cut' => cut' = cut)
    BY <1>6, <1>c, <1>f
  <2>4. Torn' = Torn
    BY <2>2 DEF Torn
  <2>5. ~At(4)' /\ ~At(5)' /\ ~At(6)' /\ ~At(7)' /\ ~At(5) /\ ~At(6) /\ ~At(7)
    BY <1>a, <2>1
  <2> QED BY <2>2, <2>3, <2>4, <2>5 DEF SaveInv
<1>7. CASE Link("idx")
  <2>1. At(3) /\ At(4)'
    BY <1>p, <1>7, WhereStep
  <2>2. up /\ UNCHANGED <<up, world>> /\ ("call" \notin cut' => cut' = cut)
    BY <1>7, <1>c, <1>f
  <2>3. /\ mul'.now = mul.now
        /\ "call" \notin cut' /\ "world" \notin cut' => mul'.bkp["idx"] = mul.now["idx"]
    BY <1>7, <1>c, <1>f, <2>1, CallFiles DEF SaveInv
  <2>4. Torn' = Torn
    BY <2>3 DEF Torn
  <2>5. ~At(3)' /\ ~At(5)' /\ ~At(6)' /\ ~At(7)' /\ ~At(5) /\ ~At(6) /\ ~At(7)
    BY <1>a, <2>1
  <2> QED BY <2>2, <2>3, <2>4, <2>5 DEF SaveInv
<1>8. CASE Rename("idx")
  <2>1. At(4) /\ At(5)'
    BY <1>p, <1>8, WhereStep
  <2>2. up /\ UNCHANGED <<up, world>> /\ ("call" \notin cut' => cut' = cut)
    BY <1>8, <1>c, <1>f
  <2>3. /\ mul'.now["data"] = mul.now["data"] /\ mul'.bkp = mul.bkp
        /\ "call" \notin cut' => mul'.now["idx"] = world
    BY <1>8, <1>c, <1>f, CallFiles
  <2>4. ~At(3)' /\ ~At(4)' /\ ~(At(5) \/ At(6) \/ At(7))
    BY <1>a, <2>1
  <2>5. "call" \notin cut' /\ "world" \notin cut' => mul'.bkp["idx"] = mul'.now["data"]
    BY <2>1, <2>2, <2>3, <2>4 DEF SaveInv, Torn
  <2> QED BY <2>1, <2>2, <2>3, <2>4, <2>5 DEF SaveInv
<1>9. CASE Unlink("data") \/ Link("data")
  <2>1. (At(5) /\ At(6)') \/ (At(6) /\ At(7)')
    BY <1>p, <1>9, WhereStep
  <2>2. up /\ UNCHANGED <<up, world>> /\ ("call" \notin cut' => cut' = cut)
    BY <1>9, <1>c, <1>f
  <2>3. mul'.now = mul.now /\ mul'.bkp["idx"] = mul.bkp["idx"]
    BY <1>9, <1>f, CallFiles
  <2>4. Torn' = Torn
    BY <2>3 DEF Torn
  <2>5. ~At(3)' /\ ~At(4)' /\ (At(6)' \/ At(7)')
    BY <1>a, <2>1
  <2> QED BY <2>1, <2>2, <2>3, <2>4, <2>5 DEF SaveInv
<1>10. CASE Rename("data")
  <2>1. At(7) /\ (At(8)' \/ At(0)')
    BY <1>p, <1>10, WhereStep
  <2>2. /\ mul'.now["idx"] = mul.now["idx"]
        /\ "call" \notin cut' => mul'.now["data"] = world /\ cut' = cut
    BY <1>10, <1>c, <1>f, CallFiles
  <2>3. "call" \notin cut' => ~Torn'
    BY <2>1, <2>2 DEF SaveInv, Torn
  <2>4. ~At(3)' /\ ~At(4)' /\ ~At(5)' /\ ~At(6)' /\ ~At(7)'
    BY <1>a, <2>1
  <2> QED BY <2>3, <2>4 DEF SaveInv
<1>11. ASSUME NEW c \in Char, DeleteChar(c) \/ \E l \in Login : CreateChar(l, c) PROVE SaveInv'
  <2>1. At(0) /\ At(0)' /\ UNCHANGED <<up, mul, cut>>
    BY <1>11 DEF DeleteChar, CreateChar, At
  <2> QED BY <1>a, <2>1 DEF SaveInv, Torn
<1>12. CASE Exit \/ Crash
  <2>1. At(0)' /\ ~up' /\ mul' = mul /\ cut \subseteq cut'
    BY <1>12, WhereElse DEF Exit, Crash, Down
  <2> QED BY <1>a, <2>1 DEF SaveInv, Torn
<1>13. CASE Start
  <2>1. At(0) /\ At(0)' /\ mul' = mul /\ (Torn => "world" \in cut')
    BY <1>13 DEF Start, LoadDynamic0, Types, At
  <2> QED BY <1>a, <2>1 DEF SaveInv, Torn
<1>14. CASE ReloadAll \/ Hangup \/ UNCHANGED vars
  BY <1>1, <1>14 DEF ReloadAll, Hangup, vars
<1>15. ASSUME NEW l \in Login, NEW v \in Level, Edit(l, v) PROVE SaveInv'
  BY <1>1, <1>15 DEF Edit
<1> QED
  BY <1>2, <1>3, <1>4, <1>5, <1>6, <1>7, <1>8, <1>9, <1>10, <1>11, <1>12, <1>13, <1>14, <1>15
  DEF Next, File

LEMMA SaveHolds == Spec => []SaveInv
BY TypesHold, SaveInit, SaveStep, PTL DEF Spec

(* Until a server has started from it, a save torn by a crash can be       *)
(* mended: the index that belongs to the data file is the .bkp one, as     *)
(* long as no unlink, link or rename failed (CommitSaveFile, dynamic.c).   *)
THEOREM TornIsMendable == Spec => []Mendable
<1>1. SaveInv => Mendable
  BY DEF SaveInv, Mendable
<1> QED BY <1>1, SaveHolds, PTL

(* The world save implements the durable world: every step replaces the    *)
(* saved world as a whole, begins or ends a commit, fails in a call, or    *)
(* changes nothing that is saved, and a server starts from the saved world *)
(* or, from a torn one, from part of it.                                   *)
LEMMA DurableStep == Types /\ SaveInv /\ Types' /\ [Next]_vars => [Durable!Next]_<<IF up THEN world ELSE None, mul.now["data"], Torn, "call" \in cut>>
<1> SUFFICES ASSUME Types, SaveInv, Types', [Next]_vars
             PROVE  [Durable!Next]_<<IF up THEN world ELSE None, mul.now["data"], Torn, "call" \in cut>>
  OBVIOUS
<1>w. world # None /\ world' # None /\ world' \in World
  BY Missing DEF Types
<1>p. Planned
  BY DEF Types
<1> USE DEF Durable!Next
<1>1. ASSUME UNCHANGED <<up, world>>, mul'.now = mul.now, "call" \in cut' <=> "call" \in cut
      PROVE  UNCHANGED <<IF up THEN world ELSE None, mul.now["data"], Torn, "call" \in cut>>
  BY <1>1 DEF Torn
<1>2. CASE \/ Stage \/ OpenList \/ WriteList \/ PeriodicSave \/ SaveCommand \/ Shutdown
           \/ ReloadAll \/ Hangup \/ UNCHANGED vars
           \/ \E l \in Login : Create(l) \/ SetChatName(l) \/ \E v \in Level : Edit(l, v)
  BY <1>1, <1>2 DEF Stage, OpenList, WriteList, PeriodicSave, SaveCommand, Shutdown, Begin,
     ReloadAll, Hangup, vars, Create, SetChatName, Edit
<1>f. "idx" \in File /\ "data" \in File /\ "idx" # "data"
  BY DEF File
<1>c. ASSUME NEW f \in File, Unlink(f) \/ Link(f) \/ Rename(f)
      PROVE  up /\ UNCHANGED <<up, world>> /\ (cut' = cut \/ (cut' = cut \cup {"call"} /\ mul' = mul))
  BY <1>c, CallFacts
(* A call that failed, or changed the backups only.                        *)
<1>s. ASSUME up, UNCHANGED <<up, world>>, mul'.now = mul.now, cut' = cut \/ cut' = cut \cup {"call"}
      PROVE  \/ UNCHANGED <<IF up THEN world ELSE None, mul.now["data"], Torn, "call" \in cut>>
             \/ Durable!Fail
  <2>1. CASE cut' = cut
    BY <1>1, <1>s, <2>1
  <2>2. CASE cut' = cut \cup {"call"}
    BY <1>s, <1>w, <2>2 DEF Durable!Fail, Torn
  <2> QED BY <1>s, <2>1, <2>2
<1>3. ASSUME NEW f \in File, Unlink(f) \/ Link(f)
      PROVE  \/ UNCHANGED <<IF up THEN world ELSE None, mul.now["data"], Torn, "call" \in cut>>
             \/ Durable!Fail
  <2>1. mul'.now = mul.now
    BY <1>3, CallFiles
  <2> QED BY <1>3, <1>c, <1>s, <2>1
<1>4. ASSUME NEW f \in File, Rename(f), mul'.now # mul.now
      PROVE  /\ mul'.now[f] = world /\ (\A g \in File \ {f} : mul'.now[g] = mul.now[g])
             /\ up /\ UNCHANGED <<up, world, cut>>
  <2>1. up /\ UNCHANGED <<up, world, cut>> /\ mul' = [mul EXCEPT !.now[f] = world]
    <3>1. mul' # mul
      BY <1>4
    <3> QED BY <1>4, <3>1 DEF Rename, Call
  <2>2. mul \in [now : [File -> World], bkp : [File -> World \cup {None}]]
    BY DEF Types
  <2> QED BY <2>1, <2>2
<1>5. ASSUME NEW f \in File, Rename(f)
      PROVE  [Durable!Next]_<<IF up THEN world ELSE None, mul.now["data"], Torn, "call" \in cut>>
  <2>1. CASE mul'.now = mul.now
    BY <1>5, <1>c, <1>s, <2>1
  <2>2. CASE mul'.now # mul.now /\ f = "idx"
    <3>1. /\ mul'.now["idx"] = world /\ mul'.now["data"] = mul.now["data"]
          /\ up /\ UNCHANGED <<up, world, cut>>
      BY <1>4, <1>5, <1>f, <2>2
    <3>2. CASE Torn'
      <4>1. Durable!Begin
        BY <1>w, <3>1, <3>2 DEF Durable!Begin
      <4> QED BY <4>1
    <3>3. CASE ~Torn'
      <4>1. mul.now["data"] = world /\ Torn' = FALSE
        BY <3>1, <3>3 DEF Torn
      <4>2. Durable!Save
        BY <1>w, <3>1, <4>1 DEF Durable!Save
      <4> QED BY <4>2
    <3> QED BY <3>2, <3>3
  <2>3. CASE mul'.now # mul.now /\ f = "data"
    <3>1. /\ mul'.now["data"] = world /\ mul'.now["idx"] = mul.now["idx"]
          /\ up /\ UNCHANGED <<up, world, cut>>
      BY <1>4, <1>5, <1>f, <2>3
    <3>2. At(7)
      BY <1>p, <1>5, <2>3, WhereStep
    <3>3. Torn' \in BOOLEAN /\ (Torn' => "call" \in cut)
      BY <3>1, <3>2 DEF SaveInv, Torn
    <3>4. Durable!Save
      BY <1>w, <3>1, <3>3 DEF Durable!Save
    <3> QED BY <3>4
  <2> QED BY <2>1, <2>2, <2>3 DEF File
<1>6. ASSUME NEW c \in Char, DeleteChar(c) \/ \E l \in Login : CreateChar(l, c)
      PROVE  Durable!Change
  <2>1. up /\ UNCHANGED <<up, mul, cut>>
    BY <1>6 DEF DeleteChar, CreateChar
  <2> QED BY <1>w, <2>1 DEF Durable!Change, Torn
<1>7. CASE Exit \/ Crash
  <2>1. up /\ up' = FALSE /\ mul' = mul /\ ("call" \in cut' <=> "call" \in cut)
    BY <1>7 DEF Exit, Crash, Down
  <2>2. Durable!Stop
    BY <1>w, <2>1 DEF Durable!Stop, Torn
  <2> QED BY <2>2
<1>8. CASE Start
  <2>1. /\ ~up /\ up' = TRUE /\ mul' = mul /\ ("call" \in cut' <=> "call" \in cut)
        /\ IF Torn THEN Part(world', mul.now["data"]) ELSE world' = mul.now["data"]
    BY <1>8 DEF Start, LoadDynamic0
  <2>2. Durable!Start
    BY <1>w, <2>1 DEF Durable!Start, Torn
  <2> QED BY <2>2
<1> QED BY <1>2, <1>3, <1>4, <1>5, <1>6, <1>7, <1>8 DEF Next, File

LEMMA DurableInit == Init => Durable!Init
<1> SUFFICES ASSUME Init PROVE Durable!Init
  OBVIOUS
<1>1. mul.now["data"] = Empty /\ mul.now["idx"] = Empty
  BY DEF Init, File
<1> QED BY <1>1, EmptyTypes DEF Init, Durable!Init, Torn

(* The world survives crashes whole, or torn and then in part, and nothing *)
(* but a finished save replaces it (SaveDynamic0_WriteCommit).             *)
THEOREM SavesKeepTheWorld == Spec => SavesAreWhole
BY DurableInit, DurableStep, TypesHold, SaveHolds, PTL DEF Spec, SavesAreWhole, Durable!Spec

LEMMA TypesMatch == Types /\ hup \in BOOLEAN => TypeOK
BY EndOfPlan DEF Types, TypeOK

LEMMA HupStep == hup \in BOOLEAN /\ [Next]_vars => hup' \in BOOLEAN
<1> SUFFICES ASSUME hup \in BOOLEAN, [Next]_vars PROVE hup' \in BOOLEAN
  OBVIOUS
<1> QED
  BY DEF Next, vars, Stage, Unlink, Link, Rename, OpenList, WriteList, Create, SetChatName,
         Call, CreateChar, DeleteChar, PeriodicSave, SaveCommand, Shutdown, Begin, Hangup, ReloadAll, LoadAll,
         Exit, Crash, Down, Start, Edit

-----------------------------------------------------------------------------
(* The table of logins.                                                    *)

(* Every set of numbers that is not empty has a least one.                 *)
LEMMA LeastNumber ==
  ASSUME NEW T \in SUBSET Nat, T # {}
  PROVE  \E m \in T : \A k \in T : m <= k
<1> DEFINE R == OpToRel(<, Nat)
<1>1. IsWellFoundedOn(R, Nat)
  BY NatLessThanWellFounded
<1>2. PICK m \in T : \A k \in T : ~(<<k, m>> \in R)
  <2> HIDE DEF R
  <2> QED BY <1>1, WFMin
<1>3. \A k \in T : k < m => <<k, m>> \in R
  BY DEF OpToRel
<1> HIDE DEF R
<1>4. \A k \in T : k \in Nat /\ m \in Nat /\ ~(k < m)
  BY <1>2, <1>3
<1> QED BY <1>4

Entry == [trial : BOOLEAN, created : 0..MaxTime]
Connection == [st : {"none", "seed", "game", "guess", "closed"}, seed : {0} \cup L!Nonce]

HandoffTypes ==
  /\ issued \in Seq(Entry) /\ Len(issued) <= MaxNonce
  /\ now \in 0..MaxTime
  /\ pending \in [L!Slot -> {0} \cup L!Nonce]
  /\ conn \in [Conn -> Connection]
  /\ uses \in [L!Nonce -> {0, 1}]

(* What waits or is presented was given out.                               *)
Parked == \A s \in L!Slot : pending[s] # 0 => pending[s] \in L!Given

Presented == \A i \in Conn : conn[i].st # "none" => conn[i].seed \in L!Given

(* A nonce that was used, or that a connection got past, waits in no slot. *)
Gone(n) == n \in L!Given /\ ~L!Found(n)

Spent ==
  /\ \A n \in L!Nonce : uses[n] = 1 => Gone(n)
  /\ \A i \in Conn : conn[i].st \in {"game", "guess", "closed"} => Gone(conn[i].seed)

(* No nonce waits in two slots, and none was given out in the future.     *)
Apart == \A s, t \in L!Slot : pending[s] = pending[t] /\ pending[s] # 0 => s = t
Stamped == \A n \in L!Given : issued[n].created <= now

HandoffInv == HandoffTypes /\ Parked /\ Presented /\ Spent /\ Apart /\ Stamped

LEMMA EntryFacts ==
  ASSUME HandoffInv
  PROVE  now \in Nat /\ \A n \in L!Given : n \in L!Nonce /\ issued[n].created \in Nat
<1>1. now \in Nat
  BY HandoffBounds DEF HandoffInv, HandoffTypes
<1>2. ASSUME NEW n \in L!Given PROVE n \in L!Nonce /\ issued[n].created \in Nat
  <2>1. n \in 1..Len(issued) /\ Len(issued) \in Nat /\ issued[n] \in Entry /\ Len(issued) <= MaxNonce
    BY DEF HandoffInv, HandoffTypes, L!Given
  <2> QED BY <2>1, HandoffBounds DEF Entry, L!Nonce
<1> QED BY <1>1, <1>2

LEMMA HandoffInit == L!Init => HandoffInv
<1> SUFFICES ASSUME L!Init PROVE HandoffInv
  OBVIOUS
<1>1. issued \in Seq(Entry) /\ Len(issued) = 0
  BY DEF L!Init
<1>2. HandoffTypes
  BY <1>1, HandoffBounds DEF L!Init, HandoffTypes, L!Unconnected, Connection
<1>3. L!Given = {}
  BY <1>1 DEF L!Given
<1>4. Stamped /\ Spent
  BY <1>3 DEF L!Init, L!Unconnected, Stamped, Spent
<1>5. Parked /\ Presented /\ Apart
  BY DEF L!Init, Parked, Presented, L!Unconnected, Apart
<1> QED BY <1>2, <1>4, <1>5 DEF HandoffInv

(* A new entry has a nonce of its own.                                     *)
LEMMA CreateStep ==
  ASSUME HandoffInv, NEW b \in BOOLEAN, L!PendingAuth_Create(b)
  PROVE  HandoffInv'
<1> DEFINE n == Len(issued) + 1
           x == [trial |-> b, created |-> now]
<1>1. issued' = Append(issued, x) /\ UNCHANGED <<now, conn, uses>> /\ Len(issued) < MaxNonce
  BY DEF L!PendingAuth_Create
<1>2. /\ issued' \in Seq(Entry) /\ Len(issued') <= MaxNonce
      /\ L!Given' = L!Given \cup {n} /\ n \notin L!Given /\ n \in L!Nonce
      /\ \A m \in L!Given : issued'[m] = issued[m]
      /\ issued'[n] = x
  <2>1. x \in Entry /\ issued \in Seq(Entry)
    BY DEF HandoffInv, HandoffTypes, Entry
  <2>2. issued' \in Seq(Entry) /\ Len(issued') = n /\ issued'[n] = x
    BY <1>1, <2>1
  <2>3. DOMAIN issued = 1..Len(issued) /\ DOMAIN issued' = 1..n /\ Len(issued) \in Nat
    BY <2>1, <2>2
  <2>4. \A m \in 1..Len(issued) : issued'[m] = issued[m]
    BY <1>1, <2>1
  <2> QED BY <1>1, <2>2, <2>3, <2>4, HandoffBounds DEF L!Given, L!Nonce
<1>3. PICK t : pending' = [L!ExpireStale EXCEPT ![t] = n]
  BY DEF L!PendingAuth_Create
<1> HIDE DEF n
<1>4. /\ pending' \in [L!Slot -> {0} \cup L!Nonce]
      /\ \A s \in L!Slot : pending'[s] \in {0, pending[s]} \/ (s = t /\ pending'[s] = n)
  BY <1>2, <1>3 DEF L!ExpireStale, HandoffInv, HandoffTypes
<1>5. HandoffTypes'
  BY <1>1, <1>2, <1>4 DEF HandoffInv, HandoffTypes, Entry, Connection, L!Nonce
<1>6. Parked' /\ Presented'
  BY <1>1, <1>2, <1>4 DEF HandoffInv, HandoffTypes, Parked, Presented
<1>7. Spent'
  <2> SUFFICES ASSUME NEW m, Gone(m) PROVE Gone(m)'
    BY <1>1 DEF HandoffInv, Spent, L!Nonce
  <2>1. m \in L!Nonce /\ m # 0 /\ m # n
    BY <1>2, EntryFacts DEF Gone, L!Nonce
  <2> QED BY <1>2, <1>4, <2>1 DEF Gone, L!Found, L!Slot
<1>8. Apart'
  BY <1>2, <1>4 DEF HandoffInv, Apart, Parked, L!Slot
<1>9. Stamped'
  <2>1. now \in Nat /\ issued'[n].created = now
    BY <1>2, HandoffBounds DEF HandoffInv, HandoffTypes
  <2>2. \A m \in L!Given : issued'[m].created <= now
    BY <1>2 DEF HandoffInv, Stamped
  <2>3. \A m \in L!Given' : issued'[m].created <= now'
    <3>1. now' = now /\ L!Given' = L!Given \cup {n}
      BY <1>1, <1>2
    <3> QED BY <2>1, <2>2, <3>1
  <2> QED BY <2>3 DEF Stamped
<1> QED BY <1>5, <1>6, <1>7, <1>8, <1>9 DEF HandoffInv

(* What a seed does: an entry it finds is removed before the connection    *)
(* goes on, unless it waits for more.                                      *)
LEMMA SeedFacts ==
  ASSUME HandoffInv, NEW i \in Conn, NEW n \in L!Given, NEW more \in BOOLEAN, NEW fits \in BOOLEAN,
         L!DoHandlePacket(i, n, more, fits)
  PROVE  /\ conn' \in [Conn -> Connection]
         /\ conn'[i].seed = n /\ conn'[i].st \in {"seed", "game", "guess", "closed"}
         /\ \A j \in Conn \ {i} : conn'[j] = conn[j]
         /\ \/ conn'[i].st = "seed" /\ UNCHANGED <<pending, uses>>
            \/ ~L!Found(n) /\ UNCHANGED <<pending, uses>>
            \/ /\ L!Found(n) /\ pending' = L!Remove(n)
               /\ uses' = uses \/ uses' = [uses EXCEPT ![n] = @ + 1]
<1> DEFINE K(s) == [st |-> s, seed |-> n]
<1>1. n \in L!Nonce
  BY EntryFacts
<1>2. PICK s \in {"seed", "game", "guess", "closed"} :
        /\ conn' = [conn EXCEPT ![i] = K(s)]
        /\ \/ s = "seed" /\ UNCHANGED <<pending, uses>>
           \/ ~L!Found(n) /\ UNCHANGED <<pending, uses>>
           \/ /\ L!Found(n) /\ pending' = L!Remove(n)
              /\ uses' = uses \/ uses' = [uses EXCEPT ![n] = @ + 1]
  BY DEF L!DoHandlePacket
<1>3. K(s) \in Connection /\ K(s).seed = n /\ K(s).st = s
  BY <1>1 DEF Connection
<1> HIDE DEF K
<1> QED BY <1>2, <1>3 DEF HandoffInv, HandoffTypes

LEMMA SeedStep ==
  ASSUME HandoffInv, NEW i \in Conn, NEW n \in L!Given, NEW more \in BOOLEAN, NEW fits \in BOOLEAN,
         L!DoHandlePacket(i, n, more, fits), UNCHANGED <<issued, now>>
  PROVE  HandoffInv'
<1>1. n \in L!Nonce /\ n # 0
  BY EntryFacts DEF L!Nonce
<1>2. /\ conn' \in [Conn -> Connection]
      /\ conn'[i].seed = n /\ conn'[i].st # "none"
      /\ \A j \in Conn \ {i} : conn'[j] = conn[j]
  BY SeedFacts
<1>3. Presented' /\ Stamped'
  BY <1>2 DEF HandoffInv, Presented, Stamped, L!Given
(* No slot gains a nonce, and n leaves them when the connection gets past. *)
<1>4. /\ pending' \in [L!Slot -> {0} \cup L!Nonce]
      /\ \A s \in L!Slot : pending'[s] \in {0, pending[s]}
      /\ conn'[i].st = "seed" \/ \A s \in L!Slot : pending'[s] # n
  <2>1. CASE UNCHANGED pending /\ (conn'[i].st = "seed" \/ ~L!Found(n))
    BY <2>1 DEF HandoffInv, HandoffTypes, L!Found
  <2>2. CASE pending' = L!Remove(n)
    BY <1>1, <2>2 DEF L!Remove, HandoffInv, HandoffTypes
  <2> QED BY <2>1, <2>2, SeedFacts
<1>5. Parked' /\ Apart'
  BY <1>4 DEF HandoffInv, Parked, Apart, L!Given, L!Slot
<1>6. ASSUME NEW m, Gone(m) PROVE Gone(m)'
  <2>1. m # 0
    BY <1>6, EntryFacts DEF Gone, L!Nonce
  <2> QED BY <1>4, <1>6, <2>1 DEF Gone, L!Found, L!Given, L!Slot
<1>7. conn'[i].st # "seed" => Gone(n)'
  BY <1>4 DEF Gone, L!Found, L!Given, L!Slot
<1>8. /\ uses' \in [L!Nonce -> {0, 1}]
      /\ \A m \in L!Nonce : uses'[m] = 1 => uses[m] = 1 \/ (m = n /\ conn'[i].st # "seed")
  <2>1. CASE UNCHANGED uses
    BY <2>1 DEF HandoffInv, HandoffTypes
  <2>2. CASE L!Found(n) /\ pending' = L!Remove(n) /\ uses' = [uses EXCEPT ![n] = @ + 1]
    <3>1. uses[n] = 0
      BY <1>1, <2>2 DEF HandoffInv, HandoffTypes, Spent, Gone
    <3>2. conn'[i].st # "seed"
      <4>1. uses'[n] = 1 /\ uses'[n] # uses[n]
        BY <1>1, <2>2, <3>1 DEF HandoffInv, HandoffTypes
      <4> QED BY <4>1, <2>2 DEF L!DoHandlePacket, HandoffInv, HandoffTypes
    <3> QED BY <1>1, <2>2, <3>1, <3>2 DEF HandoffInv, HandoffTypes
  <2> QED BY <2>1, <2>2, SeedFacts
<1>9. Spent'
  <2>1. \A m \in L!Nonce : uses'[m] = 1 => Gone(m)'
    BY <1>6, <1>7, <1>8 DEF HandoffInv, Spent
  <2>2. \A j \in Conn : conn'[j].st \in {"game", "guess", "closed"} => Gone(conn[j].seed)'
    <3> SUFFICES ASSUME NEW j \in Conn, conn'[j].st \in {"game", "guess", "closed"}
                 PROVE  Gone(conn[j].seed)'
      OBVIOUS
    <3>1. CASE j = i
      <4>1. Gone(n)' /\ conn'[j].seed = n
        BY <1>2, <1>7, <3>1
      <4> QED BY <4>1 DEF Gone, L!Found, L!Given
    <3>2. CASE j # i
      <4>1. conn'[j] = conn[j] /\ Gone(conn[j].seed)
        BY <1>2, <3>2 DEF HandoffInv, Spent
      <4>2. Gone(conn[j].seed) => \A s \in L!Slot : pending'[s] # conn[j].seed
        <5>1. Gone(conn[j].seed) => conn[j].seed # 0
          BY EntryFacts DEF Gone, L!Nonce
        <5> QED BY <1>4, <5>1 DEF Gone, L!Found
      <4> QED BY <4>1, <4>2 DEF Gone, L!Found, L!Given, L!Slot
    <3> QED BY <3>1, <3>2
  <2> QED BY <2>1, <2>2 DEF Spent, L!Nonce
<1>10. HandoffTypes'
  BY <1>2, <1>4, <1>8 DEF HandoffInv, HandoffTypes, Entry, Connection, L!Nonce, L!Slot
<1> QED BY <1>3, <1>5, <1>9, <1>10 DEF HandoffInv

LEMMA HandoffStep == HandoffInv /\ [L!Next]_L!vars => HandoffInv'
<1> SUFFICES ASSUME HandoffInv, [L!Next]_L!vars PROVE HandoffInv'
  OBVIOUS
<1>1. ASSUME NEW i \in Conn, L!Connect(i) PROVE HandoffInv'
  BY <1>1, SeedStep DEF L!Connect
<1>2. ASSUME NEW i \in Conn, L!Receive(i) PROVE HandoffInv'
  <2>1. conn[i].seed \in L!Given
    BY <1>2 DEF L!Receive, HandoffInv, Presented
  <2> QED BY <1>2, <2>1, SeedStep DEF L!Receive
<1>3. ASSUME NEW i \in Conn, L!Disconnect(i) PROVE HandoffInv'
  BY <1>3 DEF L!Disconnect, L!Unconnected, HandoffInv, HandoffTypes, Connection, Parked, Presented, Spent, Gone, Apart, Stamped, L!Found, L!Given
<1>4. CASE L!Second
  <2>1. now' = now + 1 /\ now' \in 0..MaxTime /\ UNCHANGED <<pending, issued, conn, uses>>
    BY <1>4, HandoffBounds DEF L!Second, HandoffInv, HandoffTypes
  <2>2. Stamped'
    <3>1. now \in Nat /\ \A n \in L!Given : issued[n].created \in Nat
      BY EntryFacts
    <3> QED BY <2>1, <3>1 DEF HandoffInv, Stamped, L!Given
  <2> QED BY <2>1, <2>2 DEF HandoffInv, HandoffTypes, Entry, Parked, Presented, Spent, Gone, Apart, L!Found, L!Given
<1>5. CASE UNCHANGED L!vars
  BY <1>5 DEF L!vars, HandoffInv, HandoffTypes, Parked, Presented, Spent, Gone, Apart, Stamped, L!Found, L!Given
<1> QED BY <1>1, <1>2, <1>3, <1>4, <1>5, CreateStep DEF L!Next

(* Where a new login goes: to a free slot, or over one of the oldest.      *)
LEMMA SlotForFacts ==
  ASSUME HandoffInv, NEW p \in [L!Slot -> {0} \cup L!Nonce],
         \A s \in L!Slot : p[s] # 0 => p[s] \in L!Given
  PROVE  /\ L!SlotFor(p) \in L!Slot
         /\ p[L!SlotFor(p)] # 0 => \A t \in L!Slot : /\ p[t] # 0
                                              /\ issued[p[L!SlotFor(p)]].created <= issued[p[t]].created
<1>1. ASSUME NEW S \in SUBSET L!Slot, S # {} PROVE L!First(S) \in S
  <2>1. S \in SUBSET Nat /\ \E m \in S : \A k \in S : m <= k
    <3>1. S \in SUBSET Nat
      BY DEF L!Slot
    <3> QED BY <1>1, <3>1, LeastNumber
  <2> QED BY <2>1 DEF L!First
<1> DEFINE free == {s \in L!Slot : p[s] = 0}
           oldest == {s \in L!Slot : \A t \in L!Slot : issued[p[s]].created <= issued[p[t]].created}
<1>2. CASE free # {}
  BY <1>1, <1>2 DEF L!SlotFor
<1>3. CASE free = {}
  <2> DEFINE made == {issued[p[s]].created : s \in L!Slot}
  <2>1. made \in SUBSET Nat /\ made # {}
    <3>1. \A n \in L!Given : issued[n].created \in Nat
      BY EntryFacts
    <3>2. 1 \in L!Slot
      BY HandoffBounds DEF L!Slot
    <3> QED BY <1>3, <3>1, <3>2
  <2>2. PICK m \in made : \A k \in made : m <= k
    BY <2>1, LeastNumber
  <2>3. oldest # {}
    BY <2>2
  <2>4. L!SlotFor(p) = L!First(oldest)
    BY <1>3 DEF L!SlotFor
  <2>5. L!SlotFor(p) \in oldest
    BY <1>1, <2>3, <2>4
  <2> QED BY <1>3, <2>5
<1> QED BY <1>2, <1>3

(* A login not yet spent is still there until it is older than the expiry, *)
(* unless as many others as there are slots came in its second or later.   *)
LEMMA KeptStep ==
  ASSUME HandoffInv, [L!Next]_L!vars,
         NEW n \in L!Given, L!Found(n), ~\E s \in L!Slot : pending'[s] = n, L!Age(n) <= Expiry,
         Cardinality({m \in DOMAIN issued' \ {n} : issued'[m].created >= issued[n].created}) < Slots
  PROVE  \E i \in Conn : conn'[i] # conn[i] /\ conn'[i].seed = n
<1>1. PICK s \in L!Slot : pending[s] = n
  BY DEF L!Found
<1>2. n \in L!Nonce /\ n # 0
  BY EntryFacts DEF L!Nonce
<1>3. ASSUME NEW b \in BOOLEAN, L!PendingAuth_Create(b) PROVE FALSE
  <2> DEFINE p == L!ExpireStale
             k == Len(issued) + 1
             M == {m \in DOMAIN issued' \ {n} : issued'[m].created >= issued[n].created}
             f == [t \in L!Slot |-> IF t = s THEN k ELSE p[t]]
  <2>1. /\ p \in [L!Slot -> {0} \cup L!Nonce] /\ p[s] = n
        /\ \A t \in L!Slot : p[t] \in {0, pending[t]}
    <3>1. ~(L!Age(pending[s]) > Expiry)
      BY <1>1, EntryFacts, HandoffBounds DEF L!Age
    <3> QED BY <1>1, <1>2, <3>1 DEF L!ExpireStale, HandoffInv, HandoffTypes
  <2>2. /\ issued' \in Seq(Entry) /\ Len(issued') = k /\ issued'[k].created = now
        /\ \A m \in L!Given : issued'[m] = issued[m]
        /\ L!Given = 1..Len(issued) /\ Len(issued) \in Nat /\ DOMAIN issued' = 1..k
    <3>1. [trial |-> b, created |-> now] \in Entry /\ issued \in Seq(Entry)
      BY DEF HandoffInv, HandoffTypes, Entry
    <3> QED BY <1>3, <3>1 DEF L!PendingAuth_Create, L!Given
  <2>3. pending' = [p EXCEPT ![L!SlotFor(p)] = k]
    BY <1>3 DEF L!PendingAuth_Create
  <2>4. \A t \in L!Slot : p[t] # 0 => p[t] \in L!Given
    BY <2>1 DEF HandoffInv, Parked
  <2> HIDE DEF p, k
  <2>5. L!SlotFor(p) = s
    BY <2>1, <2>3
  <2>6. \A t \in L!Slot : /\ p[t] # 0 /\ p[t] = pending[t] /\ p[t] \in L!Given
                       /\ issued[n].created <= issued[p[t]].created
    BY <1>2, <2>1, <2>4, <2>5, SlotForFacts
  <2>7. \A t \in L!Slot \ {s} : p[t] \in M
    BY <1>1, <2>1, <2>2, <2>6 DEF HandoffInv, Apart, k
  <2>8. k \in M /\ k \notin L!Given
    BY <2>2 DEF HandoffInv, Stamped, k
  <2>9. f \in Injection(L!Slot, M)
    <3>1. f \in [L!Slot -> M]
      BY <2>7, <2>8
    <3> HIDE DEF M
    <3>2. ASSUME NEW t \in L!Slot, NEW u \in L!Slot, f[t] = f[u] PROVE t = u
      BY <2>6, <2>8, <3>2 DEF HandoffInv, Apart
    <3> HIDE DEF f
    <3> QED BY <3>1, <3>2 DEF Injection, IsInjective
  <2>10. IsFiniteSet(M)
    <3>1. IsFiniteSet(DOMAIN issued') /\ M \subseteq DOMAIN issued'
      BY <2>2, FS_Interval DEF k
    <3> QED BY <3>1, FS_Subset
  <2>11. Cardinality(L!Slot) <= Cardinality(M)
    BY <2>9, <2>10, FS_Injection
  <2>12. Cardinality(L!Slot) = Slots /\ Cardinality(M) \in Nat
    <3>1. 1 \in Int /\ Slots \in Int /\ ~(1 > Slots) /\ Slots - 1 + 1 = Slots
      BY HandoffBounds
    <3>2. Cardinality(1..Slots) = Slots
      BY <3>1, FS_Interval
    <3> QED BY <2>10, <3>2, FS_CardinalityType DEF L!Slot
  <2> QED BY <2>11, <2>12, HandoffBounds
<1>4. ASSUME NEW i \in Conn, NEW seed \in L!Given, NEW more \in BOOLEAN, NEW fits \in BOOLEAN,
             conn[i].st \in {"none", "seed"}, L!DoHandlePacket(i, seed, more, fits)
      PROVE  conn'[i] # conn[i] /\ conn'[i].seed = n
  <2>1. pending' # pending
    BY <1>1
  <2>2. pending' = L!Remove(seed) /\ conn'[i].st \in {"game", "closed"}
    BY <1>4, <2>1 DEF L!DoHandlePacket, HandoffInv, HandoffTypes
  <2>3. seed = n
    BY <1>1, <1>2, <1>4, <2>2 DEF L!Remove, HandoffInv, HandoffTypes
  <2> QED BY <1>4, <2>2, <2>3, SeedFacts
<1>5. ASSUME NEW i \in Conn, L!Connect(i) PROVE conn'[i] # conn[i] /\ conn'[i].seed = n
  BY <1>4, <1>5 DEF L!Connect
<1>6. ASSUME NEW i \in Conn, L!Receive(i) PROVE conn'[i] # conn[i] /\ conn'[i].seed = n
  <2>1. conn[i].seed \in L!Given
    BY <1>6 DEF L!Receive, HandoffInv, Presented
  <2> QED BY <1>4, <1>6, <2>1 DEF L!Receive
<1>7. ASSUME NEW i \in Conn, L!Disconnect(i) PROVE FALSE
  BY <1>1, <1>7 DEF L!Disconnect
<1>8. CASE L!Second \/ UNCHANGED L!vars
  BY <1>1, <1>8 DEF L!Second, L!vars
<1> QED BY <1>3, <1>5, <1>6, <1>7, <1>8 DEF L!Next

-----------------------------------------------------------------------------
(* The two parts together.                                                 *)

LEMMA LoginPart == MCSpec => L!Spec
<1>1. MCInit => L!Init
  BY DEF MCInit
<1>2. [MCNext]_all => [L!Next]_L!vars
  BY DEF MCNext, all, handoff, L!vars
<1> QED BY <1>1, <1>2, PTL DEF MCSpec, L!Spec

LEMMA HandoffHolds == L!Spec => []HandoffInv
BY HandoffInit, HandoffStep, PTL DEF L!Spec

(* A nonce configures one connection at most of all that present it, at    *)
(* once or one after the other, whatever expires or is evicted, and leaves *)
(* no entry behind one that got past its seed (PendingAuth_Find and        *)
(* PendingAuth_Remove on every path of the seed branch).                   *)
THEOREM LoginsAreHandedOverOnce == MCSpec => []NonceServesOnce
<1>1. HandoffInv => NonceServesOnce
  BY DEF HandoffInv, HandoffTypes, Spent, Gone, NonceServesOnce, L!NonceServesOnce
<1> QED BY <1>1, LoginPart, HandoffHolds, PTL

(* A login not spent is kept until it is older than the expiry, unless as  *)
(* many others as there are slots came in its second or later: an entry is *)
(* evicted only when all slots are taken and it is among the oldest        *)
(* (PendingAuth_Create).                                                   *)
THEOREM LoginsAreKept == MCSpec => KeptWhileRoom
<1>1. HandoffInv /\ [L!Next]_L!vars =>
        [\A n \in L!Given :
           /\ L!Found(n) /\ ~(\E s \in L!Slot : pending'[s] = n)
           /\ L!Age(n) <= Expiry
           /\ L!Cardinality({m \in DOMAIN issued' \ {n} : issued'[m].created >= issued[n].created}) < Slots
           => \E i \in Conn : conn'[i] # conn[i] /\ conn'[i].seed = n]_L!vars
  <2>1. \A S : L!Cardinality(S) = Cardinality(S)
    BY DEF L!Cardinality, Cardinality
  <2> QED BY <2>1, KeptStep
<1>2. L!Spec => L!KeptWhileRoom
  BY <1>1, HandoffHolds, PTL DEF L!Spec, L!KeptWhileRoom
<1> QED BY <1>2, LoginPart, PTL DEF KeptWhileRoom

(* Every state of the saves and of the table of logins has its types; in   *)
(* particular what is left of a save is always the end of one of the plans *)
(* of SaveAll.                                                             *)
THEOREM TypeCorrect == MCSpec => []TypesOK
<1> DEFINE I == Types /\ hup \in BOOLEAN
<1>1. MCInit => I
  BY TypesInit DEF MCInit, Init
<1>2. I /\ [MCNext]_all => I'
  <2>1. [MCNext]_all => [Next]_vars
    BY DEF MCNext, all
  <2> QED BY <2>1, TypesStep, HupStep
<1>3. HandoffInv => L!TypeOK
  <2> SUFFICES ASSUME HandoffInv PROVE L!TypeOK
    OBVIOUS
  <2>1. /\ Len(issued) \in 0..MaxNonce
        /\ issued \in [1..Len(issued) -> Entry]
    BY HandoffBounds DEF HandoffInv, HandoffTypes
  <2>2. \E k \in 0..MaxNonce : issued \in [1..k -> [trial : BOOLEAN, created : 0..MaxTime]]
    BY <2>1 DEF Entry
  <2>3. uses \in [L!Nonce -> Nat]
    BY DEF HandoffInv, HandoffTypes
  <2> QED BY <2>2, <2>3 DEF HandoffInv, HandoffTypes, Connection, L!TypeOK
<1>4. I => TypeOK
  BY TypesMatch
<1> QED BY <1>1, <1>2, <1>3, <1>4, LoginPart, HandoffHolds, PTL DEF MCSpec, TypesOK
=============================================================================
