----------------------------- MODULE ChatProofs -----------------------------
(***************************************************************************)
(* Membership and ranks of the conferences, for any players, accounts,     *)
(* conferences, names and passwords.  What is sent to the clients changes  *)
(* only what they show; the proofs follow the rest of a record of chat     *)
(* through the nested operations that make the next one.                   *)
(***************************************************************************)
EXTENDS Chat, TLAPS

(* A state of chat, as far as the proofs need to know its form.            *)
Field == {"nick", "live", "name", "pass", "who", "at", "mod", "voiced", "view"}
Shape(s) == /\ s = [f \in Field |-> s[f]]
            /\ s.who = [c \in Conf |-> s.who[c]]
            /\ s.at = [p \in Player |-> s.at[p]]

(* t differs from s in what is shown and in names and passwords only.      *)
Alike(s, t) ==
  /\ Shape(t)
  /\ t.live = s.live /\ t.who = s.who /\ t.at = s.at
  /\ t.mod = s.mod /\ t.voiced = s.voiced

LEMMA Alike3 ==
  ASSUME NEW s, NEW t, NEW u, Alike(s, t), Alike(t, u)
  PROVE  Alike(s, u)
BY DEF Alike

LEMMA ShownAlike ==
  ASSUME NEW s, Shape(s), NEW P, NEW v, NEW f \in {"nick", "name", "pass", "view"}
  PROVE  Alike(s, [s EXCEPT ![f] = v])
BY DEF Shape, Alike, Field

LEMMA ShowAlike ==
  ASSUME NEW s, Shape(s)
  PROVE  /\ \A P, names : Alike(s, Show(s, P, names))
         /\ \A P, c : Alike(s, ConferenceEnter(s, P, c))
         /\ \A P, q : Alike(s, PlayerEnter(s, P, q))
         /\ \A P, q : Alike(s, PlayerLeave(s, P, q))
         /\ \A p : Alike(s, PlayerClear(s, p))
         /\ \A p, c : Alike(s, SendMembers(s, p, c))
<1>1. ASSUME NEW t, Shape(t), NEW P, NEW names PROVE Alike(t, Show(t, P, names))
  BY <1>1 DEF Shape, Alike, Field, Show
<1>2. ASSUME NEW P, NEW c PROVE Alike(s, ConferenceEnter(s, P, c))
  BY DEF Shape, Alike, Field, ConferenceEnter
<1>3. ASSUME NEW P, NEW q PROVE Alike(s, PlayerEnter(s, P, q)) /\ Alike(s, PlayerLeave(s, P, q))
  BY <1>1 DEF PlayerEnter, PlayerLeave
<1>4. ASSUME NEW p PROVE Alike(s, PlayerClear(s, p))
  BY <1>1 DEF PlayerClear
<1>5. ASSUME NEW p, NEW c PROVE Alike(s, SendMembers(s, p, c))
  <2> DEFINE t == ConferenceEnter(s, {p}, c)
  <2>1. Alike(s, t) /\ Shape(t)
    BY <1>2 DEF Alike
  <2> HIDE DEF t
  <2>2. \A names : Alike(s, Show(t, {p}, names))
    BY <1>1, <2>1, Alike3
  <2> QED BY <2>2 DEF SendMembers, t
<1> QED BY <1>1, <1>2, <1>3, <1>4, <1>5

-----------------------------------------------------------------------------
(* Membership.                                                             *)

(* In s, whose chat users are U, lists and pointers agree.                 *)
Agrees(s, U) ==
  /\ Shape(s)
  /\ s.live \subseteq Conf /\ Newbie \in s.live
  /\ \A p \in Player : s.at[p] # None =>
       p \in U /\ s.at[p] \in s.live /\ p \in s.who[s.at[p]]
  /\ \A c \in Conf : s.who[c] \subseteq Player /\ \A p \in s.who[c] : s.at[p] = c
  /\ s.mod \cap s.voiced = {}
  /\ \A p \in s.mod \cup s.voiced : p \in Player /\ s.at[p] # None

LEMMA AlikeAgrees ==
  ASSUME NEW s, NEW t, NEW U, Agrees(s, U), Alike(s, t)
  PROVE  Agrees(t, U)
BY DEF Agrees, Alike

(* t is s without p.                                                       *)
Without(s, t, p) ==
  /\ \A q \in Player : t.at[q] = IF q = p THEN None ELSE s.at[q]
  /\ \A c \in Conf : t.who[c] = s.who[c] \ {p}
  /\ s.live \ {s.at[p]} \subseteq t.live
  /\ t.mod = s.mod \ {p} /\ t.voiced = s.voiced \ {p}

(* A member who leaves takes the rank along, and the conference if nobody  *)
(* is left in it (Conference_RemoveUser).                                  *)
LEMMA Removed ==
  ASSUME NEW s, NEW U, Agrees(s, U), NEW p \in Player, s.at[p] # None
  PROVE  Agrees(RemoveUser(s, p), U) /\ Without(s, RemoveUser(s, p), p)
<1> DEFINE c == s.at[p]
           taken == TakenOut(s, p)
           left == Unranked(taken, p)
           gone == PlayerLeave(left, left.who[c], p)
           told == PlayerClear(gone, p)
<1>0. c \in Conf /\ c \in s.live /\ p \in s.who[c]
  BY DEF Agrees
<1>1. /\ Shape(left) /\ left.live = s.live
      /\ \A d \in Conf : left.who[d] = IF d = c THEN s.who[c] \ {p} ELSE s.who[d]
      /\ \A q \in Player : left.at[q] = IF q = p THEN None ELSE s.at[q]
      /\ left.mod = s.mod \ {p} /\ left.voiced = s.voiced \ {p}
  <2>1. /\ Shape(taken) /\ taken.live = s.live
        /\ \A d \in Conf : taken.who[d] = IF d = c THEN s.who[c] \ {p} ELSE s.who[d]
        /\ \A q \in Player : taken.at[q] = IF q = p THEN None ELSE s.at[q]
        /\ taken.mod = s.mod /\ taken.voiced = s.voiced
    BY <1>0 DEF Agrees, Shape, Field, TakenOut
  <2> HIDE DEF taken
  <2> QED BY <2>1 DEF Shape, Field, Unranked
<1>2. Agrees(left, U) /\ Without(s, left, p)
  BY <1>0, <1>1 DEF Agrees, Without
<1>3. Alike(left, told)
  <2> HIDE DEF left
  <2>1. Alike(left, gone) /\ Shape(gone)
    BY <1>1, ShowAlike DEF Alike
  <2> HIDE DEF gone
  <2> QED BY <2>1, ShowAlike, Alike3
<1>4. Agrees(told, U) /\ Without(s, told, p)
  <2> HIDE DEF told, left
  <2> QED BY <1>2, <1>3, AlikeAgrees DEF Alike, Without
<1>5. RemoveUser(s, p) = IF Deserted(told, c) THEN Destroy(told, c) ELSE told
  BY DEF RemoveUser
<1>6. ASSUME Deserted(told, c) PROVE Agrees(Destroy(told, c), U) /\ Without(s, Destroy(told, c), p)
  <2> DEFINE t == Destroy(told, c)
  <2> HIDE DEF told
  <2>1. /\ Shape(t) /\ t.live = told.live \ {c} /\ t.who = told.who /\ t.at = told.at
        /\ t.mod = told.mod /\ t.voiced = told.voiced
    BY <1>4 DEF Agrees, Shape, Field, Destroy
  <2>2. told.who[c] = {} /\ c # Newbie
    BY <1>6 DEF Deserted
  <2> HIDE DEF t
  <2>3. Without(s, t, p)
    BY <1>4, <2>1 DEF Without
  <2>4. Agrees(t, U)
    BY <1>0, <1>4, <2>1, <2>2 DEF Agrees
  <2> QED BY <2>3, <2>4 DEF t
<1> QED BY <1>4, <1>5, <1>6

LEMMA LeftOr ==
  ASSUME NEW s, NEW U, Agrees(s, U), NEW p \in Player
  PROVE  Agrees(Left(s, p), U) /\ Without(s, Left(s, p), p)
<1>1. CASE s.at[p] = None
  <2>1. \A c \in Conf : p \notin s.who[c]
    BY <1>1, Nulls DEF Agrees
  <2>2. p \notin s.mod \cup s.voiced
    BY <1>1 DEF Agrees
  <2> QED BY <1>1, <2>1, <2>2 DEF Left, Without
<1>2. CASE s.at[p] # None
  BY <1>2, Removed DEF Left
<1> QED BY <1>1, <1>2

(* What p has in t when it came there from s: no voice, and no moderation  *)
(* but that of a game master or of the first in a conference.              *)
Ranked(t, p) ==
  /\ p \notin t.voiced
  /\ p \in t.mod => level[p] >= 2 \/ (t.at[p] # Newbie /\ t.who[t.at[p]] = {p})

(* A chat user comes into a conference (Conference_AddUser).               *)
LEMMA Added ==
  ASSUME NEW s, NEW U, Agrees(s, U), NEW p \in Player, p \in U, NEW c \in s.live, NEW pw
  PROVE  /\ Agrees(AddUser(s, c, p, pw), U)
         /\ \A q \in Player \ {p} : AddUser(s, c, p, pw).at[q] = s.at[q]
         /\ AddUser(s, c, p, pw).at[p] # s.at[p] => Ranked(AddUser(s, c, p, pw), p)
<1>1. CASE s.at[p] = c \/ ~Admits(s, c, pw)
  BY <1>1 DEF AddUser
<1>2. CASE s.at[p] # c /\ Admits(s, c, pw)
  <2> DEFINE left == Left(s, p)
             bare == Unranked(left, p)
             in == [bare EXCEPT !.at[p] = c, !.who[c] = @ \cup {p},
                                !.mod = IF Earns(left, c, p) THEN @ \cup {p} ELSE @]
             sent == SendMembers(in, p, c)
             t == PlayerEnter(sent, in.who[c], p)
  <2>1. AddUser(s, c, p, pw) = t
    BY <1>2 DEF AddUser
  <2>2. Agrees(left, U) /\ Without(s, left, p)
    BY LeftOr
  <2>3. c \in left.live /\ c \in Conf /\ c # None
    BY <1>2, <2>2, Nulls DEF Without, Agrees
  <2> HIDE DEF left
  <2>4. /\ Shape(bare) /\ bare.live = left.live /\ bare.who = left.who /\ bare.at = left.at
        /\ bare.mod = left.mod \ {p} /\ bare.voiced = left.voiced \ {p}
    BY <2>2 DEF Agrees, Shape, Field, Unranked
  <2> HIDE DEF bare
  <2>5. /\ Shape(in) /\ in.live = left.live
        /\ \A d \in Conf : in.who[d] = IF d = c THEN left.who[c] \cup {p} ELSE left.who[d]
        /\ \A q \in Player : in.at[q] = IF q = p THEN c ELSE left.at[q]
        /\ in.voiced = left.voiced \ {p}
        /\ in.mod = IF Earns(left, c, p) THEN left.mod \cup {p} ELSE left.mod \ {p}
    <3>1. /\ Shape(in) /\ in.live = bare.live
          /\ \A d \in Conf : in.who[d] = IF d = c THEN bare.who[c] \cup {p} ELSE bare.who[d]
          /\ \A q \in Player : in.at[q] = IF q = p THEN c ELSE bare.at[q]
          /\ in.voiced = bare.voiced
          /\ in.mod = IF Earns(left, c, p) THEN bare.mod \cup {p} ELSE bare.mod
      BY <2>3, <2>4 DEF Shape, Field
    <3> QED BY <2>4, <3>1
  <2> HIDE DEF in
  <2>6. Agrees(in, U)
    <3>1. p \notin left.mod \cup left.voiced /\ left.at[p] = None
      BY <2>2 DEF Without
    <3>2. \A d \in Conf : p \notin left.who[d]
      BY <2>2 DEF Without
    <3> QED BY <2>2, <2>3, <2>5, <3>1, <3>2 DEF Agrees
  <2>7. Ranked(in, p)
    BY <2>2, <2>3, <2>5 DEF Ranked, Without, Earns
  <2>8. Alike(in, t)
    <3>1. Alike(in, sent) /\ Shape(sent)
      BY <2>5, ShowAlike DEF Alike
    <3> HIDE DEF sent
    <3> QED BY <3>1, ShowAlike, Alike3
  <2>9. \A q \in Player \ {p} : in.at[q] = s.at[q]
    BY <2>2, <2>5 DEF Without
  <2> HIDE DEF t
  <2> QED BY <2>1, <2>6, <2>7, <2>8, <2>9, AlikeAgrees DEF Alike, Ranked
<1> QED BY <1>1, <1>2

-----------------------------------------------------------------------------
(* The steps.                                                              *)

MemberInv == Agrees(chat, users)

(* What every step leaves: agreement, and who came into a conference came  *)
(* without a rank that was not earned.                                     *)
Comes(s, t, U) ==
  /\ Agrees(t, U)
  /\ \A q \in Player : t.at[q] # s.at[q] => Ranked(t, q)

LEMMA MemberInit == Init => MemberInv
<1> SUFFICES ASSUME Init PROVE MemberInv
  OBVIOUS
<1>1. Shape(chat)
  <2>1. chat = [f \in Field |-> chat[f]]
    BY DEF Init, Field
  <2> QED BY <2>1 DEF Init, Shape
<1>2. /\ chat.live = {Newbie} /\ chat.mod = {} /\ chat.voiced = {}
      /\ \A p \in Player : chat.at[p] = None
      /\ \A c \in Conf : chat.who[c] = {}
  BY DEF Init
<1> QED BY <1>1, <1>2, SeededOne DEF MemberInv, Agrees

LEMMA AlikeComes ==
  ASSUME NEW s, NEW t, NEW U, Agrees(s, U), Alike(s, t)
  PROVE  Comes(s, t, U)
BY AlikeAgrees DEF Alike, Comes

LEMMA RemovedComes ==
  ASSUME NEW s, NEW U, Agrees(s, U), NEW p \in Player, s.at[p] # None
  PROVE  Comes(s, RemoveUser(s, p), U)
<1> DEFINE t == RemoveUser(s, p)
<1>1. Agrees(t, U) /\ Without(s, t, p)
  BY Removed
<1> HIDE DEF t
<1>2. Ranked(t, p)
  BY <1>1 DEF Ranked, Without
<1>3. ASSUME NEW q \in Player, t.at[q] # s.at[q] PROVE Ranked(t, q)
  <2>1. q = p
    BY <1>1, <1>3 DEF Without
  <2> QED BY <1>2, <2>1
<1>4. Comes(s, t, U)
  BY <1>1, <1>3 DEF Comes
<1> QED BY <1>4 DEF t

LEMMA AddedComes ==
  ASSUME NEW s, NEW t, NEW U, Agrees(t, U), t.at = s.at,
         NEW p \in Player, p \in U, NEW c \in t.live, NEW pw
  PROVE  Comes(s, AddUser(t, c, p, pw), U)
<1> DEFINE u == AddUser(t, c, p, pw)
<1>1. /\ Agrees(u, U) /\ \A q \in Player \ {p} : u.at[q] = t.at[q]
      /\ u.at[p] # t.at[p] => Ranked(u, p)
  BY Added
<1> HIDE DEF u
<1>2. ASSUME NEW q \in Player, u.at[q] # s.at[q] PROVE Ranked(u, q)
  <2>1. q = p
    BY <1>1, <1>2
  <2> QED BY <1>1, <1>2, <2>1
<1>3. Comes(s, u, U)
  BY <1>1, <1>2 DEF Comes
<1> QED BY <1>3 DEF u

(* Chat_UserOpen and the window a chat user opens again.                   *)
LEMMA WindowAlike ==
  ASSUME MemberInv, NEW p \in Player, NEW n
  PROVE  Alike(chat, OpenWindow(p, n)) /\ Alike(chat, [chat EXCEPT !.view[p] = Closed])
BY DEF MemberInv, Agrees, Shape, Field, Alike, OpenWindow

LEMMA OpenComes ==
  ASSUME MemberInv, NEW p \in Player, NEW n \in Nick, Open(p, n)
  PROVE  Comes(chat, chat', users')
<1> DEFINE s == OpenWindow(p, n)
<1>1. users' = users \cup {p}
  BY DEF Open
<1>2. Alike(chat, s) /\ Agrees(s, users') /\ p \in users'
  <2>1. Agrees(chat, users')
    BY <1>1 DEF MemberInv, Agrees
  <2> HIDE DEF s
  <2> QED BY <1>1, <2>1, AlikeAgrees, WindowAlike DEF s
<1>3. FirstJoinable \subseteq chat.live /\ s.live = chat.live /\ s.at = chat.at
  BY <1>2 DEF FirstJoinable, Alike, MemberInv, Agrees
<1>4. (\E c \in FirstJoinable : chat' = AddUser(s, c, p, None)) \/ chat' = s
  BY DEF Open
<1> HIDE DEF s
<1> QED BY <1>2, <1>3, <1>4, AddedComes, AlikeComes DEF Comes

LEMMA OpenAgainComes ==
  ASSUME MemberInv, NEW p \in Player, OpenAgain(p)
  PROVE  Comes(chat, chat', users')
<1> DEFINE s == OpenWindow(p, Username(chat, p))
<1>1. Alike(chat, s) /\ Shape(s)
  BY WindowAlike DEF Alike
<1>2. users' = users /\ (chat' = s \/ chat' = SendMembers(s, p, s.at[p]))
  BY DEF OpenAgain
<1> HIDE DEF s
<1>3. Alike(chat, chat')
  BY <1>1, <1>2, ShowAlike, Alike3
<1> QED BY <1>2, <1>3, AlikeComes DEF MemberInv

LEMMA LeaveComes ==
  ASSUME MemberInv, NEW p \in Player, LeaveChat(p)
  PROVE  Comes(chat, chat', users')
<1> DEFINE s == Left(chat, p)
<1>1. Agrees(s, users) /\ Without(chat, s, p)
  BY LeftOr DEF MemberInv
<1>2. chat' = [s EXCEPT !.view[p] = Closed] /\ users' = users \ {p}
  BY DEF LeaveChat
<1> HIDE DEF s
<1>3. Alike(s, chat')
  BY <1>1, <1>2 DEF Agrees, Shape, Field, Alike
<1>4. Agrees(s, users')
  BY <1>1, <1>2 DEF Agrees, Without
<1>5. Agrees(chat', users') /\ Ranked(chat', p)
  BY <1>1, <1>3, <1>4, AlikeAgrees DEF Alike, Ranked, Without
<1> QED BY <1>1, <1>3, <1>5 DEF Comes, Alike, Without

LEMMA JoinComes ==
  ASSUME MemberInv, NEW p \in Player, NEW n, NEW pw,
         JoinConference(p, n, pw) \/ CreateConference(p, n, pw)
  PROVE  Comes(chat, chat', users')
<1>1. p \in users /\ users' = users
  BY DEF JoinConference, CreateConference, Acts
<1>2. CASE \E c \in Named(n) : chat' = AddUser(chat, c, p, pw)
  BY <1>1, <1>2, AddedComes DEF Named, MemberInv
<1>3. ASSUME NEW c \in Conf \ chat.live, chat' = AddUser(Create(chat, c, n, pw), c, p, pw)
      PROVE  Comes(chat, chat', users')
  <2> DEFINE s == Create(chat, c, n, pw)
  <2>1. Shape(s) /\ s.live = chat.live \cup {c} /\ s.who = chat.who /\ s.at = chat.at
        /\ s.mod = chat.mod /\ s.voiced = chat.voiced
    BY DEF MemberInv, Agrees, Shape, Field, Create
  <2> HIDE DEF s
  <2>2. Agrees(s, users) /\ c \in s.live
    BY <2>1 DEF MemberInv, Agrees
  <2> QED BY <1>1, <1>3, <2>1, <2>2, AddedComes DEF s
<1> QED BY <1>2, <1>3 DEF JoinConference, CreateConference

LEMMA RenameComes ==
  ASSUME MemberInv, NEW p \in Player, NEW n, RenameConference(p, n) \/ ChangePassword(p, n)
  PROVE  Comes(chat, chat', users')
<1>1. users' = users
  BY DEF RenameConference, ChangePassword, Moderates, Acts
<1>2. CASE RenameConference(p, n)
  <2> DEFINE s == [chat EXCEPT !.name[chat.at[p]] = n]
  <2>1. Alike(chat, s) /\ Shape(s)
    BY DEF MemberInv, Agrees, Shape, Field, Alike
  <2>2. chat' = ConferenceEnter(s, s.who[chat.at[p]], chat.at[p])
    BY <1>2 DEF RenameConference
  <2> HIDE DEF s
  <2>3. Alike(chat, chat')
    BY <2>1, <2>2, ShowAlike, Alike3
  <2> QED BY <1>1, <2>3, AlikeComes DEF MemberInv
<1>3. CASE ChangePassword(p, n)
  <2>1. Alike(chat, chat')
    BY <1>3 DEF ChangePassword, MemberInv, Agrees, Shape, Field, Alike
  <2> QED BY <1>1, <2>1, AlikeComes DEF MemberInv
<1> QED BY <1>2, <1>3

(* Ranks are given and taken inside the conference only.                   *)
LEMMA RankComes ==
  ASSUME MemberInv, NEW p \in Player, NEW t \in Player, NEW b \in BOOLEAN,
         Voice(p, t, b) \/ Moderator(p, t, b)
  PROVE  Comes(chat, chat', users')
<1>1. users' = users /\ chat.at[p] # None /\ t \in Members(p)
  BY DEF Voice, Moderator, Moderates, Acts
<1>2. chat.at[t] = chat.at[p]
  BY <1>1 DEF MemberInv, Agrees, Members
<1>3. ASSUME NEW s, Shape(s), s.live = chat.live, s.who = chat.who, s.at = chat.at,
             s.mod \cap s.voiced = {}, s.mod \cup s.voiced \subseteq chat.mod \cup chat.voiced \cup {t},
             chat' = RefreshUser(s, t)
      PROVE  Comes(chat, chat', users')
  <2>1. Agrees(s, users)
    BY <1>1, <1>2, <1>3 DEF MemberInv, Agrees
  <2> DEFINE u == PlayerLeave(s, s.who[s.at[t]], t)
  <2>2. Alike(s, u) /\ Shape(u)
    BY <1>3, ShowAlike DEF Alike
  <2>3. chat' = PlayerEnter(u, s.who[s.at[t]], t)
    BY <1>3 DEF RefreshUser
  <2> HIDE DEF u
  <2>4. Alike(s, chat')
    BY <2>2, <2>3, ShowAlike, Alike3
  <2> QED BY <1>1, <1>3, <2>1, <2>4, AlikeAgrees DEF Comes, Alike
<1>4. CASE Voice(p, t, b)
  <2> DEFINE s == [chat EXCEPT !.voiced = IF b THEN @ \cup {t} ELSE @ \ {t}]
  <2>1. Shape(s) /\ s.live = chat.live /\ s.who = chat.who /\ s.at = chat.at /\ s.mod = chat.mod
        /\ s.voiced = IF b THEN chat.voiced \cup {t} ELSE chat.voiced \ {t}
    BY DEF MemberInv, Agrees, Shape, Field
  <2>2. chat' = RefreshUser(s, t) /\ t \notin chat.mod
    BY <1>4 DEF Voice
  <2> HIDE DEF s
  <2>3. s.mod \cap s.voiced = {} /\ s.mod \cup s.voiced \subseteq chat.mod \cup chat.voiced \cup {t}
    BY <2>1, <2>2 DEF MemberInv, Agrees
  <2> QED BY <1>3, <2>1, <2>2, <2>3
<1>5. CASE Moderator(p, t, b)
  <2> DEFINE s == IF b THEN Promoted(chat, t) ELSE [chat EXCEPT !.mod = @ \ {t}]
  <2>1. Shape(s) /\ s.live = chat.live /\ s.who = chat.who /\ s.at = chat.at
        /\ s.mod = (IF b THEN chat.mod \cup {t} ELSE chat.mod \ {t})
        /\ s.voiced = IF b THEN chat.voiced \ {t} ELSE chat.voiced
    BY DEF MemberInv, Agrees, Shape, Field, Promoted
  <2>2. chat' = RefreshUser(s, t)
    BY <1>5 DEF Moderator
  <2> HIDE DEF s
  <2>3. s.mod \cap s.voiced = {} /\ s.mod \cup s.voiced \subseteq chat.mod \cup chat.voiced \cup {t}
    BY <2>1 DEF MemberInv, Agrees
  <2> QED BY <1>3, <2>1, <2>2, <2>3
<1> QED BY <1>4, <1>5

LEMMA KickComes ==
  ASSUME MemberInv, NEW p \in Player, NEW t \in Player, Kick(p, t)
  PROVE  Comes(chat, chat', users')
<1>1. users' = users /\ chat.at[p] # None /\ t \in Members(p) /\ chat' = RemoveUser(chat, t)
  BY DEF Kick, Moderates, Acts
<1>2. chat.at[t] # None
  BY <1>1 DEF MemberInv, Agrees, Members
<1> QED BY <1>1, <1>2, RemovedComes DEF MemberInv

LEMMA MemberStep == MemberInv /\ [Next]_vars => MemberInv' /\ [ComesUnranked]_vars
<1> SUFFICES ASSUME MemberInv, [Next]_vars PROVE MemberInv' /\ [ComesUnranked]_vars
  OBVIOUS
<1>1. ASSUME UNCHANGED <<users, chat>> PROVE MemberInv' /\ ComesUnranked
  BY <1>1 DEF MemberInv, ComesUnranked
<1>2. CASE UNCHANGED vars
  BY <1>1, <1>2 DEF vars
<1>3. ASSUME Comes(chat, chat', users') PROVE MemberInv' /\ ComesUnranked
  BY <1>3 DEF MemberInv, Comes, Ranked, ComesUnranked
<1>4. ASSUME NEW p \in Player, Connect(p) \/ ChangeLevel(p) PROVE MemberInv' /\ ComesUnranked
  BY <1>1, <1>4 DEF Connect, ChangeLevel
<1>5. ASSUME NEW p \in Player, Disconnect(p) PROVE MemberInv' /\ ComesUnranked
  <2>1. Alike(chat, chat') /\ users' = users
    BY <1>5, WindowAlike DEF Disconnect
  <2> QED BY <1>3, <2>1, AlikeComes DEF MemberInv
<1>6. ASSUME NEW p \in Player, OpenAgain(p) \/ LeaveChat(p) \/ \E n \in Nick : Open(p, n)
      PROVE  MemberInv' /\ ComesUnranked
  BY <1>3, <1>6, OpenAgainComes, LeaveComes, OpenComes
<1>7. ASSUME NEW p \in Player, NEW n \in ConfName,
             \/ RenameConference(p, n)
             \/ \E pw \in Given : JoinConference(p, n, pw) \/ CreateConference(p, n, pw)
      PROVE  MemberInv' /\ ComesUnranked
  BY <1>3, <1>7, RenameComes, JoinComes
<1>8. ASSUME NEW p \in Player, NEW pw \in Given, ChangePassword(p, pw) PROVE MemberInv' /\ ComesUnranked
  BY <1>3, <1>8, RenameComes
<1>9. ASSUME NEW p \in Player, NEW t \in Player,
             Kick(p, t) \/ \E b \in BOOLEAN : Voice(p, t, b) \/ Moderator(p, t, b)
      PROVE  MemberInv' /\ ComesUnranked
  BY <1>3, <1>9, KickComes, RankComes
<1> QED BY <1>2, <1>4, <1>5, <1>6, <1>7, <1>8, <1>9 DEF Next

LEMMA MembersHold == Spec => []MemberInv
BY MemberInit, MemberStep, PTL DEF Spec

(* The lists of the conferences and the pointers of the chat users agree,  *)
(* neither leads to something that was freed, and ranks are held by        *)
(* members, one at a time (Conference_AddUser, RemoveUser and Destroy).    *)
THEOREM MembersAreMembers == Spec => []MembershipAgrees
<1>1. MemberInv => MembershipAgrees
  BY DEF MemberInv, Agrees, MembershipAgrees
<1> QED BY <1>1, MembersHold, PTL

(* Nobody brings a rank along: who comes into a conference moderates it    *)
(* only as a game master or as the first in one that is not seeded.        *)
THEOREM RanksAreEarned == Spec => RankIsEarned
BY MembersHold, MemberStep, PTL DEF Spec, RankIsEarned

-----------------------------------------------------------------------------
(* What the clients show.                                                  *)

Viewed(s) ==
  /\ s.view = [p \in Player |-> s.view[p]]
  /\ \A p \in Player : s.view[p] = [open |-> s.view[p].open, at |-> s.view[p].at, who |-> s.view[p].who]

(* t differs from s in what is shown by open windows only.                 *)
Sent(s, t) ==
  /\ Alike(s, t) /\ Viewed(t) /\ t.nick = s.nick /\ t.name = s.name
  /\ \A p \in Player : t.view[p].open = s.view[p].open

Labels(s, c) == {Label(s, q) : q \in s.who[c]}

(* What a window shows is what it should.                                  *)
Exact(s, p) ==
  IF s.at[p] = None THEN s.view[p].who = {}
  ELSE s.view[p].who = Labels(s, s.at[p]) /\ s.view[p].at = s.name[s.at[p]]

(* Every open window is of a connected chat user and exact, and no two     *)
(* chat users have one name.                                               *)
Faithful(s, U) ==
  /\ Agrees(s, U) /\ Viewed(s) /\ U \subseteq Player
  /\ s.nick = [a \in Account |-> s.nick[a]]
  /\ \A p, q \in U : Username(s, p) = Username(s, q) => p = q
  /\ \A p \in Player : s.view[p].open => p \in on \cap U /\ Exact(s, p)

LEMMA ShowSent ==
  ASSUME NEW s, Shape(s), Viewed(s), NEW P, NEW names
  PROVE  /\ Sent(s, Show(s, P, names))
         /\ \A p \in Player :
              /\ Show(s, P, names).view[p].at = s.view[p].at
              /\ Show(s, P, names).view[p].who =
                   IF p \in P \cap on /\ s.view[p].open THEN names[p] ELSE s.view[p].who
<1> DEFINE t == Show(s, P, names)
           v == [p \in Player |-> IF Sees(s, p, P) THEN [s.view[p] EXCEPT !.who = names[p]] ELSE s.view[p]]
<1>1. t = [s EXCEPT !.view = v]
  BY DEF Show
<1>2. Alike(s, t)
  BY ShowAlike
<1>3. t.nick = s.nick /\ t.name = s.name /\ t.view = v
  BY <1>1 DEF Shape, Field
<1>4. ASSUME NEW p \in Player
      PROVE  v[p] = [open |-> s.view[p].open, at |-> s.view[p].at,
                     who |-> IF p \in P \cap on /\ s.view[p].open THEN names[p] ELSE s.view[p].who]
  <2>1. s.view[p] = [open |-> s.view[p].open, at |-> s.view[p].at, who |-> s.view[p].who]
    BY DEF Viewed
  <2>2. v[p] = IF p \in P \cap on /\ s.view[p].open THEN [s.view[p] EXCEPT !.who = names[p]] ELSE s.view[p]
    BY DEF Sees
  <2> HIDE DEF v
  <2>3. [s.view[p] EXCEPT !.who = names[p]] = [open |-> s.view[p].open, at |-> s.view[p].at, who |-> names[p]]
    BY <2>1
  <2> QED BY <2>1, <2>2, <2>3
<1>5. v = [p \in Player |-> v[p]]
  OBVIOUS
<1> HIDE DEF t, v
<1>6. Sent(s, t) /\ \A p \in Player :
        /\ t.view[p].at = s.view[p].at
        /\ t.view[p].who = IF p \in P \cap on /\ s.view[p].open THEN names[p] ELSE s.view[p].who
  BY <1>2, <1>3, <1>4, <1>5 DEF Sent, Viewed
<1> QED BY <1>6 DEF t

LEMMA SentLabel ==
  ASSUME NEW s, NEW t, Sent(s, t)
  PROVE  /\ Shape(t) /\ Viewed(t)
         /\ \A q : Label(t, q) = Label(s, q) /\ Username(t, q) = Username(s, q)
         /\ \A c : Labels(t, c) = Labels(s, c)
BY DEF Sent, Alike, Label, Username, Labels

(* The messages, to clients whose windows are open while connected.        *)
LEMMA MessagesSent ==
  ASSUME NEW s, Shape(s), Viewed(s), \A p \in Player : s.view[p].open => p \in on
  PROVE  /\ \A P, q : LET t == PlayerEnter(s, P, q) IN
              Sent(s, t) /\ \A p \in Player : s.view[p].open =>
                t.view[p].at = s.view[p].at
                /\ t.view[p].who = IF p \in P THEN s.view[p].who \cup {Label(s, q)} ELSE s.view[p].who
         /\ \A P, q : LET t == PlayerLeave(s, P, q) IN
              Sent(s, t) /\ \A p \in Player : s.view[p].open =>
                t.view[p].at = s.view[p].at
                /\ t.view[p].who = IF p \in P THEN {x \in s.view[p].who : x[2] # Username(s, q)}
                                              ELSE s.view[p].who
         /\ \A q \in Player : LET t == PlayerClear(s, q) IN
              Sent(s, t) /\ \A p \in Player : s.view[p].open =>
                t.view[p].at = s.view[p].at
                /\ t.view[p].who = IF p = q THEN {} ELSE s.view[p].who
         /\ \A P, c : LET t == ConferenceEnter(s, P, c) IN
              Sent(s, t) /\ \A p \in Player : s.view[p].open =>
                t.view[p].at = (IF p \in P THEN s.name[c] ELSE s.view[p].at)
                /\ t.view[p].who = s.view[p].who
         /\ \A q \in Player : \A c : LET t == SendMembers(s, q, c) IN
              Sent(s, t) /\ \A p \in Player : s.view[p].open =>
                t.view[p].at = (IF p = q THEN s.name[c] ELSE s.view[p].at)
                /\ t.view[p].who = IF p = q THEN s.view[p].who \cup Labels(s, c) ELSE s.view[p].who
<1>1. ASSUME NEW P, NEW q
      PROVE  LET t == PlayerEnter(s, P, q) IN
              Sent(s, t) /\ \A p \in Player : s.view[p].open =>
                t.view[p].at = s.view[p].at
                /\ t.view[p].who = IF p \in P THEN s.view[p].who \cup {Label(s, q)} ELSE s.view[p].who
  <2> DEFINE names == [p \in Player |-> s.view[p].who \cup {Label(s, q)}]
  <2>1. PlayerEnter(s, P, q) = Show(s, P, names) /\ \A p \in Player : names[p] = s.view[p].who \cup {Label(s, q)}
    BY DEF PlayerEnter
  <2> DEFINE t == Show(s, P, names)
  <2> HIDE DEF names
  <2>2. Sent(s, t) /\ \A p \in Player :
          /\ t.view[p].at = s.view[p].at
          /\ t.view[p].who = IF p \in P \cap on /\ s.view[p].open THEN names[p] ELSE s.view[p].who
    BY ShowSent
  <2> HIDE DEF t
  <2> QED BY <2>1, <2>2 DEF t
<1>2. ASSUME NEW P, NEW q
      PROVE  LET t == PlayerLeave(s, P, q) IN
              Sent(s, t) /\ \A p \in Player : s.view[p].open =>
                t.view[p].at = s.view[p].at
                /\ t.view[p].who = IF p \in P THEN {x \in s.view[p].who : x[2] # Username(s, q)}
                                              ELSE s.view[p].who
  <2> DEFINE names == [p \in Player |-> {x \in s.view[p].who : x[2] # Username(s, q)}]
  <2>1. /\ PlayerLeave(s, P, q) = Show(s, P, names)
        /\ \A p \in Player : names[p] = {x \in s.view[p].who : x[2] # Username(s, q)}
    BY DEF PlayerLeave
  <2> DEFINE t == Show(s, P, names)
  <2> HIDE DEF names
  <2>2. Sent(s, t) /\ \A p \in Player :
          /\ t.view[p].at = s.view[p].at
          /\ t.view[p].who = IF p \in P \cap on /\ s.view[p].open THEN names[p] ELSE s.view[p].who
    BY ShowSent
  <2> HIDE DEF t
  <2> QED BY <2>1, <2>2 DEF t
<1>3. ASSUME NEW q \in Player
      PROVE  LET t == PlayerClear(s, q) IN
              Sent(s, t) /\ \A p \in Player : s.view[p].open =>
                t.view[p].at = s.view[p].at
                /\ t.view[p].who = IF p = q THEN {} ELSE s.view[p].who
  <2> DEFINE names == [p \in Player |-> {}]
  <2>1. PlayerClear(s, q) = Show(s, {q}, names) /\ \A p \in Player : names[p] = {}
    BY DEF PlayerClear
  <2> DEFINE t == Show(s, {q}, names)
  <2> HIDE DEF names
  <2>2. Sent(s, t) /\ \A p \in Player :
          /\ t.view[p].at = s.view[p].at
          /\ t.view[p].who = IF p \in {q} \cap on /\ s.view[p].open THEN names[p] ELSE s.view[p].who
    BY ShowSent
  <2> HIDE DEF t
  <2> QED BY <2>1, <2>2 DEF t
<1>4. ASSUME NEW P, NEW c
      PROVE  LET t == ConferenceEnter(s, P, c) IN
              Sent(s, t) /\ \A p \in Player : s.view[p].open =>
                t.view[p].at = (IF p \in P THEN s.name[c] ELSE s.view[p].at)
                /\ t.view[p].who = s.view[p].who
  <2> DEFINE t == ConferenceEnter(s, P, c)
             v == [p \in Player |-> IF Sees(s, p, P) THEN [s.view[p] EXCEPT !.at = s.name[c]] ELSE s.view[p]]
  <2>1. t = [s EXCEPT !.view = v]
    BY DEF ConferenceEnter
  <2>2. Alike(s, t)
    BY ShowAlike
  <2>3. t.nick = s.nick /\ t.name = s.name /\ t.view = v
    BY <2>1 DEF Shape, Field
  <2>4. ASSUME NEW p \in Player
        PROVE  v[p] = [open |-> s.view[p].open,
                       at |-> IF p \in P \cap on /\ s.view[p].open THEN s.name[c] ELSE s.view[p].at,
                       who |-> s.view[p].who]
    <3>1. s.view[p] = [open |-> s.view[p].open, at |-> s.view[p].at, who |-> s.view[p].who]
      BY DEF Viewed
    <3>2. v[p] = IF p \in P \cap on /\ s.view[p].open THEN [s.view[p] EXCEPT !.at = s.name[c]] ELSE s.view[p]
      BY DEF Sees
    <3> HIDE DEF v
    <3>3. [s.view[p] EXCEPT !.at = s.name[c]] = [open |-> s.view[p].open, at |-> s.name[c], who |-> s.view[p].who]
      BY <3>1
    <3> QED BY <3>1, <3>2, <3>3
  <2>5. v = [p \in Player |-> v[p]]
    OBVIOUS
  <2> HIDE DEF t, v
  <2>6. Sent(s, t) /\ \A p \in Player : s.view[p].open =>
                t.view[p].at = (IF p \in P THEN s.name[c] ELSE s.view[p].at)
                /\ t.view[p].who = s.view[p].who
    BY <2>2, <2>3, <2>4, <2>5 DEF Sent, Viewed
  <2> QED BY <2>6 DEF t
<1>5. ASSUME NEW q \in Player, NEW c
      PROVE  LET t == SendMembers(s, q, c) IN
              Sent(s, t) /\ \A p \in Player : s.view[p].open =>
                t.view[p].at = (IF p = q THEN s.name[c] ELSE s.view[p].at)
                /\ t.view[p].who = IF p = q THEN s.view[p].who \cup Labels(s, c) ELSE s.view[p].who
  <2> DEFINE e == ConferenceEnter(s, {q}, c)
             names == [p \in Player |-> s.view[p].who \cup Labels(s, c)]
             t == Show(e, {q}, names)
  <2>1. SendMembers(s, q, c) = t
    BY DEF SendMembers, Labels
  <2>2. \A p \in Player : names[p] = s.view[p].who \cup Labels(s, c)
    OBVIOUS
  <2>3. Sent(s, e) /\ \A p \in Player : s.view[p].open =>
                e.view[p].at = (IF p = q THEN s.name[c] ELSE s.view[p].at)
                /\ e.view[p].who = s.view[p].who
    BY <1>4
  <2> HIDE DEF e, names
  <2>4. Sent(e, t) /\ \A p \in Player :
              /\ t.view[p].at = e.view[p].at
              /\ t.view[p].who = IF p \in {q} \cap on /\ e.view[p].open THEN names[p] ELSE e.view[p].who
    BY <2>3, ShowSent, SentLabel
  <2> HIDE DEF t
  <2>5. Sent(s, t)
    BY <2>3, <2>4, Alike3 DEF Sent
  <2>6. ASSUME NEW p \in Player, s.view[p].open
        PROVE  t.view[p].at = (IF p = q THEN s.name[c] ELSE s.view[p].at)
               /\ t.view[p].who = IF p = q THEN s.view[p].who \cup Labels(s, c) ELSE s.view[p].who
    <3>1. e.view[p].open = s.view[p].open
      BY <2>3 DEF Sent
    <3> QED BY <2>2, <2>3, <2>4, <2>6, <3>1
  <2> QED BY <2>1, <2>5, <2>6
<1> QED BY <1>1, <1>2, <1>3, <1>4, <1>5

(* A label is a rank and a name.                                           *)
LEMMA SameLabel ==
  ASSUME NEW s, NEW t, NEW q, t.nick = s.nick,
         q \in t.mod <=> q \in s.mod, q \in t.voiced <=> q \in s.voiced
  PROVE  Label(t, q) = Label(s, q)
BY DEF Label, Username

LEMMA NameOfLabel ==
  ASSUME NEW s, NEW U, Faithful(s, U), NEW c \in Conf, NEW q \in U
  PROVE  \A m \in s.who[c] : Label(s, m)[2] = Username(s, q) => m = q
<1>1. \A m \in s.who[c] : m \in U
  BY Nulls DEF Faithful, Agrees
<1>2. \A m : Label(s, m)[2] = Username(s, m)
  BY DEF Label
<1> QED BY <1>1, <1>2 DEF Faithful

(* Those who stay see the member go, who sees nobody any more.             *)
LEMMA RemovedFaithful ==
  ASSUME NEW s, NEW U, Faithful(s, U), NEW p \in Player, s.at[p] # None
  PROVE  /\ Faithful(RemoveUser(s, p), U) /\ Without(s, RemoveUser(s, p), p)
         /\ RemoveUser(s, p).nick = s.nick
         /\ \A q \in Player : RemoveUser(s, p).view[q].open = s.view[q].open
<1> DEFINE c == s.at[p]
           left == Unranked(TakenOut(s, p), p)
           gone == PlayerLeave(left, left.who[c], p)
           told == PlayerClear(gone, p)
           t == RemoveUser(s, p)
<1>0. Agrees(s, U) /\ c \in Conf /\ c \in s.live /\ p \in s.who[c] /\ p \in U
  BY DEF Faithful, Agrees
<1>1. Agrees(t, U) /\ Without(s, t, p)
  BY <1>0, Removed
<1>2. /\ Shape(left) /\ left.nick = s.nick /\ left.name = s.name /\ left.view = s.view
      /\ left.who[c] = s.who[c] \ {p}
  <2> DEFINE taken == TakenOut(s, p)
  <2>1. /\ Shape(taken) /\ taken.nick = s.nick /\ taken.name = s.name /\ taken.view = s.view
        /\ taken.who[c] = s.who[c] \ {p}
    BY <1>0 DEF Agrees, Shape, Field, TakenOut
  <2> HIDE DEF taken
  <2>2. /\ Shape(Unranked(taken, p)) /\ Unranked(taken, p).nick = taken.nick
        /\ Unranked(taken, p).name = taken.name /\ Unranked(taken, p).view = taken.view
        /\ Unranked(taken, p).who = taken.who
    BY <2>1 DEF Shape, Field, Unranked
  <2> QED BY <2>1, <2>2 DEF taken
<1>3. Viewed(left) /\ \A q \in Player : left.view[q].open => q \in on
  BY <1>2 DEF Faithful, Viewed
<1>4. /\ Sent(left, told)
      /\ \A q \in Player : s.view[q].open =>
           /\ told.view[q].at = s.view[q].at
           /\ told.view[q].who =
                IF q = p THEN {}
                ELSE IF q \in s.who[c] THEN {x \in s.view[q].who : x[2] # Username(s, p)}
                ELSE s.view[q].who
  <2> HIDE DEF left
  <2>1. /\ Sent(left, gone)
        /\ \A q \in Player : left.view[q].open =>
             /\ gone.view[q].at = left.view[q].at
             /\ gone.view[q].who =
                  IF q \in left.who[c] THEN {x \in left.view[q].who : x[2] # Username(left, p)}
                                       ELSE left.view[q].who
    <3>1. \A P, m : LET u == PlayerLeave(left, P, m) IN
              Sent(left, u) /\ \A q \in Player : left.view[q].open =>
                u.view[q].at = left.view[q].at
                /\ u.view[q].who = IF q \in P THEN {x \in left.view[q].who : x[2] # Username(left, m)}
                                              ELSE left.view[q].who
      BY <1>2, <1>3, MessagesSent
    <3> DEFINE G(u, P, m) == Sent(left, u) /\ \A q \in Player : left.view[q].open =>
                u.view[q].at = left.view[q].at
                /\ u.view[q].who = IF q \in P THEN {x \in left.view[q].who : x[2] # Username(left, m)}
                                              ELSE left.view[q].who
    <3>2. \A P, m : G(PlayerLeave(left, P, m), P, m)
      BY <3>1
    <3> HIDE DEF G
    <3>3. G(gone, left.who[c], p)
      BY <3>2
    <3> QED BY <3>3 DEF G
  <2>2. Username(left, p) = Username(s, p)
    BY <1>2 DEF Username
  <2> HIDE DEF gone
  <2>3. Shape(gone) /\ Viewed(gone) /\ \A q \in Player : gone.view[q].open = left.view[q].open
    BY <2>1, SentLabel DEF Sent
  <2>4. /\ Sent(gone, told)
        /\ \A q \in Player : gone.view[q].open =>
             told.view[q].at = gone.view[q].at
             /\ told.view[q].who = IF q = p THEN {} ELSE gone.view[q].who
    BY <1>3, <2>3, MessagesSent
  <2> HIDE DEF told
  <2>5. Sent(left, told)
    BY <2>1, <2>4, Alike3 DEF Sent
  <2>6. ASSUME NEW q \in Player, s.view[q].open
        PROVE  /\ told.view[q].at = s.view[q].at
               /\ told.view[q].who =
                    IF q = p THEN {}
                    ELSE IF q \in s.who[c] THEN {x \in s.view[q].who : x[2] # Username(s, p)}
                    ELSE s.view[q].who
    <3>1. left.view[q] = s.view[q] /\ gone.view[q].open /\ left.view[q].open
      BY <1>2, <2>3, <2>6
    <3>2. /\ told.view[q].at = left.view[q].at
          /\ told.view[q].who = IF q = p THEN {} ELSE gone.view[q].who
      BY <2>1, <2>4, <3>1
    <3>3. q # p => (q \in left.who[c] <=> q \in s.who[c])
      BY <1>2
    <3>4. gone.view[q].who = IF q \in left.who[c] THEN {x \in s.view[q].who : x[2] # Username(s, p)}
                                       ELSE s.view[q].who
      BY <2>1, <2>2, <3>1
    <3> QED BY <3>1, <3>2, <3>3, <3>4
  <2> QED BY <2>5, <2>6
<1>5. /\ t.view = told.view /\ t.nick = s.nick /\ t.who = told.who
      /\ \A d : (d = c /\ told.who[c] = {} /\ c # Newbie) \/ t.name[d] = s.name[d]
  <2>1. t = IF Deserted(told, c) THEN Destroy(told, c) ELSE told
    BY DEF RemoveUser
  <2>2. Shape(told) /\ told.nick = s.nick /\ told.name = s.name
    BY <1>2, <1>4, SentLabel DEF Sent
  <2> HIDE DEF told
  <2>3. /\ Destroy(told, c).view = told.view /\ Destroy(told, c).nick = told.nick
        /\ Destroy(told, c).who = told.who
        /\ \A d : d # c => Destroy(told, c).name[d] = told.name[d]
    BY <2>2 DEF Destroy, Shape, Field
  <2> HIDE DEF t
  <2> QED BY <2>1, <2>2, <2>3 DEF Deserted
<1> HIDE DEF t, told, left, c
<1>6. \A q \in Player : t.view[q].open = s.view[q].open
  BY <1>2, <1>4, <1>5 DEF Sent
<1>7. Viewed(t)
  BY <1>4, <1>5 DEF Sent, Viewed
<1>8. \A m \in Player \ {p} : Label(t, m) = Label(s, m)
  BY <1>1, <1>5, SameLabel DEF Without
<1>9. ASSUME NEW q \in Player, t.view[q].open PROVE Exact(t, q)
  <2>1. s.view[q].open /\ Exact(s, q)
    BY <1>6, <1>9 DEF Faithful
  <2>2. CASE q = p
    BY <1>1, <1>4, <1>5, <2>1, <2>2 DEF Exact, Without
  <2>3. CASE q # p /\ s.at[q] = None
    <3>1. q \notin s.who[c]
      BY <1>0, <2>3, Nulls DEF Agrees
    <3> QED BY <1>1, <1>4, <1>5, <2>1, <2>3, <3>1 DEF Exact, Without
  <2>4. CASE q # p /\ s.at[q] # None
    <3> DEFINE d == s.at[q]
    <3>1. t.at[q] = d /\ d \in Conf /\ q \in s.who[d] /\ t.who[d] = s.who[d] \ {p}
      BY <1>0, <1>1, <2>4 DEF Agrees, Without
    <3>2. t.name[d] = s.name[d] /\ t.view[q].at = s.name[d]
      BY <1>4, <1>5, <2>1, <2>4, <3>1 DEF Exact
    <3>3. \A m \in s.who[d] : m \in Player /\ s.at[m] = d
      BY <1>0, <3>1 DEF Agrees
    <3>4. Labels(t, d) = {Label(s, m) : m \in s.who[d] \ {p}}
      BY <1>8, <3>1, <3>3 DEF Labels
    <3>5. s.view[q].who = {Label(s, m) : m \in s.who[d]}
      BY <2>1, <2>4 DEF Exact, Labels
    <3>6. t.view[q].who = Labels(t, d)
      <4>1. CASE d = c
        <5>1. t.view[q].who = {x \in s.view[q].who : x[2] # Username(s, p)}
          BY <1>4, <1>5, <2>1, <2>4, <3>1, <4>1
        <5>2. \A m \in s.who[d] : Label(s, m)[2] = Username(s, p) <=> m = p
          <6>1. \A m : Label(s, m)[2] = Username(s, m)
            BY DEF Label
          <6> QED BY <1>0, <3>1, <6>1, NameOfLabel
        <5> HIDE DEF d
        <5> QED BY <3>4, <3>5, <5>1, <5>2
      <4>2. CASE d # c
        <5>1. q \notin s.who[c] /\ p \notin s.who[d]
          BY <1>0, <3>1, <3>3, <4>2 DEF Agrees, c
        <5>2. t.view[q].who = s.view[q].who
          BY <1>4, <1>5, <2>1, <2>4, <5>1
        <5>3. s.who[d] \ {p} = s.who[d]
          BY <5>1
        <5> QED BY <3>4, <3>5, <5>2, <5>3
      <4> QED BY <4>1, <4>2
    <3> QED BY <2>4, <3>1, <3>2, <3>6 DEF Exact
  <2> QED BY <2>2, <2>3, <2>4
<1>10. Faithful(t, U)
  BY <1>1, <1>5, <1>6, <1>7, <1>9 DEF Faithful, Username
<1> QED BY <1>1, <1>5, <1>6, <1>10 DEF t

LEMMA LeftFaithful ==
  ASSUME NEW s, NEW U, Faithful(s, U), NEW p \in Player
  PROVE  /\ Faithful(Left(s, p), U) /\ Without(s, Left(s, p), p)
         /\ Left(s, p).nick = s.nick
         /\ \A q \in Player : Left(s, p).view[q].open = s.view[q].open
<1>1. CASE s.at[p] = None
  BY <1>1, LeftOr DEF Left, Faithful
<1>2. CASE s.at[p] # None
  BY <1>2, RemovedFaithful DEF Left
<1> QED BY <1>1, <1>2

(* The newcomer is shown all members, and they are shown the newcomer.     *)
LEMMA AddedFaithful ==
  ASSUME NEW s, NEW U, Faithful(s, U), NEW p \in U, NEW c \in s.live, NEW pw
  PROVE  Faithful(AddUser(s, c, p, pw), U) /\ AddUser(s, c, p, pw).nick = s.nick
<1>0. p \in Player /\ Agrees(s, U)
  BY DEF Faithful
<1>1. CASE s.at[p] = c \/ ~Admits(s, c, pw)
  BY <1>1 DEF AddUser
<1>2. CASE s.at[p] # c /\ Admits(s, c, pw)
  <2> DEFINE left == Left(s, p)
             bare == Unranked(left, p)
             in == [bare EXCEPT !.at[p] = c, !.who[c] = @ \cup {p},
                                !.mod = IF Earns(left, c, p) THEN @ \cup {p} ELSE @]
             sent == SendMembers(in, p, c)
             t == PlayerEnter(sent, in.who[c], p)
  <2>1. AddUser(s, c, p, pw) = t /\ Agrees(AddUser(s, c, p, pw), U)
    BY <1>0, <1>2, Added DEF AddUser
  <2>2. Faithful(left, U) /\ Agrees(left, U) /\ Without(s, left, p) /\ left.nick = s.nick
    BY <1>0, LeftFaithful DEF Faithful
  <2>3. c \in Conf /\ c # None /\ left.at[p] = None /\ \A d \in Conf : p \notin left.who[d]
    BY <1>0, <2>2, Nulls DEF Without, Agrees
  <2> HIDE DEF left
  <2>4. /\ Shape(bare) /\ bare.who = left.who /\ bare.at = left.at
        /\ bare.mod = left.mod \ {p} /\ bare.voiced = left.voiced \ {p}
        /\ bare.nick = left.nick /\ bare.name = left.name /\ bare.view = left.view
    BY <2>2 DEF Agrees, Shape, Field, Unranked
  <2> HIDE DEF bare
  <2>5. /\ Shape(in)
        /\ \A d \in Conf : in.who[d] = IF d = c THEN left.who[c] \cup {p} ELSE left.who[d]
        /\ \A q \in Player : in.at[q] = IF q = p THEN c ELSE left.at[q]
        /\ \A q \in Player \ {p} : /\ q \in in.mod <=> q \in left.mod
                                   /\ q \in in.voiced <=> q \in left.voiced
        /\ in.nick = left.nick /\ in.name = left.name /\ in.view = left.view
    <3>1. /\ Shape(in)
          /\ \A d \in Conf : in.who[d] = IF d = c THEN bare.who[c] \cup {p} ELSE bare.who[d]
          /\ \A q \in Player : in.at[q] = IF q = p THEN c ELSE bare.at[q]
          /\ in.voiced = bare.voiced
          /\ in.mod = IF Earns(left, c, p) THEN bare.mod \cup {p} ELSE bare.mod
          /\ in.nick = bare.nick /\ in.name = bare.name /\ in.view = bare.view
      BY <1>0, <2>3, <2>4 DEF Shape, Field
    <3> QED BY <2>4, <3>1
  <2> HIDE DEF in
  <2>6. Viewed(in) /\ \A q \in Player : in.view[q].open => q \in on
    BY <2>2, <2>5 DEF Faithful, Viewed
  <2>7. /\ Sent(in, sent) /\ Shape(sent) /\ Viewed(sent)
        /\ \A q \in Player : in.view[q].open =>
             /\ sent.view[q].at = (IF q = p THEN in.name[c] ELSE in.view[q].at)
             /\ sent.view[q].who = IF q = p THEN in.view[q].who \cup Labels(in, c) ELSE in.view[q].who
    <3> DEFINE G(u, m, d) == Sent(in, u) /\ \A q \in Player : in.view[q].open =>
                 u.view[q].at = (IF q = m THEN in.name[d] ELSE in.view[q].at)
                 /\ u.view[q].who = IF q = m THEN in.view[q].who \cup Labels(in, d) ELSE in.view[q].who
    <3>1. \A m \in Player : \A d : G(SendMembers(in, m, d), m, d)
      BY ZenonT(60), <2>5, <2>6, MessagesSent
    <3> HIDE DEF G
    <3>2. G(sent, p, c)
      BY <1>0, <3>1
    <3> HIDE DEF sent
    <3> QED BY <3>2, SentLabel DEF G
  <2> HIDE DEF sent
  <2>8. /\ Sent(sent, t)
        /\ \A q \in Player : sent.view[q].open =>
             /\ t.view[q].at = sent.view[q].at
             /\ t.view[q].who = IF q \in in.who[c] THEN sent.view[q].who \cup {Label(sent, p)}
                                                   ELSE sent.view[q].who
    <3> DEFINE G(u, P, m) == Sent(sent, u) /\ \A q \in Player : sent.view[q].open =>
                 u.view[q].at = sent.view[q].at
                 /\ u.view[q].who = IF q \in P THEN sent.view[q].who \cup {Label(sent, m)} ELSE sent.view[q].who
    <3>1. \A q \in Player : sent.view[q].open => q \in on
      BY <2>6, <2>7 DEF Sent
    <3>2. \A P, m : G(PlayerEnter(sent, P, m), P, m)
      BY <2>7, <3>1, MessagesSent
    <3> HIDE DEF G
    <3>3. G(t, in.who[c], p)
      BY <3>2
    <3> QED BY <3>3 DEF G
  <2> HIDE DEF t
  <2>9. /\ Viewed(t) /\ t.nick = in.nick /\ t.name = in.name /\ t.who = in.who /\ t.at = in.at
        /\ \A d : Labels(t, d) = Labels(in, d)
        /\ Label(sent, p) = Label(in, p)
        /\ \A q \in Player : t.view[q].open = in.view[q].open /\ sent.view[q].open = in.view[q].open
    <3>1. /\ \A d : Labels(t, d) = Labels(sent, d)
          /\ \A d : Labels(sent, d) = Labels(in, d)
          /\ Label(sent, p) = Label(in, p)
      BY <2>7, <2>8, SentLabel
    <3> QED BY <2>7, <2>8, <3>1 DEF Sent, Alike
  <2>10. \A q \in Player \ {p} : Label(in, q) = Label(left, q)
    BY <2>5, SameLabel
  <2>11. ASSUME NEW q \in Player, t.view[q].open PROVE Exact(t, q)
    <3>1. left.view[q] = in.view[q] /\ in.view[q].open /\ sent.view[q].open /\ Exact(left, q)
      BY <2>2, <2>5, <2>9, <2>11 DEF Faithful
    <3>2. CASE q = p
      <4>1. in.view[p].who = {} /\ t.at[p] = c /\ p \in in.who[c]
        BY <1>0, <2>3, <2>5, <2>9, <3>1, <3>2 DEF Exact
      <4>2. t.view[p].at = in.name[c] /\ t.view[p].who = Labels(in, c) \cup {Label(in, p)}
        BY <2>7, <2>8, <2>9, <3>1, <3>2, <4>1
      <4>3. Label(in, p) \in Labels(in, c)
        BY <4>1 DEF Labels
      <4>4. t.view[p].who = Labels(t, c) /\ t.view[p].at = t.name[c]
        BY <2>9, <4>2, <4>3
      <4> QED BY <2>3, <3>2, <4>1, <4>4 DEF Exact
    <3>3. CASE q # p /\ left.at[q] = None
      <4>1. q \notin in.who[c] /\ t.at[q] = None
        BY <2>2, <2>3, <2>5, <2>9, <3>3 DEF Agrees
      <4> QED BY <2>7, <2>8, <3>1, <3>3, <4>1 DEF Exact
    <3>4. CASE q # p /\ left.at[q] # None
      <4> DEFINE d == left.at[q]
      <4>1. d \in Conf /\ t.at[q] = d /\ q \in left.who[d] /\ \A m \in left.who[d] : m \in Player \ {p}
        BY <2>2, <2>3, <2>5, <2>9, <3>4 DEF Agrees
      <4>2. left.view[q].who = Labels(left, d) /\ t.view[q].at = t.name[d]
        <5>1. left.view[q].who = Labels(left, d) /\ left.view[q].at = left.name[d]
          BY <3>1, <3>4 DEF Exact
        <5>2. t.view[q].at = in.view[q].at /\ t.name[d] = left.name[d]
          BY <2>5, <2>7, <2>8, <2>9, <3>1, <3>4
        <5> HIDE DEF d
        <5> QED BY <3>1, <5>1, <5>2
      <4>3. Labels(left, d) = {Label(in, m) : m \in left.who[d]}
        BY <2>10, <4>1 DEF Labels
      <4>4. t.view[q].who = Labels(in, d)
        <5>1. CASE d = c
          <6>1. q \in in.who[c] /\ in.who[c] = left.who[c] \cup {p}
            BY <2>3, <2>5, <4>1, <5>1
          <6>2. t.view[q].who = left.view[q].who \cup {Label(in, p)}
            BY <2>7, <2>8, <2>9, <3>1, <3>4, <6>1
          <6> HIDE DEF d
          <6> QED BY <4>2, <4>3, <5>1, <6>1, <6>2 DEF Labels
        <5>2. CASE d # c
          <6>1. q \notin in.who[c] /\ in.who[d] = left.who[d]
            <7>1. q \notin left.who[c]
              BY <2>2, <2>3, <5>2 DEF Agrees
            <7> HIDE DEF d
            <7> QED BY <2>3, <2>5, <3>4, <4>1, <5>2, <7>1
          <6>2. t.view[q].who = left.view[q].who
            BY <2>7, <2>8, <3>1, <3>4, <6>1
          <6> HIDE DEF d
          <6> QED BY <4>2, <4>3, <6>1, <6>2 DEF Labels
        <5> QED BY <5>1, <5>2
      <4> QED BY <2>9, <3>4, <4>1, <4>2, <4>4 DEF Exact
    <3> QED BY <3>2, <3>3, <3>4
  <2>12. /\ U \subseteq Player /\ t.nick = [a \in Account |-> t.nick[a]]
         /\ \A m, q \in U : Username(t, m) = Username(t, q) => m = q
         /\ \A q \in Player : t.view[q].open => q \in on \cap U
    BY <2>2, <2>5, <2>9 DEF Faithful, Username
  <2> QED BY <2>1, <2>2, <2>5, <2>9, <2>11, <2>12 DEF Faithful
<1> QED BY <1>1, <1>2

(* A rank of t changed in s; the members are shown t anew.                 *)
LEMMA RefreshFaithful ==
  ASSUME NEW r, NEW U, Faithful(r, U), NEW s, Agrees(s, U), NEW t \in U, s.at[t] # None,
         s.who = r.who, s.at = r.at, s.nick = r.nick, s.name = r.name, s.view = r.view,
         \A m \in Player \ {t} : /\ m \in s.mod <=> m \in r.mod
                                 /\ m \in s.voiced <=> m \in r.voiced
  PROVE  Faithful(RefreshUser(s, t), U) /\ RefreshUser(s, t).nick = r.nick
<1> DEFINE c == s.at[t]
           u == PlayerLeave(s, s.who[c], t)
           w == PlayerEnter(u, s.who[c], t)
<1>1. RefreshUser(s, t) = w
  BY DEF RefreshUser
<1>2. t \in Player /\ c \in Conf /\ t \in s.who[c] /\ Agrees(r, U) /\ Shape(s)
  BY DEF Faithful, Agrees
<1>3. Viewed(s) /\ \A q \in Player : s.view[q].open => q \in on
  BY DEF Faithful, Viewed
<1>4. /\ Sent(s, u)
      /\ \A q \in Player : s.view[q].open =>
           /\ u.view[q].at = s.view[q].at
           /\ u.view[q].who = IF q \in s.who[c] THEN {x \in s.view[q].who : x[2] # Username(s, t)}
                                                ELSE s.view[q].who
  <2> DEFINE G(v, P, m) == Sent(s, v) /\ \A q \in Player : s.view[q].open =>
               v.view[q].at = s.view[q].at
               /\ v.view[q].who = IF q \in P THEN {x \in s.view[q].who : x[2] # Username(s, m)}
                                             ELSE s.view[q].who
  <2>1. \A P, m : G(PlayerLeave(s, P, m), P, m)
    BY <1>2, <1>3, MessagesSent
  <2> HIDE DEF G
  <2>2. G(u, s.who[c], t)
    BY <2>1
  <2> QED BY <2>2 DEF G
<1> HIDE DEF u
<1>5. Shape(u) /\ Viewed(u) /\ (\A q \in Player : u.view[q].open = s.view[q].open) /\ Label(u, t) = Label(s, t)
  BY <1>4, SentLabel DEF Sent
<1>6. /\ Sent(u, w)
      /\ \A q \in Player : u.view[q].open =>
           /\ w.view[q].at = u.view[q].at
           /\ w.view[q].who = IF q \in s.who[c] THEN u.view[q].who \cup {Label(u, t)} ELSE u.view[q].who
  <2> DEFINE G(v, P, m) == Sent(u, v) /\ \A q \in Player : u.view[q].open =>
               v.view[q].at = u.view[q].at
               /\ v.view[q].who = IF q \in P THEN u.view[q].who \cup {Label(u, m)} ELSE u.view[q].who
  <2>1. \A P, m : G(PlayerEnter(u, P, m), P, m)
    BY ZenonT(60), <1>3, <1>5, MessagesSent
  <2> HIDE DEF G
  <2>2. G(w, s.who[c], t)
    BY <2>1
  <2> QED BY <2>2 DEF G
<1> HIDE DEF w
<1>7. /\ Alike(s, w) /\ Viewed(w) /\ w.nick = s.nick /\ w.name = s.name
      /\ \A d : Labels(w, d) = Labels(s, d)
      /\ \A q \in Player : w.view[q].open = s.view[q].open
  <2>1. (\A d : Labels(w, d) = Labels(u, d)) /\ (\A d : Labels(u, d) = Labels(s, d))
    BY <1>4, <1>6, SentLabel
  <2> QED BY <1>4, <1>5, <1>6, <2>1, Alike3 DEF Sent
<1>8. \A m \in Player \ {t} : Label(s, m) = Label(r, m)
  BY SameLabel
<1> HIDE DEF c
<1>9. ASSUME NEW q \in Player, w.view[q].open PROVE Exact(w, q)
  <2>1. s.view[q].open /\ u.view[q].open /\ Exact(r, q) /\ w.at = s.at
    BY <1>5, <1>7, <1>9 DEF Faithful, Alike
  <2>2. CASE s.at[q] = None
    <3>1. q \notin s.who[c]
      BY <1>2, <2>2, Nulls DEF Agrees
    <3> QED BY <1>4, <1>6, <2>1, <2>2, <3>1 DEF Exact
  <2>3. CASE s.at[q] # None
    <3> DEFINE d == s.at[q]
    <3>1. d \in Conf /\ q \in s.who[d] /\ \A m \in s.who[d] : m \in Player /\ s.at[m] = d
      BY <2>3 DEF Agrees
    <3>2. s.view[q].who = {Label(r, m) : m \in s.who[d]} /\ s.view[q].at = s.name[d]
      BY <2>1, <2>3 DEF Exact, Labels
    <3>3. w.view[q].at = w.name[d]
      BY <1>4, <1>6, <1>7, <2>1, <3>2
    <3>4. w.view[q].who = {Label(s, m) : m \in s.who[d]}
      <4>1. CASE d = c
        <5>1. w.view[q].who = {x \in s.view[q].who : x[2] # Username(s, t)} \cup {Label(s, t)}
          BY <1>4, <1>5, <1>6, <2>1, <3>1, <4>1
        <5>2. \A m \in s.who[d] : Label(r, m)[2] = Username(s, t) <=> m = t
          <6>1. /\ \A m : Label(r, m)[2] = Username(r, m)
                /\ Username(s, t) = Username(r, t)
            BY DEF Label, Username
          <6> QED BY <3>1, <6>1, NameOfLabel
        <5>3. t \in s.who[d] /\ \A m \in s.who[d] : m # t => Label(s, m) = Label(r, m)
          BY <1>2, <1>8, <3>1, <4>1
        <5> HIDE DEF d
        <5> QED BY <3>2, <5>1, <5>2, <5>3
      <4>2. CASE d # c
        <5>1. q \notin s.who[c] /\ t \notin s.who[d]
          BY <1>2, <3>1, <4>2 DEF Agrees, c
        <5>2. w.view[q].who = s.view[q].who
          BY <1>4, <1>6, <2>1, <5>1
        <5>3. \A m \in s.who[d] : Label(s, m) = Label(r, m)
          BY <1>8, <3>1, <5>1
        <5> HIDE DEF d
        <5> QED BY <3>2, <5>2, <5>3
      <4> QED BY <4>1, <4>2
    <3> QED BY <1>7, <2>1, <2>3, <3>3, <3>4 DEF Exact, Labels
  <2> QED BY <2>2, <2>3
<1>10. Agrees(w, U)
  BY <1>7, AlikeAgrees
<1> QED BY <1>1, <1>7, <1>9, <1>10 DEF Faithful, Username

-----------------------------------------------------------------------------
(* The steps, as the clients see them.                                     *)

(* No two accounts share a nickname, and every chat user's has one.        *)
Nicknames(s, U) ==
  /\ \A a, b \in Account : s.nick[a] # None /\ s.nick[a] = s.nick[b] => a = b
  /\ \A p \in U : s.nick[AccountOf[p]] # None

ViewInv == Faithful(chat, users) /\ Nicknames(chat, users)

(* One account, one chat user.                                             *)
OneEach == \A p, q \in Player : AccountOf[p] = AccountOf[q] => p = q

LEMMA ViewInit == Init => ViewInv
<1> SUFFICES ASSUME Init PROVE ViewInv
  OBVIOUS
<1>1. Agrees(chat, users) /\ users = {}
  BY MemberInit DEF MemberInv, Init
<1>2. /\ chat.view = [p \in Player |-> Closed] /\ chat.nick = [a \in Account |-> None]
  BY DEF Init
<1>3. Viewed(chat) /\ \A p \in Player : ~chat.view[p].open
  <2>1. Closed = [open |-> Closed.open, at |-> Closed.at, who |-> Closed.who] /\ ~Closed.open
    BY DEF Closed
  <2> QED BY <1>2, <2>1 DEF Viewed
<1> QED BY <1>1, <1>2, <1>3 DEF ViewInv, Faithful, Nicknames

LEMMA StillFaithful ==
  ASSUME Faithful(chat', users'), on' = on PROVE Faithful(chat, users)'
BY DEF Faithful, Exact, Labels, Label, Username, Agrees, Shape, Field, Viewed

(* A step that leaves the nicknames and adds no chat user.                 *)
LEMMA SameNames ==
  ASSUME ViewInv, Faithful(chat', users'), on' = on, chat'.nick = chat.nick, users' \subseteq users
  PROVE  ViewInv'
BY StillFaithful DEF ViewInv, Nicknames

LEMMA OpenedWindow ==
  ASSUME ViewInv, NEW p \in Player, NEW n
  PROVE  LET s == OpenWindow(p, n) IN
           /\ Alike(chat, s) /\ Viewed(s) /\ s.name = chat.name
           /\ s.nick = [chat.nick EXCEPT ![AccountOf[p]] = n]
           /\ s.view[p] = [open |-> TRUE, at |-> None, who |-> {}]
           /\ \A q \in Player \ {p} : s.view[q] = chat.view[q]
<1> DEFINE s == OpenWindow(p, n)
<1>1. Alike(chat, s)
  BY WindowAlike DEF ViewInv, Faithful, MemberInv
<1>2. /\ s.name = chat.name /\ s.nick = [chat.nick EXCEPT ![AccountOf[p]] = n]
      /\ s.view = [chat.view EXCEPT ![p] = [Closed EXCEPT !.open = TRUE]]
  BY DEF OpenWindow, ViewInv, Faithful, Agrees, Shape, Field
<1>3. [Closed EXCEPT !.open = TRUE] = [open |-> TRUE, at |-> None, who |-> {}]
  <2>1. ASSUME NEW v PROVE [Closed EXCEPT !.open = v] = [open |-> v, at |-> None, who |-> {}]
    <3>1. Closed = [open |-> FALSE, at |-> None, who |-> {}]
      BY DEF Closed
    <3> QED BY <3>1
  <2>2. \A v : [Closed EXCEPT !.open = v] = [open |-> v, at |-> None, who |-> {}]
    BY <2>1
  <2> QED BY <2>2, Zenon
<1> HIDE DEF s
<1>4. chat.view = [q \in Player |-> chat.view[q]]
  BY DEF ViewInv, Faithful, Viewed
<1>5. /\ s.view = [q \in Player |-> s.view[q]]
      /\ s.view[p] = [open |-> TRUE, at |-> None, who |-> {}]
      /\ \A q \in Player \ {p} : s.view[q] = chat.view[q]
  BY <1>2, <1>3, <1>4
<1>6. ASSUME NEW q \in Player
      PROVE  s.view[q] = [open |-> s.view[q].open, at |-> s.view[q].at, who |-> s.view[q].who]
  BY <1>5 DEF ViewInv, Faithful, Viewed
<1>7. /\ Alike(chat, s) /\ Viewed(s) /\ s.name = chat.name
      /\ s.nick = [chat.nick EXCEPT ![AccountOf[p]] = n]
      /\ s.view[p] = [open |-> TRUE, at |-> None, who |-> {}]
      /\ \A q \in Player \ {p} : s.view[q] = chat.view[q]
  BY <1>1, <1>2, <1>5, <1>6 DEF Viewed
<1> QED BY <1>7 DEF s

(* A fresh window, and then the members.                                   *)
LEMMA OpenAgainFaithful ==
  ASSUME ViewInv, NEW p \in Player, OpenAgain(p)
  PROVE  ViewInv'
<1> DEFINE s == OpenWindow(p, Username(chat, p))
<1>1. p \in on \cap users /\ UNCHANGED <<on, users>>
      /\ chat' = IF s.at[p] = None THEN s ELSE SendMembers(s, p, s.at[p])
  BY DEF OpenAgain
<1>2. /\ Alike(chat, s) /\ Viewed(s) /\ s.name = chat.name
      /\ s.nick = [chat.nick EXCEPT ![AccountOf[p]] = Username(chat, p)]
      /\ s.view[p] = [open |-> TRUE, at |-> None, who |-> {}]
      /\ \A q \in Player \ {p} : s.view[q] = chat.view[q]
  BY ZenonT(60), OpenedWindow
<1> HIDE DEF s
<1>3. s.nick = chat.nick
  BY <1>2 DEF ViewInv, Faithful, Username
<1>4. Agrees(s, users) /\ Shape(s) /\ s.who = chat.who /\ s.at = chat.at
  BY <1>2, AlikeAgrees DEF ViewInv, Faithful, Alike
<1>5. \A q : Label(s, q) = Label(chat, q)
  BY <1>2, <1>3, SameLabel DEF Alike
<1>6. \A d : Labels(s, d) = Labels(chat, d)
  BY <1>4, <1>5 DEF Labels
<1>7. \A q \in Player : s.view[q].open => q \in on \cap users
  BY <1>1, <1>2 DEF ViewInv, Faithful
<1>8. \A q \in Player \ {p} : s.view[q].open => Exact(s, q)
  BY <1>2, <1>4, <1>6 DEF ViewInv, Faithful, Exact
<1>9. CASE s.at[p] = None
  <2>1. Exact(s, p)
    BY <1>2, <1>9 DEF Exact
  <2>2. Faithful(s, users)
    BY <1>2, <1>3, <1>4, <1>7, <1>8, <2>1 DEF ViewInv, Faithful, Username
  <2> QED BY <1>1, <1>3, <1>9, <2>2, SameNames
<1>10. CASE s.at[p] # None
  <2> DEFINE c == s.at[p]
             t == SendMembers(s, p, c)
  <2>1. /\ Sent(s, t)
        /\ \A q \in Player : s.view[q].open =>
             /\ t.view[q].at = (IF q = p THEN s.name[c] ELSE s.view[q].at)
             /\ t.view[q].who = IF q = p THEN s.view[q].who \cup Labels(s, c) ELSE s.view[q].who
    <3> DEFINE G(u, m, d) == Sent(s, u) /\ \A q \in Player : s.view[q].open =>
                 u.view[q].at = (IF q = m THEN s.name[d] ELSE s.view[q].at)
                 /\ u.view[q].who = IF q = m THEN s.view[q].who \cup Labels(s, d) ELSE s.view[q].who
    <3>1. \A q \in Player : s.view[q].open => q \in on
      BY <1>7
    <3>2. \A m \in Player : \A d : G(SendMembers(s, m, d), m, d)
      BY ZenonT(60), <1>2, <1>4, <3>1, MessagesSent
    <3> HIDE DEF G
    <3>3. G(t, p, c)
      BY <3>2
    <3> QED BY <3>3 DEF G
  <2>2. chat' = t
    BY <1>1, <1>10
  <2> HIDE DEF t
  <2>3. /\ Agrees(t, users) /\ Viewed(t) /\ t.nick = s.nick /\ t.name = s.name /\ t.at = s.at
        /\ \A q \in Player : t.view[q].open = s.view[q].open
        /\ \A d : Labels(t, d) = Labels(s, d)
    BY <1>4, <2>1, SentLabel, AlikeAgrees DEF Sent, Alike
  <2>4. Exact(t, p)
    BY <1>2, <1>10, <2>1, <2>3 DEF Exact
  <2>5. ASSUME NEW q \in Player \ {p}, t.view[q].open PROVE Exact(t, q)
    <3>1. s.view[q].open /\ Exact(s, q)
      BY <1>8, <2>3, <2>5
    <3>2. t.view[q].at = s.view[q].at /\ t.view[q].who = s.view[q].who
      BY <2>1, <2>5, <3>1
    <3> QED BY <2>3, <3>1, <3>2 DEF Exact
  <2>6. Faithful(t, users)
    BY <1>3, <1>7, <2>3, <2>4, <2>5 DEF ViewInv, Faithful, Username
  <2> QED BY <1>1, <1>3, <2>2, <2>3, <2>6, SameNames
<1> QED BY <1>9, <1>10

(* A new chat user, under a name that nobody else has.                     *)
LEMMA OpenFaithful ==
  ASSUME OneEach, ViewInv, NEW p \in Player, NEW n \in Nick, Open(p, n)
  PROVE  ViewInv'
<1> DEFINE s == OpenWindow(p, n)
           a == AccountOf[p]
<1>1. /\ p \in on \ users /\ users' = users \cup {p} /\ on' = on
      /\ chat.nick[a] = n \/ (chat.nick[a] = None /\ \A b \in Account : chat.nick[b] # n)
      /\ (\E c \in FirstJoinable : chat' = AddUser(s, c, p, None)) \/ chat' = s
  BY DEF Open, MayBeCalled
<1>2. /\ Alike(chat, s) /\ Viewed(s) /\ s.name = chat.name
      /\ s.nick = [chat.nick EXCEPT ![a] = n]
      /\ s.view[p] = [open |-> TRUE, at |-> None, who |-> {}]
      /\ \A q \in Player \ {p} : s.view[q] = chat.view[q]
  BY ZenonT(60), OpenedWindow
<1>3. a \in Account /\ n # None /\ \A q \in Player : AccountOf[q] \in Account
  BY Accounts, Nulls
<1> HIDE DEF s
<1>4. /\ s.nick = [b \in Account |-> s.nick[b]]
      /\ \A b \in Account : s.nick[b] = IF b = a THEN n ELSE chat.nick[b]
  BY <1>2, <1>3 DEF ViewInv, Faithful
<1>5. Nicknames(s, users')
  BY <1>1, <1>3, <1>4 DEF ViewInv, Faithful, Nicknames
<1>6. Agrees(s, users') /\ Agrees(chat, users) /\ s.who = chat.who /\ s.at = chat.at /\ chat.at[p] = None
  <2>1. Agrees(chat, users') /\ Agrees(chat, users) /\ chat.at[p] = None
    BY <1>1 DEF ViewInv, Faithful, Agrees
  <2> QED BY <1>2, <2>1, AlikeAgrees DEF Alike
<1>7. \A q \in Player \ {p} : Label(s, q) = Label(chat, q)
  <2>1. ASSUME NEW q \in Player \ {p} PROVE Label(s, q) = Label(chat, q)
    <3>1. AccountOf[q] # a /\ AccountOf[q] \in Account
      BY <1>3, <2>1 DEF OneEach
    <3>2. Username(s, q) = Username(chat, q)
      BY <1>4, <3>1 DEF Username
    <3> QED BY <1>2, <3>2 DEF Label, Alike
  <2> QED BY <2>1
<1>8. Exact(s, p)
  BY <1>2, <1>6 DEF Exact
<1>9. ASSUME NEW q \in Player \ {p}, s.view[q].open PROVE Exact(s, q)
  <2>1. Exact(chat, q) /\ s.view[q] = chat.view[q]
    BY <1>2, <1>9 DEF ViewInv, Faithful
  <2>2. CASE chat.at[q] = None
    BY <1>6, <2>1, <2>2 DEF Exact
  <2>3. CASE chat.at[q] # None
    <3>1. \A m \in chat.who[chat.at[q]] : m \in Player \ {p}
      BY <1>6, <2>3, Nulls DEF Agrees
    <3>2. Labels(s, chat.at[q]) = Labels(chat, chat.at[q])
      BY <1>6, <1>7, <3>1 DEF Labels
    <3> QED BY <1>2, <1>6, <2>1, <2>3, <3>2 DEF Exact
  <2> QED BY <2>2, <2>3
<1>10. \A q, m \in users' : Username(s, q) = Username(s, m) => q = m
  <2>1. users' \subseteq Player
    BY <1>1 DEF ViewInv, Faithful
  <2> QED BY <1>3, <1>5, <2>1 DEF Nicknames, Username, OneEach
<1>11. Faithful(s, users')
  BY <1>1, <1>2, <1>4, <1>6, <1>8, <1>9, <1>10 DEF ViewInv, Faithful
<1>12. Faithful(chat', users') /\ chat'.nick = s.nick
  <2>1. FirstJoinable \subseteq s.live
    BY <1>2, <1>6 DEF FirstJoinable, Alike, Agrees
  <2>2. p \in users'
    BY <1>1
  <2> QED BY <1>1, <1>11, <2>1, <2>2, AddedFaithful
<1> QED BY <1>1, <1>5, <1>12, StillFaithful DEF ViewInv, Nicknames

LEMMA LeaveFaithful ==
  ASSUME ViewInv, NEW p \in Player, LeaveChat(p)
  PROVE  ViewInv'
<1> DEFINE s == Left(chat, p)
<1>1. Faithful(s, users) /\ Without(chat, s, p) /\ s.nick = chat.nick
  BY LeftFaithful DEF ViewInv
<1>2. chat' = [s EXCEPT !.view[p] = Closed] /\ users' = users \ {p} /\ on' = on
  BY DEF LeaveChat
<1> HIDE DEF s
<1>3. /\ Alike(s, chat') /\ chat'.nick = s.nick /\ chat'.name = s.name
      /\ chat'.view = [s.view EXCEPT ![p] = Closed]
  BY <1>1, <1>2 DEF Faithful, Agrees, Shape, Field, Alike
<1>4. /\ Viewed(chat') /\ ~chat'.view[p].open
      /\ \A q \in Player \ {p} : chat'.view[q] = s.view[q]
  <2>1. Closed = [open |-> Closed.open, at |-> Closed.at, who |-> Closed.who] /\ ~Closed.open
    BY DEF Closed
  <2>2. s.view = [q \in Player |-> s.view[q]]
    BY <1>1 DEF Faithful, Viewed
  <2> QED BY <1>1, <1>3, <2>1, <2>2 DEF Faithful, Viewed
<1>5. Agrees(chat', users')
  <2>1. Agrees(s, users')
    BY <1>1, <1>2 DEF Faithful, Agrees, Without
  <2> QED BY <1>3, <2>1, AlikeAgrees
<1>6. \A d : Labels(chat', d) = Labels(s, d)
  <2>1. \A q : Label(chat', q) = Label(s, q)
    BY <1>3, SameLabel DEF Alike
  <2> QED BY <1>3, <2>1 DEF Labels, Alike
<1>7. ASSUME NEW q \in Player, chat'.view[q].open PROVE q \in on \cap users' /\ Exact(chat', q)
  <2>1. q # p /\ s.view[q] = chat'.view[q] /\ Exact(s, q) /\ q \in on \cap users
    BY <1>1, <1>4, <1>7 DEF Faithful
  <2> QED BY <1>2, <1>3, <1>6, <2>1 DEF Exact, Alike
<1>8. Faithful(chat', users')
  BY <1>1, <1>2, <1>3, <1>4, <1>5, <1>7 DEF Faithful, Username
<1> QED BY <1>1, <1>2, <1>3, <1>8, SameNames

LEMMA JoinFaithful ==
  ASSUME ViewInv, NEW p \in Player, NEW n, NEW pw,
         JoinConference(p, n, pw) \/ CreateConference(p, n, pw)
  PROVE  ViewInv'
<1>1. p \in users /\ UNCHANGED <<on, users>>
  BY DEF JoinConference, CreateConference, Acts
<1>2. CASE \E c \in Named(n) : chat' = AddUser(chat, c, p, pw)
  BY <1>1, <1>2, AddedFaithful, SameNames DEF Named, ViewInv
<1>3. ASSUME NEW c \in Conf \ chat.live, chat' = AddUser(Create(chat, c, n, pw), c, p, pw)
      PROVE  ViewInv'
  <2> DEFINE s == Create(chat, c, n, pw)
  <2>1. /\ Shape(s) /\ s.live = chat.live \cup {c} /\ s.who = chat.who /\ s.at = chat.at
        /\ s.mod = chat.mod /\ s.voiced = chat.voiced
        /\ s.nick = chat.nick /\ s.view = chat.view
        /\ \A d : d # c => s.name[d] = chat.name[d]
    <3>1. Shape(chat)
      BY DEF ViewInv, Faithful, Agrees
    <3>2. /\ Shape(s) /\ s.live = chat.live \cup {c} /\ s.who = chat.who /\ s.at = chat.at
          /\ s.mod = chat.mod /\ s.voiced = chat.voiced
          /\ s.nick = chat.nick /\ s.view = chat.view
      BY <3>1 DEF Shape, Field, Create
    <3>3. s.name = [chat.name EXCEPT ![c] = n]
      BY <3>1 DEF Shape, Field, Create
    <3> HIDE DEF s
    <3> QED BY <3>2, <3>3
  <2> HIDE DEF s
  <2>2. Agrees(s, users) /\ c \in s.live
    BY <2>1 DEF ViewInv, Faithful, Agrees
  <2>3. \A d : Labels(s, d) = Labels(chat, d)
    <3>1. \A q : Label(s, q) = Label(chat, q)
      BY <2>1, SameLabel
    <3> QED BY <2>1, <3>1 DEF Labels
  <2>4. \A q \in Player : s.view[q].open => Exact(s, q)
    <3>1. \A q \in Player : chat.at[q] # c
      BY <1>3, Nulls DEF ViewInv, Faithful, Agrees
    <3> QED BY <2>1, <2>3, <3>1 DEF ViewInv, Faithful, Exact
  <2>5. Faithful(s, users)
    BY <2>1, <2>2, <2>4 DEF ViewInv, Faithful, Viewed, Username
  <2>6. Faithful(chat', users) /\ chat'.nick = chat.nick
    BY <1>1, <1>3, <2>1, <2>2, <2>5, AddedFaithful DEF s
  <2> QED BY <1>1, <2>6, SameNames
<1> QED BY <1>2, <1>3 DEF JoinConference, CreateConference

(* All members are told the new name.                                      *)
LEMMA RenameFaithful ==
  ASSUME ViewInv, NEW p \in Player, NEW n, RenameConference(p, n)
  PROVE  ViewInv'
<1> DEFINE c == chat.at[p]
           s == [chat EXCEPT !.name[c] = n]
           t == ConferenceEnter(s, s.who[c], c)
<1>1. UNCHANGED <<on, users>> /\ c # None /\ chat' = t
  BY DEF RenameConference, Moderates, Acts
<1>2. /\ Alike(chat, s) /\ s.nick = chat.nick /\ s.view = chat.view
      /\ \A d : d # c => s.name[d] = chat.name[d]
  BY DEF ViewInv, Faithful, Agrees, Shape, Field, Alike
<1> HIDE DEF s
<1>3. Viewed(s) /\ Agrees(s, users) /\ Shape(s) /\ \A q \in Player : s.view[q].open => q \in on \cap users
  BY <1>2, AlikeAgrees DEF ViewInv, Faithful, Viewed, Alike
<1>4. /\ Sent(s, t)
      /\ \A q \in Player : s.view[q].open =>
           /\ t.view[q].at = (IF q \in s.who[c] THEN s.name[c] ELSE s.view[q].at)
           /\ t.view[q].who = s.view[q].who
  <2> DEFINE G(u, P, d) == Sent(s, u) /\ \A q \in Player : s.view[q].open =>
               u.view[q].at = (IF q \in P THEN s.name[d] ELSE s.view[q].at)
               /\ u.view[q].who = s.view[q].who
  <2>1. \A q \in Player : s.view[q].open => q \in on
    BY <1>3
  <2>2. \A P, d : G(ConferenceEnter(s, P, d), P, d)
    BY <1>3, <2>1, MessagesSent
  <2> HIDE DEF G
  <2>3. G(t, s.who[c], c)
    BY <2>2
  <2> QED BY <2>3 DEF G
<1> HIDE DEF t
<1>5. /\ Agrees(t, users) /\ Viewed(t) /\ t.nick = chat.nick /\ t.name = s.name /\ t.at = chat.at
      /\ \A q \in Player : t.view[q].open = s.view[q].open
  BY <1>2, <1>3, <1>4, SentLabel, AlikeAgrees DEF Sent, Alike
<1>6. \A d : Labels(t, d) = Labels(chat, d)
  <2>1. \A q : Label(s, q) = Label(chat, q)
    BY <1>2, SameLabel DEF Alike
  <2>2. \A d : Labels(s, d) = Labels(chat, d)
    BY <1>2, <2>1 DEF Labels, Alike
  <2> QED BY <1>4, <2>2, SentLabel
<1>7. ASSUME NEW q \in Player, t.view[q].open PROVE Exact(t, q)
  <2>1. s.view[q].open /\ Exact(chat, q) /\ s.view[q] = chat.view[q]
    BY <1>2, <1>5, <1>7 DEF ViewInv, Faithful
  <2>2. chat.at[q] # None => (chat.at[q] = c <=> q \in s.who[c])
    BY <1>1, <1>2, <1>3 DEF Agrees, Alike
  <2>3. CASE chat.at[q] = None
    BY <1>4, <1>5, <2>1, <2>3 DEF Exact
  <2>4. CASE chat.at[q] # None
    <3>1. t.view[q].who = Labels(t, t.at[q])
      BY <1>4, <1>5, <1>6, <2>1, <2>4 DEF Exact
    <3>2. t.view[q].at = t.name[t.at[q]]
      BY <1>2, <1>4, <1>5, <2>1, <2>2, <2>4 DEF Exact
    <3> QED BY <1>5, <2>4, <3>1, <3>2 DEF Exact
  <2> QED BY <2>3, <2>4
<1>8. Faithful(t, users)
  BY <1>3, <1>5, <1>7 DEF ViewInv, Faithful, Username
<1> QED BY <1>1, <1>5, <1>8, SameNames

LEMMA PasswordFaithful ==
  ASSUME ViewInv, NEW p \in Player, NEW pw, ChangePassword(p, pw)
  PROVE  ViewInv'
<1>1. UNCHANGED <<on, users>> /\ chat' = [chat EXCEPT !.pass[chat.at[p]] = Stored(pw)]
  BY DEF ChangePassword, Moderates, Acts
<1>2. /\ Alike(chat, chat') /\ chat'.nick = chat.nick /\ chat'.name = chat.name
      /\ chat'.view = chat.view
  BY <1>1 DEF ViewInv, Faithful, Agrees, Shape, Field, Alike
<1>3. \A d : Labels(chat', d) = Labels(chat, d)
  <2>1. \A q : Label(chat', q) = Label(chat, q)
    BY <1>2, SameLabel DEF Alike
  <2> QED BY <1>2, <2>1 DEF Labels, Alike
<1>4. \A q \in Player : Exact(chat, q) => Exact(chat', q)
  BY <1>2, <1>3 DEF Exact, Alike
<1>5. Agrees(chat', users)
  BY <1>2, AlikeAgrees DEF ViewInv, Faithful
<1>6. Faithful(chat', users)
  BY <1>2, <1>4, <1>5 DEF ViewInv, Faithful, Viewed, Username
<1> QED BY <1>1, <1>2, <1>6, SameNames

LEMMA RankFaithful ==
  ASSUME ViewInv, NEW p \in Player, NEW t \in Player, NEW b \in BOOLEAN,
         Voice(p, t, b) \/ Moderator(p, t, b)
  PROVE  ViewInv'
<1>1. UNCHANGED <<on, users>> /\ chat.at[p] # None /\ t \in Members(p)
  BY DEF Voice, Moderator, Moderates, Acts
<1>2. chat.at[t] = chat.at[p] /\ t \in users
  BY <1>1 DEF ViewInv, Faithful, Agrees, Members
<1>3. ASSUME NEW s, Shape(s), s.live = chat.live, s.who = chat.who, s.at = chat.at,
             s.nick = chat.nick, s.name = chat.name, s.view = chat.view,
             s.mod \cap s.voiced = {}, s.mod \cup s.voiced \subseteq chat.mod \cup chat.voiced \cup {t},
             \A m \in Player \ {t} : /\ m \in s.mod <=> m \in chat.mod
                                     /\ m \in s.voiced <=> m \in chat.voiced,
             chat' = RefreshUser(s, t)
      PROVE  ViewInv'
  <2>1. Agrees(s, users)
    BY <1>1, <1>2, <1>3 DEF ViewInv, Faithful, Agrees
  <2>2. Faithful(chat', users) /\ chat'.nick = chat.nick
    BY <1>1, <1>2, <1>3, <2>1, RefreshFaithful DEF ViewInv
  <2> QED BY <1>1, <2>2, SameNames
<1>4. CASE Voice(p, t, b)
  <2> DEFINE s == [chat EXCEPT !.voiced = IF b THEN @ \cup {t} ELSE @ \ {t}]
  <2>1. Shape(s) /\ s.live = chat.live /\ s.who = chat.who /\ s.at = chat.at /\ s.mod = chat.mod
        /\ s.nick = chat.nick /\ s.name = chat.name /\ s.view = chat.view
        /\ s.voiced = IF b THEN chat.voiced \cup {t} ELSE chat.voiced \ {t}
    BY DEF ViewInv, Faithful, Agrees, Shape, Field
  <2>2. chat' = RefreshUser(s, t) /\ t \notin chat.mod
    BY <1>4 DEF Voice
  <2> HIDE DEF s
  <2>3. s.mod \cap s.voiced = {} /\ s.mod \cup s.voiced \subseteq chat.mod \cup chat.voiced \cup {t}
    BY <2>1, <2>2 DEF ViewInv, Faithful, Agrees
  <2> QED BY <1>3, <2>1, <2>2, <2>3
<1>5. CASE Moderator(p, t, b)
  <2> DEFINE s == IF b THEN Promoted(chat, t) ELSE [chat EXCEPT !.mod = @ \ {t}]
  <2>1. Shape(s) /\ s.live = chat.live /\ s.who = chat.who /\ s.at = chat.at
        /\ s.nick = chat.nick /\ s.name = chat.name /\ s.view = chat.view
        /\ s.mod = (IF b THEN chat.mod \cup {t} ELSE chat.mod \ {t})
        /\ s.voiced = IF b THEN chat.voiced \ {t} ELSE chat.voiced
    BY DEF ViewInv, Faithful, Agrees, Shape, Field, Promoted
  <2>2. chat' = RefreshUser(s, t)
    BY <1>5 DEF Moderator
  <2> HIDE DEF s
  <2>3. s.mod \cap s.voiced = {} /\ s.mod \cup s.voiced \subseteq chat.mod \cup chat.voiced \cup {t}
    BY <2>1 DEF ViewInv, Faithful, Agrees
  <2> QED BY <1>3, <2>1, <2>2, <2>3
<1> QED BY <1>4, <1>5

LEMMA KickFaithful ==
  ASSUME ViewInv, NEW p \in Player, NEW t \in Player, Kick(p, t)
  PROVE  ViewInv'
<1>1. UNCHANGED <<on, users>> /\ chat.at[p] # None /\ t \in Members(p) /\ chat' = RemoveUser(chat, t)
  BY DEF Kick, Moderates, Acts
<1>2. chat.at[t] # None
  BY <1>1 DEF ViewInv, Faithful, Agrees, Members
<1>3. Faithful(chat', users) /\ chat'.nick = chat.nick
  BY <1>1, <1>2, RemovedFaithful DEF ViewInv
<1> QED BY <1>1, <1>3, SameNames

(* Who comes has no window yet; who goes closes it.                        *)
LEMMA ConnectFaithful ==
  ASSUME ViewInv, NEW p \in Player, Connect(p) \/ ChangeLevel(p)
  PROVE  ViewInv'
<1>1. UNCHANGED <<users, chat>> /\ on \subseteq on'
  BY DEF Connect, ChangeLevel
<1> QED BY <1>1 DEF ViewInv, Faithful, Nicknames

LEMMA DisconnectFaithful ==
  ASSUME ViewInv, NEW p \in Player, Disconnect(p)
  PROVE  ViewInv'
<1>1. on' = on \ {p} /\ users' = users /\ chat' = [chat EXCEPT !.view[p] = Closed]
  BY DEF Disconnect
<1>2. /\ Alike(chat, chat') /\ chat'.nick = chat.nick /\ chat'.name = chat.name
      /\ chat'.view = [chat.view EXCEPT ![p] = Closed]
  BY <1>1 DEF ViewInv, Faithful, Agrees, Shape, Field, Alike
<1>3. /\ Viewed(chat') /\ ~chat'.view[p].open
      /\ \A q \in Player \ {p} : chat'.view[q] = chat.view[q]
  <2>1. Closed = [open |-> Closed.open, at |-> Closed.at, who |-> Closed.who] /\ ~Closed.open
    BY DEF Closed
  <2>2. chat.view = [q \in Player |-> chat.view[q]]
    BY DEF ViewInv, Faithful, Viewed
  <2> QED BY <1>2, <2>1, <2>2 DEF ViewInv, Faithful, Viewed
<1>4. \A d : Labels(chat', d) = Labels(chat, d)
  <2>1. \A q : Label(chat', q) = Label(chat, q)
    BY <1>2, SameLabel DEF Alike
  <2> QED BY <1>2, <2>1 DEF Labels, Alike
<1>5. ASSUME NEW q \in Player, chat'.view[q].open PROVE q \in on' \cap users' /\ Exact(chat', q)
  <2>1. q # p /\ chat.view[q] = chat'.view[q] /\ Exact(chat, q) /\ q \in on \cap users
    BY <1>3, <1>5 DEF ViewInv, Faithful
  <2> QED BY <1>1, <1>2, <1>4, <2>1 DEF Exact, Alike
<1>6. Agrees(chat', users')
  BY <1>1, <1>2, AlikeAgrees DEF ViewInv, Faithful
<1>7. Faithful(chat, users)'
  <2>1. /\ users' \subseteq Player /\ chat'.nick = [a \in Account |-> chat'.nick[a]]
        /\ \A q, m \in users' : Username(chat', q) = Username(chat', m) => q = m
    BY <1>1, <1>2 DEF ViewInv, Faithful, Username
  <2> QED BY <1>3, <1>5, <1>6, <2>1 DEF Faithful
<1> QED BY <1>1, <1>2, <1>7 DEF ViewInv, Nicknames

LEMMA ViewStep == OneEach /\ ViewInv /\ [Next]_vars => ViewInv'
<1> SUFFICES ASSUME OneEach, ViewInv, [Next]_vars PROVE ViewInv'
  OBVIOUS
<1>1. CASE UNCHANGED vars
  BY <1>1 DEF vars, ViewInv, Faithful, Nicknames
<1>2. ASSUME NEW p \in Player,
             \/ Connect(p) \/ ChangeLevel(p) \/ Disconnect(p) \/ OpenAgain(p) \/ LeaveChat(p)
             \/ \E n \in Nick : Open(p, n)
      PROVE  ViewInv'
  BY <1>2, ConnectFaithful, DisconnectFaithful, OpenAgainFaithful, LeaveFaithful, OpenFaithful
<1>3. ASSUME NEW p \in Player, NEW n \in ConfName,
             \/ RenameConference(p, n)
             \/ \E pw \in Given : JoinConference(p, n, pw) \/ CreateConference(p, n, pw)
      PROVE  ViewInv'
  BY <1>3, RenameFaithful, JoinFaithful
<1>4. ASSUME NEW p \in Player, NEW pw \in Given, ChangePassword(p, pw) PROVE ViewInv'
  BY <1>4, PasswordFaithful
<1>5. ASSUME NEW p \in Player, NEW t \in Player,
             Kick(p, t) \/ \E b \in BOOLEAN : Voice(p, t, b) \/ Moderator(p, t, b)
      PROVE  ViewInv'
  BY <1>5, KickFaithful, RankFaithful
<1> QED BY <1>1, <1>2, <1>3, <1>4, <1>5 DEF Next

(* Every open window shows the members of the conference it is in, with    *)
(* their ranks, and its name, if no two players have one account: the      *)
(* server sends every change to everyone it concerns (Broadcast,           *)
(* Conference_RefreshUser, Chat_ResendConference).                         *)
THEOREM ViewsAreExact ==
  ASSUME \A p, q \in Player : AccountOf[p] = AccountOf[q] => p = q
  PROVE  Spec => []ViewIsExact
<1>1. OneEach
  BY DEF OneEach
<1>2. ViewInv => ViewIsExact
  BY DEF ViewInv, Faithful, Exact, Labels, ViewIsExact
<1>3. Init => ViewInv
  BY ViewInit
<1>4. ViewInv /\ [Next]_vars => ViewInv'
  BY <1>1, ViewStep
<1> QED BY <1>2, <1>3, <1>4, PTL DEF Spec

-----------------------------------------------------------------------------
(* Types.                                                                  *)

(* The states of chat while its chat users are U.                          *)
Window == [open : BOOLEAN, at : ConfName \cup {None}, who : SUBSET (Colour \X Nick)]
State(U) ==
  [nick : [Account -> Nick \cup {None}], live : SUBSET Conf,
   name : [Conf -> ConfName \cup {None}], pass : [Conf -> Given],
   who : [Conf -> SUBSET U], at : [Player -> Conf \cup {None}],
   mod : SUBSET U, voiced : SUBSET U, view : [Player -> Window]]

Typed(s, U) ==
  s \in State(U) /\ U \subseteq {p \in Player : s.nick[AccountOf[p]] # None}

LEMMA TypedIs == TypeOK <=> on \subseteq Player /\ level \in [Player -> 0..2] /\ Typed(chat, users)
BY DEF TypeOK, Typed, State, Window, Given

LEMMA TypedInit == Init => TypeOK
BY SeededOne, Nulls DEF Init, TypeOK, Closed

(* A chat user has a nickname, so its label can be shown.                  *)
LEMMA TypedLabel ==
  ASSUME NEW s, NEW U, Typed(s, U), NEW q \in U
  PROVE  Label(s, q) \in Colour \X Nick
<1>1. Username(s, q) \in Nick
  BY Accounts DEF Typed, State, Username
<1>2. \A k \in Colour : <<k, Username(s, q)>> \in Colour \X Nick
  BY <1>1
<1> QED BY <1>2 DEF Label, Colour

LEMMA TypedView ==
  ASSUME NEW s, NEW U, Typed(s, U), NEW v \in [Player -> Window]
  PROVE  Typed([s EXCEPT !.view = v], U)
BY DEF Typed, State

(* Messages keep the types if they name chat users and conferences.        *)
LEMMA TypedMessages ==
  ASSUME NEW s, NEW U, Typed(s, U)
  PROVE  /\ \A P : \A names \in [Player -> SUBSET (Colour \X Nick)] : Typed(Show(s, P, names), U)
         /\ \A P : \A c \in Conf : Typed(ConferenceEnter(s, P, c), U)
         /\ \A P : \A q \in U : Typed(PlayerEnter(s, P, q), U)
         /\ \A P : \A q \in Player : Typed(PlayerLeave(s, P, q), U)
         /\ \A p \in Player : Typed(PlayerClear(s, p), U)
         /\ \A p \in Player : \A c \in Conf : Typed(SendMembers(s, p, c), U)
<1>1. ASSUME NEW t, Typed(t, U), NEW P, NEW names \in [Player -> SUBSET (Colour \X Nick)]
      PROVE  Typed(Show(t, P, names), U)
  <2> DEFINE v == [p \in Player |-> IF Sees(t, p, P) THEN [t.view[p] EXCEPT !.who = names[p]] ELSE t.view[p]]
  <2>1. v \in [Player -> Window]
    BY <1>1 DEF Typed, State, Window
  <2> HIDE DEF v
  <2>2. Typed([t EXCEPT !.view = v], U)
    BY <1>1, <2>1, TypedView
  <2> QED BY <2>2 DEF Show, v
<1>2. ASSUME NEW P, NEW c \in Conf PROVE Typed(ConferenceEnter(s, P, c), U)
  <2> DEFINE v == [p \in Player |-> IF Sees(s, p, P) THEN [s.view[p] EXCEPT !.at = s.name[c]] ELSE s.view[p]]
  <2>1. v \in [Player -> Window]
    BY DEF Typed, State, Window
  <2> HIDE DEF v
  <2>2. Typed([s EXCEPT !.view = v], U)
    BY <2>1, TypedView
  <2> QED BY <2>2 DEF ConferenceEnter, v
<1>3. \A p \in Player : s.view[p].who \in SUBSET (Colour \X Nick)
  BY DEF Typed, State, Window
<1>4. ASSUME NEW P, NEW q \in U PROVE Typed(PlayerEnter(s, P, q), U)
  <2>1. [p \in Player |-> s.view[p].who \cup {Label(s, q)}] \in [Player -> SUBSET (Colour \X Nick)]
    BY <1>3, TypedLabel
  <2> QED BY <1>1, <2>1 DEF PlayerEnter
<1>5. ASSUME NEW P, NEW q \in Player PROVE Typed(PlayerLeave(s, P, q), U)
  <2>1. [p \in Player |-> {x \in s.view[p].who : x[2] # Username(s, q)}] \in [Player -> SUBSET (Colour \X Nick)]
    BY <1>3
  <2> QED BY <1>1, <2>1 DEF PlayerLeave
<1>6. ASSUME NEW p \in Player PROVE Typed(PlayerClear(s, p), U)
  BY <1>1 DEF PlayerClear
<1>7. ASSUME NEW p \in Player, NEW c \in Conf PROVE Typed(SendMembers(s, p, c), U)
  <2> DEFINE t == ConferenceEnter(s, {p}, c)
             names == [q \in Player |-> s.view[q].who \cup {Label(s, m) : m \in s.who[c]}]
  <2>1. \A m \in s.who[c] : Label(s, m) \in Colour \X Nick
    BY TypedLabel DEF Typed, State
  <2>2. names \in [Player -> SUBSET (Colour \X Nick)]
    BY <1>3, <2>1
  <2>3. Typed(t, U)
    BY <1>2
  <2> HIDE DEF t, names
  <2>4. Typed(Show(t, {p}, names), U)
    BY <1>1, <2>2, <2>3
  <2> QED BY <2>4 DEF SendMembers, t, names
<1> QED BY <1>1, <1>2, <1>4, <1>5, <1>6, <1>7

LEMMA TypedConferences ==
  ASSUME NEW s, NEW U, Typed(s, U)
  PROVE  /\ \A p \in Player : Typed(Unranked(s, p), U)
         /\ \A p \in Player : s.at[p] # None => Typed(TakenOut(s, p), U)
         /\ \A c \in Conf : Typed(Destroy(s, c), U)
         /\ \A c \in Conf : \A n \in ConfName : \A pw \in Given : Typed(Create(s, c, n, pw), U)
         /\ \A p \in U : Typed(Promoted(s, p), U)
<1>1. \A pw \in Given : Stored(pw) \in Given
  BY DEF Stored, Given, Cut
<1>2. None \in Given
  BY DEF Given
<1>3. ASSUME NEW p \in Player PROVE Typed(Unranked(s, p), U)
  BY DEF Typed, State, Unranked
<1>4. ASSUME NEW p \in Player, s.at[p] # None PROVE Typed(TakenOut(s, p), U)
  BY <1>4 DEF Typed, State, TakenOut
<1>5. ASSUME NEW c \in Conf PROVE Typed(Destroy(s, c), U)
  BY <1>2 DEF Typed, State, Destroy
<1>6. ASSUME NEW c \in Conf, NEW n \in ConfName, NEW pw \in Given PROVE Typed(Create(s, c, n, pw), U)
  BY <1>1 DEF Typed, State, Create
<1>7. ASSUME NEW p \in U PROVE Typed(Promoted(s, p), U)
  BY DEF Typed, State, Promoted
<1> QED BY <1>3, <1>4, <1>5, <1>6, <1>7

LEMMA TypedLeft ==
  ASSUME NEW s, NEW U, Typed(s, U), NEW p \in Player
  PROVE  Typed(Left(s, p), U) /\ (s.at[p] # None => Typed(RemoveUser(s, p), U))
<1>1. CASE s.at[p] = None
  BY <1>1 DEF Left
<1>2. CASE s.at[p] # None
  <2> DEFINE c == s.at[p]
             taken == TakenOut(s, p)
             left == Unranked(taken, p)
             gone == PlayerLeave(left, left.who[c], p)
             told == PlayerClear(gone, p)
  <2>1. c \in Conf
    BY <1>2 DEF Typed, State
  <2>2. Typed(taken, U)
    BY <1>2, TypedConferences
  <2> HIDE DEF taken
  <2>3. Typed(left, U)
    BY <2>2, TypedConferences
  <2> HIDE DEF left
  <2>4. Typed(gone, U)
    BY <2>3, TypedMessages
  <2> HIDE DEF gone
  <2>5. Typed(told, U)
    BY <2>4, TypedMessages
  <2> HIDE DEF told
  <2>6. Typed(Destroy(told, c), U)
    BY <2>1, <2>5, TypedConferences
  <2>7. RemoveUser(s, p) = IF Deserted(told, c) THEN Destroy(told, c) ELSE told
    BY DEF RemoveUser, told, gone, left, taken
  <2> QED BY <1>2, <2>5, <2>6, <2>7 DEF Left
<1> QED BY <1>1, <1>2

LEMMA TypedAdd ==
  ASSUME NEW s, NEW U, Typed(s, U), NEW p \in U, NEW c \in Conf, NEW pw
  PROVE  Typed(AddUser(s, c, p, pw), U)
<1> DEFINE left == Left(s, p)
           bare == Unranked(left, p)
           in == [bare EXCEPT !.at[p] = c, !.who[c] = @ \cup {p},
                              !.mod = IF Earns(left, c, p) THEN @ \cup {p} ELSE @]
           sent == SendMembers(in, p, c)
<1>1. p \in Player
  BY DEF Typed
<1>2. Typed(left, U)
  BY <1>1, TypedLeft
<1> HIDE DEF left
<1>3. Typed(bare, U)
  BY <1>1, <1>2, TypedConferences
<1> HIDE DEF bare
<1>4. Typed(in, U)
  BY <1>1, <1>3 DEF Typed, State
<1> HIDE DEF in
<1>5. Typed(sent, U)
  BY <1>1, <1>4, TypedMessages
<1> HIDE DEF sent
<1>6. Typed(PlayerEnter(sent, in.who[c], p), U)
  BY <1>5, TypedMessages
<1>7. AddUser(s, c, p, pw) = IF s.at[p] = c \/ ~Admits(s, c, pw) THEN s
                             ELSE PlayerEnter(sent, in.who[c], p)
  BY DEF AddUser, sent, in, bare, left
<1> QED BY <1>6, <1>7

LEMMA TypedRefresh ==
  ASSUME NEW s, NEW U, Typed(s, U), NEW t \in U
  PROVE  Typed(RefreshUser(s, t), U)
<1> DEFINE gone == PlayerLeave(s, s.who[s.at[t]], t)
<1>1. Typed(gone, U)
  BY TypedMessages DEF Typed
<1> HIDE DEF gone
<1>2. Typed(PlayerEnter(gone, s.who[s.at[t]], t), U)
  BY <1>1, TypedMessages
<1> QED BY <1>2 DEF RefreshUser, gone

(* A window opened under a nickname, by somebody who now has one.          *)
LEMMA TypedWindow ==
  ASSUME Typed(chat, users), NEW p \in Player, NEW n \in Nick
  PROVE  Typed(OpenWindow(p, n), users \cup {p})
<1> DEFINE s == OpenWindow(p, n)
<1>1. AccountOf[p] \in Account /\ n # None
  BY Accounts, Nulls
<1>2. s \in State(users \cup {p})
  BY <1>1 DEF Typed, State, Window, OpenWindow, Closed
<1>3. s.nick = [chat.nick EXCEPT ![AccountOf[p]] = n]
  BY DEF Typed, State, OpenWindow
<1>4. \A q \in Player : AccountOf[q] \in Account
  BY Accounts
<1> HIDE DEF s
<1>5. \A q \in users \cup {p} : q \in Player /\ s.nick[AccountOf[q]] # None
  BY <1>1, <1>3, <1>4 DEF Typed, State
<1> QED BY <1>2, <1>5 DEF Typed, s

LEMMA TypedStep == TypeOK /\ MemberInv /\ [Next]_vars => TypeOK'
<1> SUFFICES ASSUME TypeOK, MemberInv, [Next]_vars PROVE TypeOK'
  OBVIOUS
<1>1. on \subseteq Player /\ level \in [Player -> 0..2] /\ Typed(chat, users)
  BY TypedIs
<1>2. TypeOK' <=> on' \subseteq Player /\ level' \in [Player -> 0..2] /\ Typed(chat', users')
  BY DEF TypeOK, Typed, State, Window, Given
<1>3. \A p \in Player : \A l \in 0..Rank[p] : [level EXCEPT ![p] = l] \in [Player -> 0..2]
  BY <1>1, Accounts
<1>4. ASSUME NEW p \in Player, Connect(p) \/ ChangeLevel(p) PROVE TypeOK'
  BY <1>1, <1>2, <1>3, <1>4 DEF Connect, ChangeLevel
<1>5. ASSUME NEW p \in Player, Disconnect(p) PROVE TypeOK'
  <2> DEFINE v == [chat.view EXCEPT ![p] = Closed]
  <2>1. v \in [Player -> Window]
    BY <1>1 DEF Typed, State, Window, Closed
  <2>2. chat' = [chat EXCEPT !.view = v] /\ users' = users
    BY <1>1, <1>5 DEF Disconnect, Typed, State
  <2> HIDE DEF v
  <2>3. Typed([chat EXCEPT !.view = v], users)
    BY <1>1, <2>1, TypedView
  <2> QED BY <1>1, <1>2, <1>5, <2>2, <2>3 DEF Disconnect
<1>6. ASSUME NEW p \in Player, OpenAgain(p) PROVE TypeOK'
  <2> DEFINE s == OpenWindow(p, Username(chat, p))
  <2>1. p \in users /\ users \cup {p} = users /\ Username(chat, p) \in Nick
    BY <1>1, <1>6, Accounts DEF OpenAgain, Username, Typed, State
  <2>2. Typed(s, users)
    BY <1>1, <2>1, TypedWindow
  <2>3. chat' = IF s.at[p] = None THEN s ELSE SendMembers(s, p, s.at[p])
    BY <1>6 DEF OpenAgain
  <2> HIDE DEF s
  <2>4. s.at[p] # None => s.at[p] \in Conf
    BY <2>2 DEF Typed, State
  <2>5. Typed(chat', users)
    BY <2>2, <2>3, <2>4, TypedMessages
  <2> QED BY <1>1, <1>2, <1>6, <2>5 DEF OpenAgain
<1>7. ASSUME NEW p \in Player, NEW n \in Nick, Open(p, n) PROVE TypeOK'
  <2> DEFINE s == OpenWindow(p, n)
  <2>1. Typed(s, users') /\ p \in users'
    BY <1>1, <1>7, TypedWindow DEF Open
  <2>2. (\E c \in FirstJoinable : chat' = AddUser(s, c, p, None)) \/ chat' = s
    BY <1>7 DEF Open
  <2>3. FirstJoinable \subseteq Conf
    BY <1>1, SeededOne DEF FirstJoinable, Typed, State
  <2> HIDE DEF s
  <2>4. Typed(chat', users')
    BY <2>1, <2>2, <2>3, TypedAdd
  <2> QED BY <1>1, <1>2, <1>7, <2>4 DEF Open
<1>8. ASSUME NEW p \in Player, LeaveChat(p) PROVE TypeOK'
  <2> DEFINE s == Left(chat, p)
  <2>1. Typed(s, users) /\ Without(chat, s, p)
    BY <1>1, TypedLeft, LeftOr DEF MemberInv
  <2>2. chat' = [s EXCEPT !.view[p] = Closed] /\ users' = users \ {p}
    BY <1>8 DEF LeaveChat
  <2> HIDE DEF s
  <2>3. Typed(s, users')
    <3>1. s.who \in [Conf -> SUBSET users']
      BY <2>1, <2>2 DEF Typed, State, Without
    <3>2. s.mod \subseteq users' /\ s.voiced \subseteq users'
      BY <2>1, <2>2 DEF Typed, State, Without
    <3> QED BY <2>1, <2>2, <3>1, <3>2 DEF Typed, State
  <2>4. [s.view EXCEPT ![p] = Closed] \in [Player -> Window]
    BY <2>1 DEF Typed, State, Window, Closed
  <2>5. chat' = [s EXCEPT !.view = [s.view EXCEPT ![p] = Closed]]
    BY <2>1, <2>2 DEF Typed, State
  <2>6. Typed(chat', users')
    BY <2>3, <2>4, <2>5, TypedView
  <2> QED BY <1>1, <1>2, <1>8, <2>6 DEF LeaveChat
<1>9. ASSUME NEW p \in Player, NEW n \in ConfName, NEW pw \in Given,
             JoinConference(p, n, pw) \/ CreateConference(p, n, pw)
      PROVE  TypeOK'
  <2>1. p \in users /\ UNCHANGED <<on, level, users>>
    BY <1>9 DEF JoinConference, CreateConference, Acts
  <2>2. Named(n) \subseteq Conf
    BY <1>1 DEF Named, Typed, State
  <2>3. \/ \E c \in Named(n) : chat' = AddUser(chat, c, p, pw)
        \/ \E c \in Conf : chat' = AddUser(Create(chat, c, n, pw), c, p, pw)
    BY <1>9 DEF JoinConference, CreateConference
  <2>4. Typed(chat', users)
    BY <1>1, <2>1, <2>2, <2>3, TypedAdd, TypedConferences
  <2> QED BY <1>1, <1>2, <2>1, <2>4
<1>10. ASSUME NEW p \in Player, NEW n \in ConfName, RenameConference(p, n) PROVE TypeOK'
  <2> DEFINE c == chat.at[p]
             s == [chat EXCEPT !.name[c] = n]
  <2>1. c \in Conf /\ UNCHANGED <<on, level, users>> /\ chat' = ConferenceEnter(s, s.who[c], c)
    BY <1>1, <1>10 DEF RenameConference, Moderates, Acts, Typed, State
  <2>2. Typed(s, users)
    BY <1>1, <2>1 DEF Typed, State
  <2> HIDE DEF s
  <2>3. Typed(chat', users)
    BY <2>1, <2>2, TypedMessages
  <2> QED BY <1>1, <1>2, <2>1, <2>3
<1>11. ASSUME NEW p \in Player, NEW pw \in Given, ChangePassword(p, pw) PROVE TypeOK'
  <2>1. chat.at[p] \in Conf /\ UNCHANGED <<on, level, users>>
        /\ chat' = [chat EXCEPT !.pass[chat.at[p]] = Stored(pw)]
    BY <1>1, <1>11 DEF ChangePassword, Moderates, Acts, Typed, State
  <2>2. Stored(pw) \in Given
    BY DEF Stored, Given, Cut
  <2>3. Typed(chat', users)
    BY <1>1, <2>1, <2>2 DEF Typed, State
  <2> QED BY <1>1, <1>2, <2>1, <2>3
<1>12. ASSUME NEW p \in Player, NEW t \in Player, Kick(p, t) PROVE TypeOK'
  <2>1. t \in Members(p) /\ chat.at[p] \in Conf /\ UNCHANGED <<on, level, users>>
        /\ chat' = RemoveUser(chat, t)
    BY <1>1, <1>12 DEF Kick, Moderates, Acts, Typed, State
  <2>2. chat.at[t] # None
    BY <2>1, Nulls DEF Members, MemberInv, Agrees
  <2>3. Typed(chat', users)
    BY <1>1, <2>1, <2>2, TypedLeft
  <2> QED BY <1>1, <1>2, <2>1, <2>3
<1>13. ASSUME NEW p \in Player, NEW t \in Player, NEW b \in BOOLEAN, Voice(p, t, b) \/ Moderator(p, t, b)
       PROVE  TypeOK'
  <2>1. t \in Members(p) /\ chat.at[p] \in Conf /\ UNCHANGED <<on, level, users>>
    BY <1>1, <1>13 DEF Voice, Moderator, Moderates, Acts, Typed, State
  <2>2. t \in users
    BY <1>1, <2>1 DEF Members, Typed, State
  <2>3. PICK s : Typed(s, users) /\ chat' = RefreshUser(s, t)
    <3>1. Typed([chat EXCEPT !.voiced = IF b THEN @ \cup {t} ELSE @ \ {t}], users)
      BY <1>1, <2>2 DEF Typed, State
    <3>2. Typed([chat EXCEPT !.mod = @ \ {t}], users)
      BY <1>1, <2>2 DEF Typed, State
    <3>3. Typed(Promoted(chat, t), users)
      BY <1>1, <2>2, TypedConferences
    <3>4. CASE Voice(p, t, b)
      BY <3>1, <3>4 DEF Voice
    <3>5. CASE Moderator(p, t, b)
      BY <3>2, <3>3, <3>5 DEF Moderator
    <3> QED BY <1>13, <3>4, <3>5
  <2>4. Typed(chat', users)
    BY <2>2, <2>3, TypedRefresh
  <2> QED BY <1>1, <1>2, <2>1, <2>4
<1>14. CASE UNCHANGED vars
  BY <1>1, <1>2, <1>14 DEF vars
<1> QED BY <1>4, <1>5, <1>6, <1>7, <1>8, <1>9, <1>10, <1>11, <1>12, <1>13, <1>14 DEF Next

(* Every state has its types: in particular only chat users are listed or  *)
(* ranked, and each of them has a nickname (Chat_UserOpen, ChatUser_Remove).*)
THEOREM TypeCorrect == Spec => []TypeOK
BY TypedInit, TypedStep, MembersHold, PTL DEF Spec
=============================================================================
