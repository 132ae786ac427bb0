-------------------------------- MODULE Chat --------------------------------
(***************************************************************************)
(* Conference chat (src/chat.c): chat users, the conferences they are in,  *)
(* moderators and voiced members, and what the clients show of it.         *)
(*                                                                         *)
(* The messages of a step reach the clients in order, so a client is       *)
(* modelled by what it shows once everything sent to it has arrived.       *)
(* Abstractions: names fit their buffers; a member or conference looked up *)
(* by a name that several have may be any of them (the code takes the      *)
(* first); behind the seeded conference the order of the list is ignored.  *)
(* Speech, ignore lists and whois, which change nothing here, are left     *)
(* out, as are the list of conferences a client shows and characters       *)
(* without an account.                                                     *)
(***************************************************************************)
EXTENDS Naturals, FiniteSets

CONSTANTS
    Player,
    Account, AccountOf,   \* the account of each character
    Rank,                 \* highest access: 2 game master, 1 counselor, 0 other
    Nick,                 \* chat nicknames
    Conf, Newbie,         \* Conference objects, and the seeded one
    ConfName, Seeded,     \* their names, and the seeded one's
    Password, Long,       \* passwords, and those that are cut when stored
    None                  \* NULL, or an empty string

ASSUME Accounts == AccountOf \in [Player -> Account] /\ Rank \in [Player -> 0..2]
ASSUME SeededOne == Newbie \in Conf /\ Seeded \in ConfName
ASSUME Passwords == Long \subseteq Password
ASSUME Nulls == None \notin Player \cup Conf \cup Nick \cup ConfName \cup Password

VARIABLES
    on,      \* players with a connection
    level,   \* Chat_AccessLevel, from the live player flags
    users,   \* the players on g_chatUsers
    chat     \* nicknames, conferences and clients

vars == <<on, level, users, chat>>

\* What strncpy keeps of a password.
Cut == [of : Long]
Stored(pw) == IF pw \in Long THEN [of |-> pw] ELSE pw

Colour == {"plain", "moderator", "voiced"}
Closed == [open |-> FALSE, at |-> None, who |-> {}]

TypeOK ==
    /\ on \subseteq Player /\ level \in [Player -> 0..2]
    /\ users \subseteq {p \in Player : chat.nick[AccountOf[p]] # None}
    /\ chat \in [nick : [Account -> Nick \cup {None}],
                live : SUBSET Conf,
                name : [Conf -> ConfName \cup {None}],
                pass : [Conf -> Password \cup Cut \cup {None}],
                who : [Conf -> SUBSET users],
                at : [Player -> Conf \cup {None}],
                mod : SUBSET users, voiced : SUBSET users,
                view : [Player -> [open : BOOLEAN, at : ConfName \cup {None},
                                   who : SUBSET (Colour \X Nick)]]]

\* Chat_Init seeds the permanent conference.
Init ==
    /\ on = {} /\ users = {} /\ level = [p \in Player |-> 0]
    /\ chat = [nick |-> [a \in Account |-> None],
               live |-> {Newbie},
               name |-> [c \in Conf |-> IF c = Newbie THEN Seeded ELSE None],
               pass |-> [c \in Conf |-> None],
               who |-> [c \in Conf |-> {}],
               at |-> [p \in Player |-> None],
               mod |-> {}, voiced |-> {},
               view |-> [p \in Player |-> Closed]]

-----------------------------------------------------------------------------
(* Messages to the clients.                                                *)

Username(s, p) == s.nick[AccountOf[p]]

Label(s, p) ==
    <<CASE p \in s.mod -> "moderator"
        [] p \in s.voiced -> "voiced"
        [] OTHER -> "plain",
      Username(s, p)>>

\* Nothing is sent to a player without a connection, nor shown without a window.
Sees(s, p, P) == p \in P \cap on /\ s.view[p].open

Show(s, P, names) == [s EXCEPT !.view =
    [p \in Player |-> IF Sees(s, p, P) THEN [s.view[p] EXCEPT !.who = names[p]] ELSE s.view[p]]]

PlayerEnter(s, P, q) == Show(s, P, [p \in Player |-> s.view[p].who \cup {Label(s, q)}])
PlayerLeave(s, P, q) ==
    Show(s, P, [p \in Player |-> {x \in s.view[p].who : x[2] # Username(s, q)}])
PlayerClear(s, p) == Show(s, {p}, [q \in Player |-> {}])

\* CONFERENCE_ENTER, and in AddUser and ResendConference a PLAYER_ENTER for
\* every member.
ConferenceEnter(s, P, c) == [s EXCEPT !.view =
    [p \in Player |-> IF Sees(s, p, P) THEN [s.view[p] EXCEPT !.at = s.name[c]] ELSE s.view[p]]]
SendMembers(s, p, c) ==
    Show(ConferenceEnter(s, {p}, c), {p},
         [q \in Player |-> s.view[q].who \cup {Label(s, m) : m \in s.who[c]}])

-----------------------------------------------------------------------------
(* Conferences.                                                            *)

Create(s, c, n, pw) ==
    [s EXCEPT !.live = @ \cup {c}, !.name[c] = n, !.pass[c] = Stored(pw)]

Destroy(s, c) ==
    [s EXCEPT !.live = @ \ {c}, !.name[c] = None, !.pass[c] = None]

MutUnranked(s, p) == s
Unranked(s, p) == [s EXCEPT !.mod = @ \ {p}, !.voiced = @ \ {p}]

Deserted(s, c) == s.who[c] = {} /\ c # Newbie

MutTakenOut(s, p) == [s EXCEPT !.at[p] = None]
TakenOut(s, p) == [s EXCEPT !.who[s.at[p]] = @ \ {p}, !.at[p] = None]

RemoveUser(s, p) ==
    LET c == s.at[p]
        left == Unranked(TakenOut(s, p), p)
        told == PlayerClear(PlayerLeave(left, left.who[c], p), p)
    IN IF Deserted(told, c) THEN Destroy(told, c) ELSE told

Left(s, p) == IF s.at[p] = None THEN s ELSE RemoveUser(s, p)

Admits(s, c, pw) == s.pass[c] = None \/ s.pass[c] = pw

\* A game master, or the first in a conference that is not the seeded one.
MutEarns(s, c, p) == level[p] >= 2 \/ s.who[c] = {}
Earns(s, c, p) == level[p] >= 2 \/ (c # Newbie /\ s.who[c] = {})

AddUser(s, c, p, pw) ==
    IF s.at[p] = c \/ ~Admits(s, c, pw) THEN s
    ELSE LET left == Left(s, p)
             in == [Unranked(left, p) EXCEPT
                      !.at[p] = c,
                      !.who[c] = @ \cup {p},
                      !.mod = IF Earns(left, c, p) THEN @ \cup {p} ELSE @]
         IN PlayerEnter(SendMembers(in, p, c), in.who[c], p)

MutRefreshUser(s, t) == PlayerEnter(s, s.who[s.at[t]], t)
RefreshUser(s, t) ==
    LET c == s.at[t] IN PlayerEnter(PlayerLeave(s, s.who[c], t), s.who[c], t)

-----------------------------------------------------------------------------
(* Packets and connections.                                                *)

\* Staff get their flags when they log in, may gain or lose them in between,
\* and lose them when they log out.
Connect(p) ==
    /\ p \notin on /\ on' = on \cup {p}
    /\ \E l \in 0..Rank[p] : level' = [level EXCEPT ![p] = l]
    /\ UNCHANGED <<users, chat>>

ChangeLevel(p) ==
    /\ p \in on
    /\ \E l \in 0..Rank[p] : level' = [level EXCEPT ![p] = l]
    /\ UNCHANGED <<on, users, chat>>

\* The connection is torn down and usersock cleared; chat is told by the
\* player's destructor only, which does not run for a player who logs out.
Disconnect(p) ==
    /\ p \in on /\ on' = on \ {p}
    /\ level' = [level EXCEPT ![p] = 0]
    /\ chat' = [chat EXCEPT !.view[p] = Closed]
    /\ UNCHANGED users

\* HandlePacket_CHAT_OPEN: an account's nickname is chosen once, and taken
\* nicknames are refused.
MayBeCalled(a, n) ==
    chat.nick[a] = n \/ (chat.nick[a] = None /\ \A b \in Account : chat.nick[b] # n)

OpenWindow(p, n) ==
    [chat EXCEPT !.nick[AccountOf[p]] = n, !.view[p] = [Closed EXCEPT !.open = TRUE]]

\* Already a chat user: list and conference are sent again.
OpenAgain(p) ==
    /\ p \in on \cap users
    /\ chat' = LET s == OpenWindow(p, Username(chat, p))
               IN IF s.at[p] = None THEN s ELSE SendMembers(s, p, s.at[p])
    /\ UNCHANGED <<on, level, users>>

\* A new chat user joins the seeded conference, or, when that has a password,
\* another that has none.
FirstJoinable ==
    IF Admits(chat, Newbie, None) THEN {Newbie}
    ELSE {c \in chat.live : Admits(chat, c, None)}

Open(p, n) ==
    /\ p \in on \ users /\ MayBeCalled(AccountOf[p], n)
    /\ users' = users \cup {p}
    /\ \/ \E c \in FirstJoinable : chat' = AddUser(OpenWindow(p, n), c, p, None)
       \/ FirstJoinable = {} /\ chat' = OpenWindow(p, n)
    /\ UNCHANGED <<on, level>>

\* LEAVE_CHAT, sent when the window is closed.
LeaveChat(p) ==
    /\ p \in on \cap users
    /\ chat' = [Left(chat, p) EXCEPT !.view[p] = Closed]
    /\ users' = users \ {p}
    /\ UNCHANGED <<on, level>>

Named(n) == {c \in chat.live : chat.name[c] = n}
Acts(p) == p \in on \cap users /\ UNCHANGED <<on, level, users>>

JoinConference(p, n, pw) ==
    /\ Acts(p)
    /\ \E c \in Named(n) : chat' = AddUser(chat, c, p, pw)

CreateConference(p, n, pw) ==
    /\ Acts(p)
    /\ IF Named(n) # {} THEN \E c \in Named(n) : chat' = AddUser(chat, c, p, pw)
       ELSE \E c \in Conf \ chat.live : chat' = AddUser(Create(chat, c, n, pw), c, p, pw)

Moderates(p) == Acts(p) /\ chat.at[p] # None /\ p \in chat.mod

RenameConference(p, n) ==
    /\ Moderates(p)
    /\ LET c == chat.at[p]
           s == [chat EXCEPT !.name[c] = n]
       IN chat' = ConferenceEnter(s, s.who[c], c)

ChangePassword(p, pw) ==
    /\ Moderates(p)
    /\ chat' = [chat EXCEPT !.pass[chat.at[p]] = Stored(pw)]

\* The members a moderator may name, and those it may take something from.
Members(p) == chat.who[chat.at[p]]
MayDemote(p, t) == level[p] >= level[t]

Voice(p, t, v) ==
    /\ Moderates(p) /\ t \in Members(p) \ chat.mod
    /\ v # (t \in chat.voiced) /\ (v \/ MayDemote(p, t))
    /\ chat' = RefreshUser([chat EXCEPT !.voiced = IF v THEN @ \cup {t} ELSE @ \ {t}], t)

Promoted(s, t) == [s EXCEPT !.mod = @ \cup {t}, !.voiced = @ \ {t}]

Moderator(p, t, m) ==
    /\ Moderates(p) /\ t \in Members(p)
    /\ m # (t \in chat.mod) /\ (m \/ MayDemote(p, t))
    /\ chat' = RefreshUser(IF m THEN Promoted(chat, t) ELSE [chat EXCEPT !.mod = @ \ {t}], t)

Kick(p, t) ==
    /\ Moderates(p) /\ t \in Members(p) \ {p} /\ MayDemote(p, t)
    /\ chat' = RemoveUser(chat, t)

Given == Password \cup Cut \cup {None}

Next ==
    \E p \in Player :
        \/ Connect(p) \/ ChangeLevel(p) \/ Disconnect(p) \/ OpenAgain(p) \/ LeaveChat(p)
        \/ \E n \in Nick : Open(p, n)
        \/ \E n \in ConfName :
             \/ RenameConference(p, n)
             \/ \E pw \in Given : JoinConference(p, n, pw) \/ CreateConference(p, n, pw)
        \/ \E pw \in Given : ChangePassword(p, pw)
        \/ \E t \in Player :
             Kick(p, t) \/ \E b \in BOOLEAN : Voice(p, t, b) \/ Moderator(p, t, b)

Spec == Init /\ [][Next]_vars

-----------------------------------------------------------------------------
(* Properties.                                                             *)

\* ChatUser.conference and Conference.users agree, neither leads to a chat
\* user or a conference that was freed, and a rank is of the conference its
\* holder is in and only one at a time (Conference_RemoveUser, AddUser,
\* Destroy and ChatUser_Remove together).
MembershipAgrees ==
    /\ \A p \in Player : chat.at[p] # None =>
         p \in users /\ chat.at[p] \in chat.live /\ p \in chat.who[chat.at[p]]
    /\ \A c \in Conf : \A p \in chat.who[c] : chat.at[p] = c
    /\ Newbie \in chat.live
    /\ chat.mod \cap chat.voiced = {}
    /\ \A p \in chat.mod \cup chat.voiced : chat.at[p] # None

\* Who comes into a conference moderates it only as a game master or as the
\* first member of one that is not seeded, whatever it was before.
ComesUnranked ==
    \A p \in Player : chat'.at[p] # chat.at[p] =>
        /\ p \notin chat'.voiced
        /\ p \in chat'.mod =>
             \/ level[p] >= 2
             \/ chat'.at[p] # Newbie /\ chat'.who[chat'.at[p]] = {p}

RankIsEarned == [][ComesUnranked]_vars

\* An open window shows the members of the conference with their ranks and,
\* in a conference, its name: the server sends every change to everyone it
\* concerns (Broadcast, RefreshUser, ResendConference), if no two chat users
\* have one account and so one nickname.
ViewIsExact ==
    \A p \in Player : chat.view[p].open =>
        IF chat.at[p] = None THEN chat.view[p].who = {}
        ELSE /\ chat.view[p].who = {Label(chat, q) : q \in chat.who[chat.at[p]]}
             /\ chat.view[p].at = chat.name[chat.at[p]]

\* chat.c:172 "Created when the player opens the chat window and destroyed on
\* leave or disconnect": a chat user has a connection.
UsersAreConnected == users \subseteq on
=============================================================================
