---------------------------- MODULE Persistence ----------------------------
(***************************************************************************)
(* What outlives the server: the saved world (src/dynamic.c, dynidx0.mul   *)
(* and dynamic0.mul with a .bkp each) and the accounts (src/account.c,     *)
(* access.list), over periodic and commanded saves, reloads, clean stops,  *)
(* crashes and restarts (src/main.c, src/time.c).                          *)
(*                                                                         *)
(* A save is a list of file operations, todo.  The server is one thread    *)
(* and handles nothing else until they are done, but it may crash between  *)
(* any two, any of them may fail, and an administrator may edit            *)
(* access.list.  Abstractions: a world is its characters, with the account *)
(* number of each; of an account its number and level count (bans are a    *)
(* level); passwords are right.                                            *)
(* Stale temporary files are left out, as the next save truncates them.    *)
(***************************************************************************)
EXTENDS Naturals, Sequences, FiniteSetsExt

CONSTANTS
    Login, Spaced,   \* login names, and those with a space inside
    Level,           \* access levels an administrator may set; 0 is a player
    Char,            \* characters
    MaxNum,          \* bound: highest account number issued
    None             \* NULL, or a missing file

ASSUME Logins == Spaced \subseteq Login /\ None \notin Login
ASSUME Levels == 0 \in Level /\ Level \subseteq Nat
ASSUME Bound == MaxNum \in Nat

VARIABLES
    up,      \* the server runs
    todo,    \* file operations it still has to make
    world,   \* its characters, online, lingering and archived
    acct,    \* accountHash
    next,    \* nextAccountNum
    hup,     \* g_reloadAccounts
    mul,     \* dynidx0.mul, dynamic0.mul and their .bkp files
    list,    \* access.list
    maker,   \* history: the login that created each character
    unread,  \* history: a line was edited, and the list not read or written since
    cut      \* history: "list" if access.list ever missed an account, "world"
             \* if a server ever started from files of two saves, "call" if
             \* an unlink, link or rename of a save ever failed

mem == <<world, acct, next>>
history == <<maker, unread, cut>>
vars == <<up, todo, world, acct, next, hup, mul, list, history>>

\* The account number of each character; 0 where there is none.
World == [Char -> 0..MaxNum]
Empty == [c \in Char |-> 0]
Accounts == [Login -> [num : 1..MaxNum, level : Level] \cup {None}]
NoAccounts == [l \in Login |-> None]
File == {"idx", "data"}

ASSUME Missing == None \notin World /\ None \notin [num : 1..MaxNum, level : Level]

-----------------------------------------------------------------------------
(* File operations.                                                        *)

MutCommitSaveFile(f) == <<<<"rename", f>>, <<"unlink", f>>, <<"link", f>>>>
CommitSaveFile(f) == <<<<"unlink", f>>, <<"link", f>>, <<"rename", f>>>>
SaveDynamic0 == <<<<"stage", "both">>>> \o CommitSaveFile("idx") \o CommitSaveFile("data")
SaveAccounts == <<<<"open", "list">>, <<"write", "list">>>>
Stop == <<<<"exit", "server">>>>

Plans == {<<>>, SaveAccounts, SaveDynamic0, SaveDynamic0 \o SaveAccounts,
          SaveDynamic0 \o SaveAccounts \o Stop}

TypeOK ==
    /\ up \in BOOLEAN /\ hup \in BOOLEAN /\ cut \subseteq {"list", "world", "call"}
    /\ \E p \in Plans, n \in 0..10 : n <= Len(p) /\ todo = SubSeq(p, n + 1, Len(p))
    /\ world \in World /\ next \in 1..MaxNum + 1
    /\ acct \in Accounts /\ list \in Accounts
    /\ mul \in [now : [File -> World], bkp : [File -> World \cup {None}]]
    /\ maker \in [Char -> Login \cup {None}] /\ unread \in BOOLEAN

\* A fresh installation, before the first start.
Init ==
    /\ up = FALSE /\ todo = <<>> /\ hup = FALSE
    /\ world = Empty /\ acct = NoAccounts /\ next = 1
    /\ mul = [now |-> [f \in File |-> Empty], bkp |-> [f \in File |-> None]]
    /\ list = NoAccounts
    /\ maker = [c \in Char |-> None] /\ unread = FALSE /\ cut = {}

\* Both files are written and synced under temporary names, which a rename
\* puts in place later; after an I/O error they are removed instead.
Stage ==
    /\ up /\ todo # <<>> /\ Head(todo)[1] = "stage"
    /\ todo' \in {Tail(todo), SubSeq(todo, Len(SaveDynamic0) + 1, Len(todo))}
    /\ UNCHANGED <<up, mem, hup, mul, list, history>>

\* One of the three calls of CommitSaveFile, which looks at no result: where
\* one fails the files stay as they are, and the next is made all the same.
Call(op, f, done) ==
    /\ up /\ todo # <<>> /\ Head(todo) = <<op, f>>
    /\ todo' = Tail(todo)
    /\ \/ mul' = done /\ UNCHANGED cut
       \/ mul' = mul /\ cut' = cut \cup {"call"}
    /\ UNCHANGED <<up, mem, hup, list, maker, unread>>

MutUnlink(f) == Call("unlink", f, [mul EXCEPT !.now[f] = Empty])
Unlink(f) == Call("unlink", f, [mul EXCEPT !.bkp[f] = None])

\* link does not replace a file.
Link(f) == Call("link", f, IF mul.bkp[f] = None THEN [mul EXCEPT !.bkp[f] = mul.now[f]] ELSE mul)

Rename(f) == Call("rename", f, [mul EXCEPT !.now[f] = world])

\* fopen(..., "w") truncates; if it fails nothing is written.
OpenList ==
    /\ up /\ todo # <<>> /\ Head(todo)[1] = "open"
    /\ \/ /\ todo' = Tail(todo)
          /\ list' = NoAccounts /\ unread' = FALSE /\ UNCHANGED cut
       \/ /\ todo' = Tail(Tail(todo))
          /\ cut' = cut \cup {"list"} /\ UNCHANGED <<list, unread>>
    /\ UNCHANGED <<up, mem, hup, mul, maker>>

WriteList ==
    /\ up /\ todo # <<>> /\ Head(todo)[1] = "write"
    /\ todo' = Tail(todo) /\ list' = acct
    /\ UNCHANGED <<up, mem, hup, mul, history>>

-----------------------------------------------------------------------------
(* The running server.                                                     *)

MutCreate(l) ==
    /\ up /\ todo = <<>> /\ acct[l] = None /\ next <= MaxNum
    /\ acct' = [acct EXCEPT ![l] = [num |-> next, level |-> 0]]
    /\ next' = next + 1
    /\ UNCHANGED <<up, todo, world, hup, mul, list, history>>

\* A first login creates its account and saves them all.
Create(l) ==
    /\ up /\ todo = <<>> /\ acct[l] = None /\ next <= MaxNum
    /\ acct' = [acct EXCEPT ![l] = [num |-> next, level |-> 0]]
    /\ next' = next + 1
    /\ todo' = SaveAccounts
    /\ UNCHANGED <<up, world, hup, mul, list, history>>

SetChatName(l) ==
    /\ up /\ todo = <<>> /\ acct[l] # None
    /\ todo' = SaveAccounts
    /\ UNCHANGED <<up, mem, hup, mul, list, history>>

CreateChar(l, c) ==
    /\ up /\ todo = <<>> /\ acct[l] # None /\ maker[c] = None
    /\ world' = [world EXCEPT ![c] = acct[l].num]
    /\ maker' = [maker EXCEPT ![c] = l]
    /\ UNCHANGED <<up, todo, acct, next, hup, mul, list, unread, cut>>

DeleteChar(c) ==
    /\ up /\ todo = <<>> /\ world[c] # 0
    /\ world' = [world EXCEPT ![c] = 0]
    /\ UNCHANGED <<up, todo, acct, next, hup, mul, list, history>>

\* The tick every 4096, a game master's .save, and the end of the main loop.
Begin(plan) ==
    /\ up /\ todo = <<>> /\ todo' = plan
    /\ UNCHANGED <<up, mem, hup, mul, list, history>>

PeriodicSave == Begin(SaveDynamic0 \o SaveAccounts)
SaveCommand == Begin(SaveDynamic0)
Shutdown == Begin(SaveDynamic0 \o SaveAccounts \o Stop)

MutFresh(a) == Max({0} \cup {a[l].num : l \in {k \in Login : a[k] # None}})
Fresh(a) == Max({0} \cup {a[l].num : l \in {k \in Login : a[k] # None}}) + 1

\* Lines of logins with a space inside do not parse.
Parsed == [l \in Login |-> IF l \in Spaced THEN None ELSE list[l]]

MutReloadAll ==
    /\ up /\ todo = <<>> /\ hup
    /\ hup' = FALSE /\ unread' = FALSE
    /\ acct' = [l \in Login |-> IF acct[l] = None THEN Parsed[l] ELSE acct[l]]
    /\ next' = Max({next, Fresh([l \in Login |-> IF acct[l] = None THEN Parsed[l] ELSE None])})
    /\ UNCHANGED <<up, todo, world, mul, list, maker, cut>>

ReloadAll ==
    /\ up /\ todo = <<>> /\ hup
    /\ hup' = FALSE /\ unread' = FALSE
    /\ acct' = [l \in Login |->
                 CASE Parsed[l] = None -> acct[l]
                   [] acct[l] = None -> Parsed[l]
                   [] OTHER -> [acct[l] EXCEPT !.level = Parsed[l].level]]
    /\ next' = Max({next, Fresh([l \in Login |-> IF acct[l] = None THEN Parsed[l] ELSE None])})
    /\ UNCHANGED <<up, todo, world, mul, list, maker, cut>>

-----------------------------------------------------------------------------
(* Stops, starts and the administrator.                                    *)

Down ==
    /\ up' = FALSE /\ todo' = <<>> /\ hup' = FALSE
    /\ world' = Empty /\ acct' = NoAccounts /\ next' = 1

Exit ==
    /\ up /\ todo = Stop
    /\ Down
    /\ UNCHANGED <<mul, list, history>>

\* Of the accounts being written any may have reached the file.
Crash ==
    /\ up
    /\ Down
    /\ IF todo # <<>> /\ Head(todo)[1] = "write"
       THEN /\ \E kept \in SUBSET Login :
                 list' = [l \in Login |-> IF l \in kept THEN acct[l] ELSE None]
            /\ cut' = cut \cup {"list"}
       ELSE UNCHANGED <<list, cut>>
    /\ UNCHANGED <<mul, maker, unread>>

Part(w, v) == \A c \in Char : w[c] \in {0, v[c]}

Torn == mul.now["idx"] # mul.now["data"]

\* The index of one save finds in the data of another whatever is there.
LoadDynamic0 ==
    IF Torn THEN /\ world' \in {w \in World : Part(w, mul.now["data"])}
                 /\ cut' = cut \cup {"world"}
            ELSE /\ world' = mul.now["data"] /\ UNCHANGED cut

LoadAll == acct' = Parsed /\ next' = Fresh(Parsed) /\ unread' = FALSE

Start ==
    /\ ~up /\ up' = TRUE
    /\ LoadDynamic0 /\ LoadAll
    /\ UNCHANGED <<todo, hup, mul, list, maker>>

Edit(l, v) ==
    /\ list[l] # None /\ list[l].level # v
    /\ list' = [list EXCEPT ![l].level = v]
    /\ unread' = TRUE
    /\ UNCHANGED <<up, todo, mem, hup, mul, maker, cut>>

Hangup ==
    /\ up /\ ~hup /\ hup' = TRUE
    /\ UNCHANGED <<up, todo, mem, mul, list, history>>

Next ==
    \/ Stage \/ OpenList \/ WriteList
    \/ \E f \in File : Unlink(f) \/ Link(f) \/ Rename(f)
    \/ \E l \in Login : \/ Create(l) \/ SetChatName(l)
                        \/ \E c \in Char : CreateChar(l, c)
                        \/ \E v \in Level : Edit(l, v)
    \/ \E c \in Char : DeleteChar(c)
    \/ PeriodicSave \/ SaveCommand \/ Shutdown \/ ReloadAll
    \/ Exit \/ Crash \/ Start \/ Hangup

Spec == Init /\ [][Next]_vars

-----------------------------------------------------------------------------
(* Properties.                                                             *)

\* The world save keeps its promise: whole, or as it was, and a server starts
\* from it, whatever is interrupted (SaveDynamic0_WriteCommit, LoadDynamic0).
\* Only a call that failed ever lets a save end half done.
Durable == INSTANCE DurableWorld WITH
    world <- IF up THEN world ELSE None,
    saved <- mul.now["data"],
    half <- Torn,
    failed <- "call" \in cut
SavesAreWhole == Durable!Spec

\* A save torn by a crash can be mended: until a server has started from it,
\* the index kept as .bkp is the one of the data file, as long as no call of
\* CommitSaveFile failed.
Mendable == Torn /\ cut \cap {"world", "call"} = {} => mul.bkp["idx"] = mul.now["data"]

\* A number is never given to two accounts the server knows at once, and each
\* player keeps the characters of its account over every crash and restart,
\* unless its name has a space or access.list missed an account
\* (Account_Create saves before anything else can happen).
OwnersAreKept ==
    /\ \A l, k \in Login : acct[l] # None /\ acct[k] # None /\ acct[l].num = acct[k].num => l = k
    /\ up /\ "list" \notin cut =>
          \A c \in Char : world[c] # 0 /\ maker[c] \notin Spaced =>
              acct[maker[c]] # None /\ acct[maker[c]].num = world[c]

\* While no edit waits to be read, access.list is what the server knows, but
\* for an open that failed: a crash then loses no account (Account_SaveAll).
ListIsCurrent ==
    up /\ todo = <<>> /\ ~unread /\ "list" \notin cut =>
        \A l \in Login \ Spaced : list[l] = acct[l]

\* "an interrupted save can never leave a torn file" (src/dynamic.c:1332-1334),
\* even where every file call succeeds.
NeverTorn == ~up /\ "call" \notin cut => ~Torn

\* Accounts are loaded after the world "so max accountNum is known"
\* (src/blockmanager.c:874): no account is given the characters of another,
\* at least while access.list never missed an account.
NumbersAreNotReused ==
    \A l \in Login, c \in Char :
        up /\ "list" \notin cut /\ acct[l] # None /\ world[c] = acct[l].num => maker[c] = l
=============================================================================
