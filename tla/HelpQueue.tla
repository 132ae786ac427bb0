----------------------------- MODULE HelpQueue ------------------------------
(* The queue of help requests and the staff who work on it (help_queue.c). *)
(* A request is new ('n') or being handled ('h'); who handles it is kept   *)
(* apart, in a tag on the member of staff, counVictim, which is saved with *)
(* the world while the queue is not.  Counselors and game masters share    *)
(* the commands; only a counselor's log-out gives a request back.          *)
EXTENDS Integers, Sequences, SequencesExt, FiniteSets

CONSTANTS
  Player,
  Staff,       \* the players who may be made counselor or game master
  Nobody

VARIABLES
  queue,       \* g_HelpQueue: requests in order, each of a player and a type
  victim,      \* the counVictim tag of each player
  role,        \* PlayerIsCounselor, PlayerIsGameMaster
  online,
  saved        \* the tags in the last saved world

vars == <<queue, victim, role, online, saved>>

Roles == {"counselor", "gm"}
Tags == [Player -> Player \cup {Nobody}]

TypeOK ==
  /\ \E n \in 0..Cardinality(Player) : queue \in [1..n -> [serial : Player, type : {"n", "h"}]]
  /\ victim \in Tags /\ saved \in Tags
  /\ role \in [Player -> SUBSET Roles]
  /\ online \subseteq Player

Init ==
  /\ queue = <<>>
  /\ victim = [p \in Player |-> Nobody]
  /\ role = [p \in Player |-> {}]
  /\ online = {}
  /\ saved = victim

(* The place of a player's request, 0 if it has none.                      *)
FindBySerial(q, p) == SelectInSeq(q, LAMBDA e : e.serial = p)

Asks(p) == FindBySerial(queue, p) # 0

(* CHelpQueue_UpdateLevel, SetLevel: 'd' removes the entry.                *)
Updated(q, p, level) ==
  LET i == FindBySerial(q, p)
  IN IF i = 0 THEN q
     ELSE IF level = "d" THEN RemoveAt(q, i)
     ELSE [q EXCEPT ![i].type = level]

(* The tag is cleared and its request set to a level.                      *)
MutLetGo(s, level) ==
  /\ victim' = [victim EXCEPT ![s] = Nobody]
  /\ queue' = IF level = "n" THEN queue ELSE Updated(queue, victim[s], level)
LetGo(s, level) ==
  /\ victim' = [victim EXCEPT ![s] = Nobody]
  /\ queue' = Updated(queue, victim[s], level)

-----------------------------------------------------------------------------

(* Player_Login grants what the account says; nothing takes it back.       *)
LogIn(p) ==
  /\ p \notin online /\ online' = online \cup {p}
  /\ \E r \in SUBSET Roles :
       /\ r # {} => p \in Staff
       /\ role' = [role EXCEPT ![p] = @ \cup r]
  /\ UNCHANGED <<queue, victim, saved>>

(* CPlayer_LogOut: the player's own request goes, and a counselor's        *)
(* current one is relinquished (CHelpQueue_OnLogout); a game master's is   *)
(* not.                                                                    *)
LogOut(p) ==
  /\ p \in online /\ online' = online \ {p}
  /\ LET q == Updated(queue, p, "d")
     IN IF "counselor" \in role[p] /\ victim[p] # Nobody
        THEN queue' = Updated(q, victim[p], "n") /\ victim' = [victim EXCEPT ![p] = Nobody]
        ELSE queue' = q /\ victim' = victim
  /\ UNCHANGED <<role, saved>>

(* Script_addHelpRequestToQueue, CHelpQueue_Add: one request for a player. *)
Add(p) ==
  /\ p \in online /\ ~Asks(p)
  /\ queue' = Append(queue, [serial |-> p, type |-> "n"])
  /\ UNCHANGED <<victim, role, online, saved>>

(* The commands of GmCommandDispatch, for counselors and game masters.     *)
OnDuty(s) == s \in online /\ role[s] # {}
Holds(s) == victim[s] # Nobody

(* CHelpQueue_Next: the current request is done; the first new one is      *)
(* taken, if there is one.                                                 *)
FindNextPending(q) == SelectInSeq(q, LAMBDA e : e.type = "n")
NextRequest(s) ==
  /\ OnDuty(s)
  /\ LET q == IF Holds(s) THEN Updated(queue, victim[s], "d") ELSE queue
         i == FindNextPending(q)
     IN IF i = 0
        THEN queue' = q /\ victim' = [victim EXCEPT ![s] = Nobody]
        ELSE /\ queue' = Updated(q, q[i].serial, "h")
             /\ victim' = [victim EXCEPT ![s] = q[i].serial]
  /\ UNCHANGED <<role, online, saved>>

(* CHelpQueue_Relinquish, and CHelpQueue_GotoBySerial, which does the same *)
(* to the current request before it goes to another.                       *)
Relinquish(s) ==
  /\ OnDuty(s) /\ Holds(s) /\ LetGo(s, "n")
  /\ UNCHANGED <<role, online, saved>>

(* CHelpQueue_Clear, and CHelpQueue_GmTransfer, whose transfer adds        *)
(* nothing (AddWithLevel is empty).                                        *)
Clear(s) ==
  /\ OnDuty(s) /\ Holds(s) /\ LetGo(s, "d")
  /\ UNCHANGED <<role, online, saved>>

(* CHelpQueue_Who drops a tag whose request is gone.                       *)
Who(s) ==
  /\ OnDuty(s) /\ Holds(s) /\ ~Asks(victim[s]) /\ LetGo(s, "d")
  /\ UNCHANGED <<role, online, saved>>

(* The role command, at any time.                                          *)
SetRole(s, r) ==
  /\ s \in online
  /\ role' = [role EXCEPT ![s] = IF r \in @ THEN @ \ {r} ELSE @ \cup {r}]
  /\ UNCHANGED <<queue, victim, online, saved>>

SaveWorld ==
  /\ saved # victim /\ saved' = victim
  /\ UNCHANGED <<queue, victim, role, online>>

(* A stop or a crash: tags come back from the last save, requests do not.  *)
Restart ==
  /\ online # {}
  /\ queue' = <<>> /\ victim' = saved /\ online' = {}
  /\ UNCHANGED <<role, saved>>

Next ==
  \/ \E p \in Player : LogIn(p) \/ LogOut(p) \/ Add(p)
  \/ \E s \in Staff : NextRequest(s) \/ Relinquish(s) \/ Clear(s) \/ Who(s) \/ \E r \in Roles : SetRole(s, r)
  \/ SaveWorld \/ Restart

Spec == Init /\ [][Next]_vars

-----------------------------------------------------------------------------
(* Properties.                                                             *)

(* A request marked as handled has somebody who holds it, so that it can   *)
(* come back: whatever the staff do, lose their roles, log out, or hold a  *)
(* tag of an earlier request, no request is left to nobody.  Each player   *)
(* has one request at most, and only while connected.                      *)
HandledIsHeld ==
  /\ \A i \in DOMAIN queue :
       /\ queue[i].type = "h" => \E s \in Staff : victim[s] = queue[i].serial
       /\ queue[i].serial \in online
  /\ \A i, j \in DOMAIN queue : queue[i].serial = queue[j].serial => i = j
=============================================================================
