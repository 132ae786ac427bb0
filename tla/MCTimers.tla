------------------------------ MODULE MCTimers ------------------------------
(* What must eventually happen: small instances of Timers and, beside it,  *)
(* of Session and of the watchdog, each under the fairness its own module  *)
(* states.  Timers and Session are two views of the same characters and    *)
(* both implement Presence; the watchdog reads nothing of either.  A       *)
(* behaviour moves one of the three (`part') and leaves the others alone.  *)
EXTENDS Timers

MCKey == {Idle, <<1, 0>>, <<5, 1>>, Valueless}
MCScriptKey == {<<1, 0>>, <<5, 1>>, Valueless}

CONSTANTS Conn, Char, Account, MaxSlots, NoConn, NoPlayer, NoAccount, Timeout

ASSUME SessionBounds ==
  /\ NoConn \notin Conn /\ NoPlayer \notin Char /\ NoAccount \notin Account
  /\ MaxSlots \in Nat \ {0} /\ IsFiniteSet(Char)
ASSUME TimeoutBound == Timeout \in Nat

VARIABLES
  part,
  status, account, player, usersock, connected, where, listed,
  owner, slot, deleted, turn, ready, reading,                    \* Session
  main, age, thread, lag, moved, exit, aborted                   \* Watchdog

S == INSTANCE Session WITH
       Player <- Char, Relogin <- FALSE,
       online <- connected, place <- where, phase <- turn
W == INSTANCE Watchdog

session == <<status, account, player, usersock, connected, where, listed,
             owner, slot, deleted, turn, ready, reading>>
watchdog == <<main, age, thread, lag, moved, exit, aborted>>
all == <<part, vars, session, watchdog>>

InTimers(A) == part = "timers" /\ A /\ UNCHANGED <<part, session, watchdog>>
InSession(A) == part = "session" /\ A /\ UNCHANGED <<part, vars, watchdog>>
InWatchdog(A) == part = "watchdog" /\ A /\ UNCHANGED <<part, vars, session>>

MCInit == part \in {"timers", "session", "watchdog"} /\ Init /\ S!Init /\ W!Init

(* The process is over: nothing is left to happen.                         *)
Over == ~W!Alive /\ UNCHANGED watchdog

MCNext == InTimers(Next) \/ InSession(S!Next) \/ InWatchdog(W!Next \/ Over)

(* The fairness of Timers, Session and Watchdog.                           *)
MCFairness ==
  /\ WF_all(InTimers(Manager \/ EndLogIn))
  /\ WF_all(InSession(S!Loop))
  /\ \A p \in Char : SF_all(InSession(S!IdleDisconnect(p)))
  /\ WF_all(InWatchdog(W!Time)) /\ WF_all(InWatchdog(W!Wake \/ W!Compare))
  /\ WF_all(InWatchdog(W!Join))

MCSpec == MCInit /\ [][MCNext]_all /\ MCFairness

-----------------------------------------------------------------------------
(* Every variable of the three parts keeps its type.                       *)
TypesOK == TypeOK /\ S!TypeOK /\ W!TypeOK

(* Session keeps the promise of Presence too, and a body left behind does  *)
(* not stay for good (player.c:2168, timer.c:299).                         *)
SessionKeepsPresence == S!KeepsPresence

(* A main thread that hangs is aborted, and a shutdown gets past its join  *)
(* (watchdog.c:104, 70).                                                   *)
HungIsAborted == W!HungIsAborted

(* The watchdog is gone before the final save starts (main.c:516).         *)
SavesUndisturbed == W!SavesUndisturbed
=============================================================================
