------------------------------ MODULE Watchdog ------------------------------
(* The watchdog thread (watchdog.c) beside the main thread (main.c).  The  *)
(* main thread stores the time of its last tick; the watchdog wakes once a *)
(* second, reads the clock, then the stored time, and aborts the process   *)
(* if the unsigned difference exceeds the timeout.  There is no lock.      *)
(* Time is kept as the age of the stored time, so that it need not be      *)
(* bounded: an age beyond the timeout does not grow further.               *)
EXTENDS Integers

CONSTANTS Timeout     \* g_WatchdogTimeoutMs, in units of the model's time

VARIABLES
  main,       \* where the main thread is
  age,        \* GetTickCount_UO() - g_WatchdogLastHeartbeatMs
  thread,     \* where the watchdog thread is
  lag,        \* now - g_WatchdogLastHeartbeatMs, as the thread would compute it
  moved,      \* time has passed since the thread read the clock
  exit,       \* g_WatchdogShouldExit
  aborted

vars == <<main, age, thread, lag, moved, exit, aborted>>

Wrapped == Timeout + 2          \* a small negative number as a uint32_t
Beyond == Timeout + 1           \* an age that is over the timeout

TypeOK ==
  /\ main \in {"starting", "loading", "ticking", "hung", "joining", "saving", "exited"}
  /\ age \in 0..Beyond
  /\ thread \in {"off", "asleep", "read", "done"}
  /\ lag \in 0..Wrapped
  /\ moved \in BOOLEAN /\ exit \in BOOLEAN /\ aborted \in BOOLEAN

Init ==
  /\ main = "starting" /\ age = 0
  /\ thread = "off" /\ lag = 0 /\ moved = FALSE
  /\ exit = FALSE /\ aborted = FALSE

Alive == ~aborted /\ main # "exited"

(* Watchdog_Init, before the world is loaded: unless it is disabled or the *)
(* thread cannot be made.                                                  *)
Watchdog_Init ==
  /\ Alive /\ main = "starting"
  /\ main' = "loading"
  /\ thread' \in {"off", "asleep"}
  /\ age' = 0
  /\ UNCHANGED <<lag, moved, exit, aborted>>

(* The world is loaded; Server_Loop starts.  There is no heartbeat yet.    *)
Loaded ==
  /\ Alive /\ main = "loading" /\ main' = "ticking"
  /\ UNCHANGED <<age, thread, lag, moved, exit, aborted>>

(* The end of a tick: Watchdog_Heartbeat.  A thread that has read the      *)
(* clock, and not yet the heartbeat, will subtract the newer time.         *)
Heartbeat ==
  /\ Alive /\ main = "ticking"
  /\ age' = 0
  /\ lag' = IF thread # "read" THEN lag ELSE IF moved THEN Wrapped ELSE 0
  /\ UNCHANGED <<main, thread, moved, exit, aborted>>

(* A tick that never ends.                                                 *)
Hang ==
  /\ Alive /\ main \in {"loading", "ticking"} /\ main' = "hung"
  /\ UNCHANGED <<age, thread, lag, moved, exit, aborted>>

(* Phase C of Server_Loop: Watchdog_Shutdown sets the flag and joins the   *)
(* thread, then the world is saved.                                        *)
BeginShutdown ==
  /\ Alive /\ main = "ticking"
  /\ main' = "joining"
  /\ exit' = (thread # "off")
  /\ UNCHANGED <<age, thread, lag, moved, aborted>>

MutJoined == thread # "asleep"
Joined == thread \in {"off", "done"}

Join ==
  /\ Alive /\ main = "joining" /\ Joined
  /\ main' = "saving"
  /\ UNCHANGED <<age, thread, lag, moved, exit, aborted>>

Exit ==
  /\ Alive /\ main = "saving"
  /\ main' = "exited"
  /\ UNCHANGED <<age, thread, lag, moved, exit, aborted>>

(* Watchdog_ThreadMain: the sleep ends; the flag is looked at, then the    *)
(* clock is read.                                                          *)
Wake ==
  /\ Alive /\ thread = "asleep"
  /\ IF exit THEN thread' = "done" /\ UNCHANGED <<lag, moved>>
     ELSE thread' = "read" /\ lag' = age /\ moved' = FALSE
  /\ UNCHANGED <<main, age, exit, aborted>>

(* The heartbeat is read and compared.                                     *)
MutStale == FALSE
Stale == lag > Timeout

Compare ==
  /\ Alive /\ thread = "read"
  /\ IF Stale THEN aborted' = TRUE /\ thread' = thread
     ELSE aborted' = aborted /\ thread' = (IF exit THEN "done" ELSE "asleep")
  /\ lag' = IF Stale THEN lag ELSE 0
  /\ moved' = FALSE
  /\ UNCHANGED <<main, age, exit>>

Time ==
  /\ Alive
  /\ age' = IF age < Beyond THEN age + 1 ELSE age
  /\ moved' = (thread = "read")
  /\ UNCHANGED <<main, thread, lag, exit, aborted>>

Next ==
  \/ Watchdog_Init \/ Loaded \/ Heartbeat \/ Hang
  \/ BeginShutdown \/ Join \/ Exit
  \/ Wake \/ Compare
  \/ Time

Spec == Init /\ [][Next]_vars

(* The clock advances and the watchdog thread is scheduled.  Nothing is    *)
(* asked of the main thread, except that it returns from a join it can     *)
(* return from.                                                            *)
Fairness == WF_vars(Time) /\ WF_vars(Wake \/ Compare) /\ WF_vars(Join)
FairSpec == Spec /\ Fairness

-----------------------------------------------------------------------------
(* Properties.                                                             *)

(* The final save, which may take longer than the timeout, runs with the   *)
(* watchdog gone: Watchdog_Shutdown has joined the thread, and whatever    *)
(* the thread was doing when the flag was set, it did not abort after it.  *)
SavesUndisturbed == main \in {"saving", "exited"} => ~aborted /\ thread \notin {"asleep", "read"}

(* A main thread that hangs, in a tick or while loading, is ended once the *)
(* watchdog runs; and Watchdog_Shutdown's join comes to an end.            *)
HungIsAborted ==
  /\ (main = "hung" /\ thread # "off") ~> aborted
  /\ main = "joining" ~> (main = "saving" \/ aborted)
=============================================================================
