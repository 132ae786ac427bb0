------------------------------ MODULE MCSession -----------------------------
(* Small instances of Session and, beside it, of the help queue, to which  *)
(* a log-out reports.  Apart from the players themselves the two share no  *)
(* state in the code, so a behaviour moves one of them (`part') and the    *)
(* other keeps its initial state.                                          *)
EXTENDS Session, TLC

CONSTANTS Caller, Staff, Nobody

ASSUME Callers == IsFiniteSet(Caller) /\ Staff \subseteq Caller /\ Nobody \notin Caller

VARIABLES
  part,
  queue, victim, role, present, saved          \* HelpQueue

H == INSTANCE HelpQueue WITH Player <- Caller, online <- present

help == <<queue, victim, role, present, saved>>
all == <<part, vars, help>>

MCInit == part \in {"session", "help"} /\ Init /\ H!Init

MCNext ==
  /\ UNCHANGED part
  /\ \/ part = "session" /\ Next /\ UNCHANGED help
     \/ part = "help" /\ H!Next /\ UNCHANGED vars

MCSpec == MCInit /\ [][MCNext]_all

Symmetry == Permutations(Conn) \cup Permutations(Player) \cup Permutations(Account)

-----------------------------------------------------------------------------
(* Every variable of both parts keeps its type.                            *)
TypesOK == TypeOK /\ H!TypeOK

(* A request being handled has a handler, through log-outs, role changes   *)
(* and restarts (help_queue.c).                                            *)
HandledIsHeld == H!HandledIsHeld
=============================================================================
