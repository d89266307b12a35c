----------------------------- MODULE MCConsole ------------------------------
(* Both sides of the console in one run, never at the same time: two       *)
(* threads that share the devices (SynchConsole), or one user program that *)
(* makes the calls built on them (ConsoleCalls), of the last version or of *)
(* the snapshot code/.                                                     *)
EXTENDS SynchConsole, ConsoleCalls

CONSTANTS t1, t2, char1, char2

TwoChars == <<char1, char2>>

VARIABLE side
all == <<vars, callsVars, side>>

MCInit == side \in {"devices", "calls", "first"} /\ Init /\ CallsInit

Devices == side = "devices" /\ Next /\ UNCHANGED <<callsVars, side>>
Calls == side = "calls" /\ CallsNext /\ UNCHANGED <<vars, side>>
First == side = "first" /\ FirstNext /\ UNCHANGED <<vars, side>>

MCSpec ==
  /\ MCInit /\ [][Devices \/ Calls \/ First]_all
  /\ side = "devices" => Fairness

(* A user program gets its numbers and its strings right, from either      *)
(* version of the handler.                                                 *)
HandlersExact == CallsExact /\ LinesExact
=============================================================================
