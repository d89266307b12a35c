--------------------------- MODULE AtomicSectors ----------------------------
(* What SynchDisk promises: a sector store shared by threads.  A request   *)
(* takes effect in one step between its call and its return; a crash loses *)
(* the requests under way, each before or after its effect, and never what *)
(* the store holds.                                                        *)
CONSTANTS Thread, Sector, Value, NoValue

VARIABLES store,   \* what each sector holds
          stage,   \* where each thread's request stands
          asked,   \* the sector of the request and the value to write, if any
          answer   \* the value a read returns

sectorVars == <<store, stage, asked, answer>>

Request == [sector : Sector, value : Value \cup {NoValue}]   \* NoValue: a read

SectorsInit ==
  /\ store \in [Sector -> Value]
  /\ stage = [t \in Thread |-> "none"]
  /\ asked \in [Thread -> Request]
  /\ answer \in [Thread -> Value \cup {NoValue}]

Ask(t, r) ==
  /\ stage[t] = "none"
  /\ stage' = [stage EXCEPT ![t] = "asked"]
  /\ asked' = [asked EXCEPT ![t] = r]
  /\ answer' = [answer EXCEPT ![t] = NoValue]
  /\ UNCHANGED store

Serve(t) ==
  /\ stage[t] = "asked"
  /\ stage' = [stage EXCEPT ![t] = "served"]
  /\ IF asked[t].value = NoValue
     THEN answer' = [answer EXCEPT ![t] = store[asked[t].sector]] /\ UNCHANGED store
     ELSE store' = [store EXCEPT ![asked[t].sector] = asked[t].value] /\ UNCHANGED answer
  /\ UNCHANGED asked

Reply(t) ==
  /\ stage[t] = "served"
  /\ stage' = [stage EXCEPT ![t] = "none"]
  /\ UNCHANGED <<store, asked, answer>>

CrashAll ==
  /\ stage' = [t \in Thread |-> "none"]
  /\ UNCHANGED <<store, asked, answer>>

SectorsNext ==
  \/ \E t \in Thread : (\E r \in Request : Ask(t, r)) \/ Serve(t) \/ Reply(t)
  \/ CrashAll

SectorsSpec == SectorsInit /\ [][SectorsNext]_sectorVars
=============================================================================
