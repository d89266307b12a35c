----------------------------- MODULE MutexLock ------------------------------
(* What a Lock promises.                                                   *)
CONSTANT Thread

VARIABLES want,   \* the threads inside Acquire
          held    \* the thread that Acquire has let in, if any

mutexVars == <<want, held>>

MutexInit == want = {} /\ held = {}

Want(t) ==
  /\ t \notin want \cup held
  /\ want' = want \cup {t}
  /\ UNCHANGED held

Enter(t) ==
  /\ t \in want /\ held = {}
  /\ want' = want \ {t} /\ held' = {t}

Leave(t) ==
  /\ held = {t}
  /\ held' = {}
  /\ UNCHANGED want

MutexNext == \E t \in Thread : Want(t) \/ Enter(t) \/ Leave(t)

MutexSpec == MutexInit /\ [][MutexNext]_mutexVars
=============================================================================
