---------------------------- MODULE SynchConsole ----------------------------
(* The console: the two simulated devices of machine/console.cc, their     *)
(* synchronous wrappers of userprog/synchconsole.cc, and kernel threads    *)
(* that read and write characters through them.                            *)
(*                                                                         *)
(* Each wrapper is a lock (one thread at a time, see Monitor) and a        *)
(* semaphore on which the holder waits for the device's interrupt (see     *)
(* Semaphores).  A step ends at a tick, where an interrupt or another      *)
(* thread may come in.                                                     *)
EXTENDS Naturals, Sequences, FiniteSets

CONSTANTS Thread, NoThread,
          Char,        \* the characters that can be typed or printed
          EOF,         \* the value -1 of a char: "no character"
          Script,      \* what the user types before the end of the input
          MaxReads,    \* bound on the calls of GetChar
          MaxWrites    \* bound on the calls of PutChar

ASSUME ConsoleAssumption ==
  /\ NoThread \notin Thread
  /\ Script \in Seq(Char \cup {EOF})     \* byte 0xFF, read into a char, is EOF
  /\ EOF \notin Char
  /\ MaxReads \in Nat /\ MaxWrites \in Nat

VARIABLES
  typed,      \* how much of the script has been typed
  closed,     \* has the input ended (end of file)?
  taken,      \* how much of the script the device has read
  incoming,   \* ConsoleInput::incoming
  polling,    \* is an interrupt of ConsoleInput pending?
  inLock,     \* the holder of the lock of SynchConsoleInput
  inDone,     \* the value of SynchConsoleInput::waitFor
  putBusy,    \* ConsoleOutput::putBusy; its interrupt is pending while TRUE
  outLock,    \* the holder of the lock of SynchConsoleOutput
  outDone,    \* the value of SynchConsoleOutput::waitFor
  pc,         \* where each thread stands
  got,        \* the characters GetChar returned, in order
  reads, writes   \* calls made so far

keyboard == <<typed, closed>>
input == <<taken, incoming, polling, inLock, inDone, got>>
output == <<putBusy, outLock, outDone>>
vars == <<keyboard, input, output, pc, reads, writes>>

Place == {"idle", "read", "readWait", "readTake", "write", "writePut",
          "writeWait", "writeDone"}

TypeOK ==
  /\ typed \in 0 .. Len(Script) /\ closed \in BOOLEAN
  /\ taken \in 0 .. typed
  /\ incoming \in Char \cup {EOF}
  /\ polling \in BOOLEAN /\ putBusy \in BOOLEAN
  /\ inLock \in Thread \cup {NoThread} /\ outLock \in Thread \cup {NoThread}
  /\ inDone \in Nat /\ outDone \in Nat
  /\ pc \in [Thread -> Place]
  /\ got \in Seq(Char \cup {EOF})
  /\ reads \in 0 .. MaxReads /\ writes \in 0 .. MaxWrites

Init ==
  /\ typed = 0 /\ closed = FALSE /\ taken = 0
  /\ incoming = EOF /\ polling = TRUE        \* "start polling"
  /\ inLock = NoThread /\ inDone = 0
  /\ putBusy = FALSE /\ outLock = NoThread /\ outDone = 0
  /\ pc = [t \in Thread |-> "idle"]
  /\ got = <<>>
  /\ reads = 0 /\ writes = 0

(* The semaphores, seen from P and from V; faulty variants.                *)
Positive(v) == v > 0
NotPosted(v) == v
Posted(v) == v + 1

Goto(t, place) == pc' = [pc EXCEPT ![t] = place]

----------------------------------------------------------------------------
(* The user.                                                               *)
Type ==
  /\ typed < Len(Script) /\ ~closed
  /\ typed' = typed + 1
  /\ UNCHANGED <<closed, input, output, pc, reads, writes>>

EndInput ==
  /\ typed = Len(Script) /\ ~closed
  /\ closed' = TRUE
  /\ UNCHANGED <<typed, input, output, pc, reads, writes>>

----------------------------------------------------------------------------
(* ConsoleInput::CallBack.                                                 *)
KeyboardQuiet == taken = typed /\ ~closed     \* PollFile finds nothing

(* Whether the handler schedules the next poll.  It does so when there was *)
(* nothing to read, and leaves it to GetChar otherwise.                    *)
PollAgain == KeyboardQuiet

InputInterrupt ==
  /\ polling
  /\ polling' = PollAgain
  /\ IF KeyboardQuiet
     THEN UNCHANGED <<taken, incoming, inDone>>
     ELSE /\ inDone' = Posted(inDone)
          /\ IF taken < typed
             THEN taken' = taken + 1 /\ incoming' = Script[taken + 1]
             ELSE UNCHANGED <<taken, incoming>>          \* end of file
  /\ UNCHANGED <<keyboard, inLock, got, output, pc, reads, writes>>

(* SynchConsoleInput::GetChar *)
CallGetChar(t) ==
  /\ pc[t] = "idle" /\ reads < MaxReads
  /\ reads' = reads + 1
  /\ Goto(t, "read")
  /\ UNCHANGED <<keyboard, input, output, writes>>

LockInput(t) ==
  /\ pc[t] = "read" /\ inLock = NoThread
  /\ inLock' = t
  /\ Goto(t, "readWait")
  /\ UNCHANGED <<keyboard, taken, incoming, polling, inDone, got, output, reads, writes>>

AwaitInput(t) ==
  /\ pc[t] = "readWait" /\ Positive(inDone)
  /\ inDone' = inDone - 1
  /\ Goto(t, "readTake")
  /\ UNCHANGED <<keyboard, taken, incoming, polling, inLock, got, output, reads, writes>>

(* ConsoleInput::GetChar, which restarts the polling, and Release.         *)
NeverRestart == FALSE
RestartPolling == incoming # EOF
BufferKept == incoming
BufferEmptied == EOF

TakeChar(t) ==
  /\ pc[t] = "readTake"
  /\ got' = Append(got, incoming)
  /\ polling' = (polling \/ RestartPolling)
  /\ incoming' = BufferEmptied
  /\ inLock' = NoThread
  /\ Goto(t, "idle")
  /\ UNCHANGED <<keyboard, taken, inDone, output, reads, writes>>

----------------------------------------------------------------------------
(* SynchConsoleOutput::PutChar *)
CallPutChar(t) ==
  /\ pc[t] = "idle" /\ writes < MaxWrites
  /\ writes' = writes + 1
  /\ Goto(t, "write")
  /\ UNCHANGED <<keyboard, input, output, reads>>

LockOutput(t) ==
  /\ pc[t] = "write" /\ outLock = NoThread
  /\ outLock' = t
  /\ Goto(t, "writePut")
  /\ UNCHANGED <<keyboard, input, putBusy, outDone, reads, writes>>

(* A faulty PutChar that releases the lock before it waits. *)
PutCharUnlocked(t) ==
  /\ pc[t] = "writePut"
  /\ putBusy' = TRUE
  /\ outLock' = NoThread
  /\ Goto(t, "idle")
  /\ UNCHANGED <<keyboard, input, outDone, reads, writes>>

(* ConsoleOutput::PutChar; its ASSERT is in DevicesReady below. *)
PutChar(t) ==
  /\ pc[t] = "writePut"
  /\ putBusy' = TRUE
  /\ Goto(t, "writeWait")
  /\ UNCHANGED <<keyboard, input, outLock, outDone, reads, writes>>

(* ConsoleOutput::CallBack *)
OutputInterrupt ==
  /\ putBusy
  /\ putBusy' = FALSE
  /\ outDone' = Posted(outDone)
  /\ UNCHANGED <<keyboard, input, outLock, pc, reads, writes>>

AwaitOutput(t) ==
  /\ pc[t] = "writeWait" /\ Positive(outDone)
  /\ outDone' = outDone - 1
  /\ Goto(t, "writeDone")
  /\ UNCHANGED <<keyboard, input, putBusy, outLock, reads, writes>>

UnlockOutput(t) ==
  /\ pc[t] = "writeDone"
  /\ outLock' = NoThread
  /\ Goto(t, "idle")
  /\ UNCHANGED <<keyboard, input, putBusy, outDone, reads, writes>>

----------------------------------------------------------------------------
ThreadStep(t) ==
  \/ LockInput(t) \/ AwaitInput(t) \/ TakeChar(t)
  \/ LockOutput(t) \/ PutChar(t) \/ AwaitOutput(t) \/ UnlockOutput(t)

Next ==
  \/ Type \/ EndInput \/ InputInterrupt \/ OutputInterrupt
  \/ \E t \in Thread : CallGetChar(t) \/ CallPutChar(t) \/ ThreadStep(t)

Spec == Init /\ [][Next]_vars

(* The user goes on typing until the script ends; pending interrupts fire  *)
(* (the clock moves) and ready threads run.                                *)
Fairness ==
  /\ WF_vars(Type) /\ WF_vars(EndInput)
  /\ WF_vars(InputInterrupt) /\ WF_vars(OutputInterrupt)
  /\ \A t \in Thread : WF_vars(ThreadStep(t))

FairSpec == Spec /\ Fairness

----------------------------------------------------------------------------
(* Properties.                                                             *)

Bit(b) == IF b THEN 1 ELSE 0
Count(place) == Cardinality({t \in Thread : pc[t] = place})

(* The ASSERTs of the two devices: the display is never given a character  *)
(* while it is busy with another, and each completion belongs to the       *)
(* thread that waits for it; the one-character buffer of the keyboard is   *)
(* free whenever the device polls, so no character is overwritten.         *)
DevicesReady ==
  /\ TypeOK
  /\ \A t \in Thread : pc[t] = "writePut" => ~putBusy
  /\ Bit(putBusy) + outDone = Count("writeWait")
  /\ polling => incoming = EOF /\ inDone = 0 /\ Count("readTake") = 0

(* The calls among the first n that returned a character.                  *)
CharsRead(n) == {i \in 1 .. n : got[i] # EOF}

(* The callers of GetChar get what was typed, in order, nothing twice and  *)
(* nothing skipped: the k-th character returned is the k-th one typed, and *)
(* the one in the buffer comes next.  (For input that holds no 0xFF byte.) *)
InputInOrder ==
  (\A k \in DOMAIN Script : Script[k] # EOF) =>
    /\ Cardinality(CharsRead(Len(got))) + Bit(incoming # EOF) = taken
    /\ incoming # EOF => incoming = Script[taken]
    /\ \A i \in CharsRead(Len(got)) : got[i] = Script[Cardinality(CharsRead(i))]

(* A thread that waits for a character gets one, or the end of the input   *)
(* ("wait for EOF or a char to be available", synchconsole.cc:46).         *)
GetCharReturns == \A t \in Thread : pc[t] = "readWait" ~> pc[t] = "idle"
=============================================================================
