--------------------------- MODULE ContextSwitch ----------------------------
(***************************************************************************)
(* Below Scheduler::Run: the stacks, the saved registers and the assembly  *)
(* routines SWITCH and ThreadRoot, on each host switch.S knows, with the   *)
(* registers of user programs that Run saves beside them.  Everything runs *)
(* on the one host processor "cpu"; nothing but the stack pointer says     *)
(* whose stack it is on.                                                   *)
(*                                                                         *)
(* A value is <<kind, thread, name, number>>; "work" values are what C     *)
(* code of a thread keeps in a register that calls must preserve.          *)
(***************************************************************************)
EXTENDS Integers, Sequences

-----------------------------------------------------------------------------
(***************************************************************************)
(* The host processors that switch.S and switch.h support: where the       *)
(* thread control block keeps each register, which registers ThreadRoot    *)
(* takes its four values from, and where StackAllocate puts the first      *)
(* frame.  A register is <<class, number>>; an offset is in bytes from the *)
(* beginning of the Thread, whose first member is stackTop.                *)
(***************************************************************************)
Archs == {"DECMIPS", "SPARC", "PARISC", "x86", "ApplePowerPC", "PowerPC", "ALPHA"}

R(class) == <<class, 0>>
Of(class, low, high) == {class} \X (low .. high)

MipsSlots ==
  [r \in Of("s", 0, 7) \cup {R("sp"), R("fp"), R("ra")} |->
    CASE r[1] = "sp" -> 0 [] r[1] = "s" -> 4 + 4 * r[2] [] r[1] = "fp" -> 36 [] OTHER -> 40]
SparcSlots ==
  [r \in Of("o", 0, 5) \cup {R("sp"), <<"o", 7>>} |->
    CASE r[1] = "sp" -> 0 [] r[2] = 7 -> 32 [] OTHER -> 4 + 4 * r[2]]
PariscSlots ==
  [r \in Of("r", 3, 18) \cup {R("sp"), R("rp")} |->
    CASE r[1] = "sp" -> 0 [] r[1] = "r" -> 4 + 4 * (r[2] - 3) [] OTHER -> 68]
X86Slots ==
  [r \in {"esp", "eax", "ebx", "ecx", "edx", "ebp", "esi", "edi", "pc"} \X {0} |->
    CASE r[1] = "esp" -> 0 [] r[1] = "eax" -> 4 [] r[1] = "ebx" -> 8 [] r[1] = "ecx" -> 12
      [] r[1] = "edx" -> 16 [] r[1] = "ebp" -> 20 [] r[1] = "esi" -> 24 [] r[1] = "edi" -> 28
      [] OTHER -> 32]
PowerSlots ==
  [r \in Of("r", 13, 31) \cup Of("f", 14, 31) \cup {R("sp"), R("cr"), R("lr")} |->
    CASE r[1] = "sp" -> 0 [] r[1] = "r" -> 20 + 4 * (r[2] - 13) [] r[1] = "f" -> 96 + 8 * (r[2] - 14)
      [] r[1] = "cr" -> 240 [] OTHER -> 244]
AlphaSlots ==
  [r \in Of("s", 0, 6) \cup {R("sp"), R("gp"), R("pc")} |->
    CASE r[1] = "sp" -> 0 [] r[1] = "s" -> 8 + 8 * r[2] [] r[1] = "gp" -> 64 [] OTHER -> 72]

Power(a) == a \in {"ApplePowerPC", "PowerPC"}
Slots(a) ==
  CASE a = "DECMIPS" -> MipsSlots [] a = "SPARC" -> SparcSlots [] a = "PARISC" -> PariscSlots
    [] a = "x86" -> X86Slots [] a = "ALPHA" -> AlphaSlots [] OTHER -> PowerSlots

Pointer(a) == IF a = "ALPHA" THEN 8 ELSE 4
Width(a, r) == IF Power(a) /\ r[1] = "f" THEN 8 ELSE Pointer(a)
MachineStateSize == 75
BlockSize(a) == Pointer(a) * (1 + MachineStateSize)

(* The registers that each SWITCH stores into the old block, and those it  *)
(* loads from the new one.  The SPARC names them as the callee's window    *)
(* sees them; the x86 takes the program counter from the stack.            *)
Moves(stored, loaded) == [stored |-> stored, loaded |-> loaded]
MipsSWITCH ==
  LET all == Of("s", 0, 7) \cup {R("sp"), R("fp"), R("ra")} IN Moves(all, all)
SparcSWITCH ==
  LET all == Of("o", 0, 5) \cup {R("sp"), <<"o", 7>>} IN Moves(all, all)
PariscSWITCH ==
  LET all == Of("r", 3, 18) \cup {R("sp"), R("rp")} IN Moves(all, all)
X86SWITCH ==
  LET all == {R("esp"), R("eax"), R("ebx"), R("ecx"), R("edx"), R("ebp"), R("esi"), R("edi"), R("pc")}
  IN Moves(all, all)
AppleSWITCH ==
  LET all == {R("sp"), R("lr"), R("cr")} \cup Of("r", 13, 31) \cup Of("f", 14, 31) IN Moves(all, all)
PowerSWITCH ==
  LET all == {R("sp"), R("lr"), R("cr")} \cup Of("r", 13, 31) \cup Of("f", 14, 31) IN Moves(all, all)
AlphaSWITCH ==
  LET all == Of("s", 0, 6) \cup {R("pc"), R("gp"), R("sp")} IN Moves(all, all)
MovesOf(a) ==
  CASE a = "DECMIPS" -> MipsSWITCH [] a = "SPARC" -> SparcSWITCH [] a = "PARISC" -> PariscSWITCH
    [] a = "x86" -> X86SWITCH [] a = "ALPHA" -> AlphaSWITCH
    [] a = "ApplePowerPC" -> AppleSWITCH [] OTHER -> PowerSWITCH

(* Where ThreadRoot finds StartupPC, InitialPC and WhenDonePC when it comes*)
(* to call them, and InitialArg: in a register, or as many words above the *)
(* stack pointer.                                                          *)
OnStack(words) == <<"word", words>>
RootCalls(a) ==
  CASE a \in {"DECMIPS", "ALPHA"} -> <<<<"s", 3>>, <<"s", 0>>, <<"s", 2>>>>
    [] a = "SPARC" -> <<<<"o", 3>>, <<"l", 0>>, <<"l", 2>>>>
    [] a = "PARISC" -> <<<<"r", 6>>, <<"r", 3>>, <<"r", 5>>>>
    [] a = "x86" -> <<R("ecx"), R("esi"), R("edi")>>
    [] a = "ApplePowerPC" -> <<<<"r", 20>>, <<"r", 22>>, <<"r", 23>>>>
    [] OTHER -> <<<<"r", 3>>, <<"r", 5>>, <<"r", 6>>>>
RootArg(a) ==
  CASE a \in {"DECMIPS", "ALPHA"} -> <<"s", 1>> [] a = "SPARC" -> <<"l", 1>>
    [] a = "PARISC" -> <<"r", 4>> [] a = "x86" -> OnStack(0)
    [] a = "ApplePowerPC" -> <<"r", 21>> [] OTHER -> <<"r", 4>>

(* The registers that keep the stack pointer and the address at which      *)
(* SWITCH resumes.                                                         *)
SP(a) == IF a = "x86" THEN R("esp") ELSE R("sp")
PC(a) == CASE a = "DECMIPS" -> R("ra") [] a = "SPARC" -> <<"o", 7>> [] a = "PARISC" -> R("rp")
           [] Power(a) -> R("lr") [] OTHER -> R("pc")

(* machineState[PCState] and its four companions, as offsets.              *)
MipsState == [func |-> 4, arg |-> 8, done |-> 12, startup |-> 16, pc |-> 40]
SparcState == [func |-> 4, arg |-> 8, done |-> 12, startup |-> 16, pc |-> 32]
PariscState == [func |-> 4, arg |-> 8, done |-> 12, startup |-> 16, pc |-> 68]
X86State == [func |-> 24, arg |-> 16, done |-> 28, startup |-> 12, pc |-> 32]
PowerState == [func |-> 4 * 1, arg |-> 4 * 2, done |-> 4 * 3, startup |-> 4 * 4, pc |-> 4 * 61]
AlphaState == [func |-> 8, arg |-> 16, done |-> 24, startup |-> 32, pc |-> 72]
StateSlots(a) ==
  CASE a = "DECMIPS" -> MipsState [] a = "SPARC" -> SparcState [] a = "PARISC" -> PariscState
    [] a = "x86" -> X86State [] a = "ALPHA" -> AlphaState [] OTHER -> PowerState

(* Stacks grow towards lower addresses, on PA-RISC towards higher ones;    *)
(* the fence post is the last word that may be reached.                    *)
StackSize == 8 * 1024
Down(a) == IF a = "PARISC" THEN -1 ELSE 1
FencePost(a) == IF a = "PARISC" THEN StackSize - 1 ELSE 0
TightStackTop(a) == IF a = "x86" THEN StackSize - 1 ELSE StackSize - 16
StackTop(a) ==
  CASE a = "PARISC" -> 16 [] a = "SPARC" -> StackSize - 96 [] Power(a) -> StackSize - 16
    [] a = "DECMIPS" -> StackSize - 4 [] a = "ALPHA" -> StackSize - 8
    [] OTHER -> StackSize - 4 - 1

(* What a compiled C function gives back as it found it (the calling       *)
(* convention of each host; code outside the repository).                  *)
CalleeSaved(a) ==
  {SP(a)} \cup CASE a = "DECMIPS" -> ({"s"} \X (0 .. 7)) \cup {R("fp")}
                 [] a = "SPARC" -> {"l", "i"} \X (0 .. 7)
                 [] a = "PARISC" -> {"r"} \X (3 .. 18)
                 [] a = "x86" -> {R("ebx"), R("esi"), R("edi"), R("ebp")}
                 [] a = "ALPHA" -> {"s"} \X (0 .. 6)
                 [] OTHER -> ({"r"} \X (13 .. 31)) \cup ({"f"} \X (14 .. 31)) \cup {R("cr")}

(* The others that SWITCH and ThreadRoot touch.                            *)
Scratch(a) ==
  CASE a = "SPARC" -> {} [] Power(a) -> {"r"} \X (3 .. 6) [] OTHER -> {R("a0")}
Registers(a) == DOMAIN Slots(a) \cup CalleeSaved(a) \cup Scratch(a)
-----------------------------------------------------------------------------
CONSTANTS Thread,        \* Thread objects (strings)
          Main,          \* the one that Kernel::Initialize makes of the host's own stack
          Hosts,         \* processors looked at, of Archs
          UserThread,    \* threads that may run a user program
          NumTotalRegs   \* registers of the simulated machine

ASSUME ContextSwitchAssumption ==
  Main \in Thread /\ "none" \notin Thread /\ Hosts \subseteq Archs /\ NumTotalRegs \in Nat

VARIABLES arch,          \* the host
          cpu,           \* its registers
          mem,           \* stack of each thread: index in words -> value, where written
          block,         \* stackTop and machineState of each thread, in cells of four bytes
          at,            \* "in" C code, at a call of ThreadRoot, or stopped
          place,         \* what a thread is doing
          gen, entry,    \* the work values of its C code, and what that code owes its caller
          calls,         \* what its ThreadRoot has called
          currentThread, toBeDestroyed,
          machine, pageTable, userRegisters, space

switchVars == <<arch, cpu, mem, block, at, place, gen, entry, calls, currentThread,
                toBeDestroyed, machine, pageTable, userRegisters, space>>
hostVars == <<cpu, mem, block, at, gen, entry, calls>>
userVars == <<machine, pageTable, userRegisters, space>>

Forked == Thread \ {Main}
Junk == <<"junk", "", "", 0>>
Zero == <<"null", "", "", 0>>
Code(f) == <<"code", "", f, 0>>
Func(t) == <<"code", t, "func", 0>>
Arg(t) == <<"arg", t, "", 0>>
Stack(t, i) == <<"stack", t, "", i>>
Fence == <<"fence", "", "", 0>>
Work(t, g, r) == <<"work", t, r[1], 2 * r[2] + g>>
UserWork(t, g, i) == <<"user", t, "", 2 * i + g>>

(* Words of memory: one word, and f over g.                                *)
Only(i, v) == [j \in {i} |-> v]
f ++ g == [i \in DOMAIN f \cup DOMAIN g |-> IF i \in DOMAIN f THEN f[i] ELSE g[i]]
Above(p, k) == <<p[1], p[2], p[3], p[4] + Down(arch) * k>>
Word(m, p) == IF p[1] = "stack" /\ p[4] \in DOMAIN m[p[2]] THEN m[p[2]][p[4]] ELSE Junk
Put(m, p, v) ==
  IF p[1] = "stack" THEN [m EXCEPT ![p[2]] = Only(p[4], v) ++ @] ELSE m

(* Registers in a control block: a store fills all cells of the register,  *)
(* and a load finds the value only when they all still belong to it.       *)
Cells(o, w) == (o \div 4) .. ((o + w) \div 4) - 1
SlotCells(r) == Cells(Slots(arch)[r], Width(arch, r))
Save(b, c) ==
  LET Owns(r, u) == u \in SlotCells(r)
  IN [u \in DOMAIN b |->
       IF \E r \in MovesOf(arch).stored : Owns(r, u)
       THEN LET r == CHOOSE r \in MovesOf(arch).stored : Owns(r, u)
            IN <<c[r], u - (Slots(arch)[r] \div 4)>>
       ELSE b[u]]
Fetch(b, o, w) ==
  LET v == b[o \div 4][1]
  IN IF \A u \in Cells(o, w) : b[u] = <<v, u - (o \div 4)>> THEN v ELSE Junk
LoadButFrame(b, c) ==
  [r \in DOMAIN c |->
    IF r \in MovesOf(arch).loaded \ {R("ebp"), R("fp")}
    THEN Fetch(b, Slots(arch)[r], Width(arch, r)) ELSE c[r]]
Load(b, c) ==
  [r \in DOMAIN c |->
    IF r \in MovesOf(arch).loaded THEN Fetch(b, Slots(arch)[r], Width(arch, r)) ELSE c[r]]

EmptyBlock == [u \in 0 .. (BlockSize(arch) \div 4) - 1 |-> <<Zero, u % (Pointer(arch) \div 4)>>]
Busy(t, g, sp) ==
  [r \in Registers(arch) |-> CASE r = SP(arch) -> sp
                               [] r \in CalleeSaved(arch) \ {SP(arch)} -> Work(t, g, r)
                               [] OTHER -> Junk]

SwitchInit ==
  /\ arch \in Hosts
  /\ cpu = Busy(Main, 0, Stack(Main, 0))
  /\ mem = [t \in Thread |-> <<>>]
  /\ block = [t \in Thread |-> EmptyBlock]
  /\ at = "in"
  /\ place = [t \in Thread |-> IF t = Main THEN "func" ELSE "created"]
  /\ gen = [t \in Thread |-> 0]
  /\ entry = [t \in Thread |-> <<>>]
  /\ calls = [t \in Thread |-> <<>>]
  /\ currentThread = Main
  /\ toBeDestroyed = "none"
  /\ machine = [i \in 0 .. NumTotalRegs - 1 |-> Zero]
  /\ pageTable = "none"
  /\ userRegisters = [t \in Thread |-> [i \in 0 .. NumTotalRegs - 1 |-> Junk]]
  /\ space = [t \in Thread |-> FALSE]

(* Thread::StackAllocate.  PLabelToAddr gives the address of the same code.*)
InitialFrame(t) ==
  Only(FencePost(arch), Fence)
  ++ (IF arch = "x86" THEN Only(StackTop(arch), Code("ThreadRoot")) ELSE <<>>)
InitialWord(t, o) ==
  LET s == StateSlots(arch)
  IN CASE o = 0 -> Stack(t, StackTop(arch))
       [] o = s.pc -> Code("ThreadRoot") [] o = s.startup -> Code("ThreadBegin")
       [] o = s.func -> Func(t) [] o = s.arg -> Arg(t)
       [] o = s.done -> Code("ThreadFinish") [] OTHER -> Zero
InitialState(t) ==
  LET First(u) == (u * 4) - ((u * 4) % Pointer(arch))
  IN [u \in DOMAIN EmptyBlock |-> <<InitialWord(t, First(u)), u - (First(u) \div 4)>>]

StackAllocate(t) ==
  /\ at = "in" /\ place[t] = "created"
  /\ mem' = [mem EXCEPT ![t] = InitialFrame(t)]
  /\ block' = [block EXCEPT ![t] = InitialState(t)]
  /\ place' = [place EXCEPT ![t] = "forked"]
  /\ UNCHANGED <<arch, cpu, at, gen, entry, calls, currentThread, toBeDestroyed, userVars>>

(* SWITCH on a processor that keeps return addresses in a register.  The   *)
(* SPARC flushes its register windows to the stack and refills them from   *)
(* the other one; the PowerPC of AIX passes the four values of ThreadRoot  *)
(* in registers 3 to 6, Apple's leaves it the block in register 4.         *)
Windows == [r \in {"l", "i"} \X (0 .. 7) |-> IF r[1] = "l" THEN r[2] ELSE 8 + r[2]]
Flushed(m) ==
  IF arch # "SPARC" THEN m
  ELSE LET sp == cpu[SP(arch)]
           Held(k) == CHOOSE r \in DOMAIN Windows : Windows[r] = k
       IN [m EXCEPT ![sp[2]] = [i \in sp[4] .. sp[4] + 15 |-> cpu[Held(i - sp[4])]] ++ @]
Refilled(c, m) ==
  IF arch # "SPARC" THEN c
  ELSE [r \in DOMAIN c |-> IF r \in DOMAIN Windows THEN Word(m, Above(c[SP(arch)], Windows[r]))
                           ELSE c[r]]
Passed(c, b, t) ==
  CASE arch = "ApplePowerPC" -> [c EXCEPT ![<<"r", 4>>] = <<"block", t, "", 0>>]
    [] arch = "PowerPC" -> [c EXCEPT ![<<"r", 3>>] = Fetch(b, 16, 4), ![<<"r", 5>>] = Fetch(b, 4, 4),
                                     ![<<"r", 6>>] = Fetch(b, 12, 4), ![<<"r", 4>>] = Fetch(b, 8, 4)]
    [] OTHER -> c
LinkSwitch(old, new) ==
  LET b == [block EXCEPT ![old] = Save(@, [cpu EXCEPT ![PC(arch)] = Code("Run")])]
      m == Flushed(mem)
      c == Passed(Refilled(Load(b[new], cpu), m), b[new], new)
  IN [cpu |-> c, mem |-> m, block |-> b, pc |-> c[PC(arch)]]

(* SWITCH on x86: arguments and return address are on the stack, and the   *)
(* address that "ret" takes is the one already there.                      *)
StackSwitch(old, new) ==
  LET sp == Above(cpu[SP(arch)], -3)
      m1 == Put(Put(Put(mem, Above(sp, 2), <<"block", new, "", 0>>),
                    Above(sp, 1), <<"block", old, "", 0>>), sp, Code("Run"))
      b == [block EXCEPT ![old] = Save(@, [cpu EXCEPT ![SP(arch)] = sp, ![PC(arch)] = Word(m1, sp)])]
      c == Load(b[new], cpu)
      m2 == Put(m1, Above(c[SP(arch)], 1), c[PC(arch)])
      pc == Word(m2, c[SP(arch)])
      popped == IF pc = Code("Run") THEN 3 ELSE 1
  IN [cpu |-> [c EXCEPT ![SP(arch)] = Above(@, popped)], mem |-> m2, block |-> b, pc |-> pc]

SWITCH(old, new) == IF arch = "x86" THEN StackSwitch(old, new) ELSE LinkSwitch(old, new)

CheckOverflow(t) == t = Main \/ Word(mem, Stack(t, FencePost(arch))) = Fence

(* Thread::SaveUserState and RestoreUserState.                             *)
SaveUserState == [i \in 0 .. NumTotalRegs - 1 |-> machine[i]]
RestoreUserState(t) ==
  /\ machine' = [i \in 0 .. NumTotalRegs - 1 |-> userRegisters'[t][i]]
  /\ pageTable' = t

(* Scheduler::CheckToBeDestroyed: the carcass t loses stack and object.    *)
StackFreed(m, t) == [u \in Thread |-> IF u = t THEN <<>> ELSE m[u]]
Deleted(t) == [u \in Thread |-> IF u = t THEN "deleted" ELSE place[u]]

(* Scheduler::Run, called by Yield, Sleep or Finish of the current thread. *)
(* It returns in the thread whose stack SWITCH loads, or starts ThreadRoot;*)
(* only a thread that comes back from SWITCH deletes the carcass here.     *)
Runnable(t) == t # currentThread /\ place[t] \in {"forked", "startup", "func"}
Run(next) ==
  LET old == currentThread
      sw == SWITCH(old, next)
      owner == sw.cpu[SP(arch)][2]
      resumed == sw.pc = Code("Run") /\ owner \in Thread
      carcass == IF place[old] = "finish" THEN old ELSE toBeDestroyed
  IN /\ at = "in" /\ Runnable(next)
     /\ place[old] = "finish" => toBeDestroyed = "none"
     /\ CheckOverflow(old)
     /\ currentThread' = next
     /\ cpu' = sw.cpu /\ block' = sw.block
     /\ at' = CASE resumed -> "in" [] sw.pc = Code("ThreadRoot") -> "root1" [] OTHER -> "crashed"
     /\ mem' = IF resumed THEN StackFreed(sw.mem, carcass) ELSE sw.mem
     /\ place' = IF resumed THEN Deleted(carcass) ELSE place
     /\ toBeDestroyed' = IF resumed THEN "none" ELSE carcass
     /\ userRegisters' = [userRegisters EXCEPT ![old] = IF space[old] THEN SaveUserState ELSE @]
     /\ IF resumed /\ space[owner] THEN RestoreUserState(owner)
        ELSE UNCHANGED <<machine, pageTable>>
     /\ UNCHANGED <<arch, gen, entry, calls, space>>

Overflowed ==
  /\ at = "in" /\ ~CheckOverflow(currentThread) /\ \E t \in Thread : Runnable(t)
  /\ at' = "assert"
  /\ UNCHANGED <<arch, cpu, mem, block, place, gen, entry, calls, currentThread,
                 toBeDestroyed, userVars>>

(* ThreadRoot, up to its next call: registers and stack after it has put   *)
(* away what the call might destroy.  Most hosts do so once.               *)
Here == [cpu |-> cpu, mem |-> mem]
MipsRoot == [Here EXCEPT !.cpu[R("fp")] = Zero]
AlphaRoot == [Here EXCEPT !.cpu[<<"s", 6>>] = Zero]
SparcRoot ==
  [Here EXCEPT !.cpu[<<"i", 6>>] = Zero, !.cpu[<<"l", 0>>] = cpu[<<"o", 0>>],
               !.cpu[<<"l", 1>>] = cpu[<<"o", 1>>], !.cpu[<<"l", 2>>] = cpu[<<"o", 2>>]]
X86Root ==
  LET sp == cpu[SP(arch)]
  IN [cpu |-> [cpu EXCEPT ![R("ebp")] = Above(sp, -1), ![SP(arch)] = Above(sp, -2)],
      mem |-> Put(Put(mem, Above(sp, -1), cpu[R("ebp")]), Above(sp, -2), cpu[R("edx")])]
AppleRoot ==
  LET Offset(o) == Fetch(block[cpu[<<"r", 4>>][2]], o, 4)
  IN [Here EXCEPT !.cpu[<<"r", 20>>] = Offset(16), !.cpu[<<"r", 21>>] = Offset(8),
                  !.cpu[<<"r", 22>>] = Offset(4), !.cpu[<<"r", 23>>] = Offset(12)]

(* The PA-RISC puts the return pointer of each call below the stack        *)
(* pointer, from where the callee's export stub takes it.  What the        *)
(* assembler makes of .ENTER and .LEAVE is left out.                       *)
PariscRoot == [Here EXCEPT !.mem = Put(mem, Above(cpu[SP(arch)], 6), Code("ThreadRoot"))]

(* AIX takes a frame of szdsa words for each of the first two calls and    *)
(* gives it back after them.  Below the pointer it had before, "base", are *)
(* the registers that calls preserve (two words for each of f14 to f31)    *)
(* and the back chain, above it cr, lr and what the calls to come need.    *)
szdsa == (8 * 18 + 4 * 19 + 24 + 32) \div 4
PowerBase(k) == IF k = 1 THEN cpu[SP(arch)] ELSE Above(cpu[SP(arch)], szdsa)
PowerRestored(k) ==
  LET Kept(i) == Word(mem, Above(PowerBase(k), i))
  IN [r \in DOMAIN cpu |->
       CASE r = SP(arch) -> PowerBase(k)
         [] r \in Of("r", 13, 31) -> Kept(r[2] - 68) [] r[1] = "f" -> Kept(2 * r[2] - 64)
         [] r = R("cr") -> Kept(1) [] r = R("lr") -> Kept(2)
         [] r \in Of("r", 4, 6) /\ k = 2 -> Kept(r[2] + 2)
         [] r = <<"r", 6>> /\ k = 3 -> Kept(6)
         [] OTHER -> cpu[r]]
PowerStored(k, c) ==
  [i \in {-szdsa, 1, 2, 6} \cup (-55 .. -1) \cup (IF k = 1 THEN {7, 8} ELSE {}) |->
    CASE i = -szdsa -> c[SP(arch)]
      [] i \in -55 .. -37 -> c[<<"r", i + 68>>] [] i \in -36 .. -1 -> c[<<"f", (i + 64) \div 2>>]
      [] i = 1 -> c[R("cr")] [] i = 2 -> c[R("lr")]
      [] i = 6 /\ k = 2 -> c[<<"r", 6>>] [] OTHER -> c[<<"r", i - 2>>]]
PowerRoot(k) ==
  LET base == PowerBase(k)
      c == IF k = 1 THEN cpu ELSE PowerRestored(k)
      stored == PowerStored(k, c)
  IN IF k = 3 THEN [cpu |-> c, mem |-> mem]
     ELSE [cpu |-> [c EXCEPT ![SP(arch)] = Above(base, -szdsa)],
           mem |-> [mem EXCEPT ![base[2]] =
                     [i \in {base[4] + j : j \in DOMAIN stored} |-> stored[i - base[4]]] ++ @]]
RootFrame(k) ==
  IF k > 1 /\ arch \notin {"PARISC", "PowerPC"} THEN Here
  ELSE CASE arch = "DECMIPS" -> MipsRoot [] arch = "ALPHA" -> AlphaRoot [] arch = "SPARC" -> SparcRoot
         [] arch = "PARISC" -> PariscRoot [] arch = "x86" -> X86Root
         [] arch = "ApplePowerPC" -> AppleRoot [] OTHER -> PowerRoot(k)
Taken(location, c, m) ==
  IF location[1] = "word" THEN Word(m, Above(c[SP(arch)], location[2])) ELSE c[location]

(* One call of ThreadRoot.  The C code called gets a frame of its own, may *)
(* change every register that it need not preserve, and ThreadBegin first  *)
(* deletes the carcass of the thread before.                               *)
FrameWords == 8
RootCall(k) ==
  LET before == RootFrame(k)
      target == Taken(RootCalls(arch)[k], before.cpu, before.mem)
      argument == IF k = 2 THEN Taken(RootArg(arch), before.cpu, before.mem) ELSE Zero
      t == currentThread
      begins == target = Code("ThreadBegin")
  IN /\ at = <<"root1", "root2", "root3">>[k]
     /\ at' = IF target[1] = "code" THEN "in" ELSE "crashed"
     /\ calls' = [calls EXCEPT ![t] = Append(@, <<target, argument>>)]
     /\ entry' = [entry EXCEPT ![t] = [r \in CalleeSaved(arch) |-> before.cpu[r]]]
     /\ cpu' = Busy(t, gen[t], Above(before.cpu[SP(arch)], -FrameWords))
     /\ mem' = IF begins THEN StackFreed(before.mem, toBeDestroyed) ELSE before.mem
     /\ place' = [IF begins THEN Deleted(toBeDestroyed) ELSE place
                   EXCEPT ![t] = <<"startup", "func", "finish">>[k]]
     /\ toBeDestroyed' = IF begins THEN "none" ELSE toBeDestroyed
     /\ UNCHANGED <<arch, block, gen, currentThread, userVars>>

(* The C code returns into ThreadRoot with the registers it must preserve. *)
Return ==
  LET t == currentThread
  IN /\ at = "in" /\ t # Main /\ place[t] \in {"startup", "func"}
     /\ at' = IF place[t] = "startup" THEN "root2" ELSE "root3"
     /\ cpu' = [r \in DOMAIN cpu |-> IF r \in CalleeSaved(arch) THEN entry[t][r] ELSE Junk]
     /\ UNCHANGED <<arch, mem, block, place, gen, entry, calls, currentThread, toBeDestroyed, userVars>>

(* C code computes: other values in the registers it keeps; if it is the   *)
(* simulator that runs a program, other values in the machine's too.       *)
Compute ==
  LET t == currentThread
  IN /\ at = "in"
     /\ gen' = [gen EXCEPT ![t] = 1 - @]
     /\ cpu' = Busy(t, 1 - gen[t], cpu[SP(arch)])
     /\ machine' = IF space[t] /\ place[t] = "func"
                   THEN [i \in DOMAIN machine |-> UserWork(t, 1 - gen[t], i)] ELSE machine
     /\ UNCHANGED <<arch, mem, block, at, place, entry, calls, currentThread, toBeDestroyed,
                    pageTable, userRegisters, space>>

(* A recursion that leaves the stack through the fence post.               *)
Overrun ==
  /\ at = "in" /\ currentThread # Main /\ place[currentThread] = "func"
  /\ mem' = Put(mem, Stack(currentThread, FencePost(arch)), Junk)
  /\ UNCHANGED <<arch, cpu, block, at, place, gen, entry, calls, currentThread, toBeDestroyed, userVars>>

(* AddrSpace::Execute, in a thread whose function has loaded a program.    *)
Execute ==
  LET t == currentThread
  IN /\ at = "in" /\ place[t] = "func" /\ t \in UserThread /\ ~space[t]
     /\ space' = [space EXCEPT ![t] = TRUE]
     /\ machine' = [i \in 0 .. NumTotalRegs - 1 |-> UserWork(t, gen[t], i)]
     /\ pageTable' = t
     /\ UNCHANGED <<arch, hostVars, place, currentThread, toBeDestroyed, userRegisters>>

SwitchNext ==
  \/ \E t \in Forked : StackAllocate(t)
  \/ \E t \in Thread : Run(t)
  \/ \E k \in 1 .. 3 : RootCall(k)
  \/ Return \/ Compute \/ Overrun \/ Overflowed \/ Execute
SwitchSpec == SwitchInit /\ [][SwitchNext]_switchVars

-----------------------------------------------------------------------------
(* C code that runs finds itself on the stack of the current thread, with  *)
(* the registers that a call must preserve as it left them, however many   *)
(* threads ran meanwhile; a user program that runs finds the machine's     *)
(* registers and page table to be its own (SWITCH, Scheduler::Run).        *)
ThreadsKeepRegisters ==
  at = "in" =>
    /\ cpu[SP(arch)][2] = currentThread
    /\ \A r \in CalleeSaved(arch) \ {SP(arch)} : cpu[r] = Work(currentThread, gen[currentThread], r)
    /\ space[currentThread] /\ place[currentThread] = "func" =>
         /\ pageTable = currentThread
         /\ \A i \in DOMAIN machine : machine[i] = UserWork(currentThread, gen[currentThread], i)

(* A forked thread calls ThreadBegin, its function with its argument, and  *)
(* ThreadFinish, in this order and nothing else, and the assembly routines *)
(* write only inside the array that StackAllocate made and never on the    *)
(* fence post (Thread::StackAllocate, ThreadRoot).                         *)
ThreadsStartRight ==
  /\ at # "crashed"
  /\ \A t \in Forked :
       /\ calls[t] = SubSeq(<<<<Code("ThreadBegin"), Zero>>, <<Func(t), Arg(t)>>,
                              <<Code("ThreadFinish"), Zero>>>>, 1, Len(calls[t]))
       /\ DOMAIN mem[t] \subseteq 0 .. StackSize - 1
       /\ place[t] \in {"forked", "startup"} => Word(mem, Stack(t, FencePost(arch))) = Fence
=============================================================================
