------------------------- MODULE ContextSwitchProofs ------------------------
(* What holds below Scheduler::Run, on each host of switch.S, for any      *)
(* number of threads: every register is where the switch to come looks for *)
(* it.                                                                     *)
EXTENDS ContextSwitch, TLAPS

(* Where the stack of thread t is while its C code runs, and where SWITCH  *)
(* leaves it.  ThreadRoot of the PowerPC gives its frame back before the   *)
(* last call.                                                              *)
RootSP(a) ==
  CASE a = "x86" -> StackTop(a) - 1 [] a = "PowerPC" -> StackTop(a) - szdsa [] OTHER -> StackTop(a)
GivenBack(w) == IF arch = "PowerPC" /\ w = "finish" THEN szdsa ELSE 0
CodeSP(t) ==
  IF t = Main THEN 0 ELSE RootSP(arch) + GivenBack(place[t]) - Down(arch) * FrameWords
SwitchSP(t) == IF arch = "x86" THEN CodeSP(t) - 3 ELSE CodeSP(t)
Preserved == CalleeSaved(arch) \ {SP(arch)}
Slot(b, r) == Fetch(b, Slots(arch)[r], Width(arch, r))
Started == {"startup", "func", "finish"}

(* Who stands where.                                                       *)
PlacesOK ==
  /\ arch \in Archs /\ currentThread \in Thread
  /\ at \in {"in", "assert", "root1", "root2", "root3"}
  /\ place \in [Thread -> {"created", "forked", "startup", "func", "finish", "deleted"}]
  /\ place[Main] = "func"
  /\ at \in {"in", "assert"} => place[currentThread] \in Started
  /\ at = "root1" => place[currentThread] = "forked"
  /\ at = "root2" => place[currentThread] = "startup"
  /\ at = "root3" => place[currentThread] = "func" /\ currentThread # Main
  /\ toBeDestroyed # "none" => /\ at = "root1" /\ toBeDestroyed \in Thread \ {currentThread}
                               /\ place[toBeDestroyed] = "finish"
  /\ \A t \in Thread : place[t] = "finish" => t \in {currentThread, toBeDestroyed}

(* A thread that was created and has not run is as StackAllocate left it.  *)
NotStarted ==
  \A t \in Thread \ {currentThread} :
    place[t] = "forked" => block[t] = InitialState(t) /\ mem[t] = InitialFrame(t)

(* A thread that was switched away from has its registers in its block and,*)
(* on some hosts, on its stack.                                            *)
SavedIn(b, m, t) ==
  /\ Slot(b[t], SP(arch)) = Stack(t, SwitchSP(t))
  /\ Slot(b[t], PC(arch)) = Code("Run")
  /\ \A r \in Preserved \cap DOMAIN Slots(arch) : Slot(b[t], r) = Work(t, gen[t], r)
  /\ arch = "SPARC" =>
       \A r \in DOMAIN Windows : Word(m, Stack(t, CodeSP(t) + Windows[r])) = Work(t, gen[t], r)
  /\ arch = "x86" => Word(m, Stack(t, SwitchSP(t))) = Code("Run")
Waiting(t) == t \in Thread \ {currentThread} /\ place[t] \in {"startup", "func"}
AllSaved == \A t \in Thread : Waiting(t) => SavedIn(block, mem, t)

(* The processor: in C code of the current thread, or in its ThreadRoot.   *)
InCode(c, t) ==
  /\ c[SP(arch)] = Stack(t, CodeSP(t))
  /\ \A r \in Preserved : c[r] = Work(t, gen[t], r)
EntrySP == IF arch = "x86" THEN StackTop(arch) + 1 ELSE StackTop(arch)
AtRoot(c, b, t) ==
  /\ c[SP(arch)] = Stack(t, EntrySP)
  /\ \A r \in DOMAIN Slots(arch) \ {SP(arch)} :
       Width(arch, r) = Pointer(arch) => c[r] = InitialWord(t, Slots(arch)[r])
  /\ b[t] = InitialState(t)
  /\ arch = "ApplePowerPC" => c[<<"r", 4>>] = <<"block", t, "", 0>>
  /\ arch = "PowerPC" => /\ c[<<"r", 3>>] = InitialWord(t, 16) /\ c[<<"r", 4>>] = InitialWord(t, 8)
                         /\ c[<<"r", 5>>] = InitialWord(t, 4) /\ c[<<"r", 6>>] = InitialWord(t, 12)
ProcessorOK ==
  /\ cpu = [r \in Registers(arch) |-> cpu[r]]
  /\ at \in {"in", "assert"} => InCode(cpu, currentThread)
  /\ at = "root1" => AtRoot(cpu, block, currentThread)
  /\ at \in {"root2", "root3"} => \A r \in CalleeSaved(arch) : cpu[r] = entry[currentThread][r]

(* What ThreadRoot is going to call is kept where it looks for it: while   *)
(* the thread is at place w, on the PowerPC in words above the frame.      *)
Above6(t) == Stack(t, 8182)
Above7(t) == Stack(t, 8183)
Above8(t) == Stack(t, 8184)
FrameKept(e, m, t, w) ==
  /\ e[SP(arch)] = Stack(t, RootSP(arch))
  /\ arch # "PowerPC" => /\ Taken(RootCalls(arch)[2], e, m) = Func(t)
                         /\ Taken(RootArg(arch), e, m) = Arg(t)
                         /\ Taken(RootCalls(arch)[3], e, m) = Code("ThreadFinish")
  /\ arch = "PowerPC" /\ w = "startup" => /\ Word(m, Above6(t)) = Arg(t) /\ Word(m, Above7(t)) = Func(t)
                                          /\ Word(m, Above8(t)) = Code("ThreadFinish")
  /\ arch = "PowerPC" /\ w = "func" => Word(m, Above6(t)) = Code("ThreadFinish")
FramesKept == \A t \in Forked : place[t] \in {"startup", "func"} => FrameKept(entry[t], mem, t, place[t])

(* The stacks, as arrays, and the blocks.                                  *)
StacksOK ==
  /\ mem = [t \in Thread |-> mem[t]]
  /\ \A t \in Forked : /\ DOMAIN mem[t] \subseteq 0 .. StackSize - 1
                       /\ place[t] \in {"forked", "startup"} => Word(mem, Stack(t, FencePost(arch))) = Fence
  /\ block = [t \in Thread |-> [u \in DOMAIN EmptyBlock |-> block[t][u]]]

Called(t) ==
  CASE place[t] = "startup" -> 1 [] place[t] = "func" -> 2 [] place[t] \in {"finish", "deleted"} -> 3
    [] OTHER -> 0
RootCallsOf(t) == <<<<Code("ThreadBegin"), Zero>>, <<Func(t), Arg(t)>>, <<Code("ThreadFinish"), Zero>>>>
CallsOK ==
  /\ calls = [t \in Thread |-> calls[t]] /\ entry = [t \in Thread |-> entry[t]]
  /\ gen = [t \in Thread |-> gen[t]]
  /\ \A t \in Forked : calls[t] = [i \in 1 .. Called(t) |-> RootCallsOf(t)[i]]

(* The simulated machine.                                                  *)
UserOK ==
  /\ DOMAIN machine = 0 .. NumTotalRegs - 1
  /\ userRegisters = [t \in Thread |-> userRegisters[t]]
  /\ space = [t \in Thread |-> space[t]]
  /\ \A t \in Thread : space[t] => place[t] \in {"func", "finish", "deleted"}
  /\ at \in {"in", "assert"} /\ space[currentThread] /\ place[currentThread] = "func" =>
       /\ pageTable = currentThread
       /\ \A i \in DOMAIN machine : machine[i] = UserWork(currentThread, gen[currentThread], i)
  /\ \A t \in Thread \ {currentThread} : space[t] /\ place[t] = "func" =>
       \A i \in 0 .. NumTotalRegs - 1 : userRegisters[t][i] = UserWork(t, gen[t], i)

SwitchInv ==
  PlacesOK /\ NotStarted /\ AllSaved /\ ProcessorOK /\ FramesKept /\ StacksOK /\ CallsOK /\ UserOK

-----------------------------------------------------------------------------
(* The tables of the seven hosts.                                          *)
LEMMA MipsIs ==
  /\ DOMAIN MipsSlots = {<<"sp", 0>>, <<"fp", 0>>, <<"ra", 0>>} \cup ({"s"} \X (0 .. 7))
  /\ MipsSlots[<<"sp", 0>>] = 0 /\ MipsSlots[<<"fp", 0>>] = 36 /\ MipsSlots[<<"ra", 0>>] = 40
  /\ \A i \in 0 .. 7 : MipsSlots[<<"s", i>>] = 4 + 4 * i
BY DEF MipsSlots, Of, R

LEMMA SparcIs ==
  /\ DOMAIN SparcSlots = {<<"sp", 0>>, <<"o", 7>>} \cup ({"o"} \X (0 .. 5))
  /\ SparcSlots[<<"sp", 0>>] = 0 /\ SparcSlots[<<"o", 7>>] = 32
  /\ \A i \in 0 .. 5 : SparcSlots[<<"o", i>>] = 4 + 4 * i
BY DEF SparcSlots, Of, R

LEMMA X86Is ==
  /\ DOMAIN X86Slots = {"esp", "eax", "ebx", "ecx", "edx", "ebp", "esi", "edi", "pc"} \X {0}
  /\ X86Slots[<<"esp", 0>>] = 0 /\ X86Slots[<<"eax", 0>>] = 4 /\ X86Slots[<<"ebx", 0>>] = 8
  /\ X86Slots[<<"ecx", 0>>] = 12 /\ X86Slots[<<"edx", 0>>] = 16 /\ X86Slots[<<"ebp", 0>>] = 20
  /\ X86Slots[<<"esi", 0>>] = 24 /\ X86Slots[<<"edi", 0>>] = 28 /\ X86Slots[<<"pc", 0>>] = 32
BY DEF X86Slots

LEMMA PariscIs ==
  /\ DOMAIN PariscSlots = {<<"sp", 0>>, <<"rp", 0>>} \cup ({"r"} \X (3 .. 18))
  /\ PariscSlots[<<"sp", 0>>] = 0 /\ PariscSlots[<<"rp", 0>>] = 68
  /\ \A i \in 3 .. 18 : PariscSlots[<<"r", i>>] = 4 + 4 * (i - 3)
BY DEF PariscSlots, Of, R

LEMMA PowerIs ==
  /\ DOMAIN PowerSlots =
       {<<"sp", 0>>, <<"cr", 0>>, <<"lr", 0>>} \cup ({"r"} \X (13 .. 31)) \cup ({"f"} \X (14 .. 31))
  /\ PowerSlots[<<"sp", 0>>] = 0 /\ PowerSlots[<<"cr", 0>>] = 240 /\ PowerSlots[<<"lr", 0>>] = 244
  /\ \A i \in 13 .. 31 : PowerSlots[<<"r", i>>] = 20 + 4 * (i - 13)
  /\ \A i \in 14 .. 31 : PowerSlots[<<"f", i>>] = 96 + 8 * (i - 14)
BY DEF PowerSlots, Of, R

LEMMA AlphaIs ==
  /\ DOMAIN AlphaSlots = {<<"sp", 0>>, <<"gp", 0>>, <<"pc", 0>>} \cup ({"s"} \X (0 .. 6))
  /\ AlphaSlots[<<"sp", 0>>] = 0 /\ AlphaSlots[<<"gp", 0>>] = 64 /\ AlphaSlots[<<"pc", 0>>] = 72
  /\ \A i \in 0 .. 6 : AlphaSlots[<<"s", i>>] = 8 + 8 * i
BY DEF AlphaSlots, Of, R

(* A register's slot is made of whole cells inside the block, and no two   *)
(* slots meet.                                                             *)
SlotFits(a, r) ==
  /\ Slots(a)[r] \in Nat /\ Slots(a)[r] % 4 = 0 /\ Slots(a)[r] % Pointer(a) = 0
  /\ Width(a, r) \in {4, 8} /\ Slots(a)[r] + Width(a, r) <= BlockSize(a)
SlotsApart(a, r, q) ==
  Slots(a)[r] + Width(a, r) <= Slots(a)[q] \/ Slots(a)[q] + Width(a, q) <= Slots(a)[r]

(* A slot of each host fits its registers and meets no other slot.         *)
LEMMA MipsFits ==
  ASSUME NEW r \in DOMAIN Slots("DECMIPS"), NEW q \in DOMAIN Slots("DECMIPS"), r # q
  PROVE  SlotFits("DECMIPS", r) /\ SlotsApart("DECMIPS", r, q)
BY MipsIs DEF Slots, SlotFits, SlotsApart, Width, Power, Pointer, BlockSize, MachineStateSize

LEMMA SparcFits ==
  ASSUME NEW r \in DOMAIN Slots("SPARC"), NEW q \in DOMAIN Slots("SPARC"), r # q
  PROVE  SlotFits("SPARC", r) /\ SlotsApart("SPARC", r, q)
BY SparcIs DEF Slots, SlotFits, SlotsApart, Width, Power, Pointer, BlockSize, MachineStateSize

LEMMA PariscFits ==
  ASSUME NEW r \in DOMAIN Slots("PARISC"), NEW q \in DOMAIN Slots("PARISC"), r # q
  PROVE  SlotFits("PARISC", r) /\ SlotsApart("PARISC", r, q)
BY PariscIs DEF Slots, SlotFits, SlotsApart, Width, Power, Pointer, BlockSize, MachineStateSize

LEMMA X86Fits ==
  ASSUME NEW r \in DOMAIN Slots("x86"), NEW q \in DOMAIN Slots("x86"), r # q
  PROVE  SlotFits("x86", r) /\ SlotsApart("x86", r, q)
BY X86Is DEF Slots, SlotFits, SlotsApart, Width, Power, Pointer, BlockSize, MachineStateSize

LEMMA AlphaFits ==
  ASSUME NEW r \in DOMAIN Slots("ALPHA"), NEW q \in DOMAIN Slots("ALPHA"), r # q
  PROVE  SlotFits("ALPHA", r) /\ SlotsApart("ALPHA", r, q)
BY AlphaIs DEF Slots, SlotFits, SlotsApart, Width, Power, Pointer, BlockSize, MachineStateSize

LEMMA PowerTable == ASSUME NEW a, Power(a) PROVE Slots(a) = PowerSlots
BY DEF Power, Slots

(* A slot of the PowerPC: in the bank of r registers, in that of f         *)
(* registers, or one of the others.                                        *)
LEMMA PowerSlot ==
  ASSUME NEW a, Power(a), NEW r \in DOMAIN Slots(a)
  PROVE  \/ \E i \in 13 .. 31 : r = <<"r", i>> /\ Slots(a)[r] = 4 * i - 32 /\ Width(a, r) = 4
         \/ \E i \in 14 .. 31 : r = <<"f", i>> /\ Slots(a)[r] = 8 * i - 16 /\ Width(a, r) = 8
         \/ r = <<"sp", 0>> /\ Slots(a)[r] = 0 /\ Width(a, r) = 4
         \/ r = <<"cr", 0>> /\ Slots(a)[r] = 240 /\ Width(a, r) = 4
         \/ r = <<"lr", 0>> /\ Slots(a)[r] = 244 /\ Width(a, r) = 4
<1>1. Pointer(a) = 4 /\ Slots(a) = PowerSlots
  BY PowerTable DEF Power, Pointer
<1>2. CASE r \in {"r"} \X (13 .. 31)
  <2>1. PICK i \in 13 .. 31 : r = <<"r", i>>
    BY <1>2
  <2>2. Width(a, r) = 4
    BY <1>1, <2>1 DEF Width
  <2>3. Slots(a)[r] = 20 + 4 * (i - 13)
    BY <1>1, <2>1, PowerIs
  <2> QED BY <2>1, <2>2, <2>3
<1>3. CASE r \in {"f"} \X (14 .. 31)
  <2>1. PICK i \in 14 .. 31 : r = <<"f", i>>
    BY <1>3
  <2>2. Width(a, r) = 8
    BY <1>1, <2>1 DEF Width
  <2>3. Slots(a)[r] = 96 + 8 * (i - 14)
    BY <1>1, <2>1, PowerIs
  <2> QED BY <2>1, <2>2, <2>3
<1>4. CASE r \in {<<"sp", 0>>, <<"cr", 0>>, <<"lr", 0>>}
  <2>1. Width(a, r) = 4
    BY <1>1, <1>4 DEF Width
  <2>2. Slots(a)[<<"sp", 0>>] = 0 /\ Slots(a)[<<"cr", 0>>] = 240 /\ Slots(a)[<<"lr", 0>>] = 244
    BY <1>1, PowerIs
  <2> QED BY <1>4, <2>1, <2>2
<1> QED BY <1>1, <1>2, <1>3, <1>4, PowerIs

LEMMA PowerFits ==
  ASSUME NEW a, Power(a), NEW r \in DOMAIN Slots(a), NEW q \in DOMAIN Slots(a), r # q
  PROVE  SlotFits(a, r) /\ SlotsApart(a, r, q)
<1>1. Pointer(a) = 4 /\ BlockSize(a) = 304
  BY DEF Power, Pointer, BlockSize, MachineStateSize
<1> DEFINE o == Slots(a)[r]
           w == Width(a, r)
<1>2. o \in Nat /\ o % 4 = 0 /\ w \in {4, 8} /\ o + w <= 304
  <2> HIDE DEF o, w
  <2>1. \/ \E i \in 13 .. 31 : o = 4 * i - 32 /\ w = 4
        \/ \E i \in 14 .. 31 : o = 8 * i - 16 /\ w = 8
        \/ o \in {0, 240, 244} /\ w = 4
    BY PowerSlot DEF o, w
  <2> QED BY <2>1
<1>3. SlotsApart(a, r, q)
  <2>1. CASE \E i \in 13 .. 31 : r = <<"r", i>> /\ Slots(a)[r] = 4 * i - 32 /\ Width(a, r) = 4
    <3>1. PICK i \in 13 .. 31 : r = <<"r", i>> /\ Slots(a)[r] = 4 * i - 32 /\ Width(a, r) = 4
      BY <2>1
    <3>2. \/ \E j \in 13 .. 31 : q = <<"r", j>> /\ Slots(a)[q] = 4 * j - 32 /\ Width(a, q) = 4 /\ j # i
          \/ \E j \in 14 .. 31 : Slots(a)[q] = 8 * j - 16 /\ Width(a, q) = 8
          \/ Slots(a)[q] \in {0, 240, 244} /\ Width(a, q) = 4
      BY <3>1, PowerSlot
    <3> QED BY <3>1, <3>2 DEF SlotsApart
  <2>2. CASE \E i \in 14 .. 31 : r = <<"f", i>> /\ Slots(a)[r] = 8 * i - 16 /\ Width(a, r) = 8
    <3>1. PICK i \in 14 .. 31 : r = <<"f", i>> /\ Slots(a)[r] = 8 * i - 16 /\ Width(a, r) = 8
      BY <2>2
    <3>2. \/ \E j \in 13 .. 31 : Slots(a)[q] = 4 * j - 32 /\ Width(a, q) = 4
          \/ \E j \in 14 .. 31 : q = <<"f", j>> /\ Slots(a)[q] = 8 * j - 16 /\ Width(a, q) = 8 /\ j # i
          \/ Slots(a)[q] \in {0, 240, 244} /\ Width(a, q) = 4
      BY <3>1, PowerSlot
    <3> QED BY <3>1, <3>2 DEF SlotsApart
  <2>3. CASE r \in {<<"sp", 0>>, <<"cr", 0>>, <<"lr", 0>>} /\ Slots(a)[r] \in {0, 240, 244} /\ Width(a, r) = 4
    <3>1. \/ \E j \in 13 .. 31 : Slots(a)[q] = 4 * j - 32 /\ Width(a, q) = 4
          \/ \E j \in 14 .. 31 : Slots(a)[q] = 8 * j - 16 /\ Width(a, q) = 8
          \/ Slots(a)[q] \in {0, 240, 244} \ {Slots(a)[r]} /\ Width(a, q) = 4
      <4>1. PowerSlots[<<"sp", 0>>] = 0 /\ PowerSlots[<<"cr", 0>>] = 240 /\ PowerSlots[<<"lr", 0>>] = 244
            /\ Slots(a) = PowerSlots
        BY PowerIs, PowerTable
      <4> QED BY <2>3, <4>1, PowerSlot
    <3> QED BY <2>3, <3>1 DEF SlotsApart
  <2> QED BY <2>1, <2>2, <2>3, PowerSlot
<1> QED BY <1>1, <1>2, <1>3 DEF SlotFits

(* On every host, no two slots of a block overlap.                         *)
LEMMA Fit ==
  ASSUME NEW a \in Archs, NEW r \in DOMAIN Slots(a), NEW q \in DOMAIN Slots(a), r # q
  PROVE  SlotFits(a, r) /\ SlotsApart(a, r, q)
BY MipsFits, SparcFits, PariscFits, X86Fits, AlphaFits, PowerFits DEF Archs, Power

(* Which registers SWITCH moves, and which it has to.                      *)
LEMMA MovesAll ==
  ASSUME NEW a \in Archs
  PROVE  MovesOf(a).stored = DOMAIN Slots(a) /\ MovesOf(a).loaded = DOMAIN Slots(a)
<1>1. CASE a = "DECMIPS"
  BY <1>1, MipsIs DEF Slots, MovesOf, Moves, MipsSWITCH, Of, R
<1>2. CASE a = "SPARC"
  BY <1>2, SparcIs DEF Slots, MovesOf, Moves, SparcSWITCH, Of, R
<1>3. CASE a = "PARISC"
  BY <1>3, PariscIs DEF Slots, MovesOf, Moves, PariscSWITCH, Of, R
<1>4. CASE a = "x86"
  <2>1. DOMAIN X86Slots = {R("esp"), R("eax"), R("ebx"), R("ecx"), R("edx"), R("ebp"), R("esi"), R("edi"), R("pc")}
    BY X86Is DEF R
  <2> QED BY <1>4, <2>1 DEF Slots, MovesOf, Moves, X86SWITCH
<1>5. CASE a = "ALPHA"
  BY <1>5, AlphaIs DEF Slots, MovesOf, Moves, AlphaSWITCH, Of, R
<1>6. CASE a = "ApplePowerPC"
  <2>1. Slots(a) = PowerSlots
    BY <1>6, PowerTable DEF Power
  <2>2. MovesOf(a) = AppleSWITCH
    BY <1>6 DEF MovesOf
  <2> QED BY <2>1, <2>2, PowerIs DEF AppleSWITCH, Moves, Of, R
<1>7. CASE a = "PowerPC"
  <2>1. Slots(a) = PowerSlots
    BY <1>7, PowerTable DEF Power
  <2>2. MovesOf(a) = PowerSWITCH
    BY <1>7 DEF MovesOf
  <2> QED BY <2>1, <2>2, PowerIs DEF PowerSWITCH, Moves, Of, R
<1> QED BY <1>1, <1>2, <1>3, <1>4, <1>5, <1>6, <1>7 DEF Archs

(* SWITCH moves every register that C code owes its caller, except those   *)
(* of the SPARC that its register windows keep; the stack pointer is       *)
(* where stackTop is, and the address to resume at where                   *)
(* machineState[PCState] is.                                               *)
LEMMA PreservedMoved ==
  ASSUME NEW a \in Archs
  PROVE  /\ SP(a) \in DOMAIN Slots(a) \cap CalleeSaved(a) /\ PC(a) \in DOMAIN Slots(a) \ CalleeSaved(a)
         /\ SP(a) # PC(a) /\ Slots(a)[SP(a)] = 0 /\ Slots(a)[PC(a)] = StateSlots(a).pc
         /\ Width(a, SP(a)) = Pointer(a) /\ Width(a, PC(a)) = Pointer(a)
         /\ a # "SPARC" => CalleeSaved(a) \subseteq DOMAIN Slots(a)
         /\ a = "SPARC" => CalleeSaved(a) = {SP(a)} \cup ({"l", "i"} \X (0 .. 7))
<1>1. CASE a = "DECMIPS"
  BY <1>1, MipsIs DEF Slots, CalleeSaved, SP, PC, Power, R, StateSlots, MipsState, Width, Pointer
<1>2. CASE a = "SPARC"
  BY <1>2, SparcIs DEF Slots, CalleeSaved, SP, PC, Power, R, StateSlots, SparcState, Width, Pointer
<1>3. CASE a = "PARISC"
  BY <1>3, PariscIs DEF Slots, CalleeSaved, SP, PC, Power, R, StateSlots, PariscState, Width, Pointer
<1>4. CASE a = "x86"
  BY <1>4, X86Is DEF Slots, CalleeSaved, SP, PC, Power, R, StateSlots, X86State, Width, Pointer
<1>5. CASE a = "ALPHA"
  BY <1>5, AlphaIs DEF Slots, CalleeSaved, SP, PC, Power, R, StateSlots, AlphaState, Width, Pointer
<1>6. CASE Power(a)
  <2>1. Slots(a) = PowerSlots
    BY <1>6, PowerTable
  <2>2. SP(a) = <<"sp", 0>> /\ PC(a) = <<"lr", 0>> /\ Pointer(a) = 4 /\ StateSlots(a) = PowerState /\ a # "SPARC"
    BY <1>6 DEF Power, SP, PC, R, Pointer, StateSlots
  <2>3. CalleeSaved(a) = {<<"sp", 0>>} \cup (({"r"} \X (13 .. 31)) \cup ({"f"} \X (14 .. 31)) \cup {<<"cr", 0>>})
    BY <1>6, <2>2 DEF Power, CalleeSaved, R
  <2>4. Width(a, SP(a)) = Pointer(a) /\ Width(a, PC(a)) = Pointer(a)
    BY <2>2 DEF Width
  <2>5. PowerState.pc = 244
    BY DEF PowerState
  <2> QED BY <2>1, <2>2, <2>3, <2>4, <2>5, PowerIs
<1> QED BY <1>1, <1>2, <1>3, <1>4, <1>5, <1>6 DEF Archs, Power

----------------------------------------------------------------------------
(* Blocks: what SWITCH stores is what it loads, and what StackAllocate puts*)
(* into a block is what the first switch to the thread finds.              *)
BlockCells == DOMAIN EmptyBlock

(* The cells of a block.                                                   *)
LEMMA BlockCellsAre ==
  arch \in Archs => BlockCells = 0 .. (BlockSize(arch) \div 4) - 1 /\ BlockSize(arch) \in {304, 608}
                    /\ (Pointer(arch) = 4 \/ Pointer(arch) = 8)
BY DEF BlockCells, EmptyBlock, BlockSize, MachineStateSize, Pointer

LEMMA CellsAre ==
  ASSUME NEW o \in Nat, o % 4 = 0, NEW w \in {4, 8}, NEW u
  PROVE  u \in Cells(o, w) <=> u \in Nat /\ o <= 4 * u /\ 4 * u < o + w
BY DEF Cells

(* The cells of a slot are cells of the block, and belong to it alone.     *)
LEMMA SlotCellsAre ==
  ASSUME arch \in Archs, NEW r \in DOMAIN Slots(arch)
  PROVE  /\ SlotFits(arch, r)
         /\ SlotCells(r) \subseteq BlockCells
         /\ \A q \in DOMAIN Slots(arch) : q # r => SlotCells(q) \cap SlotCells(r) = {}
<1>1. SP(arch) \in DOMAIN Slots(arch) /\ PC(arch) \in DOMAIN Slots(arch) /\ SP(arch) # PC(arch)
  BY PreservedMoved
<1>2. SlotFits(arch, r)
  BY <1>1, Fit
<1>3. SlotCells(r) \subseteq BlockCells
  <2> DEFINE o == Slots(arch)[r]
             w == Width(arch, r)
             n == BlockSize(arch)
  <2>1. o \in Nat /\ o % 4 = 0 /\ w \in {4, 8} /\ o + w <= n /\ n \in {304, 608}
    BY <1>2, BlockCellsAre DEF SlotFits
  <2>2. SlotCells(r) = Cells(o, w) /\ BlockCells = 0 .. (n \div 4) - 1
    BY BlockCellsAre DEF SlotCells
  <2> HIDE DEF o, w, n
  <2>3. ASSUME NEW u \in Cells(o, w) PROVE u \in 0 .. (n \div 4) - 1
    BY <2>1, CellsAre
  <2> QED BY <2>2, <2>3
<1>4. ASSUME NEW q \in DOMAIN Slots(arch), q # r PROVE SlotCells(q) \cap SlotCells(r) = {}
  <2> DEFINE o == Slots(arch)[r]
             w == Width(arch, r)
             p == Slots(arch)[q]
             v == Width(arch, q)
  <2>1. /\ o \in Nat /\ o % 4 = 0 /\ w \in {4, 8} /\ p \in Nat /\ p % 4 = 0 /\ v \in {4, 8}
        /\ p + v <= o \/ o + w <= p
    BY <1>4, Fit DEF SlotFits, SlotsApart
  <2>2. SlotCells(r) = Cells(o, w) /\ SlotCells(q) = Cells(p, v)
    BY DEF SlotCells
  <2> HIDE DEF o, w, p, v
  <2>3. ASSUME NEW u \in Cells(o, w), u \in Cells(p, v) PROVE FALSE
    <3>1. u \in Nat /\ o <= 4 * u /\ 4 * u < o + w
      BY <2>1, CellsAre
    <3>2. p <= 4 * u /\ 4 * u < p + v
      BY <2>1, <2>3, CellsAre
    <3> QED BY <2>1, <3>1, <3>2
  <2> QED BY <2>2, <2>3
<1> QED BY <1>2, <1>3, <1>4

HasValue(b, o, w, v) == \A u \in Cells(o, w) : b[u] = <<v, u - (o \div 4)>>
(* A load finds a value that all its cells hold.                           *)
LEMMA FetchIs ==
  ASSUME NEW b, NEW o \in Nat, o % 4 = 0, NEW w \in {4, 8}, NEW v, HasValue(b, o, w, v)
  PROVE  Fetch(b, o, w) = v
<1>1. o \div 4 \in Cells(o, w)
  BY CellsAre
<1>2. b[o \div 4][1] = v
  BY <1>1 DEF HasValue
<1> QED BY <1>2 DEF Fetch, HasValue

(* What SWITCH has stored from a register is what it loads into it.        *)
LEMMA SavedIs ==
  ASSUME arch \in Archs, NEW b, NEW c, BlockCells \subseteq DOMAIN b, NEW r \in DOMAIN Slots(arch)
  PROVE  Slot(Save(b, c), r) = c[r]
<1> DEFINE o == Slots(arch)[r]
           w == Width(arch, r)
<1>1. o \in Nat /\ o % 4 = 0 /\ w \in {4, 8} /\ SlotCells(r) = Cells(o, w)
  BY SlotCellsAre DEF SlotFits, SlotCells
<1>2. ASSUME NEW u \in SlotCells(r) PROVE Save(b, c)[u] = <<c[r], u - (o \div 4)>>
  <2>1. MovesOf(arch).stored = DOMAIN Slots(arch)
    BY MovesAll
  <2>2. u \in DOMAIN b
    BY SlotCellsAre
  <2>3. \A q \in DOMAIN Slots(arch) : u \in SlotCells(q) <=> q = r
    BY SlotCellsAre
  <2>4. (CHOOSE q \in DOMAIN Slots(arch) : u \in SlotCells(q)) = r
    BY <2>3
  <2> QED BY <2>1, <2>2, <2>3, <2>4 DEF Save
<1>3. Fetch(Save(b, c), o, w) = c[r]
  <2> DEFINE d == Save(b, c)
             v == c[r]
  <2>1. HasValue(d, o, w, v)
    BY <1>1, <1>2 DEF HasValue
  <2> HIDE DEF o, w, d, v
  <2>2. Fetch(d, o, w) = v
    BY <1>1, <2>1, FetchIs
  <2> QED BY <2>2 DEF d, v
<1> QED BY <1>3 DEF Slot, o, w

(* Word o of the block that StackAllocate has filled.                      *)
LEMMA InitialIs ==
  ASSUME arch \in Archs, NEW t, NEW o \in Nat, o % 4 = 0, o % Pointer(arch) = 0, o + Pointer(arch) <= BlockSize(arch)
  PROVE  Fetch(InitialState(t), o, Pointer(arch)) = InitialWord(t, o)
<1> DEFINE w == Pointer(arch)
           n == BlockSize(arch)
<1>1. w \in {4, 8} /\ n \in {304, 608} /\ o % w = 0 /\ o + w <= n
  BY BlockCellsAre
<1>2. InitialState(t) = [u \in BlockCells |-> <<InitialWord(t, u * 4 - ((u * 4) % w)),
                                               u - ((u * 4 - ((u * 4) % w)) \div 4)>>]
  BY DEF InitialState, BlockCells
<1>3. BlockCells = 0 .. (n \div 4) - 1
  BY BlockCellsAre
<1> HIDE DEF w, n
<1>4. ASSUME NEW u \in Cells(o, w) PROVE InitialState(t)[u] = <<InitialWord(t, o), u - (o \div 4)>>
  <2>1. u \in Nat /\ o <= 4 * u /\ 4 * u < o + w
    BY <1>1, CellsAre
  <2>2. u * 4 - ((u * 4) % w) = o
    <3>1. CASE w = 4
      BY <1>1, <2>1, <3>1
    <3>2. CASE w = 8
      BY <1>1, <2>1, <3>2
    <3> QED BY <1>1, <3>1, <3>2
  <2>3. u \in BlockCells
    BY <1>1, <1>3, <2>1
  <2> QED BY <1>2, <2>2, <2>3
<1>5. Fetch(InitialState(t), o, w) = InitialWord(t, o)
  <2> DEFINE d == InitialState(t)
             v == InitialWord(t, o)
  <2>1. HasValue(d, o, w, v)
    BY <1>4 DEF HasValue
  <2> HIDE DEF d, v
  <2>2. Fetch(d, o, w) = v
    BY <1>1, <2>1, FetchIs
  <2> QED BY <2>2 DEF d, v
<1> QED BY <1>5 DEF w

----------------------------------------------------------------------------
(* Values, words and stacks.                                               *)
LEMMA StackIs ==
  ASSUME NEW t, NEW i
  PROVE  Stack(t, i)[1] = "stack" /\ Stack(t, i)[2] = t /\ Stack(t, i)[4] = i
BY DEF Stack

(* The stack pointer stays on its stack.                                   *)
LEMMA AboveIs ==
  ASSUME NEW t, NEW i, NEW k
  PROVE  Above(Stack(t, i), k) = Stack(t, i + Down(arch) * k)
BY DEF Above, Stack

LEMMA WordIs ==
  ASSUME NEW m, NEW t, NEW i
  PROVE  Word(m, Stack(t, i)) = IF i \in DOMAIN m[t] THEN m[t][i] ELSE Junk
BY StackIs DEF Word

IsMemory(m) == m = [t \in Thread |-> m[t]]

(* A store changes the one word.                                           *)
LEMMA PutIs ==
  ASSUME NEW m, IsMemory(m), NEW t \in Thread, NEW i, NEW v, NEW n, n = Put(m, Stack(t, i), v)
  PROVE  /\ IsMemory(n)
         /\ \A u \in Thread : u # t => n[u] = m[u]
         /\ DOMAIN n[t] = DOMAIN m[t] \cup {i}
         /\ \A j : Word(n, Stack(t, j)) = IF j = i THEN v ELSE Word(m, Stack(t, j))
<1>1. n = [m EXCEPT ![t] = Only(i, v) ++ @]
  BY StackIs DEF Put
<1>2. IsMemory(n) /\ (\A u \in Thread : u # t => n[u] = m[u]) /\ n[t] = Only(i, v) ++ m[t]
  BY <1>1 DEF IsMemory
<1>3. DOMAIN n[t] = DOMAIN m[t] \cup {i}
  BY <1>2 DEF ++, Only
<1>4. n[t][i] = v /\ \A j \in DOMAIN m[t] : j # i => n[t][j] = m[t][j]
  BY <1>2 DEF ++, Only
<1>5. ASSUME NEW j PROVE Word(n, Stack(t, j)) = IF j = i THEN v ELSE Word(m, Stack(t, j))
  <2>1. Word(n, Stack(t, j)) = IF j \in DOMAIN n[t] THEN n[t][j] ELSE Junk
    BY WordIs
  <2>2. Word(m, Stack(t, j)) = IF j \in DOMAIN m[t] THEN m[t][j] ELSE Junk
    BY WordIs
  <2> QED BY <2>1, <2>2, <1>3, <1>4
<1> QED BY <1>2, <1>3, <1>5

(* Equal stacks have equal words.                                          *)
LEMMA SameWords ==
  ASSUME NEW m, NEW n, NEW t, n[t] = m[t]
  PROVE  \A j : Word(n, Stack(t, j)) = Word(m, Stack(t, j))
BY WordIs

(* What every host has in common.                                          *)
LEMMA HostIs ==
  ASSUME arch \in Archs
  PROVE  /\ Down(arch) \in {1, -1} /\ (arch = "x86" \/ arch = "SPARC" => Down(arch) = 1)
         /\ StackTop(arch) \in Nat /\ RootSP(arch) \in Nat
         /\ \A t : CodeSP(t) \in Int /\ SwitchSP(t) \in Int
         /\ \A t \in Forked : CodeSP(t) = RootSP(arch) + GivenBack(place[t]) - Down(arch) * 8
         /\ FencePost(arch) \in 0 .. StackSize - 1
         /\ StackSize = 8192
BY DEF Archs, Down, StackTop, RootSP, CodeSP, GivenBack, SwitchSP, FrameWords, Forked, FencePost, StackSize, Power, szdsa

(* Where the stack of the x86 begins.                                      *)
LEMMA X86Host ==
  ASSUME arch = "x86"
  PROVE  /\ Down(arch) = 1 /\ StackTop(arch) = 8187 /\ RootSP(arch) = 8186 /\ FencePost(arch) = 0
         /\ \A t \in Forked : CodeSP(t) = 8178
         /\ \A t : SwitchSP(t) = CodeSP(t) - 3
BY DEF Down, StackTop, RootSP, CodeSP, GivenBack, SwitchSP, FrameWords, Forked, FencePost, StackSize, Power

(* Where the stack of the SPARC begins.                                    *)
LEMMA SparcHost ==
  ASSUME arch = "SPARC"
  PROVE  /\ Down(arch) = 1 /\ StackTop(arch) = 8096 /\ RootSP(arch) = 8096 /\ FencePost(arch) = 0
         /\ \A t \in Forked : CodeSP(t) = 8088
         /\ \A t : SwitchSP(t) = CodeSP(t)
BY DEF Down, StackTop, RootSP, CodeSP, GivenBack, SwitchSP, FrameWords, Forked, FencePost, StackSize, Power

(* All registers named are registers of the host.                          *)
LEMMA RegistersAre ==
  /\ DOMAIN Slots(arch) \subseteq Registers(arch) /\ CalleeSaved(arch) \subseteq Registers(arch)
  /\ Scratch(arch) \subseteq Registers(arch)
  /\ Preserved \subseteq CalleeSaved(arch)
BY DEF Registers, Preserved

(* SWITCH loads every register that has a slot from it.                    *)
LEMMA LoadIs ==
  ASSUME arch \in Archs, NEW b, NEW c, DOMAIN c = Registers(arch)
  PROVE  /\ Load(b, c) = [r \in Registers(arch) |-> Load(b, c)[r]]
         /\ \A r \in DOMAIN Slots(arch) : Load(b, c)[r] = Slot(b, r)
<1>1. Load(b, c) = [r \in Registers(arch) |-> IF r \in DOMAIN Slots(arch) THEN Slot(b, r) ELSE c[r]]
  BY MovesAll DEF Load, Slot
<1> QED BY <1>1, RegistersAre

----------------------------------------------------------------------------
(* What StackAllocate puts into the block.                                 *)
StatesDiffer(s) ==
  /\ s.pc # 0 /\ s.startup # 0 /\ s.func # 0 /\ s.arg # 0 /\ s.done # 0
  /\ s.startup # s.pc /\ s.func # s.pc /\ s.arg # s.pc /\ s.done # s.pc
  /\ s.func # s.startup /\ s.arg # s.startup /\ s.done # s.startup
  /\ s.arg # s.func /\ s.done # s.func /\ s.done # s.arg

(* stackTop and the five words of machineState that StackAllocate sets     *)
(* are six different words.                                                *)
LEMMA StateSlotsDiffer ==
  ASSUME arch \in Archs PROVE StatesDiffer(StateSlots(arch))
<1>1. StatesDiffer(MipsState) /\ StatesDiffer(SparcState) /\ StatesDiffer(PariscState)
  BY DEF StatesDiffer, MipsState, SparcState, PariscState
<1>2. StatesDiffer(X86State) /\ StatesDiffer(PowerState) /\ StatesDiffer(AlphaState)
  BY DEF StatesDiffer, X86State, PowerState, AlphaState
<1>3. StateSlots(arch) \in {MipsState, SparcState, PariscState, X86State, PowerState, AlphaState}
  BY DEF StateSlots, Archs
<1> QED BY <1>1, <1>2, <1>3

(* Each of them holds what StackAllocate put there.                        *)
LEMMA InitialWords ==
  ASSUME arch \in Archs, NEW t, NEW s, s = StateSlots(arch)
  PROVE  /\ InitialWord(t, 0) = Stack(t, StackTop(arch)) /\ InitialWord(t, s.pc) = Code("ThreadRoot")
         /\ InitialWord(t, s.startup) = Code("ThreadBegin") /\ InitialWord(t, s.func) = Func(t)
         /\ InitialWord(t, s.arg) = Arg(t) /\ InitialWord(t, s.done) = Code("ThreadFinish")
<1>1. StatesDiffer(s)
  BY StateSlotsDiffer
<1>2. InitialWord(t, 0) = Stack(t, StackTop(arch))
  BY <1>1, Zenon DEF InitialWord, StatesDiffer
<1>3. InitialWord(t, s.pc) = Code("ThreadRoot")
  BY <1>1, Zenon DEF InitialWord, StatesDiffer
<1>4. InitialWord(t, s.startup) = Code("ThreadBegin")
  BY <1>1, Zenon DEF InitialWord, StatesDiffer
<1>5. InitialWord(t, s.func) = Func(t)
  BY <1>1, Zenon DEF InitialWord, StatesDiffer
<1>6. InitialWord(t, s.arg) = Arg(t)
  BY <1>1, Zenon DEF InitialWord, StatesDiffer
<1>7. InitialWord(t, s.done) = Code("ThreadFinish")
  BY <1>1, Zenon DEF InitialWord, StatesDiffer
<1> QED BY <1>2, <1>3, <1>4, <1>5, <1>6, <1>7

(* The first switch to a thread finds them in its registers.               *)
LEMMA InitialSlot ==
  ASSUME arch \in Archs, NEW t, NEW r \in DOMAIN Slots(arch), Width(arch, r) = Pointer(arch)
  PROVE  Slot(InitialState(t), r) = InitialWord(t, Slots(arch)[r])
<1> DEFINE o == Slots(arch)[r]
<1>1. o \in Nat /\ o % 4 = 0 /\ o % Pointer(arch) = 0 /\ o + Pointer(arch) <= BlockSize(arch)
  BY SlotCellsAre DEF SlotFits
<1>2. Slot(InitialState(t), r) = Fetch(InitialState(t), o, Pointer(arch))
  BY DEF Slot
<1> HIDE DEF o
<1>3. Fetch(InitialState(t), o, Pointer(arch)) = InitialWord(t, o)
  BY <1>1, InitialIs
<1> QED BY <1>2, <1>3 DEF o

----------------------------------------------------------------------------
(* SWITCH: what it leaves of the old thread, and what it makes of the new  *)
(* one.                                                                    *)
Touched(t, j) ==
  \/ arch = "x86" /\ j \in CodeSP(t) - 3 .. CodeSP(t) - 1
  \/ arch = "x86" /\ place[t] = "forked" /\ j = EntrySP
  \/ arch = "SPARC" /\ j \in CodeSP(t) .. CodeSP(t) + 15
Switched(old, new, sw) ==
  /\ sw.cpu = [r \in Registers(arch) |-> sw.cpu[r]]
  /\ sw.block = [t \in Thread |-> [u \in BlockCells |-> sw.block[t][u]]]
  /\ \A t \in Thread \ {old} : sw.block[t] = block[t]
  /\ IsMemory(sw.mem)
  /\ \A t \in Thread \ {old, new} : sw.mem[t] = mem[t]
  /\ \A t \in Forked : \A j : ~Touched(t, j) => Word(sw.mem, Stack(t, j)) = Word(mem, Stack(t, j))
  /\ \A t \in Forked : DOMAIN sw.mem[t] \subseteq 0 .. StackSize - 1
  /\ SavedIn(sw.block, sw.mem, old)
  /\ place[new] \in {"startup", "func"} => sw.pc = Code("Run") /\ InCode(sw.cpu, new)
  /\ place[new] = "forked" => sw.pc = Code("ThreadRoot") /\ AtRoot(sw.cpu, sw.block, new)
Switching(old, new) ==
  /\ SwitchInv /\ at = "in" /\ old = currentThread /\ new \in Thread \ {old}
  /\ place[new] \in {"forked", "startup", "func"}

BlockSaves(old, c, b) ==
  /\ b = [t \in Thread |-> [u \in BlockCells |-> b[t][u]]]
  /\ \A t \in Thread \ {old} : b[t] = block[t]
  /\ \A r \in DOMAIN Slots(arch) : Slot(b[old], r) = c[r]

(* Saving the registers of one thread leaves the blocks of the others      *)
(* alone.                                                                  *)
LEMMA BlockSaved ==
  ASSUME NEW old, NEW new, Switching(old, new), NEW c, DOMAIN c = Registers(arch),
         NEW b, b = [block EXCEPT ![old] = Save(@, c)]
  PROVE  BlockSaves(old, c, b)
<1>1. block = [t \in Thread |-> [u \in BlockCells |-> block[t][u]]] /\ old \in Thread /\ arch \in Archs
  BY DEF Switching, SwitchInv, StacksOK, BlockCells, PlacesOK
<1>2. DOMAIN block = Thread /\ \A t \in Thread : block[t] = [u \in BlockCells |-> block[t][u]]
  BY <1>1
<1>3. DOMAIN block[old] = BlockCells
  BY <1>1, <1>2
<1>4. Save(block[old], c) = [u \in BlockCells |-> Save(block[old], c)[u]]
  BY <1>3 DEF Save
<1>5. b[old] = Save(block[old], c) /\ DOMAIN b = Thread /\ \A t \in Thread \ {old} : b[t] = block[t]
  BY <1>1, <1>2
<1>6. b = [t \in Thread |-> [u \in BlockCells |-> b[t][u]]]
  <2>1. b = [t \in Thread |-> b[t]]
    BY <1>2
  <2>2. ASSUME NEW t \in Thread PROVE b[t] = [u \in BlockCells |-> b[t][u]]
    BY <1>2, <1>4, <1>5
  <2> QED BY <2>1, <2>2
<1>7. ASSUME NEW r \in DOMAIN Slots(arch) PROVE Slot(b[old], r) = c[r]
  BY <1>1, <1>3, <1>5, SavedIs
<1> QED BY <1>5, <1>6, <1>7 DEF BlockSaves

(* The SPARC flushes its windows into the frame at its stack pointer.      *)
LEMMA FlushedIs ==
  ASSUME arch = "SPARC", IsMemory(mem), NEW t \in Thread, NEW p \in Int, cpu[SP(arch)] = Stack(t, p),
         NEW m, m = Flushed(mem)
  PROVE  /\ IsMemory(m) /\ \A u \in Thread \ {t} : m[u] = mem[u]
         /\ DOMAIN m[t] = DOMAIN mem[t] \cup (p .. p + 15)
         /\ \A r \in DOMAIN Windows : Word(m, Stack(t, p + Windows[r])) = cpu[r]
         /\ \A j : j \notin p .. p + 15 => Word(m, Stack(t, j)) = Word(mem, Stack(t, j))
<1> DEFINE Held(k) == CHOOSE r \in DOMAIN Windows : Windows[r] = k
           w == [i \in p .. p + 15 |-> cpu[Held(i - p)]]
<1>1. m = [mem EXCEPT ![t] = w ++ @]
  <2>1. cpu[SP(arch)][2] = t /\ cpu[SP(arch)][4] = p
    BY StackIs
  <2> DEFINE q == cpu[SP(arch)]
             v == [i \in q[4] .. q[4] + 15 |-> cpu[Held(i - q[4])]]
  <2>2. m = [mem EXCEPT ![q[2]] = v ++ @]
    BY DEF Flushed
  <2> HIDE DEF Held, q
  <2>3. q[2] = t /\ q[4] = p
    BY <2>1 DEF q
  <2>4. v = w
    BY <2>3
  <2> QED BY <2>2, <2>3, <2>4
<1>2. IsMemory(m) /\ (\A u \in Thread \ {t} : m[u] = mem[u]) /\ m[t] = w ++ mem[t]
  BY <1>1 DEF IsMemory
<1>3. DOMAIN w = p .. p + 15
  OBVIOUS
<1>4. ASSUME NEW r \in DOMAIN Windows PROVE Windows[r] \in 0 .. 15 /\ w[p + Windows[r]] = cpu[r]
  <2>1. Windows[r] \in 0 .. 15
    BY DEF Windows
  <2>2. \A q \in DOMAIN Windows : Windows[q] = Windows[r] => q = r
    BY DEF Windows
  <2>3. Held(Windows[r]) = r
    BY <2>2
  <2>4. p + Windows[r] \in p .. p + 15 /\ (p + Windows[r]) - p = Windows[r]
    BY <2>1
  <2> QED BY <2>1, <2>3, <2>4
<1> HIDE DEF w
<1>5. DOMAIN m[t] = DOMAIN mem[t] \cup (p .. p + 15) /\ (\A j \in p .. p + 15 : m[t][j] = w[j])
      /\ \A j \in DOMAIN mem[t] \ (p .. p + 15) : m[t][j] = mem[t][j]
  BY <1>2, <1>3 DEF ++
<1>6. ASSUME NEW r \in DOMAIN Windows PROVE Word(m, Stack(t, p + Windows[r])) = cpu[r]
  <2>1. p + Windows[r] \in p .. p + 15
    BY <1>4
  <2> QED BY <2>1, <1>4, <1>5, WordIs
<1>7. ASSUME NEW j, j \notin p .. p + 15 PROVE Word(m, Stack(t, j)) = Word(mem, Stack(t, j))
  <2>1. j \in DOMAIN m[t] <=> j \in DOMAIN mem[t]
    BY <1>5, <1>7
  <2>2. j \in DOMAIN mem[t] => m[t][j] = mem[t][j]
    BY <1>5, <1>7
  <2> QED BY <2>1, <2>2, WordIs
<1> QED BY <1>2, <1>5, <1>6, <1>7

PassedOn(c, b, t, p) ==
  /\ p = [r \in Registers(arch) |-> p[r]]
  /\ \A r \in DOMAIN Slots(arch) \cup CalleeSaved(arch) : p[r] = c[r]
  /\ arch = "ApplePowerPC" => p[<<"r", 4>>] = <<"block", t, "", 0>>
  /\ arch = "PowerPC" => /\ p[<<"r", 3>>] = Fetch(b, 16, 4) /\ p[<<"r", 4>>] = Fetch(b, 8, 4)
                         /\ p[<<"r", 5>>] = Fetch(b, 4, 4) /\ p[<<"r", 6>>] = Fetch(b, 12, 4)

(* What SWITCH passes to ThreadRoot on a PowerPC spoils no register that   *)
(* has a slot.                                                             *)
LEMMA PassedIs ==
  ASSUME arch \in Archs, NEW c, DOMAIN c = Registers(arch), NEW b, NEW t, c = [r \in Registers(arch) |-> c[r]],
         NEW p, p = Passed(c, b, t)
  PROVE  PassedOn(c, b, t, p)
<1> DEFINE scratch == {<<"r", 3>>, <<"r", 4>>, <<"r", 5>>, <<"r", 6>>}
<1>1. Power(arch) => /\ scratch \subseteq Registers(arch)
                     /\ scratch \cap (DOMAIN Slots(arch) \cup CalleeSaved(arch)) = {}
  <2> SUFFICES ASSUME Power(arch)
               PROVE  /\ scratch \subseteq Registers(arch)
                      /\ scratch \cap (DOMAIN Slots(arch) \cup CalleeSaved(arch)) = {}
    OBVIOUS
  <2>1. Scratch(arch) = {"r"} \X (3 .. 6)
    BY DEF Scratch, Power
  <2>2. CalleeSaved(arch) = {<<"sp", 0>>} \cup (({"r"} \X (13 .. 31)) \cup ({"f"} \X (14 .. 31)) \cup {<<"cr", 0>>})
    BY DEF Power, CalleeSaved, SP, R
  <2>3. DOMAIN Slots(arch) =
          {<<"sp", 0>>, <<"cr", 0>>, <<"lr", 0>>} \cup ({"r"} \X (13 .. 31)) \cup ({"f"} \X (14 .. 31))
    BY PowerTable, PowerIs
  <2>4. scratch \subseteq {"r"} \X (3 .. 6)
    OBVIOUS
  <2> QED BY <2>1, <2>2, <2>3, <2>4, RegistersAre
<1>2. CASE arch = "ApplePowerPC"
  <2> DEFINE x == <<"block", t, "", 0>>
             r4 == <<"r", 4>>
             kept == DOMAIN Slots(arch) \cup CalleeSaved(arch)
  <2>1. p = [c EXCEPT ![r4] = x]
    BY <1>2 DEF Passed
  <2>2. r4 \in Registers(arch) /\ r4 \notin kept /\ kept \subseteq Registers(arch)
    BY <1>1, <1>2, RegistersAre DEF Power
  <2> HIDE DEF x, r4, kept
  <2>3. p = [r \in Registers(arch) |-> p[r]] /\ p[r4] = x /\ \A r \in kept : p[r] = c[r]
    BY <2>1, <2>2
  <2> QED BY <1>2, <2>3 DEF PassedOn, x, r4, kept
<1>3. CASE arch = "PowerPC"
  <2> DEFINE x3 == Fetch(b, 16, 4)
             x4 == Fetch(b, 8, 4)
             x5 == Fetch(b, 4, 4)
             x6 == Fetch(b, 12, 4)
             r3 == <<"r", 3>>
             r4 == <<"r", 4>>
             r5 == <<"r", 5>>
             r6 == <<"r", 6>>
             kept == DOMAIN Slots(arch) \cup CalleeSaved(arch)
  <2>1. p = [c EXCEPT ![r3] = x3, ![r5] = x5, ![r6] = x6, ![r4] = x4]
    BY <1>3 DEF Passed
  <2>2. {r3, r4, r5, r6} \subseteq Registers(arch) \ kept /\ kept \subseteq Registers(arch)
    BY <1>1, <1>3, RegistersAre DEF Power
  <2>3. r3 # r4 /\ r3 # r5 /\ r3 # r6 /\ r4 # r5 /\ r4 # r6 /\ r5 # r6
    OBVIOUS
  <2> HIDE DEF x3, x4, x5, x6, r3, r4, r5, r6, kept
  <2>4. /\ p = [r \in Registers(arch) |-> p[r]] /\ \A r \in kept : p[r] = c[r]
        /\ p[r3] = x3 /\ p[r4] = x4 /\ p[r5] = x5 /\ p[r6] = x6
    BY <2>1, <2>2, <2>3
  <2> QED BY <1>3, <2>4 DEF PassedOn, x3, x4, x5, x6, r3, r4, r5, r6, kept
<1>4. CASE arch \notin {"ApplePowerPC", "PowerPC"}
  <2>1. p = c
    BY <1>4 DEF Passed
  <2> QED BY <2>1, <1>4 DEF PassedOn
<1> QED BY <1>2, <1>3, <1>4

(* The SPARC refills its windows from the new stack and changes no other   *)
(* register.                                                               *)
LEMMA RefilledIs ==
  ASSUME arch \in Archs, NEW c, c = [r \in Registers(arch) |-> c[r]], NEW m, NEW f, f = Refilled(c, m)
  PROVE  /\ f = [r \in Registers(arch) |-> f[r]]
         /\ \A r \in DOMAIN Slots(arch) : f[r] = c[r]
         /\ arch # "SPARC" => f = c
         /\ arch = "SPARC" => \A r \in DOMAIN Windows : f[r] = Word(m, Above(c[SP(arch)], Windows[r]))
<1>1. CASE arch # "SPARC"
  BY <1>1 DEF Refilled
<1>2. CASE arch = "SPARC"
  <2>1. f = [r \in DOMAIN c |-> IF r \in DOMAIN Windows THEN Word(m, Above(c[SP(arch)], Windows[r])) ELSE c[r]]
    BY <1>2 DEF Refilled
  <2>2. DOMAIN Windows = {"l", "i"} \X (0 .. 7)
    BY DEF Windows
  <2>3. DOMAIN Slots(arch) \cap DOMAIN Windows = {}
    BY <1>2, <2>2, SparcIs DEF Slots
  <2>4. DOMAIN Windows \subseteq Registers(arch)
    BY <1>2, <2>2, PreservedMoved, RegistersAre
  <2>5. DOMAIN c = Registers(arch)
    OBVIOUS
  <2> QED BY <1>2, <2>1, <2>3, <2>4, <2>5, RegistersAre
<1> QED BY <1>1, <1>2

(* SWITCH, on the hosts that keep return addresses in a register.          *)
LEMMA LinkSwitches ==
  ASSUME NEW old, NEW new, Switching(old, new), arch # "x86", NEW sw, sw = SWITCH(old, new)
  PROVE  Switched(old, new, sw)
<1> DEFINE from == [cpu EXCEPT ![PC(arch)] = Code("Run")]
           b == [block EXCEPT ![old] = Save(@, from)]
           m == Flushed(mem)
           l == Load(b[new], cpu)
           f == Refilled(l, m)
           c == Passed(f, b[new], new)
           p == CodeSP(old)
<1>1. sw.cpu = c /\ sw.mem = m /\ sw.block = b /\ sw.pc = c[PC(arch)]
  BY DEF SWITCH, LinkSwitch
<1>2. /\ arch \in Archs /\ old \in Thread /\ new \in Thread \ {old} /\ old = currentThread
      /\ cpu = [r \in Registers(arch) |-> cpu[r]] /\ InCode(cpu, old) /\ IsMemory(mem)
  BY DEF Switching, SwitchInv, PlacesOK, ProcessorOK, StacksOK, IsMemory
<1>3. /\ SP(arch) \in DOMAIN Slots(arch) \cap CalleeSaved(arch) /\ PC(arch) \in DOMAIN Slots(arch) \ CalleeSaved(arch)
      /\ SP(arch) # PC(arch)
  BY <1>2, PreservedMoved
<1>4. /\ DOMAIN from = Registers(arch) /\ from[PC(arch)] = Code("Run")
      /\ \A r \in Registers(arch) \ {PC(arch)} : from[r] = cpu[r]
  BY <1>2, <1>3, RegistersAre
<1> HIDE DEF from
<1>5. /\ b = [t \in Thread |-> [u \in BlockCells |-> b[t][u]]]
      /\ \A t \in Thread \ {old} : b[t] = block[t]
      /\ \A r \in DOMAIN Slots(arch) : Slot(b[old], r) = from[r]
  <2>1. BlockSaves(old, from, [block EXCEPT ![old] = Save(@, from)])
    BY <1>4, BlockSaved
  <2> QED BY <2>1 DEF BlockSaves
<1> HIDE DEF b
<1>6. p \in Int /\ cpu[SP(arch)] = Stack(old, p)
  BY <1>2, HostIs DEF InCode
<1>7. /\ IsMemory(m) /\ (\A t \in Thread \ {old} : m[t] = mem[t])
      /\ arch # "SPARC" => m = mem
      /\ arch = "SPARC" => /\ DOMAIN m[old] = DOMAIN mem[old] \cup (p .. p + 15)
                           /\ \A r \in DOMAIN Windows : Word(m, Stack(old, p + Windows[r])) = cpu[r]
                           /\ \A j : j \notin p .. p + 15 => Word(m, Stack(old, j)) = Word(mem, Stack(old, j))
  <2>1. CASE arch = "SPARC"
    BY <1>2, <1>6, <2>1, FlushedIs
  <2>2. CASE arch # "SPARC"
    BY <1>2, <2>2 DEF Flushed
  <2> QED BY <2>1, <2>2
<1> HIDE DEF m, p
<1>8. SavedIn(b, m, old)
  <2>1. Slot(b[old], SP(arch)) = Stack(old, SwitchSP(old)) /\ Slot(b[old], PC(arch)) = Code("Run")
    <3>1. SwitchSP(old) = p
      BY DEF SwitchSP, p
    <3> QED BY <1>3, <1>4, <1>5, <1>6, <3>1, RegistersAre
  <2>2. \A r \in Preserved \cap DOMAIN Slots(arch) : Slot(b[old], r) = Work(old, gen[old], r)
    BY <1>2, <1>3, <1>4, <1>5, RegistersAre DEF InCode
  <2>3. arch = "SPARC" =>
          \A r \in DOMAIN Windows : Word(m, Stack(old, CodeSP(old) + Windows[r])) = Work(old, gen[old], r)
    <3> SUFFICES ASSUME arch = "SPARC", NEW r \in DOMAIN Windows
                 PROVE  Word(m, Stack(old, CodeSP(old) + Windows[r])) = Work(old, gen[old], r)
      OBVIOUS
    <3>1. Word(m, Stack(old, CodeSP(old) + Windows[r])) = cpu[r]
      BY <1>7 DEF p
    <3>2. r \in Preserved
      <4>1. r \in {"l", "i"} \X (0 .. 7) /\ SP(arch) = <<"sp", 0>>
        BY DEF Windows, SP, R
      <4>2. CalleeSaved(arch) = {SP(arch)} \cup ({"l", "i"} \X (0 .. 7))
        BY <1>2, PreservedMoved
      <4> QED BY <4>1, <4>2 DEF Preserved
    <3> QED BY <1>2, <3>1, <3>2 DEF InCode
  <2> QED BY <2>1, <2>2, <2>3 DEF SavedIn
<1>9. /\ l = [r \in Registers(arch) |-> l[r]]
      /\ \A r \in DOMAIN Slots(arch) : l[r] = Slot(block[new], r)
  <2>1. DOMAIN cpu = Registers(arch) /\ b[new] = block[new]
    BY <1>2, <1>5
  <2> QED BY <1>2, <2>1, LoadIs
<1> HIDE DEF l
<1>10. /\ f = [r \in Registers(arch) |-> f[r]]
       /\ \A r \in DOMAIN Slots(arch) : f[r] = l[r]
       /\ arch = "SPARC" => \A r \in DOMAIN Windows : f[r] = Word(m, Above(l[SP(arch)], Windows[r]))
  BY <1>2, <1>9, RefilledIs
<1> HIDE DEF f
<1>11. /\ c = [r \in Registers(arch) |-> c[r]]
       /\ \A r \in DOMAIN Slots(arch) \cup CalleeSaved(arch) : c[r] = f[r]
       /\ arch = "ApplePowerPC" => c[<<"r", 4>>] = <<"block", new, "", 0>>
       /\ arch = "PowerPC" => /\ c[<<"r", 3>>] = Fetch(b[new], 16, 4) /\ c[<<"r", 4>>] = Fetch(b[new], 8, 4)
                              /\ c[<<"r", 5>>] = Fetch(b[new], 4, 4) /\ c[<<"r", 6>>] = Fetch(b[new], 12, 4)
  <2>1. DOMAIN f = Registers(arch)
    BY <1>10
  <2>2. PassedOn(f, b[new], new, Passed(f, b[new], new))
    BY <1>2, <1>10, <2>1, PassedIs
  <2> QED BY <2>2 DEF PassedOn
<1> HIDE DEF c
<1>12. \A r \in DOMAIN Slots(arch) : c[r] = Slot(block[new], r)
  BY <1>9, <1>10, <1>11
<1>13. ASSUME place[new] \in {"startup", "func"} PROVE c[PC(arch)] = Code("Run") /\ InCode(c, new)
  <2>1. SavedIn(block, mem, new)
    BY <1>2, <1>13 DEF Switching, SwitchInv, AllSaved, Waiting
  <2>2. c[PC(arch)] = Code("Run") /\ c[SP(arch)] = Stack(new, CodeSP(new))
    <3>1. SwitchSP(new) = CodeSP(new)
      BY DEF SwitchSP
    <3> QED BY <1>3, <1>12, <2>1, <3>1 DEF SavedIn
  <2>3. ASSUME NEW r \in Preserved PROVE c[r] = Work(new, gen[new], r)
    <3>1. CASE r \in DOMAIN Slots(arch)
      BY <1>12, <2>1, <3>1 DEF SavedIn
    <3>2. CASE r \notin DOMAIN Slots(arch)
      <4>1. arch = "SPARC" /\ r \in DOMAIN Windows
        BY <1>2, <1>3, <3>2, PreservedMoved DEF Preserved, Windows
      <4>2. l[SP(arch)] = Stack(new, CodeSP(new))
        BY <1>3, <1>10, <1>11, <2>2
      <4>3. Above(l[SP(arch)], Windows[r]) = Stack(new, CodeSP(new) + Windows[r])
        <5>1. Down(arch) = 1 /\ Windows[r] \in Int
          BY <4>1, SparcHost DEF Windows
        <5>2. Above(l[SP(arch)], Windows[r]) = Stack(new, CodeSP(new) + Down(arch) * Windows[r])
          BY <4>2, AboveIs
        <5> QED BY <5>1, <5>2
      <4>4. c[r] = Word(m, Stack(new, CodeSP(new) + Windows[r]))
        BY <1>10, <1>11, <4>1, <4>3 DEF Preserved
      <4>5. m[new] = mem[new]
        BY <1>2, <1>7
      <4>6. c[r] = Word(mem, Stack(new, CodeSP(new) + Windows[r]))
        BY <4>4, <4>5, SameWords
      <4> QED BY <2>1, <4>1, <4>6 DEF SavedIn
    <3> QED BY <3>1, <3>2
  <2> QED BY <2>2, <2>3 DEF InCode
<1>14. ASSUME place[new] = "forked" PROVE c[PC(arch)] = Code("ThreadRoot") /\ AtRoot(c, b, new)
  <2>1. block[new] = InitialState(new) /\ b[new] = InitialState(new)
    BY <1>2, <1>5, <1>14 DEF Switching, SwitchInv, NotStarted
  <2>2. \A r \in DOMAIN Slots(arch) : Width(arch, r) = Pointer(arch) => c[r] = InitialWord(new, Slots(arch)[r])
    BY <1>2, <1>12, <2>1, InitialSlot
  <2>3. c[SP(arch)] = Stack(new, EntrySP) /\ c[PC(arch)] = Code("ThreadRoot")
    <3>1. c[SP(arch)] = InitialWord(new, 0) /\ c[PC(arch)] = InitialWord(new, StateSlots(arch).pc)
      BY <1>2, <1>3, <2>2, PreservedMoved
    <3> QED BY <1>2, <3>1, InitialWords DEF EntrySP
  <2>4. arch = "PowerPC" => /\ c[<<"r", 3>>] = InitialWord(new, 16) /\ c[<<"r", 4>>] = InitialWord(new, 8)
                            /\ c[<<"r", 5>>] = InitialWord(new, 4) /\ c[<<"r", 6>>] = InitialWord(new, 12)
    <3> SUFFICES ASSUME arch = "PowerPC"
                 PROVE  /\ c[<<"r", 3>>] = InitialWord(new, 16) /\ c[<<"r", 4>>] = InitialWord(new, 8)
                        /\ c[<<"r", 5>>] = InitialWord(new, 4) /\ c[<<"r", 6>>] = InitialWord(new, 12)
      OBVIOUS
    <3>1. Pointer(arch) = 4 /\ BlockSize(arch) = 304
      BY DEF Pointer, BlockSize, MachineStateSize
    <3>2. \A o \in {4, 8, 12, 16} : Fetch(InitialState(new), o, 4) = InitialWord(new, o)
      <4> SUFFICES ASSUME NEW o \in {4, 8, 12, 16} PROVE Fetch(InitialState(new), o, 4) = InitialWord(new, o)
        OBVIOUS
      <4>1. o \in Nat /\ o % 4 = 0 /\ o % Pointer(arch) = 0 /\ o + Pointer(arch) <= BlockSize(arch)
        BY <3>1
      <4> QED BY <1>2, <3>1, <4>1, InitialIs
    <3> QED BY <1>11, <2>1, <3>2
  <2> QED BY <1>11, <2>1, <2>2, <2>3, <2>4 DEF AtRoot
<1>15. \A t \in Forked : \A j : ~Touched(t, j) => Word(m, Stack(t, j)) = Word(mem, Stack(t, j))
  <2> SUFFICES ASSUME NEW t \in Forked, NEW j, ~Touched(t, j) PROVE Word(m, Stack(t, j)) = Word(mem, Stack(t, j))
    OBVIOUS
  <2>1. CASE t # old
    <3>1. m[t] = mem[t]
      BY <1>7, <2>1 DEF Forked
    <3> QED BY <3>1, SameWords
  <2>2. CASE t = old /\ arch = "SPARC"
    BY <1>7, <2>2 DEF Touched, p
  <2>3. CASE arch # "SPARC"
    BY <1>7, <2>3
  <2> QED BY <2>1, <2>2, <2>3
<1>16. \A t \in Forked : DOMAIN m[t] \subseteq 0 .. StackSize - 1
  <2> SUFFICES ASSUME NEW t \in Forked PROVE DOMAIN m[t] \subseteq 0 .. StackSize - 1
    OBVIOUS
  <2>1. DOMAIN mem[t] \subseteq 0 .. StackSize - 1 /\ t \in Thread
    BY DEF Switching, SwitchInv, StacksOK, Forked
  <2>2. CASE t = old /\ arch = "SPARC"
    <3>1. p = 8088 /\ StackSize = 8192
      BY <2>2, SparcHost DEF p, StackSize
    <3> QED BY <1>7, <2>1, <2>2, <3>1
  <2>3. CASE t # old \/ arch # "SPARC"
    BY <1>7, <2>1, <2>3
  <2> QED BY <2>2, <2>3
<1> QED BY <1>1, <1>5, <1>7, <1>8, <1>11, <1>13, <1>14, <1>15, <1>16 DEF Switched

(* The three words that x86 code pushes before it enters SWITCH.           *)
LEMMA Pushed ==
  ASSUME IsMemory(mem), NEW t \in Thread, NEW s \in Int, NEW x, NEW y, NEW z, NEW m,
         m = Put(Put(Put(mem, Stack(t, s + 2), x), Stack(t, s + 1), y), Stack(t, s), z)
  PROVE  /\ IsMemory(m) /\ \A u \in Thread : u # t => m[u] = mem[u]
         /\ DOMAIN m[t] = DOMAIN mem[t] \cup (s .. s + 2) /\ Word(m, Stack(t, s)) = z
         /\ \A j : j \notin s .. s + 2 => Word(m, Stack(t, j)) = Word(mem, Stack(t, j))
<1> DEFINE p == Put(mem, Stack(t, s + 2), x)
           q == Put(p, Stack(t, s + 1), y)
<1>1. /\ IsMemory(p) /\ \A u \in Thread : u # t => p[u] = mem[u]
      /\ DOMAIN p[t] = DOMAIN mem[t] \cup {s + 2}
      /\ \A j : Word(p, Stack(t, j)) = IF j = s + 2 THEN x ELSE Word(mem, Stack(t, j))
  BY PutIs
<1> HIDE DEF p
<1>2. /\ IsMemory(q) /\ \A u \in Thread : u # t => q[u] = p[u]
      /\ DOMAIN q[t] = DOMAIN p[t] \cup {s + 1}
      /\ \A j : Word(q, Stack(t, j)) = IF j = s + 1 THEN y ELSE Word(p, Stack(t, j))
  BY <1>1, PutIs
<1>3. m = Put(q, Stack(t, s), z)
  BY DEF p
<1> HIDE DEF q
<1>4. /\ IsMemory(m) /\ \A u \in Thread : u # t => m[u] = q[u]
      /\ DOMAIN m[t] = DOMAIN q[t] \cup {s}
      /\ \A j : Word(m, Stack(t, j)) = IF j = s THEN z ELSE Word(q, Stack(t, j))
  BY <1>2, <1>3, PutIs
<1>5. s .. s + 2 = {s, s + 1, s + 2}
  OBVIOUS
<1> QED BY <1>1, <1>2, <1>4, <1>5

(* SWITCH on the x86.                                                      *)
LEMMA StackSwitches ==
  ASSUME NEW old, NEW new, Switching(old, new), arch = "x86", NEW sw, sw = SWITCH(old, new)
  PROVE  Switched(old, new, sw)
<1> DEFINE sp == Above(cpu[SP(arch)], -3)
           s == SwitchSP(old)
           m1 == Put(Put(Put(mem, Above(sp, 2), <<"block", new, "", 0>>),
                         Above(sp, 1), <<"block", old, "", 0>>), sp, Code("Run"))
           from == [cpu EXCEPT ![SP(arch)] = sp, ![PC(arch)] = Word(m1, sp)]
           b == [block EXCEPT ![old] = Save(@, from)]
           c == Load(b[new], cpu)
           m2 == Put(m1, Above(c[SP(arch)], 1), c[PC(arch)])
           pc == Word(m2, c[SP(arch)])
           popped == IF pc = Code("Run") THEN 3 ELSE 1
           d == [c EXCEPT ![SP(arch)] = Above(@, popped)]
<1>1. sw.cpu = d /\ sw.mem = m2 /\ sw.block = b /\ sw.pc = pc
  BY DEF SWITCH, StackSwitch
<1>2. /\ arch \in Archs /\ old \in Thread /\ new \in Thread \ {old} /\ old = currentThread
      /\ cpu = [r \in Registers(arch) |-> cpu[r]] /\ InCode(cpu, old) /\ IsMemory(mem)
  BY DEF Switching, SwitchInv, PlacesOK, ProcessorOK, StacksOK, IsMemory
<1>3. /\ SP(arch) \in DOMAIN Slots(arch) \cap CalleeSaved(arch) /\ PC(arch) \in DOMAIN Slots(arch) \ CalleeSaved(arch)
      /\ SP(arch) # PC(arch) /\ Preserved \subseteq DOMAIN Slots(arch)
  BY <1>2, PreservedMoved DEF Preserved
<1>4. /\ s \in Int /\ s = CodeSP(old) - 3 /\ CodeSP(old) \in Int /\ Down(arch) = 1
      /\ sp = Stack(old, s)
  <2>1. CodeSP(old) \in Int /\ s = CodeSP(old) - 3 /\ Down(arch) = 1
    BY <1>2, HostIs, X86Host
  <2>2. sp = Stack(old, CodeSP(old) + Down(arch) * (-3))
    BY <1>2, AboveIs DEF InCode
  <2> QED BY <2>1, <2>2
<1> HIDE DEF s
<1>5. m1 = Put(Put(Put(mem, Stack(old, s + 2), <<"block", new, "", 0>>),
                   Stack(old, s + 1), <<"block", old, "", 0>>), Stack(old, s), Code("Run"))
  <2> HIDE DEF sp
  <2>1. Above(sp, 2) = Stack(old, s + Down(arch) * 2) /\ Above(sp, 1) = Stack(old, s + Down(arch) * 1)
    BY <1>4, AboveIs
  <2>2. Above(sp, 2) = Stack(old, s + 2) /\ Above(sp, 1) = Stack(old, s + 1)
    BY <1>4, <2>1
  <2> QED BY <1>4, <2>2
<1> HIDE DEF m1, sp
<1>6. /\ IsMemory(m1) /\ \A u \in Thread : u # old => m1[u] = mem[u]
      /\ DOMAIN m1[old] = DOMAIN mem[old] \cup (s .. s + 2) /\ Word(m1, Stack(old, s)) = Code("Run")
      /\ \A j : j \notin s .. s + 2 => Word(m1, Stack(old, j)) = Word(mem, Stack(old, j))
  <2> DEFINE x == <<"block", new, "", 0>>
             y == <<"block", old, "", 0>>
             z == Code("Run")
  <2>1. m1 = Put(Put(Put(mem, Stack(old, s + 2), x), Stack(old, s + 1), y), Stack(old, s), z)
    BY <1>5
  <2> HIDE DEF x, y, z
  <2>2. /\ IsMemory(m1) /\ \A u \in Thread : u # old => m1[u] = mem[u]
        /\ DOMAIN m1[old] = DOMAIN mem[old] \cup (s .. s + 2) /\ Word(m1, Stack(old, s)) = z
        /\ \A j : j \notin s .. s + 2 => Word(m1, Stack(old, j)) = Word(mem, Stack(old, j))
    BY <1>2, <1>4, <2>1, Pushed
  <2> QED BY <2>2 DEF z
<1>7. /\ DOMAIN from = Registers(arch) /\ from[SP(arch)] = Stack(old, s) /\ from[PC(arch)] = Code("Run")
      /\ \A r \in Preserved : from[r] = cpu[r]
  BY <1>2, <1>3, <1>4, <1>6, RegistersAre DEF Preserved
<1> HIDE DEF from
<1>8. /\ b = [t \in Thread |-> [u \in BlockCells |-> b[t][u]]]
      /\ \A t \in Thread \ {old} : b[t] = block[t]
      /\ \A r \in DOMAIN Slots(arch) : Slot(b[old], r) = from[r]
  <2>1. BlockSaves(old, from, [block EXCEPT ![old] = Save(@, from)])
    BY <1>7, BlockSaved
  <2> QED BY <2>1 DEF BlockSaves
<1> HIDE DEF b
<1>9. /\ c = [r \in Registers(arch) |-> c[r]]
      /\ \A r \in DOMAIN Slots(arch) : c[r] = Slot(block[new], r)
  <2>1. DOMAIN cpu = Registers(arch) /\ b[new] = block[new]
    BY <1>2, <1>8
  <2> QED BY <1>2, <2>1, LoadIs
<1> HIDE DEF c
(* Where the stack of the new thread is, and what is on it.                *)
<1> DEFINE n == IF place[new] = "forked" THEN StackTop(arch) ELSE SwitchSP(new)
           back == IF place[new] = "forked" THEN Code("ThreadRoot") ELSE Code("Run")
<1>10. n \in Int /\ c[SP(arch)] = Stack(new, n) /\ c[PC(arch)] = back /\ Word(mem, Stack(new, n)) = back
  <2>1. CASE place[new] = "forked"
    <3>1. block[new] = InitialState(new) /\ mem[new] = InitialFrame(new)
      BY <1>2, <2>1 DEF Switching, SwitchInv, NotStarted
    <3>2. c[SP(arch)] = InitialWord(new, 0) /\ c[PC(arch)] = InitialWord(new, StateSlots(arch).pc)
      BY <1>2, <1>3, <1>9, <3>1, InitialSlot, PreservedMoved
    <3>3. c[SP(arch)] = Stack(new, n) /\ c[PC(arch)] = back
      BY <1>2, <2>1, <3>2, InitialWords
    <3>4. n = 8187 /\ FencePost(arch) = 0
      BY <2>1, X86Host
    <3>5. mem[new] = Only(0, Fence) ++ Only(n, Code("ThreadRoot"))
      BY <2>1, <3>1, <3>4 DEF InitialFrame
    <3>6. n \in DOMAIN mem[new] /\ mem[new][n] = Code("ThreadRoot")
      BY <3>4, <3>5 DEF Only, ++
    <3> QED BY <2>1, <3>3, <3>4, <3>6, WordIs
  <2>2. CASE place[new] # "forked"
    <3>1. SavedIn(block, mem, new)
      BY <1>2, <2>2 DEF Switching, SwitchInv, AllSaved, Waiting
    <3>2. n = SwitchSP(new) /\ back = Code("Run") /\ n \in Int
      BY <1>2, <2>2, HostIs
    <3>3. c[SP(arch)] = Slot(block[new], SP(arch)) /\ c[PC(arch)] = Slot(block[new], PC(arch))
      BY <1>3, <1>9
    <3> HIDE DEF n, back
    <3> QED BY <3>1, <3>2, <3>3 DEF SavedIn
  <2> QED BY <2>1, <2>2
<1>11. /\ IsMemory(m2) /\ \A u \in Thread : u # new => m2[u] = m1[u]
       /\ DOMAIN m2[new] = DOMAIN m1[new] \cup {n + 1}
       /\ \A j : j # n + 1 => Word(m2, Stack(new, j)) = Word(m1, Stack(new, j))
  <2>1. Above(c[SP(arch)], 1) = Stack(new, n + 1)
    <3>1. Above(c[SP(arch)], 1) = Stack(new, n + Down(arch) * 1)
      BY <1>10, AboveIs
    <3> QED BY <1>4, <1>10, <3>1
  <2> HIDE DEF n
  <2> QED BY <1>2, <1>6, <2>1, PutIs
<1>12. pc = back
  <2> HIDE DEF n, back, m2
  <2>1. Word(m2, Stack(new, n)) = Word(m1, Stack(new, n))
    BY <1>10, <1>11
  <2>2. m1[new] = mem[new]
    BY <1>2, <1>6
  <2>3. Word(m1, Stack(new, n)) = Word(mem, Stack(new, n))
    BY <2>2, SameWords
  <2> QED BY <1>10, <2>1, <2>3
<1> HIDE DEF m2, pc
<1>13. /\ d = [r \in Registers(arch) |-> d[r]] /\ d[SP(arch)] = Above(c[SP(arch)], popped)
       /\ \A r \in Registers(arch) \ {SP(arch)} : d[r] = c[r]
  BY <1>3, <1>9, RegistersAre
<1> HIDE DEF d
<1>14. SavedIn(b, m2, old)
  <2>1. Word(m2, Stack(old, s)) = Code("Run")
    <3>1. m2[old] = m1[old]
      BY <1>2, <1>11
    <3> QED BY <1>6, <3>1, SameWords
  <2>2. \A r \in Preserved \cap DOMAIN Slots(arch) : Slot(b[old], r) = Work(old, gen[old], r)
    BY <1>2, <1>7, <1>8 DEF InCode
  <2> QED BY <1>3, <1>7, <1>8, <2>1, <2>2 DEF SavedIn, s
<1>15. ASSUME place[new] \in {"startup", "func"} PROVE pc = Code("Run") /\ InCode(d, new)
  <2>1. SavedIn(block, mem, new) /\ n = SwitchSP(new)
    BY <1>2, <1>15 DEF Switching, SwitchInv, AllSaved, Waiting
  <2>2. pc = Code("Run") /\ popped = 3
    BY <1>12, <1>15
  <2>3. n = CodeSP(new) - 3 /\ CodeSP(new) \in Int
    BY <1>2, <2>1, HostIs, X86Host
  <2>4. d[SP(arch)] = Stack(new, CodeSP(new))
    <3>1. d[SP(arch)] = Stack(new, n + Down(arch) * 3)
      BY <1>10, <1>13, <2>2, AboveIs
    <3> QED BY <1>4, <2>3, <3>1
  <2>5. \A r \in Preserved : d[r] = Work(new, gen[new], r)
    BY <1>3, <1>9, <1>13, <2>1, RegistersAre DEF SavedIn, Preserved
  <2> QED BY <2>2, <2>4, <2>5 DEF InCode
<1>16. ASSUME place[new] = "forked" PROVE pc = Code("ThreadRoot") /\ AtRoot(d, b, new)
  <2>1. block[new] = InitialState(new) /\ b[new] = InitialState(new)
    BY <1>2, <1>8, <1>16 DEF Switching, SwitchInv, NotStarted
  <2>2. pc = Code("ThreadRoot") /\ popped = 1
    BY <1>12, <1>16 DEF Code
  <2>3. \A r \in DOMAIN Slots(arch) : Width(arch, r) = Pointer(arch) => c[r] = InitialWord(new, Slots(arch)[r])
    BY <1>2, <1>9, <2>1, InitialSlot
  <2>4. \A r \in DOMAIN Slots(arch) \ {SP(arch)} :
          Width(arch, r) = Pointer(arch) => d[r] = InitialWord(new, Slots(arch)[r])
    BY <1>13, <2>3, RegistersAre
  <2>5. d[SP(arch)] = Stack(new, EntrySP)
    <3>1. d[SP(arch)] = Stack(new, n + Down(arch) * 1)
      BY <1>10, <1>13, <2>2, AboveIs
    <3>2. n = StackTop(arch)
      BY <1>16
    <3> QED BY <1>4, <1>10, <3>1, <3>2 DEF EntrySP
  <2> QED BY <2>1, <2>2, <2>4, <2>5 DEF AtRoot
<1>17. \A t \in Forked : \A j : ~Touched(t, j) => Word(m2, Stack(t, j)) = Word(mem, Stack(t, j))
  <2> SUFFICES ASSUME NEW t \in Forked, NEW j, ~Touched(t, j) PROVE Word(m2, Stack(t, j)) = Word(mem, Stack(t, j))
    OBVIOUS
  <2>1. CASE t = old
    <3>1. j \notin s .. s + 2 /\ m2[t] = m1[t]
      BY <1>2, <1>4, <1>11, <2>1 DEF Touched
    <3> QED BY <1>6, <2>1, <3>1, SameWords
  <2>2. CASE t = new
    <3>1. j # n + 1
      <4>1. CASE place[new] = "forked"
        BY <2>2, <4>1 DEF Touched, EntrySP
      <4>2. CASE place[new] # "forked"
        <5>1. n = CodeSP(new) - 3 /\ CodeSP(new) \in Int
          BY <1>2, <4>2, HostIs, X86Host
        <5> QED BY <2>2, <5>1 DEF Touched
      <4> QED BY <4>1, <4>2
    <3>2. Word(m2, Stack(t, j)) = Word(m1, Stack(t, j)) /\ m1[t] = mem[t]
      BY <1>2, <1>6, <1>11, <2>2, <3>1
    <3> QED BY <3>2, SameWords
  <2>3. CASE t # old /\ t # new
    <3>1. m2[t] = mem[t]
      BY <1>6, <1>11, <2>3 DEF Forked
    <3> QED BY <3>1, SameWords
  <2> QED BY <2>1, <2>2, <2>3
<1>18. \A t \in Forked : DOMAIN m2[t] \subseteq 0 .. StackSize - 1
  <2> SUFFICES ASSUME NEW t \in Forked PROVE DOMAIN m2[t] \subseteq 0 .. StackSize - 1
    OBVIOUS
  <2>1. DOMAIN mem[t] \subseteq 0 .. StackSize - 1 /\ t \in Thread
    BY DEF Switching, SwitchInv, StacksOK, Forked
  <2>2. CodeSP(t) = 8178 /\ StackSize = 8192 /\ SwitchSP(t) = 8175 /\ StackTop(arch) = 8187
    BY X86Host DEF StackSize
  <2>3. CASE t = old
    BY <1>2, <1>4, <1>6, <1>11, <2>1, <2>2, <2>3
  <2>4. CASE t = new
    <3>1. n + 1 \in 0 .. StackSize - 1
      BY <2>2, <2>4
    <3> QED BY <1>2, <1>6, <1>11, <2>1, <2>4, <3>1
  <2>5. CASE t # old /\ t # new
    BY <1>6, <1>11, <2>1, <2>5
  <2> QED BY <2>3, <2>4, <2>5
<1>19. \A t \in Thread \ {old, new} : m2[t] = mem[t]
  BY <1>6, <1>11
<1> QED BY <1>1, <1>8, <1>11, <1>13, <1>14, <1>15, <1>16, <1>17, <1>18, <1>19, ZenonT(40) DEF Switched

----------------------------------------------------------------------------
(* The host stays the same, and with it what is defined from it alone.     *)
LEMMA HostStays ==
  ASSUME arch' = arch
  PROVE  /\ Preserved' = Preserved /\ EntrySP' = EntrySP /\ BlockCells' = BlockCells
         /\ \A t : (place'[t] = "finish") = (place[t] = "finish") =>
                    CodeSP(t)' = CodeSP(t) /\ SwitchSP(t)' = SwitchSP(t)
         /\ \A t : InitialFrame(t)' = InitialFrame(t)
         /\ \A t, o : InitialWord(t, o)' = InitialWord(t, o)
         /\ \A t : InitialState(t)' = InitialState(t)
         /\ \A b, r : Slot(b, r)' = Slot(b, r)
         /\ \A p, k : Above(p, k)' = Above(p, k)
         /\ \A l, c, m : Taken(l, c, m)' = Taken(l, c, m)
<1>1. Preserved' = Preserved /\ EntrySP' = EntrySP /\ BlockCells' = BlockCells
  BY DEF Preserved, EntrySP, BlockCells, EmptyBlock
<1>2. \A t : (place'[t] = "finish") = (place[t] = "finish") =>
             CodeSP(t)' = CodeSP(t) /\ SwitchSP(t)' = SwitchSP(t)
  BY DEF CodeSP, SwitchSP, GivenBack
<1>3. \A t : InitialFrame(t)' = InitialFrame(t)
  BY DEF InitialFrame
<1>4. \A t, o : InitialWord(t, o)' = InitialWord(t, o)
  BY Zenon DEF InitialWord
<1>5. \A t : InitialState(t)' = InitialState(t)
  BY <1>4 DEF InitialState, EmptyBlock
<1>6. \A b, r : Slot(b, r)' = Slot(b, r)
  BY DEF Slot
<1>7. \A p, k : Above(p, k)' = Above(p, k)
  BY DEF Above
<1>8. \A l, c, m : Taken(l, c, m)' = Taken(l, c, m)
  BY DEF Taken, Above
<1> QED BY <1>1, <1>2, <1>3, <1>4, <1>5, <1>6, <1>7, <1>8

(* What the invariant says of a register file, or of a stack, depends only *)
(* on the registers and words that it names.                               *)
Locations == {RootCalls(arch)[2], RootArg(arch), RootCalls(arch)[3]}
LEMMA LocationsAre ==
  ASSUME arch \in Archs \ {"PowerPC"}, NEW l \in Locations
  PROVE  \/ l[1] # "word" /\ l \in CalleeSaved(arch)
         \/ l[1] = "word" /\ l[2] \in Nat /\ RootSP(arch) + Down(arch) * l[2] \in 8182 .. 8186
<1>1. CASE arch \in {"DECMIPS", "ALPHA"}
  BY <1>1 DEF Locations, RootCalls, RootArg, CalleeSaved
<1>2. CASE arch = "SPARC"
  BY <1>2 DEF Locations, RootCalls, RootArg, CalleeSaved
<1>3. CASE arch = "PARISC"
  BY <1>3 DEF Locations, RootCalls, RootArg, CalleeSaved
<1>4. CASE arch = "x86"
  BY <1>4, X86Host DEF Locations, RootCalls, RootArg, CalleeSaved, OnStack, R
<1>5. CASE arch = "ApplePowerPC"
  BY <1>5 DEF Locations, RootCalls, RootArg, CalleeSaved
<1> QED BY <1>1, <1>2, <1>3, <1>4, <1>5 DEF Archs

(* ThreadRoot finds the same there if registers and words are the same.    *)
LEMMA TakenSame ==
  ASSUME arch \in Archs \ {"PowerPC"}, NEW l \in Locations, NEW c, NEW d, NEW m, NEW n, NEW t,
         c[SP(arch)] = Stack(t, RootSP(arch)), \A r \in CalleeSaved(arch) : d[r] = c[r],
         \A j \in 8182 .. 8186 : Word(n, Stack(t, j)) = Word(m, Stack(t, j))
  PROVE  Taken(l, d, n) = Taken(l, c, m)
<1>1. CASE l[1] # "word" /\ l \in CalleeSaved(arch)
  BY <1>1 DEF Taken
<1>2. CASE l[1] = "word" /\ RootSP(arch) + Down(arch) * l[2] \in 8182 .. 8186
  <2>1. d[SP(arch)] = Stack(t, RootSP(arch))
    BY PreservedMoved
  <2>2. /\ Above(c[SP(arch)], l[2]) = Stack(t, RootSP(arch) + Down(arch) * l[2])
        /\ Above(d[SP(arch)], l[2]) = Stack(t, RootSP(arch) + Down(arch) * l[2])
    BY <2>1, AboveIs
  <2> QED BY <1>2, <2>2 DEF Taken
<1> QED BY <1>1, <1>2, LocationsAre

(* So what it is going to call stays, while those registers and words do,  *)
LEMMA FrameStays ==
  ASSUME arch \in Archs, NEW c, NEW d, NEW m, NEW n, NEW t, NEW w, FrameKept(c, m, t, w),
         \A r \in CalleeSaved(arch) : d[r] = c[r],
         \A j \in 8182 .. 8186 : Word(n, Stack(t, j)) = Word(m, Stack(t, j))
  PROVE  FrameKept(d, n, t, w)
<1>1. c[SP(arch)] = Stack(t, RootSP(arch)) /\ d[SP(arch)] = c[SP(arch)]
  BY PreservedMoved DEF FrameKept
<1>2. CASE arch # "PowerPC"
  <2>1. \A l \in Locations : Taken(l, d, n) = Taken(l, c, m)
    BY <1>1, <1>2, TakenSame
  <2> QED BY <1>1, <1>2, <2>1 DEF FrameKept, Locations
<1>3. CASE arch = "PowerPC"
  <2>1. /\ Word(n, Above6(t)) = Word(m, Above6(t)) /\ Word(n, Above7(t)) = Word(m, Above7(t))
        /\ Word(n, Above8(t)) = Word(m, Above8(t))
    BY DEF Above6, Above7, Above8
  <2> QED BY <1>1, <1>3, <2>1 DEF FrameKept
<1> QED BY <1>2, <1>3

(* in particular while its stack is untouched.                             *)
LEMMA FrameSame ==
  ASSUME arch \in Archs, NEW c, NEW m, NEW n, NEW t, NEW w, FrameKept(c, m, t, w), n[t] = m[t]
  PROVE  FrameKept(c, n, t, w)
<1>1. \A j : Word(n, Stack(t, j)) = Word(m, Stack(t, j))
  BY SameWords
<1>2. \A r \in CalleeSaved(arch) : c[r] = c[r]
  OBVIOUS
<1> QED BY <1>1, <1>2, FrameStays

(* A thread that waits stays saved while its block and stack are           *)
(* untouched.                                                              *)
LEMMA SavedStays ==
  ASSUME NEW b, NEW c, NEW m, NEW n, NEW t, SavedIn(b, m, t), c[t] = b[t], n[t] = m[t]
  PROVE  SavedIn(c, n, t)
<1>1. \A j : Word(n, Stack(t, j)) = Word(m, Stack(t, j))
  BY SameWords
<1> QED BY <1>1 DEF SavedIn

(* The registers of C code in the middle of its work.                      *)
LEMMA BusyIs ==
  ASSUME arch \in Archs, NEW t, NEW g, NEW p
  PROVE  /\ Busy(t, g, p) = [r \in Registers(arch) |-> Busy(t, g, p)[r]]
         /\ Busy(t, g, p)[SP(arch)] = p
         /\ \A r \in Preserved : Busy(t, g, p)[r] = Work(t, g, r)
<1>1. SP(arch) \in Registers(arch) /\ Preserved \subseteq Registers(arch)
  BY PreservedMoved, RegistersAre
<1>2. Busy(t, g, p) = [r \in Registers(arch) |-> Busy(t, g, p)[r]]
  BY DEF Busy
<1>3. Busy(t, g, p)[SP(arch)] = p
  BY <1>1, Zenon DEF Busy
<1>4. ASSUME NEW r \in Preserved PROVE Busy(t, g, p)[r] = Work(t, g, r)
  <2>1. r \in Registers(arch) /\ r # SP(arch) /\ r \in CalleeSaved(arch) \ {SP(arch)}
    BY <1>1 DEF Preserved
  <2> QED BY <2>1, Zenon DEF Busy
<1> QED BY <1>2, <1>3, <1>4

(* How many calls ThreadRoot has made.                                     *)
LEMMA CalledIs ==
  ASSUME NEW t
  PROVE  /\ place[t] \in {"created", "forked"} => Called(t) = 0
         /\ place[t] = "startup" => Called(t) = 1
         /\ place[t] = "func" => Called(t) = 2
         /\ place[t] \in {"finish", "deleted"} => Called(t) = 3
<1>1. place[t] \in {"created", "forked"} => Called(t) = 0
  BY Zenon DEF Called
<1>2. place[t] = "startup" => Called(t) = 1
  BY Zenon DEF Called
<1>3. place[t] = "func" => Called(t) = 2
  BY Zenon DEF Called
<1>4. place[t] \in {"finish", "deleted"} => Called(t) = 3
  BY Zenon DEF Called
<1> QED BY <1>1, <1>2, <1>3, <1>4

----------------------------------------------------------------------------
(* Every step keeps the invariant.                                         *)
LEMMA Initially == SwitchInit => SwitchInv
<1> SUFFICES ASSUME SwitchInit PROVE SwitchInv
  OBVIOUS
<1> USE DEF SwitchInit
<1>1. arch \in Archs /\ Main \in Thread /\ "none" \notin Thread /\ currentThread = Main /\ at = "in"
  BY ContextSwitchAssumption
<1>2. PlacesOK
  BY <1>1 DEF PlacesOK, Started
<1>3. NotStarted /\ AllSaved /\ FramesKept
  BY <1>1 DEF NotStarted, AllSaved, Waiting, FramesKept, Forked
<1>4. ProcessorOK
  <2>1. CodeSP(Main) = 0 /\ gen[Main] = 0
    BY <1>1 DEF CodeSP
  <2>2. cpu = Busy(Main, gen[Main], Stack(Main, CodeSP(Main)))
    BY <2>1
  <2> QED BY <1>1, <2>2, BusyIs DEF ProcessorOK, InCode
<1>5. StacksOK
  <2>1. mem = [t \in Thread |-> mem[t]] /\ \A t \in Thread : DOMAIN mem[t] = {}
    OBVIOUS
  <2>2. block = [t \in Thread |-> [u \in DOMAIN EmptyBlock |-> block[t][u]]]
    <3>1. EmptyBlock = [u \in DOMAIN EmptyBlock |-> EmptyBlock[u]]
      BY DEF EmptyBlock
    <3>2. block = [t \in Thread |-> EmptyBlock]
      OBVIOUS
    <3> HIDE DEF SwitchInit
    <3> QED BY <3>1, <3>2
  <2>3. \A t \in Forked : place[t] \notin {"forked", "startup"}
    BY DEF Forked
  <2> HIDE DEF SwitchInit
  <2> QED BY <2>1, <2>2, <2>3 DEF StacksOK, Forked
<1>6. CallsOK
  <2>1. \A t \in Forked : Called(t) = 0 /\ calls[t] = <<>>
    BY CalledIs DEF Forked
  <2>2. \A t \in Forked : calls[t] = [i \in 1 .. Called(t) |-> RootCallsOf(t)[i]]
    BY <2>1
  <2> QED BY <2>2 DEF CallsOK
<1>7. UserOK
  BY <1>1 DEF UserOK
<1> QED BY <1>2, <1>3, <1>4, <1>5, <1>6, <1>7 DEF SwitchInv

(* Thread::StackAllocate.                                                  *)
LEMMA AllocateKeeps ==
  ASSUME SwitchInv, NEW t \in Forked, StackAllocate(t) PROVE SwitchInv'
<1> USE DEF StackAllocate, userVars
<1>1. /\ arch' = arch /\ arch \in Archs /\ t \in Thread /\ t # Main /\ t # currentThread
      /\ place' = [place EXCEPT ![t] = "forked"] /\ DOMAIN place = Thread /\ DOMAIN mem = Thread /\ DOMAIN block = Thread
  BY DEF SwitchInv, PlacesOK, StacksOK, Forked, Started
<1>2. /\ mem'[t] = InitialFrame(t) /\ block'[t] = InitialState(t) /\ place'[t] = "forked"
      /\ \A u \in Thread : u # t => mem'[u] = mem[u] /\ block'[u] = block[u] /\ place'[u] = place[u]
  BY <1>1
<1>3. PlacesOK'
  BY <1>1, <1>2 DEF SwitchInv, PlacesOK, Started
<1>4. NotStarted'
  BY <1>1, <1>2, HostStays DEF SwitchInv, NotStarted
<1>5. AllSaved'
  <2> SUFFICES ASSUME NEW u \in Thread, Waiting(u)' PROVE SavedIn(block, mem, u)'
    BY DEF AllSaved
  <2>1. u # t /\ Waiting(u) /\ place'[u] = place[u]
    BY <1>1, <1>2 DEF Waiting
  <2>2. SavedIn(block', mem', u)
    BY <1>2, <2>1, SavedStays DEF SwitchInv, AllSaved
  <2> QED BY <1>1, <2>1, <2>2, HostStays DEF SavedIn
<1>6. ProcessorOK'
  <2>1. currentThread \in Thread /\ place'[currentThread] = place[currentThread]
    BY <1>1, <1>2 DEF SwitchInv, PlacesOK
  <2> QED BY <1>1, <2>1, HostStays DEF SwitchInv, ProcessorOK, InCode
<1>7. FramesKept'
  <2> SUFFICES ASSUME NEW u \in Forked, place'[u] \in {"startup", "func"} PROVE FrameKept(entry[u], mem, u, place[u])'
    BY DEF FramesKept, Forked
  <2>1. u # t /\ FrameKept(entry[u], mem, u, place[u]) /\ mem'[u] = mem[u] /\ place'[u] = place[u]
    BY <1>1, <1>2 DEF SwitchInv, FramesKept, Forked
  <2>2. FrameKept(entry[u], mem', u, place[u])
    BY <1>1, <2>1, FrameSame
  <2> QED BY <1>1, <2>1, <2>2, HostStays DEF FrameKept
<1>8. StacksOK'
  <2> HIDE DEF StackAllocate
  <2>1. DOMAIN InitialFrame(t) \subseteq 0 .. StackSize - 1 /\ Word(mem', Stack(t, FencePost(arch))) = Fence
    <3>1. FencePost(arch) \in 0 .. StackSize - 1 /\ (arch = "x86" => StackTop(arch) = 8187 /\ FencePost(arch) = 0)
          /\ StackSize = 8192
      BY <1>1, HostIs, X86Host
    <3>2. FencePost(arch) \in DOMAIN InitialFrame(t) /\ InitialFrame(t)[FencePost(arch)] = Fence
          /\ DOMAIN InitialFrame(t) \subseteq {FencePost(arch), 8187}
      BY <3>1 DEF InitialFrame, Only, ++
    <3>3. DOMAIN InitialFrame(t) \subseteq 0 .. StackSize - 1
      BY <3>1, <3>2
    <3>4. Word(mem', Stack(t, FencePost(arch))) = mem'[t][FencePost(arch)]
      BY <1>2, <3>2, WordIs
    <3> QED BY <1>2, <3>2, <3>3, <3>4
  <2>2. \A u \in Forked : DOMAIN mem'[u] \subseteq 0 .. StackSize - 1
    BY <1>2, <2>1 DEF SwitchInv, StacksOK, Forked
  <2>3. ASSUME NEW u \in Forked, place'[u] \in {"forked", "startup"} PROVE Word(mem', Stack(u, FencePost(arch))) = Fence
    <3>1. CASE u # t
      <4>1. mem'[u] = mem[u] /\ Word(mem, Stack(u, FencePost(arch))) = Fence
        BY <1>2, <2>3, <3>1 DEF SwitchInv, StacksOK, Forked
      <4>2. \A j : Word(mem', Stack(u, j)) = Word(mem, Stack(u, j))
        BY <4>1, SameWords
      <4> QED BY <4>1, <4>2
    <3> QED BY <2>1, <3>1
  <2>4. InitialState(t) = [u \in BlockCells |-> InitialState(t)[u]]
    BY DEF InitialState, BlockCells
  <2>5. \A u \in Thread : block'[u] = [v \in BlockCells |-> block'[u][v]]
    BY <1>2, <2>4 DEF SwitchInv, StacksOK, BlockCells
  <2>6. DOMAIN EmptyBlock' = BlockCells
    BY <1>1, HostStays DEF BlockCells
  <2>7. block' = [u \in Thread |-> block'[u]] /\ mem' = [u \in Thread |-> mem'[u]] /\ FencePost(arch') = FencePost(arch)
    BY <1>1 DEF StackAllocate
  <2>8. block' = [u \in Thread |-> [v \in DOMAIN EmptyBlock' |-> block'[u][v]]]
    BY <2>5, <2>6, <2>7
  <2> QED BY <2>2, <2>3, <2>7, <2>8 DEF StacksOK, Forked
<1>9. CallsOK'
  <2>1. \A u \in Forked : Called(u)' = Called(u)
    BY <1>2, Zenon DEF Called, Forked
  <2> QED BY <2>1 DEF SwitchInv, CallsOK, RootCallsOf, Forked
<1>10. UserOK'
  BY <1>1, <1>2 DEF SwitchInv, UserOK, PlacesOK
<1> QED BY <1>3, <1>4, <1>5, <1>6, <1>7, <1>8, <1>9, <1>10 DEF SwitchInv

(* A thread that waited and was not touched.                               *)
LEMMA WaitsStill ==
  ASSUME SwitchInv, arch' = arch, NEW u \in Thread, Waiting(u),
         block'[u] = block[u], mem'[u] = mem[u], gen'[u] = gen[u], place'[u] = place[u]
  PROVE  SavedIn(block, mem, u)'
<1>1. SavedIn(block', mem', u)
  BY SavedStays DEF SwitchInv, AllSaved
<1> QED BY <1>1, HostStays DEF SavedIn

(* A thread whose ThreadRoot has begun and was not touched.                *)
LEMMA KeptStill ==
  ASSUME SwitchInv, arch' = arch, NEW u \in Forked, place[u] \in {"startup", "func"},
         mem'[u] = mem[u], entry'[u] = entry[u], place'[u] = place[u]
  PROVE  FrameKept(entry[u], mem, u, place[u])'
<1>1. FrameKept(entry[u], mem, u, place[u]) /\ arch \in Archs
  BY DEF SwitchInv, FramesKept, PlacesOK
<1>2. FrameKept(entry[u], mem', u, place[u])
  BY <1>1, FrameSame
<1> QED BY <1>2, HostStays DEF FrameKept

(* A step that leaves stacks, blocks and places alone.                     *)
LEMMA Still ==
  ASSUME SwitchInv, UNCHANGED <<arch, mem, block, place, entry, calls, currentThread, toBeDestroyed>>,
         \A u \in Thread : u # currentThread => gen'[u] = gen[u]
  PROVE  NotStarted' /\ AllSaved' /\ FramesKept' /\ StacksOK' /\ (gen' = [t \in Thread |-> gen'[t]] => CallsOK')
<1>1. NotStarted'
  BY HostStays DEF SwitchInv, NotStarted
<1>2. AllSaved'
  <2> SUFFICES ASSUME NEW u \in Thread, Waiting(u)' PROVE SavedIn(block, mem, u)'
    BY DEF AllSaved
  <2>1. Waiting(u) /\ gen'[u] = gen[u]
    BY DEF Waiting
  <2> QED BY <2>1, WaitsStill
<1>3. FramesKept'
  <2> SUFFICES ASSUME NEW u \in Forked, place'[u] \in {"startup", "func"} PROVE FrameKept(entry[u], mem, u, place[u])'
    BY DEF FramesKept, Forked
  <2> QED BY KeptStill
<1>4. StacksOK'
  BY HostStays DEF SwitchInv, StacksOK, Forked, EmptyBlock
<1>5. ASSUME gen' = [t \in Thread |-> gen'[t]] PROVE CallsOK'
  <2>1. \A u : Called(u)' = Called(u)
    BY Zenon DEF Called
  <2> QED BY <1>5, <2>1 DEF SwitchInv, CallsOK, RootCallsOf, Forked
<1> QED BY <1>1, <1>2, <1>3, <1>4, <1>5

(* The return of C code into ThreadRoot.                                   *)
LEMMA ReturnKeeps == ASSUME SwitchInv, Return PROVE SwitchInv'
<1> USE DEF Return, userVars
<1>1. PlacesOK'
  BY DEF SwitchInv, PlacesOK, Started
<1>2. NotStarted' /\ AllSaved' /\ FramesKept' /\ StacksOK' /\ CallsOK'
  <2>1. gen' = [t \in Thread |-> gen'[t]]
    BY DEF SwitchInv, CallsOK
  <2>2. \A u \in Thread : u # currentThread => gen'[u] = gen[u]
    OBVIOUS
  <2> QED BY <2>1, <2>2, Still
<1>3. ProcessorOK'
  <2>1. /\ arch' = arch /\ at' \in {"root2", "root3"} /\ entry' = entry /\ currentThread' = currentThread
        /\ cpu = [r \in Registers(arch) |-> cpu[r]]
    BY DEF SwitchInv, ProcessorOK
  <2>2. cpu' = [r \in Registers(arch) |-> IF r \in CalleeSaved(arch) THEN entry[currentThread][r] ELSE Junk]
    BY <2>1
  <2>3. cpu' = [r \in Registers(arch) |-> cpu'[r]] /\ \A r \in CalleeSaved(arch) : cpu'[r] = entry[currentThread][r]
    BY <2>2, RegistersAre
  <2> HIDE DEF Return
  <2> QED BY <2>1, <2>3 DEF ProcessorOK
<1>4. UserOK'
  BY DEF SwitchInv, UserOK, PlacesOK
<1> QED BY <1>1, <1>2, <1>3, <1>4 DEF SwitchInv

(* The assertion of CheckOverflow.                                         *)
LEMMA OverflowKeeps == ASSUME SwitchInv, Overflowed PROVE SwitchInv'
<1> USE DEF Overflowed, userVars
<1>1. PlacesOK'
  BY DEF SwitchInv, PlacesOK, Started
<1>2. NotStarted' /\ AllSaved' /\ FramesKept' /\ StacksOK' /\ CallsOK'
  <2>1. gen' = [t \in Thread |-> gen'[t]]
    BY DEF SwitchInv, CallsOK
  <2>2. \A u \in Thread : u # currentThread => gen'[u] = gen[u]
    OBVIOUS
  <2> QED BY <2>1, <2>2, Still
<1>3. ProcessorOK'
  BY HostStays DEF SwitchInv, ProcessorOK, InCode
<1>4. UserOK'
  BY DEF SwitchInv, UserOK, PlacesOK
<1> QED BY <1>1, <1>2, <1>3, <1>4 DEF SwitchInv

(* AddrSpace::Execute.                                                     *)
LEMMA ExecuteKeeps == ASSUME SwitchInv, Execute PROVE SwitchInv'
<1> USE DEF Execute, hostVars
<1>1. PlacesOK'
  BY DEF SwitchInv, PlacesOK, Started
<1>2. NotStarted' /\ AllSaved' /\ FramesKept' /\ StacksOK' /\ CallsOK'
  <2>1. gen' = [t \in Thread |-> gen'[t]]
    BY DEF SwitchInv, CallsOK
  <2>2. \A u \in Thread : u # currentThread => gen'[u] = gen[u]
    OBVIOUS
  <2> QED BY <2>1, <2>2, Still
<1>3. ProcessorOK'
  BY HostStays DEF SwitchInv, ProcessorOK, InCode
<1>4. UserOK'
  BY DEF SwitchInv, UserOK, PlacesOK
<1> QED BY <1>1, <1>2, <1>3, <1>4 DEF SwitchInv

(* A step of C code, or of a user program.                                 *)
LEMMA ComputeKeeps == ASSUME SwitchInv, Compute PROVE SwitchInv'
<1> USE DEF Compute
<1>1. PlacesOK'
  BY DEF SwitchInv, PlacesOK, Started
<1>2. /\ arch' = arch /\ arch \in Archs /\ currentThread' = currentThread /\ currentThread \in Thread /\ at = "in" /\ at' = "in"
      /\ gen' = [t \in Thread |-> gen'[t]] /\ gen'[currentThread] = 1 - gen[currentThread]
      /\ \A u \in Thread : u # currentThread => gen'[u] = gen[u]
      /\ place' = place
  BY DEF SwitchInv, CallsOK, PlacesOK
<1>3. NotStarted' /\ AllSaved' /\ FramesKept' /\ StacksOK' /\ CallsOK'
  BY <1>2, Still
<1>4. ProcessorOK'
  <2>1. cpu' = Busy(currentThread, gen'[currentThread], Stack(currentThread, CodeSP(currentThread)))
    BY <1>2 DEF SwitchInv, ProcessorOK, InCode
  <2>2. /\ cpu' = [r \in Registers(arch) |-> cpu'[r]]
        /\ InCode(cpu, currentThread)'
    <3> HIDE DEF Compute
    <3> DEFINE c == cpu'
               t == currentThread
               g == gen'[t]
               p == Stack(t, CodeSP(t))
    <3>1. c = Busy(t, g, p)
      BY <2>1
    <3> HIDE DEF c, g, p
    <3>2. c = [r \in Registers(arch) |-> c[r]] /\ c[SP(arch)] = p /\ \A r \in Preserved : c[r] = Work(t, g, r)
      BY <1>2, <3>1, BusyIs
    <3> QED BY <1>2, <3>2, HostStays DEF InCode, c, g, p
  <2> HIDE DEF Compute
  <2> QED BY <1>2, <2>2, HostStays DEF ProcessorOK, InCode
<1>5. UserOK'
  BY <1>2 DEF SwitchInv, UserOK, PlacesOK
<1> QED BY <1>1, <1>3, <1>4, <1>5 DEF SwitchInv

(* C code that runs off its stack spoils the fence post and nothing that   *)
(* ThreadRoot needs.                                                       *)
LEMMA OverrunKeeps == ASSUME SwitchInv, Overrun PROVE SwitchInv'
<1> USE DEF Overrun, userVars
<1> DEFINE t == currentThread
           post == FencePost(arch)
<1>1. /\ arch' = arch /\ arch \in Archs /\ t \in Forked /\ t \in Thread /\ place[t] = "func" /\ IsMemory(mem)
      /\ post \in 0 .. StackSize - 1 /\ post \notin 8182 .. 8186 /\ mem' = Put(mem, Stack(t, post), Junk)
  <2>1. arch' = arch /\ arch \in Archs /\ t \in Forked /\ t \in Thread /\ place[t] = "func" /\ IsMemory(mem)
    BY DEF SwitchInv, PlacesOK, StacksOK, Forked, IsMemory
  <2>2. post \in 0 .. StackSize - 1 /\ post \notin 8182 .. 8186
    BY DEF FencePost, StackSize
  <2> QED BY <2>1, <2>2
<1> HIDE DEF post
<1>2. /\ IsMemory(mem') /\ \A u \in Thread : u # t => mem'[u] = mem[u]
      /\ DOMAIN mem'[t] = DOMAIN mem[t] \cup {post}
      /\ \A j : j # post => Word(mem', Stack(t, j)) = Word(mem, Stack(t, j))
  <2> DEFINE n == mem'
  <2>1. n = Put(mem, Stack(t, post), Junk)
    BY <1>1
  <2> HIDE DEF n, Overrun
  <2>2. /\ IsMemory(n) /\ \A u \in Thread : u # t => n[u] = mem[u]
        /\ DOMAIN n[t] = DOMAIN mem[t] \cup {post}
        /\ \A j : Word(n, Stack(t, j)) = IF j = post THEN Junk ELSE Word(mem, Stack(t, j))
    BY <1>1, <2>1, PutIs
  <2> QED BY <2>2 DEF n
<1>3. /\ UNCHANGED <<cpu, block, at, place, gen, entry, calls, currentThread, toBeDestroyed>> /\ UNCHANGED userVars
      /\ at = "in"
  OBVIOUS
<1> HIDE DEF Overrun
<1>4. PlacesOK'
  BY <1>1, <1>3 DEF SwitchInv, PlacesOK, Started
<1>5. NotStarted'
  BY <1>1, <1>2, <1>3, HostStays DEF SwitchInv, NotStarted
<1>6. AllSaved'
  <2> SUFFICES ASSUME NEW u \in Thread, Waiting(u)' PROVE SavedIn(block, mem, u)'
    BY DEF AllSaved
  <2>1. Waiting(u) /\ u # t
    BY <1>3 DEF Waiting
  <2> QED BY <1>1, <1>2, <1>3, <2>1, WaitsStill
<1>7. ProcessorOK'
  BY <1>1, <1>3, HostStays DEF SwitchInv, ProcessorOK, InCode
<1>8. FramesKept'
  <2> SUFFICES ASSUME NEW u \in Forked, place'[u] \in {"startup", "func"} PROVE FrameKept(entry[u], mem, u, place[u])'
    BY DEF FramesKept, Forked
  <2>1. CASE u # t
    BY <1>1, <1>2, <1>3, <2>1, KeptStill DEF Forked
  <2>2. CASE u = t
    <3>1. FrameKept(entry[t], mem, t, place[t])
      BY <1>1 DEF SwitchInv, FramesKept
    <3>2. \A j \in 8182 .. 8186 : Word(mem', Stack(t, j)) = Word(mem, Stack(t, j))
      BY <1>1, <1>2
    <3> DEFINE e == entry[t]
    <3>3. \A r \in CalleeSaved(arch) : e[r] = e[r]
      OBVIOUS
    <3>4. FrameKept(e, mem', t, place[t])
      BY <1>1, <3>1, <3>2, <3>3, FrameStays
    <3> QED BY <1>1, <1>3, <2>2, <3>4, HostStays DEF FrameKept
  <2> QED BY <2>1, <2>2
<1>9. StacksOK'
  <2>1. \A u \in Forked : DOMAIN mem'[u] \subseteq 0 .. StackSize - 1
    <3> SUFFICES ASSUME NEW u \in Forked PROVE DOMAIN mem'[u] \subseteq 0 .. StackSize - 1
      OBVIOUS
    <3>1. DOMAIN mem[u] \subseteq 0 .. StackSize - 1 /\ u \in Thread
      BY DEF SwitchInv, StacksOK, Forked
    <3>2. CASE u = t
      BY <1>1, <1>2, <3>1, <3>2
    <3>3. CASE u # t
      BY <1>2, <3>1, <3>3
    <3> QED BY <3>2, <3>3
  <2>2. ASSUME NEW u \in Forked, place'[u] \in {"forked", "startup"} PROVE Word(mem', Stack(u, post)) = Fence
    <3>1. u # t /\ mem'[u] = mem[u] /\ Word(mem, Stack(u, post)) = Fence
      BY <1>1, <1>2, <1>3, <2>2 DEF SwitchInv, StacksOK, Forked, post
    <3>2. \A j : Word(mem', Stack(u, j)) = Word(mem, Stack(u, j))
      BY <3>1, SameWords
    <3> QED BY <3>1, <3>2
  <2>3. block' = [u \in Thread |-> [v \in DOMAIN EmptyBlock' |-> block'[u][v]]]
    BY <1>1, <1>3 DEF SwitchInv, StacksOK, EmptyBlock
  <2> QED BY <1>1, <1>2, <2>1, <2>2, <2>3 DEF StacksOK, Forked, IsMemory, post
<1>10. CallsOK'
  <2>1. \A u : Called(u)' = Called(u)
    BY <1>3, Zenon DEF Called
  <2> QED BY <1>3, <2>1 DEF SwitchInv, CallsOK, RootCallsOf, Forked
<1>11. UserOK'
  BY <1>3 DEF SwitchInv, UserOK, PlacesOK
<1> QED BY <1>4, <1>5, <1>6, <1>7, <1>8, <1>9, <1>10, <1>11 DEF SwitchInv

(* ThreadRoot, before its first call, has put what StackAllocate prepared  *)
(* where it looks for it, on every host.                                   *)
Rooted(t, c, m) ==
  /\ Taken(RootCalls(arch)[1], c, m) = Code("ThreadBegin") /\ FrameKept(c, m, t, "startup")
  /\ IsMemory(m) /\ \A u \in Thread : u # t => m[u] = mem[u]
  /\ DOMAIN m[t] \subseteq 0 .. StackSize - 1 /\ Word(m, Stack(t, FencePost(arch))) = Fence
Rooting(t) ==
  /\ t \in Forked /\ arch \in Archs /\ cpu = [r \in Registers(arch) |-> cpu[r]] /\ AtRoot(cpu, block, t)
  /\ IsMemory(mem) /\ DOMAIN mem[t] \subseteq 0 .. StackSize - 1 /\ Word(mem, Stack(t, FencePost(arch))) = Fence

(* A host on which ThreadRoot takes all from registers and stores nothing. *)
LEMMA RootedInPlace ==
  ASSUME NEW t, Rooting(t), arch # "PowerPC", NEW c, c[SP(arch)] = Stack(t, RootSP(arch)),
         \A i \in 1 .. 3 : RootCalls(arch)[i][1] # "word", RootArg(arch)[1] # "word",
         c[RootCalls(arch)[1]] = Code("ThreadBegin"), c[RootCalls(arch)[2]] = Func(t),
         c[RootArg(arch)] = Arg(t), c[RootCalls(arch)[3]] = Code("ThreadFinish")
  PROVE  Rooted(t, c, mem)
BY DEF Rooted, Rooting, FrameKept, Taken

(* What the first switch to a thread has left in a register.               *)
LEMMA RootWord ==
  ASSUME NEW t, Rooting(t), NEW r \in DOMAIN Slots(arch), r # SP(arch), Width(arch, r) = Pointer(arch)
  PROVE  cpu[r] = InitialWord(t, Slots(arch)[r]) /\ r \in Registers(arch)
BY RegistersAre DEF Rooting, AtRoot

(* ThreadRoot on each host.                                                *)
LEMMA MipsRooted ==
  ASSUME NEW t, Rooting(t), arch = "DECMIPS" PROVE Rooted(t, RootFrame(1).cpu, RootFrame(1).mem)
<1> DEFINE fp == <<"fp", 0>>
           c == [cpu EXCEPT ![fp] = Zero]
           s == [i \in 0 .. 3 |-> <<"s", i>>]
<1>1. RootFrame(1).cpu = c /\ RootFrame(1).mem = mem
  BY DEF RootFrame, MipsRoot, Here, R
<1>2. /\ SP(arch) = <<"sp", 0>> /\ StateSlots(arch) = MipsState /\ RootSP(arch) = StackTop(arch)
      /\ EntrySP = StackTop(arch) /\ Slots(arch) = MipsSlots /\ \A r : Width(arch, r) = Pointer(arch)
  BY DEF SP, R, StateSlots, RootSP, EntrySP, Slots, Width, Power
<1>3. cpu[SP(arch)] = Stack(t, RootSP(arch))
  BY <1>2 DEF Rooting, AtRoot
<1>4. \A i \in 0 .. 3 : cpu[<<"s", i>>] = InitialWord(t, 4 + 4 * i) /\ <<"s", i>> \in Registers(arch)
  BY <1>2, MipsIs, RootWord
<1>5. /\ cpu[<<"s", 0>>] = Func(t) /\ cpu[<<"s", 1>>] = Arg(t) /\ cpu[<<"s", 2>>] = Code("ThreadFinish")
      /\ cpu[<<"s", 3>>] = Code("ThreadBegin")
  BY <1>2, <1>4, InitialWords DEF MipsState, Rooting
<1>6. \A r \in Registers(arch) : r # fp => c[r] = cpu[r]
  BY DEF Rooting
<1>7. c[SP(arch)] = cpu[SP(arch)] /\ \A i \in 0 .. 3 : c[<<"s", i>>] = cpu[<<"s", i>>]
  <2>1. SP(arch) \in Registers(arch)
    BY PreservedMoved, RegistersAre DEF Rooting
  <2> QED BY <1>2, <1>4, <1>6, <2>1
<1>8. RootCalls(arch) = <<<<"s", 3>>, <<"s", 0>>, <<"s", 2>>>> /\ RootArg(arch) = <<"s", 1>>
  BY DEF RootCalls, RootArg
<1> HIDE DEF c
<1>9. Rooted(t, c, mem)
  BY <1>3, <1>5, <1>7, <1>8, RootedInPlace
<1> QED BY <1>1, <1>9

LEMMA AlphaRooted ==
  ASSUME NEW t, Rooting(t), arch = "ALPHA" PROVE Rooted(t, RootFrame(1).cpu, RootFrame(1).mem)
<1> DEFINE s6 == <<"s", 6>>
           c == [cpu EXCEPT ![s6] = Zero]
<1>1. RootFrame(1).cpu = c /\ RootFrame(1).mem = mem
  BY DEF RootFrame, AlphaRoot, Here
<1>2. /\ SP(arch) = <<"sp", 0>> /\ StateSlots(arch) = AlphaState /\ RootSP(arch) = StackTop(arch)
      /\ EntrySP = StackTop(arch) /\ Slots(arch) = AlphaSlots /\ \A r : Width(arch, r) = Pointer(arch)
  BY DEF SP, R, StateSlots, RootSP, EntrySP, Slots, Width, Power
<1>3. cpu[SP(arch)] = Stack(t, RootSP(arch))
  BY <1>2 DEF Rooting, AtRoot
<1>4. \A i \in 0 .. 3 : cpu[<<"s", i>>] = InitialWord(t, 8 + 8 * i) /\ <<"s", i>> \in Registers(arch)
  BY <1>2, AlphaIs, RootWord
<1>5. /\ cpu[<<"s", 0>>] = Func(t) /\ cpu[<<"s", 1>>] = Arg(t) /\ cpu[<<"s", 2>>] = Code("ThreadFinish")
      /\ cpu[<<"s", 3>>] = Code("ThreadBegin")
  BY <1>2, <1>4, InitialWords DEF AlphaState, Rooting
<1>6. \A r \in Registers(arch) : r # s6 => c[r] = cpu[r]
  BY DEF Rooting
<1>7. c[SP(arch)] = cpu[SP(arch)] /\ \A i \in 0 .. 3 : c[<<"s", i>>] = cpu[<<"s", i>>]
  <2>1. SP(arch) \in Registers(arch)
    BY PreservedMoved, RegistersAre DEF Rooting
  <2> QED BY <1>2, <1>4, <1>6, <2>1
<1>8. RootCalls(arch) = <<<<"s", 3>>, <<"s", 0>>, <<"s", 2>>>> /\ RootArg(arch) = <<"s", 1>>
  BY DEF RootCalls, RootArg
<1> HIDE DEF c
<1>9. Rooted(t, c, mem)
  BY <1>3, <1>5, <1>7, <1>8, RootedInPlace
<1> QED BY <1>1, <1>9

(* The return pointer of PA-RISC goes into the first words of the stack.   *)
LEMMA PariscStores ==
  ASSUME arch = "PARISC", NEW t \in Thread, IsMemory(mem), DOMAIN mem[t] \subseteq 0 .. StackSize - 1,
         cpu[SP(arch)] = Stack(t, RootSP(arch)),
         NEW m, m = Put(mem, Above(cpu[SP(arch)], 6), Code("ThreadRoot"))
  PROVE  /\ IsMemory(m) /\ \A u \in Thread : u # t => m[u] = mem[u]
         /\ DOMAIN m[t] \subseteq 0 .. StackSize - 1
         /\ Word(m, Stack(t, FencePost(arch))) = Word(mem, Stack(t, FencePost(arch)))
<1>1. Down(arch) = -1 /\ RootSP(arch) = 16 /\ FencePost(arch) = 8191 /\ StackSize = 8192
  BY DEF Down, RootSP, StackTop, FencePost, StackSize, Power
<1>2. Above(cpu[SP(arch)], 6) = Stack(t, 16 + Down(arch) * 6)
  BY <1>1, AboveIs
<1>3. Above(cpu[SP(arch)], 6) = Stack(t, 10)
  BY <1>1, <1>2
<1>4. /\ IsMemory(m) /\ \A u \in Thread : u # t => m[u] = mem[u]
      /\ DOMAIN m[t] = DOMAIN mem[t] \cup {10}
      /\ \A j : Word(m, Stack(t, j)) = IF j = 10 THEN Code("ThreadRoot") ELSE Word(mem, Stack(t, j))
  BY <1>3, PutIs
<1> QED BY <1>1, <1>4

LEMMA PariscRooted ==
  ASSUME NEW t, Rooting(t), arch = "PARISC" PROVE Rooted(t, RootFrame(1).cpu, RootFrame(1).mem)
<1> DEFINE m == RootFrame(1).mem
<1>1. RootFrame(1).cpu = cpu /\ m = Put(mem, Above(cpu[SP(arch)], 6), Code("ThreadRoot"))
  BY DEF RootFrame, PariscRoot, Here
<1> HIDE DEF m
<1>2. /\ SP(arch) = <<"sp", 0>> /\ StateSlots(arch) = PariscState /\ RootSP(arch) = StackTop(arch)
      /\ EntrySP = StackTop(arch) /\ Slots(arch) = PariscSlots /\ \A r : Width(arch, r) = Pointer(arch)
  BY DEF SP, R, StateSlots, RootSP, EntrySP, Slots, Width, Power
<1>3. cpu[SP(arch)] = Stack(t, RootSP(arch))
  BY <1>2 DEF Rooting, AtRoot
<1>4. \A i \in 3 .. 6 : cpu[<<"r", i>>] = InitialWord(t, 4 + 4 * (i - 3))
  BY <1>2, PariscIs, RootWord
<1>5. /\ cpu[<<"r", 3>>] = Func(t) /\ cpu[<<"r", 4>>] = Arg(t) /\ cpu[<<"r", 5>>] = Code("ThreadFinish")
      /\ cpu[<<"r", 6>>] = Code("ThreadBegin")
  BY <1>2, <1>4, InitialWords DEF PariscState, Rooting
<1>6. RootCalls(arch) = <<<<"r", 6>>, <<"r", 3>>, <<"r", 5>>>> /\ RootArg(arch) = <<"r", 4>>
  BY DEF RootCalls, RootArg
<1>7. FrameKept(cpu, m, t, "startup") /\ Taken(RootCalls(arch)[1], cpu, m) = Code("ThreadBegin")
  BY <1>3, <1>5, <1>6 DEF FrameKept, Taken
<1>8. /\ IsMemory(m) /\ \A u \in Thread : u # t => m[u] = mem[u]
      /\ DOMAIN m[t] \subseteq 0 .. StackSize - 1 /\ Word(m, Stack(t, FencePost(arch))) = Fence
  BY <1>1, <1>3, PariscStores DEF Rooting, Forked
<1> QED BY <1>1, <1>7, <1>8 DEF Rooted, m

LEMMA SparcRooted ==
  ASSUME NEW t, Rooting(t), arch = "SPARC" PROVE Rooted(t, RootFrame(1).cpu, RootFrame(1).mem)
<1> DEFINE i6 == <<"i", 6>>
           l0 == <<"l", 0>>
           l1 == <<"l", 1>>
           l2 == <<"l", 2>>
           o3 == <<"o", 3>>
           a == cpu[<<"o", 0>>]
           b == cpu[<<"o", 1>>]
           d == cpu[<<"o", 2>>]
           sp == SP(arch)
           c == [cpu EXCEPT ![i6] = Zero, ![l0] = a, ![l1] = b, ![l2] = d]
<1>1. RootFrame(1).cpu = c /\ RootFrame(1).mem = mem
  <2>1. RootFrame(1) = SparcRoot
    BY DEF RootFrame
  <2> QED BY <2>1 DEF SparcRoot, Here
<1>2. /\ sp = <<"sp", 0>> /\ StateSlots(arch) = SparcState /\ RootSP(arch) = StackTop(arch)
      /\ EntrySP = StackTop(arch) /\ Slots(arch) = SparcSlots /\ \A r : Width(arch, r) = Pointer(arch)
  BY DEF SP, R, StateSlots, RootSP, EntrySP, Slots, Width, Power
<1>3. cpu[sp] = Stack(t, RootSP(arch))
  BY <1>2 DEF Rooting, AtRoot
<1>4. \A i \in 0 .. 3 : cpu[<<"o", i>>] = InitialWord(t, 4 + 4 * i) /\ <<"o", i>> \in Registers(arch)
  BY <1>2, SparcIs, RootWord
<1>5. a = Func(t) /\ b = Arg(t) /\ d = Code("ThreadFinish") /\ cpu[o3] = Code("ThreadBegin")
  BY <1>2, <1>4, InitialWords DEF SparcState, Rooting
<1>6. /\ {i6, l0, l1, l2, o3, sp} \subseteq Registers(arch) /\ DOMAIN cpu = Registers(arch)
      /\ i6 # l0 /\ i6 # l1 /\ i6 # l2 /\ l0 # l1 /\ l0 # l2 /\ l1 # l2
      /\ sp \notin {i6, l0, l1, l2} /\ o3 \notin {i6, l0, l1, l2}
  <2>1. {i6, l0, l1, l2, sp} \subseteq CalleeSaved(arch) /\ o3 \in Registers(arch)
    BY <1>4, PreservedMoved DEF Rooting
  <2>2. DOMAIN cpu = Registers(arch)
    BY DEF Rooting
  <2> QED BY <1>2, <2>1, <2>2, RegistersAre
<1>7. RootCalls(arch) = <<o3, l0, l2>> /\ RootArg(arch) = l1 /\ {o3[1], l0[1], l1[1], l2[1]} = {"o", "l"}
  BY DEF RootCalls, RootArg
<1> HIDE DEF i6, l0, l1, l2, o3, a, b, d, sp
<1>8. c[l0] = a /\ c[l1] = b /\ c[l2] = d /\ c[o3] = cpu[o3] /\ c[sp] = cpu[sp]
  BY <1>6
<1> HIDE DEF c
<1>9. Rooted(t, c, mem)
  BY <1>3, <1>5, <1>7, <1>8, RootedInPlace DEF sp
<1> QED BY <1>1, <1>9

LEMMA X86Rooted ==
  ASSUME NEW t, Rooting(t), arch = "x86" PROVE Rooted(t, RootFrame(1).cpu, RootFrame(1).mem)
<1> DEFINE sp == cpu[SP(arch)]
           x == cpu[R("ebp")]
           y == cpu[R("edx")]
           ebp == R("ebp")
           esp == SP(arch)
           up == Above(sp, -1)
           top == Above(sp, -2)
           c == [cpu EXCEPT ![ebp] = up, ![esp] = top]
           n == Put(mem, up, x)
           m == Put(n, top, y)
<1>1. RootFrame(1).cpu = c /\ RootFrame(1).mem = m
  BY DEF RootFrame, X86Root
<1>2. /\ esp = <<"esp", 0>> /\ StateSlots(arch) = X86State /\ StackTop(arch) = 8187 /\ RootSP(arch) = 8186
      /\ EntrySP = 8188 /\ Slots(arch) = X86Slots /\ Down(arch) = 1 /\ FencePost(arch) = 0
      /\ \A r : Width(arch, r) = Pointer(arch)
  BY X86Host DEF SP, R, StateSlots, EntrySP, Slots, Width, Power
<1>3. up = Stack(t, 8187) /\ top = Stack(t, 8186)
  <2>1. sp = Stack(t, 8188)
    BY <1>2 DEF Rooting, AtRoot
  <2>2. up = Stack(t, 8188 + Down(arch) * (-1)) /\ top = Stack(t, 8188 + Down(arch) * (-2))
    BY <2>1, AboveIs
  <2> QED BY <1>2, <2>2
<1>4. \A r \in {"ecx", "edx", "esi", "edi", "ebp"} \X {0} :
        cpu[r] = InitialWord(t, X86Slots[r]) /\ r \in Registers(arch)
  BY <1>2, X86Is, RootWord
<1>5. /\ cpu[<<"esi", 0>>] = Func(t) /\ y = Arg(t) /\ cpu[<<"edi", 0>>] = Code("ThreadFinish")
      /\ cpu[<<"ecx", 0>>] = Code("ThreadBegin")
  BY <1>2, <1>4, X86Is, InitialWords DEF X86State, Rooting, R
<1>6. /\ {ebp, esp} \subseteq Registers(arch) /\ ebp # esp /\ DOMAIN cpu = Registers(arch)
      /\ {"ecx", "esi", "edi"} \X {0} \subseteq Registers(arch) \ {ebp, esp}
  <2>1. esp \in Registers(arch) /\ DOMAIN cpu = Registers(arch)
    BY PreservedMoved, RegistersAre DEF Rooting
  <2> QED BY <1>2, <1>4, <2>1 DEF R
<1> HIDE DEF x, y, sp, ebp, esp, up, top
<1>7. c[esp] = top /\ \A r \in {"ecx", "esi", "edi"} \X {0} : c[r] = cpu[r]
  BY <1>6
<1>8. t \in Thread /\ t # Main
  BY DEF Rooting, Forked
<1> HIDE DEF c
<1>9. /\ IsMemory(n) /\ \A u \in Thread : u # t => n[u] = mem[u]
      /\ DOMAIN n[t] = DOMAIN mem[t] \cup {8187}
      /\ \A j : Word(n, Stack(t, j)) = IF j = 8187 THEN x ELSE Word(mem, Stack(t, j))
  BY <1>3, <1>8, PutIs DEF Rooting
<1> HIDE DEF n
<1>10. /\ IsMemory(m) /\ \A u \in Thread : u # t => m[u] = n[u]
       /\ DOMAIN m[t] = DOMAIN n[t] \cup {8186}
       /\ \A j : Word(m, Stack(t, j)) = IF j = 8186 THEN y ELSE Word(n, Stack(t, j))
  BY <1>3, <1>8, <1>9, PutIs
<1> HIDE DEF m
<1>11. /\ RootCalls(arch) = <<<<"ecx", 0>>, <<"esi", 0>>, <<"edi", 0>>>> /\ RootArg(arch) = <<"word", 0>>
       /\ c[SP(arch)] = Stack(t, 8186)
  BY <1>3, <1>7 DEF RootCalls, RootArg, OnStack, R, esp
<1>12. FrameKept(c, m, t, "startup")
  <2>1. Taken(RootArg(arch), c, m) = Arg(t)
    <3>1. Above(c[SP(arch)], 0) = Stack(t, 8186 + Down(arch) * 0)
      BY <1>11, AboveIs
    <3>2. Above(c[SP(arch)], 0) = Stack(t, 8186)
      BY <1>2, <3>1
    <3>3. Word(m, Stack(t, 8186)) = y
      BY <1>10
    <3> QED BY <1>5, <1>11, <3>2, <3>3 DEF Taken
  <2>2. Taken(RootCalls(arch)[2], c, m) = Func(t) /\ Taken(RootCalls(arch)[3], c, m) = Code("ThreadFinish")
    BY <1>5, <1>7, <1>11 DEF Taken
  <2> QED BY <1>2, <1>11, <2>1, <2>2 DEF FrameKept
<1>13. Taken(RootCalls(arch)[1], c, m) = Code("ThreadBegin")
  BY <1>5, <1>7, <1>11 DEF Taken
<1>14. DOMAIN m[t] \subseteq 0 .. StackSize - 1 /\ Word(m, Stack(t, FencePost(arch))) = Fence
  BY <1>2, <1>9, <1>10 DEF Rooting, StackSize
<1> QED BY <1>1, <1>9, <1>10, <1>12, <1>13, <1>14 DEF Rooted

LEMMA AppleRooted ==
  ASSUME NEW t, Rooting(t), arch = "ApplePowerPC" PROVE Rooted(t, RootFrame(1).cpu, RootFrame(1).mem)
<1> DEFINE Offset(o) == Fetch(block[cpu[<<"r", 4>>][2]], o, 4)
           r20 == <<"r", 20>>
           r21 == <<"r", 21>>
           r22 == <<"r", 22>>
           r23 == <<"r", 23>>
           sp == SP(arch)
           w == Offset(16)
           x == Offset(8)
           y == Offset(4)
           z == Offset(12)
           c == [cpu EXCEPT ![r20] = w, ![r21] = x, ![r22] = y, ![r23] = z]
<1>1. RootFrame(1).cpu = c /\ RootFrame(1).mem = mem
  <2>1. RootFrame(1) = AppleRoot
    BY DEF RootFrame
  <2> QED BY <2>1 DEF AppleRoot, Here
<1>2. /\ sp = <<"sp", 0>> /\ StateSlots(arch) = PowerState /\ RootSP(arch) = StackTop(arch)
      /\ EntrySP = StackTop(arch) /\ Pointer(arch) = 4 /\ BlockSize(arch) = 304
  BY DEF SP, R, StateSlots, RootSP, EntrySP, Pointer, BlockSize, MachineStateSize
<1>3. cpu[sp] = Stack(t, RootSP(arch))
  BY <1>2 DEF Rooting, AtRoot
<1>4. \A o \in {4, 8, 12, 16} : Offset(o) = InitialWord(t, o)
  <2> SUFFICES ASSUME NEW o \in {4, 8, 12, 16} PROVE Fetch(block[cpu[<<"r", 4>>][2]], o, 4) = InitialWord(t, o)
    OBVIOUS
  <2>1. block[t] = InitialState(t) /\ cpu[<<"r", 4>>] = <<"block", t, "", 0>>
    <3>1. AtRoot(cpu, block, t)
      BY DEF Rooting
    <3> QED BY <3>1, Zenon DEF AtRoot
  <2>2. o \in Nat /\ o % 4 = 0 /\ o % Pointer(arch) = 0 /\ o + Pointer(arch) <= BlockSize(arch)
    BY <1>2
  <2>3. Fetch(InitialState(t), o, 4) = InitialWord(t, o)
    BY <1>2, <2>2, InitialIs DEF Rooting
  <2>4. cpu[<<"r", 4>>][2] = t
    <3> DEFINE q == cpu[<<"r", 4>>]
    <3>1. q = <<"block", t, "", 0>>
      BY <2>1
    <3> HIDE DEF q
    <3>2. q[2] = t
      BY <3>1
    <3> QED BY <3>2 DEF q
  <2> QED BY <2>1, <2>3, <2>4
<1>5. y = Func(t) /\ x = Arg(t) /\ z = Code("ThreadFinish") /\ w = Code("ThreadBegin")
  <2> HIDE DEF Offset
  <2>1. PowerState.func = 4 /\ PowerState.arg = 8 /\ PowerState.done = 12 /\ PowerState.startup = 16
    BY DEF PowerState
  <2> QED BY <1>2, <1>4, <2>1, InitialWords DEF Rooting
<1>6. /\ {r20, r21, r22, r23, sp} \subseteq Registers(arch) /\ DOMAIN cpu = Registers(arch)
      /\ r20 # r21 /\ r20 # r22 /\ r20 # r23 /\ r21 # r22 /\ r21 # r23 /\ r22 # r23
      /\ sp \notin {r20, r21, r22, r23}
  <2>1. {"r"} \X (13 .. 31) \subseteq CalleeSaved(arch) /\ sp \in CalleeSaved(arch)
    BY DEF CalleeSaved
  <2>2. {r20, r21, r22, r23} \subseteq {"r"} \X (13 .. 31)
    OBVIOUS
  <2>3. DOMAIN cpu = Registers(arch)
    BY DEF Rooting
  <2> QED BY <1>2, <2>1, <2>2, <2>3, RegistersAre
<1>7. RootCalls(arch) = <<r20, r22, r23>> /\ RootArg(arch) = r21 /\ r20[1] = "r" /\ r21[1] = "r" /\ r22[1] = "r" /\ r23[1] = "r"
  BY DEF RootCalls, RootArg
<1> HIDE DEF r20, r21, r22, r23, w, x, y, z, sp
<1>8. c[r20] = w /\ c[r21] = x /\ c[r22] = y /\ c[r23] = z /\ c[sp] = cpu[sp]
  BY <1>6
<1> HIDE DEF c
<1>9. Rooted(t, c, mem)
  BY <1>3, <1>5, <1>7, <1>8, RootedInPlace DEF sp
<1> QED BY <1>1, <1>9

(* The words that the calls to come need.                                 *)
LEMMA StoredIs ==
  ASSUME NEW k \in {1, 2}, NEW c
  PROVE  /\ k = 1 => /\ PowerStored(k, c)[6] = c[<<"r", 4>>] /\ PowerStored(k, c)[7] = c[<<"r", 5>>]
                     /\ PowerStored(k, c)[8] = c[<<"r", 6>>]
         /\ k = 2 => PowerStored(k, c)[6] = c[<<"r", 6>>]
<1>1. szdsa = 69
  BY DEF szdsa
<1>2. k = 1 => /\ PowerStored(k, c)[6] = c[<<"r", 4>>] /\ PowerStored(k, c)[7] = c[<<"r", 5>>]
               /\ PowerStored(k, c)[8] = c[<<"r", 6>>]
  BY <1>1 DEF PowerStored
<1>3. k = 2 => PowerStored(k, c)[6] = c[<<"r", 6>>]
  BY <1>1 DEF PowerStored
<1> QED BY <1>2, <1>3

(* What the frame of the PowerPC takes: a call made with the registers c   *)
(* stores them there and nothing else.                                     *)
PowerOffsets(k) == {-szdsa, 1, 2, 6} \cup (-55 .. -1) \cup (IF k = 1 THEN {7, 8} ELSE {})
Storing(k, t, c) ==
  /\ arch = "PowerPC" /\ t \in Thread /\ IsMemory(mem) /\ DOMAIN mem[t] \subseteq 0 .. StackSize - 1
  /\ k \in {1, 2} /\ PowerBase(k) = Stack(t, 8176) /\ c = IF k = 1 THEN cpu ELSE PowerRestored(k)
  /\ c = [r \in Registers(arch) |-> c[r]]
LEMMA PowerStores ==
  ASSUME NEW k, NEW t, NEW c, Storing(k, t, c),
         NEW d, d = RootFrame(k).cpu, NEW m, m = RootFrame(k).mem
  PROVE  /\ d[SP(arch)] = Stack(t, RootSP(arch)) /\ \A r \in Registers(arch) \ {SP(arch)} : d[r] = c[r]
         /\ IsMemory(m) /\ \A u \in Thread : u # t => m[u] = mem[u]
         /\ DOMAIN m[t] \subseteq 0 .. StackSize - 1
         /\ Word(m, Stack(t, FencePost(arch))) = Word(mem, Stack(t, FencePost(arch)))
         /\ k = 1 => /\ Word(m, Above6(t)) = c[<<"r", 4>>] /\ Word(m, Above7(t)) = c[<<"r", 5>>]
                     /\ Word(m, Above8(t)) = c[<<"r", 6>>]
         /\ k = 2 => Word(m, Above6(t)) = c[<<"r", 6>>]
<1> DEFINE stored == PowerStored(k, c)
           base == PowerBase(k)
           there == {base[4] + j : j \in DOMAIN stored}
           words == [i \in there |-> stored[i - base[4]]]
<1>0. k \in {1, 2} /\ t \in Thread /\ arch = "PowerPC" /\ PowerBase(k) = Stack(t, 8176)
  BY DEF Storing
<1>1. /\ szdsa = 69 /\ RootSP(arch) = 8107 /\ FencePost(arch) = 0 /\ StackSize = 8192 /\ Down(arch) = 1
  BY <1>0 DEF szdsa, RootSP, StackTop, FencePost, StackSize, Down, Power
<1>2. d = [c EXCEPT ![SP(arch)] = Above(PowerBase(k), -szdsa)] /\ m = [mem EXCEPT ![t] = words ++ @]
  <2>1. RootFrame(k) = PowerRoot(k) /\ k # 3
    BY <1>0 DEF RootFrame
  <2>2. base[2] = t
    BY <1>0, StackIs
  <2>3. PowerRoot(k) = [cpu |-> [c EXCEPT ![SP(arch)] = Above(base, -szdsa)], mem |-> [mem EXCEPT ![base[2]] = words ++ @]]
    BY <2>1 DEF PowerRoot, Storing
  <2> HIDE DEF words, base
  <2> QED BY <2>1, <2>2, <2>3 DEF base
<1>3. Above(PowerBase(k), -szdsa) = Stack(t, 8107)
  <2>1. Above(PowerBase(k), -szdsa) = Stack(t, 8176 + Down(arch) * (-szdsa))
    BY <1>0, AboveIs
  <2> QED BY <1>1, <2>1
<1>4. d[SP(arch)] = Stack(t, RootSP(arch)) /\ \A r \in Registers(arch) \ {SP(arch)} : d[r] = c[r]
  <2>1. SP(arch) \in Registers(arch)
    BY <1>0, PreservedMoved, RegistersAre DEF Archs
  <2> QED BY <1>1, <1>2, <1>3, <2>1 DEF Storing
<1>5. /\ DOMAIN stored = PowerOffsets(k) /\ (k = 2 => stored[6] = c[<<"r", 6>>])
      /\ (k = 1 => stored[6] = c[<<"r", 4>>] /\ stored[7] = c[<<"r", 5>>] /\ stored[8] = c[<<"r", 6>>])
  <2>1. DOMAIN stored = PowerOffsets(k)
    BY DEF PowerStored, PowerOffsets
  <2>2. k = 2 => PowerStored(k, c)[6] = c[<<"r", 6>>]
    BY <1>0, StoredIs
  <2>3. k = 1 => PowerStored(k, c)[6] = c[<<"r", 4>>]
    BY <1>0, StoredIs
  <2>4. k = 1 => PowerStored(k, c)[7] = c[<<"r", 5>>]
    BY <1>0, StoredIs
  <2>5. k = 1 => PowerStored(k, c)[8] = c[<<"r", 6>>]
    BY <1>0, StoredIs
  <2> QED BY <2>1, <2>2, <2>3, <2>4, <2>5
<1>6. there \subseteq 1 .. 8184 /\ 0 \notin there /\ 8182 \in there /\ (k = 1 => 8183 \in there /\ 8184 \in there)
  <2>1. PowerOffsets(k) \subseteq -69 .. 8 /\ 6 \in PowerOffsets(k) /\ (k = 1 => 7 \in PowerOffsets(k) /\ 8 \in PowerOffsets(k))
    BY <1>1 DEF PowerOffsets
  <2>2. base[4] = 8176
    BY <1>0, StackIs
  <2> HIDE DEF stored, base
  <2> QED BY <1>5, <2>1, <2>2
<1>7. /\ words[8182] = stored[6] /\ (k = 1 => words[8183] = stored[7] /\ words[8184] = stored[8])
  <2>1. base[4] = 8176
    BY <1>0, StackIs
  <2> HIDE DEF stored, there, base
  <2>2. \A i \in there : words[i] = stored[i - 8176]
    BY <2>1
  <2>3. 8182 - 8176 = 6 /\ 8183 - 8176 = 7 /\ 8184 - 8176 = 8
    OBVIOUS
  <2> QED BY <1>6, <2>2, <2>3
<1>8. DOMAIN words = there
  OBVIOUS
<1> HIDE DEF words, there, stored
<1>9. IsMemory(m) /\ (\A u \in Thread : u # t => m[u] = mem[u]) /\ m[t] = words ++ mem[t]
  BY <1>2 DEF IsMemory, Storing
<1>10. /\ DOMAIN m[t] = there \cup DOMAIN mem[t]
       /\ \A i \in DOMAIN m[t] : m[t][i] = IF i \in there THEN words[i] ELSE mem[t][i]
  BY <1>8, <1>9 DEF ++
<1>11. Word(m, Stack(t, 0)) = Word(mem, Stack(t, 0))
  BY <1>6, <1>10, WordIs
<1>12. \A i \in there : Word(m, Stack(t, i)) = words[i]
  BY <1>10, WordIs
<1>13. DOMAIN m[t] \subseteq 0 .. StackSize - 1
  BY <1>1, <1>6, <1>10 DEF Storing
<1>14. /\ Word(m, Above6(t)) = stored[6] /\ (k = 1 => Word(m, Above7(t)) = stored[7] /\ Word(m, Above8(t)) = stored[8])
  BY <1>6, <1>7, <1>12 DEF Above6, Above7, Above8
<1> QED BY <1>1, <1>4, <1>5, <1>9, <1>11, <1>13, <1>14

LEMMA PowerRooted ==
  ASSUME NEW t, Rooting(t), arch = "PowerPC" PROVE Rooted(t, RootFrame(1).cpu, RootFrame(1).mem)
<1> DEFINE c == RootFrame(1).cpu
           m == RootFrame(1).mem
<1>1. PowerBase(1) = Stack(t, 8176) /\ t \in Thread
  BY DEF PowerBase, Rooting, AtRoot, EntrySP, StackTop, StackSize, Power, Forked
<1>2. /\ cpu[<<"r", 3>>] = Code("ThreadBegin") /\ cpu[<<"r", 4>>] = Arg(t)
      /\ cpu[<<"r", 5>>] = Func(t) /\ cpu[<<"r", 6>>] = Code("ThreadFinish")
  <2>1. PowerState.func = 4 /\ PowerState.arg = 8 /\ PowerState.done = 12 /\ PowerState.startup = 16
    BY DEF PowerState
  <2>2. /\ cpu[<<"r", 3>>] = InitialWord(t, 16) /\ cpu[<<"r", 4>>] = InitialWord(t, 8)
        /\ cpu[<<"r", 5>>] = InitialWord(t, 4) /\ cpu[<<"r", 6>>] = InitialWord(t, 12)
    <3>1. AtRoot(cpu, block, t)
      BY DEF Rooting
    <3> QED BY <3>1, Zenon DEF AtRoot
  <2>3. StateSlots(arch) = PowerState
    BY DEF StateSlots
  <2> QED BY <2>1, <2>2, <2>3, InitialWords DEF Rooting
<1>3. <<"r", 3>> \in Registers(arch) \ {SP(arch)}
  <2>1. <<"r", 3>> \in Scratch(arch) /\ <<"r", 3>> # SP(arch)
    BY DEF Scratch, Power, SP, R
  <2> QED BY <2>1, RegistersAre
<1>4. /\ c[SP(arch)] = Stack(t, RootSP(arch)) /\ \A r \in Registers(arch) \ {SP(arch)} : c[r] = cpu[r]
      /\ IsMemory(m) /\ \A u \in Thread : u # t => m[u] = mem[u]
      /\ DOMAIN m[t] \subseteq 0 .. StackSize - 1
      /\ Word(m, Stack(t, FencePost(arch))) = Word(mem, Stack(t, FencePost(arch)))
      /\ Word(m, Above6(t)) = cpu[<<"r", 4>>]
      /\ Word(m, Above7(t)) = cpu[<<"r", 5>>] /\ Word(m, Above8(t)) = cpu[<<"r", 6>>]
  BY <1>1, PowerStores DEF Rooting, Storing
<1> HIDE DEF c, m
<1>5. FrameKept(c, m, t, "startup")
  BY <1>2, <1>4 DEF FrameKept
<1>6. Taken(RootCalls(arch)[1], c, m) = Code("ThreadBegin")
  BY <1>2, <1>3, <1>4 DEF Taken, RootCalls
<1> QED BY <1>4, <1>5, <1>6 DEF Rooted, Rooting, c, m

(* On every host, ThreadRoot has what it is going to call in place.        *)
LEMMA EveryHostRooted ==
  ASSUME NEW t, Rooting(t) PROVE Rooted(t, RootFrame(1).cpu, RootFrame(1).mem)
BY MipsRooted, AlphaRooted, PariscRooted, SparcRooted, X86Rooted, AppleRooted, PowerRooted DEF Rooting, Archs

(* A call of ThreadRoot: registers c and stacks m are those it is made     *)
(* with.                                                                   *)
Stage(k) == <<"forked", "startup", "func", "finish">>[k]
Calling(t, k, c, m) ==
  /\ k \in 1 .. 3 /\ t = currentThread /\ t \in Forked /\ place[t] = Stage(k)
  /\ c[SP(arch)] = Stack(t, RootSP(arch) + GivenBack(Stage(k + 1)))
  /\ k < 3 => FrameKept(c, m, t, Stage(k + 1))
  /\ IsMemory(m) /\ \A u \in Thread : u # t => m[u] = mem[u]
  /\ DOMAIN m[t] \subseteq 0 .. StackSize - 1
  /\ k = 1 => Word(m, Stack(t, FencePost(arch))) = Fence
Calls(t, k, c, m) ==
  /\ at' = "in"
  /\ calls' = [calls EXCEPT ![t] = Append(@, RootCallsOf(t)[k])]
  /\ entry' = [entry EXCEPT ![t] = [r \in CalleeSaved(arch) |-> c[r]]]
  /\ cpu' = Busy(t, gen[t], Above(c[SP(arch)], -FrameWords))
  /\ mem' = StackFreed(m, toBeDestroyed)
  /\ place' = [Deleted(toBeDestroyed) EXCEPT ![t] = Stage(k + 1)]
  /\ toBeDestroyed' = "none"
  /\ UNCHANGED <<arch, block, gen, currentThread, userVars>>

(* A call makes the calls of a thread one longer, as it should.            *)
LEMMA OneCallMore ==
  ASSUME SwitchInv, NEW t, NEW k, NEW c, NEW m, Calling(t, k, c, m), Calls(t, k, c, m)
  PROVE  CallsOK'
<1>1. /\ calls = [u \in Thread |-> calls[u]] /\ t \in Thread /\ t \in Forked /\ k \in 1 .. 3
      /\ place[t] = Stage(k) /\ place = [u \in Thread |-> place[u]] /\ toBeDestroyed # t
      /\ (toBeDestroyed # "none" => place[toBeDestroyed] = "finish")
  <2>1. calls = [u \in Thread |-> calls[u]] /\ t = currentThread /\ t \in Forked /\ k \in 1 .. 3 /\ place[t] = Stage(k)
    BY DEF SwitchInv, CallsOK, Calling
  <2>2. t \in Thread
    BY <2>1 DEF Forked
  <2>3. place = [u \in Thread |-> place[u]] /\ (toBeDestroyed # "none" => place[toBeDestroyed] = "finish")
    BY DEF SwitchInv, PlacesOK
  <2>4. toBeDestroyed # t
    BY <2>1, <2>2, ContextSwitchAssumption DEF SwitchInv, PlacesOK
  <2> QED BY <2>1, <2>2, <2>3, <2>4
<1>2. /\ Called(t) = k - 1 /\ Called(t)' = k
  <2>1. CASE k = 1
    <3>1. place[t] = "forked" /\ place'[t] = "startup"
      BY <1>1, <2>1 DEF Stage, Calls, Deleted
    <3>2. Called(t) = 0 /\ Called(t)' = 1
      BY <3>1, Zenon DEF Called
    <3> QED BY <2>1, <3>2
  <2>2. CASE k = 2
    <3>1. place[t] = "startup" /\ place'[t] = "func"
      BY <1>1, <2>2 DEF Stage, Calls, Deleted
    <3>2. Called(t) = 1 /\ Called(t)' = 2
      BY <3>1, Zenon DEF Called
    <3> QED BY <2>2, <3>2
  <2>3. CASE k = 3
    <3>1. place[t] = "func" /\ place'[t] = "finish"
      BY <1>1, <2>3 DEF Stage, Calls, Deleted
    <3>2. Called(t) = 2 /\ Called(t)' = 3
      BY <3>1, Zenon DEF Called
    <3> QED BY <2>3, <3>2
  <2> QED BY <1>1, <2>1, <2>2, <2>3
<1>3. ASSUME NEW u \in Forked, u # t PROVE Called(u)' = Called(u) /\ calls'[u] = calls[u]
  <2>1. calls'[u] = calls[u] /\ u \in Thread
    BY <1>1, <1>3 DEF Calls, Forked
  <2>2. CASE u # toBeDestroyed
    <3>1. place'[u] = place[u]
      BY <1>1, <1>3, <2>1, <2>2 DEF Calls, Deleted
    <3>2. Called(u)' = Called(u)
      BY <3>1, Zenon DEF Called
    <3> QED BY <2>1, <3>2
  <2>3. CASE u = toBeDestroyed
    <3>1. place[u] = "finish" /\ place'[u] = "deleted"
      BY <1>1, <1>3, <2>1, <2>3, ContextSwitchAssumption DEF Calls, Deleted
    <3>2. Called(u)' = 3 /\ Called(u) = 3
      BY <3>1, Zenon DEF Called
    <3> QED BY <2>1, <3>2
  <2> QED BY <2>2, <2>3
<1>4. calls'[t] = [i \in 1 .. k |-> RootCallsOf(t)[i]]
  <2>1. calls[t] = [i \in 1 .. k - 1 |-> RootCallsOf(t)[i]]
    BY <1>1, <1>2 DEF SwitchInv, CallsOK
  <2> DEFINE s == calls[t]
             x == RootCallsOf(t)
  <2>2. calls'[t] = Append(s, x[k])
    BY <1>1 DEF Calls
  <2> HIDE DEF s, x
  <2>3. s = [i \in 1 .. k - 1 |-> x[i]]
    BY <2>1 DEF s, x
  <2>4. Append(s, x[k]) = [i \in 1 .. k |-> x[i]]
    BY <1>1, <2>3
  <2> QED BY <2>2, <2>4 DEF x
<1>5. \A u \in Forked : calls'[u] = [i \in 1 .. Called(u)' |-> RootCallsOf(u)[i]]
  BY <1>2, <1>3, <1>4 DEF SwitchInv, CallsOK
<1>6. calls' = [u \in Thread |-> calls'[u]] /\ entry' = [u \in Thread |-> entry'[u]] /\ gen' = [u \in Thread |-> gen'[u]]
  BY <1>1 DEF SwitchInv, CallsOK, Calls
<1> QED BY <1>5, <1>6 DEF CallsOK, RootCallsOf, Forked

(* A call of ThreadRoot keeps the invariant,                               *)
LEMMA CallKeeps ==
  ASSUME SwitchInv, NEW t, NEW k, NEW c, NEW m, Calling(t, k, c, m), Calls(t, k, c, m)
  PROVE  SwitchInv'
<1> DEFINE gone == toBeDestroyed
<1>1. /\ arch' = arch /\ arch \in Archs /\ t \in Thread /\ t \in Forked /\ t # Main /\ k \in 1 .. 3
      /\ t = currentThread /\ currentThread' = t /\ gone # t /\ at' = "in" /\ toBeDestroyed' = "none"
      /\ place[t] = Stage(k) /\ (gone # "none" => gone \in Thread /\ place[gone] = "finish")
      /\ block' = block /\ gen' = gen /\ UNCHANGED userVars
  <2>1. t = currentThread /\ t \in Forked /\ k \in 1 .. 3 /\ place[t] = Stage(k)
    BY DEF Calling
  <2>2. /\ arch' = arch /\ currentThread' = t /\ at' = "in" /\ toBeDestroyed' = "none"
        /\ block' = block /\ gen' = gen /\ UNCHANGED userVars
    BY <2>1 DEF Calls
  <2>3. arch \in Archs /\ (gone # "none" => gone \in Thread \ {currentThread} /\ place[gone] = "finish")
    BY DEF SwitchInv, PlacesOK
  <2>4. t \in Thread /\ t # Main /\ gone # t
    BY <2>1, <2>3, ContextSwitchAssumption DEF Forked
  <2> QED BY <2>1, <2>2, <2>3, <2>4
<1>2. /\ place' = [u \in Thread |-> place'[u]] /\ place'[t] = Stage(k + 1)
      /\ \A u \in Thread \ {t} : place'[u] = IF u = gone THEN "deleted" ELSE place[u]
  BY <1>1 DEF SwitchInv, PlacesOK, Calls, Deleted
<1>3. /\ IsMemory(mem') /\ mem'[t] = m[t]
      /\ \A u \in Thread \ {t} : mem'[u] = IF u = gone THEN <<>> ELSE mem[u]
  BY <1>1 DEF Calls, Calling, StackFreed, IsMemory
<1>4. /\ entry' = [u \in Thread |-> entry'[u]] /\ \A r \in CalleeSaved(arch) : entry'[t][r] = c[r]
      /\ \A u \in Thread \ {t} : entry'[u] = entry[u]
  BY <1>1 DEF SwitchInv, CallsOK, Calls
<1>5. PlacesOK'
  <2>1. place'[t] \in Started
    BY <1>1, <1>2 DEF Started, Stage
  <2>2. place'[Main] = "func"
    BY <1>1, <1>2, ContextSwitchAssumption DEF SwitchInv, PlacesOK
  <2>3. \A u \in Thread : place'[u] \in {"created", "forked", "startup", "func", "finish", "deleted"}
    BY <1>1, <1>2 DEF SwitchInv, PlacesOK, Stage
  <2>4. \A u \in Thread : place'[u] = "finish" => u = t
    BY <1>1, <1>2 DEF SwitchInv, PlacesOK
  <2>5. place' \in [Thread -> {"created", "forked", "startup", "func", "finish", "deleted"}]
    BY <1>2, <2>3
  <2> QED BY <1>1, <2>1, <2>2, <2>4, <2>5 DEF PlacesOK, Started
<1>6. NotStarted'
  <2> SUFFICES ASSUME NEW u \in Thread \ {t}, place'[u] = "forked"
               PROVE  block'[u] = InitialState(u)' /\ mem'[u] = InitialFrame(u)'
    BY <1>1 DEF NotStarted
  <2>1. u # gone /\ place[u] = "forked"
    BY <1>2
  <2>2. block[u] = InitialState(u) /\ mem[u] = InitialFrame(u)
    BY <1>1, <2>1 DEF SwitchInv, NotStarted
  <2> QED BY <1>1, <1>3, <2>1, <2>2, HostStays
<1>7. AllSaved'
  <2> SUFFICES ASSUME NEW u \in Thread, Waiting(u)' PROVE SavedIn(block, mem, u)'
    BY DEF AllSaved
  <2>1. u # t /\ u # gone /\ Waiting(u) /\ mem'[u] = mem[u]
    BY <1>1, <1>2, <1>3 DEF Waiting
  <2>2. place'[u] = place[u]
    BY <1>2, <2>1
  <2> QED BY <1>1, <2>1, <2>2, WaitsStill
<1>8. ProcessorOK'
  <2> DEFINE d == cpu'
             p == Stack(t, CodeSP(t)')
             g == gen[t]
  <2>1. d = Busy(t, g, p)
    <3>1. Above(c[SP(arch)], -FrameWords) = Stack(t, RootSP(arch) + GivenBack(Stage(k + 1)) + Down(arch) * (-8))
      BY AboveIs DEF Calling, FrameWords
    <3>2. RootSP(arch) + GivenBack(Stage(k + 1)) + Down(arch) * (-8) = CodeSP(t)'
      <4>1. CodeSP(t)' = RootSP(arch) + GivenBack(Stage(k + 1)) - Down(arch) * 8
        BY <1>1, <1>2 DEF CodeSP, FrameWords, GivenBack
      <4>2. RootSP(arch) \in Nat /\ GivenBack(Stage(k + 1)) \in Nat /\ Down(arch) \in {1, -1}
        BY <1>1, HostIs DEF GivenBack, szdsa
      <4> QED BY <4>1, <4>2
    <3> QED BY <3>1, <3>2 DEF Calls
  <2> HIDE DEF d, p, g
  <2>2. d = [r \in Registers(arch) |-> d[r]] /\ d[SP(arch)] = p /\ \A r \in Preserved : d[r] = Work(t, g, r)
    BY <1>1, <2>1, BusyIs
  <2>3. InCode(cpu, t)'
    BY <1>1, <2>2, HostStays DEF InCode, d, p, g
  <2> QED BY <1>1, <2>2, <2>3 DEF ProcessorOK, InCode, d
<1>9. FramesKept'
  <2> SUFFICES ASSUME NEW u \in Forked, place'[u] \in {"startup", "func"} PROVE FrameKept(entry[u], mem, u, place[u])'
    BY DEF FramesKept, Forked
  <2>1. CASE u # t
    <3>1. u \in Thread /\ u # gone /\ place[u] \in {"startup", "func"} /\ mem'[u] = mem[u] /\ entry'[u] = entry[u]
          /\ place'[u] = place[u]
      BY <1>2, <1>3, <1>4, <2>1 DEF Forked
    <3> QED BY <1>1, <3>1, KeptStill
  <2>2. CASE u = t
    <3> DEFINE e == entry'[t]
               n == mem'
               w == Stage(k + 1)
    <3>1. FrameKept(c, m, t, w) /\ n[t] = m[t] /\ \A r \in CalleeSaved(arch) : e[r] = c[r]
      <4>1. k < 3
        BY <1>1, <1>2, <2>2 DEF Stage
      <4> QED BY <1>3, <1>4, <4>1 DEF Calling
    <3> HIDE DEF e, n, w
    <3>2. \A j \in 8182 .. 8186 : Word(n, Stack(t, j)) = Word(m, Stack(t, j))
      BY <3>1, SameWords
    <3>3. FrameKept(e, n, t, w)
      BY <1>1, <3>1, <3>2, FrameStays
    <3>4. place'[t] = w
      BY <1>2 DEF w
    <3> QED BY <1>1, <2>2, <3>3, <3>4, HostStays DEF FrameKept, e, n
  <2> QED BY <2>1, <2>2
<1>10. StacksOK'
  <2>1. ASSUME NEW u \in Forked PROVE DOMAIN mem'[u] \subseteq 0 .. StackSize - 1
    <3>1. CASE u = t
      BY <1>3, <3>1 DEF Calling
    <3>2. CASE u # t /\ u # gone
      BY <1>3, <3>2 DEF SwitchInv, StacksOK, Forked
    <3>3. CASE u # t /\ u = gone
      <4>1. mem'[u] = <<>>
        BY <1>3, <3>3 DEF Forked
      <4> QED BY <4>1
    <3> QED BY <3>1, <3>2, <3>3
  <2>2. ASSUME NEW u \in Forked, place'[u] \in {"forked", "startup"}
        PROVE  Word(mem', Stack(u, FencePost(arch))) = Fence
    <3>1. CASE u = t
      <4>1. k = 1
        BY <1>1, <1>2, <2>2, <3>1 DEF Stage
      <4>2. Word(m, Stack(t, FencePost(arch))) = Fence
        BY <4>1 DEF Calling
      <4>3. \A j : Word(mem', Stack(t, j)) = Word(m, Stack(t, j))
        BY <1>3, SameWords
      <4> QED BY <3>1, <4>2, <4>3
    <3>2. CASE u # t
      <4>1. place[u] \in {"forked", "startup"} /\ mem'[u] = mem[u]
        BY <1>2, <1>3, <2>2, <3>2 DEF Forked
      <4>2. Word(mem, Stack(u, FencePost(arch))) = Fence
        BY <4>1 DEF SwitchInv, StacksOK
      <4>3. \A j : Word(mem', Stack(u, j)) = Word(mem, Stack(u, j))
        BY <4>1, SameWords
      <4> QED BY <4>2, <4>3
    <3> QED BY <3>1, <3>2
  <2>3. block' = [u \in Thread |-> [v \in DOMAIN EmptyBlock' |-> block'[u][v]]]
    BY <1>1 DEF SwitchInv, StacksOK, EmptyBlock
  <2> QED BY <1>1, <1>3, <2>1, <2>2, <2>3 DEF StacksOK, Forked, IsMemory
<1>11. CallsOK'
  BY OneCallMore
<1>12. UserOK'
  <2>1. UNCHANGED <<machine, userRegisters, space, pageTable>>
    BY <1>1 DEF userVars
  <2>2. \A u \in Thread : space'[u] => place'[u] \in {"func", "finish", "deleted"}
    BY <1>1, <1>2, <2>1 DEF SwitchInv, UserOK, Stage
  <2>3. space[t] => k = 3
    BY <1>1 DEF SwitchInv, UserOK, Stage
  <2>4. space'[t] => place'[t] = "finish"
    BY <1>2, <2>1, <2>3 DEF Stage
  <2>5. \A u \in Thread \ {t} : space'[u] /\ place'[u] = "func" => space[u] /\ place[u] = "func"
    BY <1>2, <2>1
  <2> QED BY <1>1, <2>1, <2>2, <2>4, <2>5 DEF SwitchInv, UserOK
<1> QED BY <1>5, <1>6, <1>7, <1>8, <1>9, <1>10, <1>11, <1>12 DEF SwitchInv

(* the first one, of ThreadBegin, which deletes a carcass,                 *)
LEMMA FirstCallKeeps == ASSUME SwitchInv, RootCall(1) PROVE SwitchInv'
<1> DEFINE t == currentThread
           c == RootFrame(1).cpu
           m == RootFrame(1).mem
<1>1. /\ at = "root1" /\ t \in Forked /\ place[t] = "forked" /\ Rooting(t)
  <2>1. at = "root1" /\ t \in Thread /\ place[t] = "forked" /\ arch \in Archs /\ t # Main
    BY DEF SwitchInv, PlacesOK, RootCall
  <2>2. Word(mem, Stack(t, FencePost(arch))) = Fence /\ DOMAIN mem[t] \subseteq 0 .. StackSize - 1 /\ IsMemory(mem)
    BY <2>1 DEF SwitchInv, StacksOK, Forked, IsMemory
  <2>3. cpu = [r \in Registers(arch) |-> cpu[r]] /\ AtRoot(cpu, block, t)
    BY <2>1 DEF SwitchInv, ProcessorOK
  <2> QED BY <2>1, <2>2, <2>3 DEF Rooting, Forked
<1>2. Rooted(t, c, m)
  BY <1>1, EveryHostRooted
<1> DEFINE target == Taken(RootCalls(arch)[1], c, m)
<1> HIDE DEF t, c, m
<1>3. target = Code("ThreadBegin") /\ Code("ThreadBegin")[1] = "code"
  BY <1>2 DEF Rooted, Code
<1>4. Calls(t, 1, c, m)
  <2>1. RootCallsOf(t)[1] = <<target, Zero>>
    BY <1>3 DEF RootCallsOf
  <2> DEFINE begins == target = Code("ThreadBegin")
  <2>2. /\ at' = IF target[1] = "code" THEN "in" ELSE "crashed"
        /\ calls' = [calls EXCEPT ![t] = Append(@, <<target, Zero>>)]
        /\ entry' = [entry EXCEPT ![t] = [r \in CalleeSaved(arch) |-> c[r]]]
        /\ cpu' = Busy(t, gen[t], Above(c[SP(arch)], -FrameWords))
        /\ mem' = IF begins THEN StackFreed(m, toBeDestroyed) ELSE m
        /\ place' = [IF begins THEN Deleted(toBeDestroyed) ELSE place
                       EXCEPT ![t] = <<"startup", "func", "finish">>[1]]
        /\ toBeDestroyed' = IF begins THEN "none" ELSE toBeDestroyed
        /\ UNCHANGED <<arch, block, gen, currentThread, userVars>>
    BY DEF RootCall, t, c, m
  <2>3. begins /\ target[1] = "code"
    BY <1>3
  <2> HIDE DEF target, begins
  <2> QED BY <2>1, <2>2, <2>3 DEF Calls, Stage
<1>5. Calling(t, 1, c, m)
  <2>1. c[SP(arch)] = Stack(t, RootSP(arch)) /\ FrameKept(c, m, t, "startup")
    BY <1>2 DEF Rooted, FrameKept
  <2>2. GivenBack("startup") = 0 /\ RootSP(arch) + 0 = RootSP(arch)
    BY <1>1, HostIs DEF GivenBack, Rooting
  <2> QED BY <1>1, <1>2, <2>1, <2>2 DEF Calling, Rooted, Stage, t
<1> QED BY <1>4, <1>5, CallKeeps

(* and the two others, which find what the first has left,                 *)
Later(k, t, c, m) ==
  /\ Calling(t, k, c, m) /\ Taken(RootCalls(arch)[k], c, m) = RootCallsOf(t)[k][1]
  /\ k = 2 => Taken(RootArg(arch), c, m) = Arg(t)
Resuming(k, t) ==
  /\ SwitchInv /\ k \in {2, 3} /\ at = <<"root1", "root2", "root3">>[k] /\ t = currentThread
LEMMA ResumingIs ==
  ASSUME NEW k, NEW t, Resuming(k, t)
  PROVE  /\ arch \in Archs /\ t \in Thread /\ t \in Forked /\ place[t] = Stage(k) /\ IsMemory(mem)
         /\ toBeDestroyed = "none" /\ place = [u \in Thread |-> place[u]]
         /\ DOMAIN mem[t] \subseteq 0 .. StackSize - 1 /\ FrameKept(cpu, mem, t, Stage(k))
         /\ cpu[SP(arch)] = Stack(t, RootSP(arch)) /\ cpu = [r \in Registers(arch) |-> cpu[r]]
<1>1. /\ at \in {"root2", "root3"} /\ (k = 2 => at = "root2") /\ (k = 3 => at = "root3") /\ SwitchInv
      /\ k \in {2, 3} /\ t = currentThread
  BY DEF Resuming
<1>2. arch \in Archs /\ t \in Forked /\ place[t] = Stage(k) /\ place = [u \in Thread |-> place[u]] /\ toBeDestroyed = "none"
  BY <1>1 DEF SwitchInv, PlacesOK, Forked, Stage
<1>3. IsMemory(mem) /\ DOMAIN mem[t] \subseteq 0 .. StackSize - 1 /\ t \in Thread
  BY <1>1, <1>2 DEF SwitchInv, StacksOK, IsMemory, Forked
<1>4. FrameKept(entry[t], mem, t, Stage(k)) /\ \A r \in CalleeSaved(arch) : cpu[r] = entry[t][r]
  BY <1>1, <1>2 DEF SwitchInv, FramesKept, ProcessorOK, Stage
<1>5. \A j \in 8182 .. 8186 : Word(mem, Stack(t, j)) = Word(mem, Stack(t, j))
  OBVIOUS
<1>6. FrameKept(cpu, mem, t, Stage(k))
  BY <1>2, <1>4, <1>5, FrameStays
<1>7. cpu[SP(arch)] = Stack(t, RootSP(arch)) /\ cpu = [r \in Registers(arch) |-> cpu[r]]
  BY <1>1, <1>6 DEF FrameKept, SwitchInv, ProcessorOK
<1> QED BY <1>2, <1>3, <1>6, <1>7

(* on most hosts in registers,                                             *)
LEMMA InRegisters ==
  ASSUME NEW k, NEW t, Resuming(k, t), arch # "PowerPC"
  PROVE  Later(k, t, RootFrame(k).cpu, RootFrame(k).mem)
<1> DEFINE c == RootFrame(k).cpu
           m == RootFrame(k).mem
<1>1. /\ arch \in Archs /\ t \in Thread /\ t \in Forked /\ place[t] = Stage(k) /\ IsMemory(mem) /\ t = currentThread
      /\ DOMAIN mem[t] \subseteq 0 .. StackSize - 1 /\ FrameKept(cpu, mem, t, Stage(k))
      /\ cpu[SP(arch)] = Stack(t, RootSP(arch)) /\ k \in {2, 3}
  BY ResumingIs DEF Resuming
<1>2. /\ c = cpu /\ IsMemory(m) /\ \A u \in Thread : u # t => m[u] = mem[u]
      /\ DOMAIN m[t] \subseteq 0 .. StackSize - 1 /\ (arch # "PARISC" => m = mem)
  <2>1. CASE arch = "PARISC"
    <3>1. c = cpu /\ m = Put(mem, Above(cpu[SP(arch)], 6), Code("ThreadRoot"))
      BY <2>1 DEF RootFrame, PariscRoot, Here
    <3> HIDE DEF m, c
    <3> QED BY <1>1, <2>1, <3>1, PariscStores
  <2>2. CASE arch # "PARISC"
    <3>1. k > 1
      BY <1>1
    <3>2. c = cpu /\ m = mem
      BY <2>2, <3>1 DEF RootFrame, Here
    <3> HIDE DEF m, c
    <3> QED BY <1>1, <2>2, <3>2
  <2> QED BY <2>1, <2>2
<1> HIDE DEF c, m
<1>3. /\ Taken(RootCalls(arch)[2], c, m) = Func(t) /\ Taken(RootArg(arch), c, m) = Arg(t)
      /\ Taken(RootCalls(arch)[3], c, m) = Code("ThreadFinish")
  <2>1. CASE arch # "PARISC"
    BY <1>1, <1>2, <2>1 DEF FrameKept
  <2>2. CASE arch = "PARISC"
    <3>1. RootCalls(arch)[2] = <<"r", 3>> /\ RootCalls(arch)[3] = <<"r", 5>> /\ RootArg(arch) = <<"r", 4>>
      BY <2>2 DEF RootCalls, RootArg
    <3> QED BY <1>1, <1>2, <2>2, <3>1 DEF FrameKept, Taken
  <2> QED BY <2>1, <2>2
<1>4. RootSP(arch) + GivenBack(Stage(k + 1)) = RootSP(arch)
  BY <1>1, HostIs DEF GivenBack
<1>5. FrameKept(c, m, t, Stage(k + 1))
  BY <1>1, <1>2, <1>3 DEF FrameKept
<1>6. Calling(t, k, c, m)
  BY <1>1, <1>2, <1>4, <1>5 DEF Calling
<1> QED BY <1>1, <1>3, <1>6 DEF Later, RootCallsOf, c, m

(* on the PowerPC in words, which the second call makes free,              *)
LEMMA InWords ==
  ASSUME NEW k, NEW t, Resuming(k, t), arch = "PowerPC"
  PROVE  Later(k, t, RootFrame(k).cpu, RootFrame(k).mem)
<1> DEFINE c == PowerRestored(k)
           d == RootFrame(k).cpu
           m == RootFrame(k).mem
<1>1. /\ arch \in Archs /\ t \in Thread /\ t \in Forked /\ place[t] = Stage(k) /\ IsMemory(mem) /\ t = currentThread
      /\ DOMAIN mem[t] \subseteq 0 .. StackSize - 1 /\ FrameKept(cpu, mem, t, Stage(k))
      /\ cpu[SP(arch)] = Stack(t, RootSP(arch)) /\ k \in {2, 3} /\ cpu = [r \in Registers(arch) |-> cpu[r]]
  BY ResumingIs DEF Resuming
<1>2. /\ szdsa = 69 /\ RootSP(arch) = 8107 /\ Down(arch) = 1 /\ SP(arch) = <<"sp", 0>>
  BY DEF szdsa, RootSP, StackTop, StackSize, Down, Power, SP, R
<1>3. PowerBase(k) = Stack(t, 8176)
  <2>1. PowerBase(k) = Stack(t, 8107 + Down(arch) * szdsa)
    BY <1>1, <1>2, AboveIs DEF PowerBase
  <2> QED BY <1>2, <2>1
<1>4. \A i : Word(mem, Above(PowerBase(k), i)) = Word(mem, Stack(t, 8176 + Down(arch) * i))
  BY <1>3, AboveIs
<1>5. /\ Word(mem, Above(PowerBase(k), 6)) = Word(mem, Above6(t))
      /\ Word(mem, Above(PowerBase(k), 7)) = Word(mem, Above7(t))
      /\ Word(mem, Above(PowerBase(k), 8)) = Word(mem, Above8(t))
  BY <1>2, <1>4 DEF Above6, Above7, Above8
<1>6. /\ {<<"r", 4>>, <<"r", 5>>, <<"r", 6>>} \subseteq Registers(arch) /\ DOMAIN cpu = Registers(arch)
      /\ SP(arch) \in Registers(arch)
  <2>1. {<<"r", 4>>, <<"r", 5>>, <<"r", 6>>} \subseteq Scratch(arch)
    BY DEF Scratch, Power
  <2> QED BY <1>1, <2>1, RegistersAre, PreservedMoved
<1>7. c = [r \in Registers(arch) |-> c[r]] /\ c[SP(arch)] = PowerBase(k)
  <2>1. c = [r \in Registers(arch) |-> c[r]]
    BY <1>6 DEF PowerRestored
  <2>2. c[SP(arch)] = PowerBase(k)
    BY <1>2, <1>6, SMTT(30) DEF PowerRestored, Of, R
  <2> QED BY <2>1, <2>2
<1>8. ASSUME NEW i \in {4, 5, 6}
      PROVE  c[<<"r", i>>] = IF k = 2 THEN Word(mem, Above(PowerBase(k), i + 2))
                             ELSE IF i = 6 THEN Word(mem, Above(PowerBase(k), 6)) ELSE cpu[<<"r", i>>]
  BY <1>1, <1>2, <1>6, SMTT(30) DEF PowerRestored, Of, R
<1>9. CASE k = 2
  <2>1. c[<<"r", 4>>] = Arg(t) /\ c[<<"r", 5>>] = Func(t) /\ c[<<"r", 6>>] = Code("ThreadFinish")
    BY <1>1, <1>5, <1>8, <1>9 DEF FrameKept, Stage
  <2> DEFINE e == c
  <2>2. e = [r \in Registers(arch) |-> e[r]] /\ e = IF k = 1 THEN cpu ELSE PowerRestored(k)
    BY <1>7, <1>9
  <2>3. /\ e[<<"r", 4>>] = Arg(t) /\ e[<<"r", 5>>] = Func(t) /\ e[<<"r", 6>>] = Code("ThreadFinish")
    BY <2>1
  <2> HIDE DEF c, e
  <2>4. /\ d[SP(arch)] = Stack(t, RootSP(arch)) /\ \A r \in Registers(arch) \ {SP(arch)} : d[r] = e[r]
        /\ IsMemory(m) /\ \A u \in Thread : u # t => m[u] = mem[u]
        /\ DOMAIN m[t] \subseteq 0 .. StackSize - 1
        /\ Word(m, Above6(t)) = e[<<"r", 6>>]
    BY <1>1, <1>3, <1>9, <2>2, PowerStores DEF Storing
  <2> HIDE DEF d, m
  <2>5. FrameKept(d, m, t, Stage(3)) /\ GivenBack(Stage(3)) = 0
    BY <2>3, <2>4 DEF FrameKept, Stage, GivenBack
  <2>6. Taken(RootCalls(arch)[2], d, m) = Func(t) /\ Taken(RootArg(arch), d, m) = Arg(t)
    BY <1>2, <1>6, <2>3, <2>4 DEF Taken, RootCalls, RootArg
  <2>7. Calling(t, 2, d, m)
    BY <1>1, <1>2, <1>9, <2>4, <2>5 DEF Calling
  <2> QED BY <1>9, <2>6, <2>7 DEF Later, RootCallsOf, d, m
<1>10. CASE k = 3
  <2>1. c[<<"r", 6>>] = Code("ThreadFinish")
    BY <1>1, <1>5, <1>8, <1>10 DEF FrameKept, Stage
  <2>2. d = c /\ m = mem
    BY <1>10 DEF RootFrame, PowerRoot
  <2> HIDE DEF c, d, m
  <2>3. Taken(RootCalls(arch)[3], d, m) = Code("ThreadFinish")
    BY <2>1, <2>2 DEF Taken, RootCalls
  <2>4. GivenBack(Stage(4)) = 69 /\ 8107 + 69 = 8176
    BY <1>2 DEF GivenBack, Stage
  <2>5. Calling(t, 3, d, m)
    BY <1>1, <1>2, <1>3, <1>7, <1>10, <2>2, <2>4 DEF Calling
  <2> QED BY <1>10, <2>3, <2>5 DEF Later, RootCallsOf, d, m
<1> QED BY <1>1, <1>9, <1>10

LEMMA LaterCallKeeps == ASSUME SwitchInv, NEW k \in {2, 3}, RootCall(k) PROVE SwitchInv'
<1> DEFINE t == currentThread
           c == RootFrame(k).cpu
           m == RootFrame(k).mem
<1>1. Resuming(k, t)
  BY DEF RootCall, Resuming
<1>2. Later(k, t, c, m)
  BY <1>1, InRegisters, InWords
<1>3. toBeDestroyed = "none" /\ place = [u \in Thread |-> place[u]]
  BY <1>1, ResumingIs
<1> DEFINE target == Taken(RootCalls(arch)[k], c, m)
           argument == IF k = 2 THEN Taken(RootArg(arch), c, m) ELSE Zero
           begins == target = Code("ThreadBegin")
<1>4. /\ at' = IF target[1] = "code" THEN "in" ELSE "crashed"
      /\ calls' = [calls EXCEPT ![t] = Append(@, <<target, argument>>)]
      /\ entry' = [entry EXCEPT ![t] = [r \in CalleeSaved(arch) |-> c[r]]]
      /\ cpu' = Busy(t, gen[t], Above(c[SP(arch)], -FrameWords))
      /\ mem' = IF begins THEN StackFreed(m, toBeDestroyed) ELSE m
      /\ place' = [IF begins THEN Deleted(toBeDestroyed) ELSE place
                     EXCEPT ![t] = <<"startup", "func", "finish">>[k]]
      /\ toBeDestroyed' = IF begins THEN "none" ELSE toBeDestroyed
      /\ UNCHANGED <<arch, block, gen, currentThread, userVars>>
  BY DEF RootCall
<1> HIDE DEF c, m, t
<1>5. target = (IF k = 2 THEN Func(t) ELSE Code("ThreadFinish")) /\ argument = IF k = 2 THEN Arg(t) ELSE Zero
  BY <1>2 DEF Later, RootCallsOf
<1>6. <<target, argument>> = RootCallsOf(t)[k]
  BY <1>5 DEF RootCallsOf
<1>7. target[1] = "code" /\ ~begins
  <2> HIDE DEF target
  <2>1. CASE k = 2
    BY <1>5, <2>1 DEF Code, Func
  <2>2. CASE k = 3
    <3>1. target = Code("ThreadFinish")
      BY <1>5, <2>2
    <3> QED BY <3>1 DEF Code
  <2> QED BY <2>1, <2>2
<1>8. <<"startup", "func", "finish">>[k] = Stage(k + 1)
  BY DEF Stage
<1>9. Deleted("none") = place /\ StackFreed(m, "none") = m
  BY <1>2, <1>3, ContextSwitchAssumption DEF Deleted, StackFreed, IsMemory, Later, Calling
<1> HIDE DEF target, argument, begins
<1>10. Calls(t, k, c, m)
  BY <1>3, <1>4, <1>6, <1>7, <1>8, <1>9 DEF Calls
<1> QED BY <1>2, <1>10, CallKeeps DEF Later

(* Scheduler::Run: what SWITCH does of two threads leaves the others       *)
(* alone.                                                                  *)
LEMMA RunKeeps == ASSUME SwitchInv, NEW next \in Thread, Run(next) PROVE SwitchInv'
<1> DEFINE old == currentThread
           sw == SWITCH(old, next)
           owner == sw.cpu[SP(arch)][2]
           resumed == sw.pc = Code("Run") /\ owner \in Thread
           gone == IF place[old] = "finish" THEN old ELSE toBeDestroyed
<1>1. /\ at = "in" /\ next # old /\ place[next] \in {"forked", "startup", "func"} /\ next \in Thread
      /\ currentThread' = next /\ cpu' = sw.cpu /\ block' = sw.block
      /\ at' = (CASE resumed -> "in" [] sw.pc = Code("ThreadRoot") -> "root1" [] OTHER -> "crashed")
      /\ mem' = (IF resumed THEN StackFreed(sw.mem, gone) ELSE sw.mem)
      /\ place' = (IF resumed THEN Deleted(gone) ELSE place)
      /\ toBeDestroyed' = (IF resumed THEN "none" ELSE gone)
      /\ userRegisters' = [userRegisters EXCEPT ![old] = IF space[old] THEN SaveUserState ELSE @]
      /\ (IF resumed /\ space[owner] THEN RestoreUserState(owner) ELSE UNCHANGED <<machine, pageTable>>)
      /\ UNCHANGED <<arch, gen, entry, calls, space>>
  BY Zenon DEF Run, Runnable
<1>2. Switched(old, next, sw)
  <2>1. Switching(old, next)
    BY <1>1 DEF Switching
  <2> HIDE DEF sw
  <2> QED BY <2>1, LinkSwitches, StackSwitches DEF sw
<1> HIDE DEF sw
<1>3. /\ old \in Thread /\ arch \in Archs /\ toBeDestroyed = "none" /\ place[old] \in Started
      /\ place = [t \in Thread |-> place[t]]
      /\ (gone # "none" => gone = old /\ place[old] = "finish") /\ (gone = "none" => place[old] # "finish")
      /\ \A t \in Thread : place[t] = "finish" => t = gone
  <2>1. old \in Thread /\ arch \in Archs /\ toBeDestroyed = "none" /\ place[old] \in Started
        /\ place = [t \in Thread |-> place[t]]
    BY <1>1 DEF SwitchInv, PlacesOK
  <2>2. \A t \in Thread : place[t] = "finish" => t = old
    BY <2>1, ContextSwitchAssumption DEF SwitchInv, PlacesOK
  <2> QED BY <2>1, <2>2, ContextSwitchAssumption
<1>4. next # gone
  BY <1>1, <1>3, ContextSwitchAssumption
<1> HIDE DEF gone
<1>5. /\ place[next] \in {"startup", "func"} => resumed /\ owner = next
      /\ place[next] = "forked" => ~resumed /\ sw.pc = Code("ThreadRoot")
  <2>1. ASSUME place[next] \in {"startup", "func"} PROVE sw.pc = Code("Run") /\ owner = next
    <3>1. sw.pc = Code("Run") /\ sw.cpu[SP(arch)] = Stack(next, CodeSP(next))
      BY <1>2, <2>1 DEF Switched, InCode
    <3> QED BY <3>1, StackIs
  <2>2. ASSUME place[next] = "forked" PROVE sw.pc = Code("ThreadRoot")
    BY <1>2, <2>2 DEF Switched
  <2>3. Code("ThreadRoot") # Code("Run")
    BY DEF Code
  <2> QED BY <1>1, <2>1, <2>2, <2>3
<1>6. /\ at' = IF resumed THEN "in" ELSE "root1"
      /\ (IF resumed /\ space[next] THEN RestoreUserState(next) ELSE UNCHANGED <<machine, pageTable>>)
  <2>1. resumed => owner = next
    BY <1>1, <1>5
  <2>2. ~resumed => sw.pc = Code("ThreadRoot")
    BY <1>1, <1>5
  <2>3. CASE resumed
    <3>1. sw.pc # Code("ThreadRoot")
      <4>1. Code("ThreadRoot") # Code("Run")
        BY DEF Code
      <4> QED BY <2>3, <4>1
    <3> HIDE DEF resumed
    <3>2. at' = "in"
      BY <1>1, <2>3, <3>1, Zenon
    <3> QED BY <1>1, <2>1, <2>3, <3>2
  <2>4. CASE ~resumed
    <3> HIDE DEF resumed
    <3>1. at' = "root1"
      BY <1>1, <2>2, <2>4, Zenon
    <3> QED BY <1>1, <2>4, <3>1
  <2> QED BY <2>3, <2>4
<1>7. resumed => place[next] \in {"startup", "func"}
  BY <1>1, <1>5
<1>8. ~resumed => place[next] = "forked"
  BY <1>1, <1>5
<1>9. /\ place' = [t \in Thread |-> place'[t]]
      /\ \A t \in Thread : place'[t] = IF resumed /\ t = gone THEN "deleted" ELSE place[t]
      /\ place'[next] = place[next]
  BY <1>1, <1>3, <1>4 DEF Deleted
<1>10. /\ IsMemory(mem')
       /\ \A t \in Thread : mem'[t] = IF resumed /\ t = gone THEN <<>> ELSE sw.mem[t]
  BY <1>1, <1>2 DEF Switched, StackFreed, IsMemory
<1>11. /\ arch' = arch /\ gen' = gen /\ entry' = entry /\ calls' = calls /\ space' = space
       /\ cpu' = sw.cpu /\ block' = sw.block /\ currentThread' = next
       /\ toBeDestroyed' = IF resumed THEN "none" ELSE gone
       /\ userRegisters' = [userRegisters EXCEPT ![old] = IF space[old] THEN SaveUserState ELSE @]
  BY <1>1
<1> HIDE DEF resumed
<1>12. PlacesOK'
  <2>1. place'[Main] = "func"
    <3>1. place[Main] = "func"
      BY DEF SwitchInv, PlacesOK
    <3>2. Main # gone
      BY <1>3, <3>1, ContextSwitchAssumption
    <3> QED BY <1>9, <3>1, <3>2, ContextSwitchAssumption
  <2>2. place' \in [Thread -> {"created", "forked", "startup", "func", "finish", "deleted"}]
    <3>1. \A t \in Thread : place[t] \in {"created", "forked", "startup", "func", "finish", "deleted"}
      BY DEF SwitchInv, PlacesOK
    <3>2. \A t \in Thread : place'[t] \in {"created", "forked", "startup", "func", "finish", "deleted"}
      BY <1>9, <3>1
    <3> QED BY <1>9, <3>2
  <2>3. \A t \in Thread : place'[t] = "finish" => ~resumed /\ t = gone
    BY <1>3, <1>9
  <2>4. resumed => place'[next] \in Started
    BY <1>7, <1>9 DEF Started
  <2>5. ~resumed /\ gone # "none" => gone \in Thread \ {next} /\ place'[gone] = "finish"
    BY <1>3, <1>4, <1>9
  <2> QED BY <1>1, <1>3, <1>6, <1>8, <1>9, <1>11, <2>1, <2>2, <2>3, <2>4, <2>5 DEF PlacesOK, Started
<1>13. NotStarted'
  <2> SUFFICES ASSUME NEW t \in Thread \ {next}, place'[t] = "forked"
               PROVE  block'[t] = InitialState(t)' /\ mem'[t] = InitialFrame(t)'
    BY <1>11 DEF NotStarted
  <2>1. t # old /\ ~(resumed /\ t = gone) /\ place[t] = "forked"
    BY <1>3, <1>9 DEF Started
  <2>2. block[t] = InitialState(t) /\ mem[t] = InitialFrame(t)
    BY <2>1 DEF SwitchInv, NotStarted
  <2>3. block'[t] = block[t] /\ mem'[t] = mem[t]
    BY <1>2, <1>10, <1>11, <2>1 DEF Switched
  <2> QED BY <1>11, <2>2, <2>3, HostStays
<1>14. AllSaved'
  <2> SUFFICES ASSUME NEW t \in Thread, Waiting(t)' PROVE SavedIn(block, mem, t)'
    BY DEF AllSaved
  <2>1. t # next /\ ~(resumed /\ t = gone) /\ place[t] \in {"startup", "func"} /\ mem'[t] = sw.mem[t]
    BY <1>9, <1>10, <1>11 DEF Waiting
  <2>4. place'[t] = place[t]
    BY <1>9, <2>1
  <2>2. CASE t = old
    <3> DEFINE b == block'
               n == mem'
    <3>1. SavedIn(sw.block, sw.mem, t) /\ b[t] = sw.block[t] /\ n[t] = sw.mem[t]
      BY <1>2, <1>11, <2>1, <2>2 DEF Switched
    <3> HIDE DEF b, n
    <3>2. SavedIn(b, n, t)
      BY <3>1, SavedStays
    <3> QED BY <1>11, <2>4, <3>2, HostStays DEF SavedIn, b, n
  <2>3. CASE t # old
    <3>1. Waiting(t) /\ block'[t] = block[t] /\ mem'[t] = mem[t]
      BY <1>2, <1>11, <2>1, <2>3 DEF Switched, Waiting
    <3> QED BY <1>11, <2>4, <3>1, WaitsStill
  <2> QED BY <2>2, <2>3
<1>15. ProcessorOK'
  <2>1. cpu' = [r \in Registers(arch) |-> cpu'[r]]
    BY <1>2, <1>11 DEF Switched
  <2>2. CASE resumed
    <3>1. InCode(sw.cpu, next)
      BY <1>2, <1>7, <2>2 DEF Switched
    <3>2. InCode(cpu, next)'
      BY <1>9, <1>11, <3>1, HostStays DEF InCode
    <3> QED BY <1>6, <1>11, <2>1, <2>2, <3>2 DEF ProcessorOK, InCode
  <2>3. CASE ~resumed
    <3>1. AtRoot(sw.cpu, sw.block, next)
      BY <1>2, <1>8, <2>3 DEF Switched
    <3>2. AtRoot(cpu', block', next)
      BY <1>11, <3>1
    <3>3. EntrySP' = EntrySP /\ InitialState(next)' = InitialState(next) /\ \A o : InitialWord(next, o)' = InitialWord(next, o)
      BY <1>11, HostStays
    <3>4. AtRoot(cpu, block, next)'
      BY <1>11, <3>2, <3>3, Zenon DEF AtRoot
    <3> QED BY <1>6, <1>11, <2>1, <2>3, <3>4 DEF ProcessorOK, AtRoot
  <2> QED BY <2>2, <2>3
<1>16. FramesKept'
  <2> SUFFICES ASSUME NEW t \in Forked, place'[t] \in {"startup", "func"} PROVE FrameKept(entry[t], mem, t, place[t])'
    BY DEF FramesKept, Forked
  <2> DEFINE e == entry[t]
             n == mem'
  <2>1. t \in Thread /\ place[t] \in {"startup", "func"} /\ n[t] = sw.mem[t] /\ FrameKept(e, mem, t, place[t])
        /\ place'[t] = place[t]
    <3>1. t \in Thread
      BY DEF Forked
    <3>2. place[t] \in {"startup", "func"} /\ n[t] = sw.mem[t] /\ place'[t] = place[t]
      BY <1>9, <1>10, <3>1
    <3> QED BY <3>1, <3>2 DEF SwitchInv, FramesKept
  <2>2. \A j \in 8182 .. 8186 : ~Touched(t, j)
    <3>1. arch = "x86" => CodeSP(t) = 8178
      BY X86Host
    <3>2. arch = "SPARC" => CodeSP(t) = 8088
      BY SparcHost
    <3> QED BY <2>1, <3>1, <3>2 DEF Touched
  <2> HIDE DEF n
  <2>3. \A j \in 8182 .. 8186 : Word(sw.mem, Stack(t, j)) = Word(mem, Stack(t, j))
    BY <1>2, <2>2 DEF Switched
  <2>4. \A j : Word(n, Stack(t, j)) = Word(sw.mem, Stack(t, j))
    BY <2>1, SameWords
  <2>5. \A j \in 8182 .. 8186 : Word(n, Stack(t, j)) = Word(mem, Stack(t, j))
    BY <2>3, <2>4
  <2>6. \A r \in CalleeSaved(arch) : e[r] = e[r]
    OBVIOUS
  <2> HIDE DEF e
  <2>7. FrameKept(e, n, t, place[t])
    BY <1>3, <2>1, <2>5, <2>6, FrameStays
  <2> QED BY <1>11, <2>1, <2>7, HostStays DEF FrameKept, e, n
<1>17. StacksOK'
  <2>1. ASSUME NEW t \in Forked PROVE DOMAIN mem'[t] \subseteq 0 .. StackSize - 1
    <3>1. mem'[t] = <<>> \/ mem'[t] = sw.mem[t]
      BY <1>10 DEF Forked
    <3>2. DOMAIN sw.mem[t] \subseteq 0 .. StackSize - 1
      BY <1>2 DEF Switched
    <3>3. CASE mem'[t] = <<>>
      BY <3>3
    <3> QED BY <3>1, <3>2, <3>3
  <2>2. ASSUME NEW t \in Forked, place'[t] \in {"forked", "startup"}
        PROVE  Word(mem', Stack(t, FencePost(arch))) = Fence
    <3>1. place[t] \in {"forked", "startup"} /\ mem'[t] = sw.mem[t]
      BY <1>9, <1>10, <2>2 DEF Forked
    <3>2. Word(mem, Stack(t, FencePost(arch))) = Fence
      BY <3>1 DEF SwitchInv, StacksOK
    <3>3. ~Touched(t, FencePost(arch))
      <4>1. arch = "x86" => CodeSP(t) = 8178 /\ EntrySP = 8188 /\ FencePost(arch) = 0
        BY X86Host DEF EntrySP
      <4>2. arch = "SPARC" => CodeSP(t) = 8088 /\ FencePost(arch) = 0
        BY SparcHost
      <4> QED BY <4>1, <4>2 DEF Touched
    <3>4. Word(sw.mem, Stack(t, FencePost(arch))) = Word(mem, Stack(t, FencePost(arch)))
      BY <1>2, <3>3 DEF Switched
    <3>5. \A j : Word(mem', Stack(t, j)) = Word(sw.mem, Stack(t, j))
      BY <3>1, SameWords
    <3> QED BY <3>2, <3>4, <3>5
  <2>3. block' = [t \in Thread |-> [u \in DOMAIN EmptyBlock' |-> block'[t][u]]]
    <3>1. block' = [t \in Thread |-> [u \in BlockCells |-> block'[t][u]]]
      BY <1>2, <1>11 DEF Switched
    <3>2. DOMAIN EmptyBlock' = BlockCells
      BY <1>11 DEF BlockCells, EmptyBlock
    <3> QED BY <3>1, <3>2
  <2> QED BY <1>10, <1>11, <2>1, <2>2, <2>3 DEF StacksOK, Forked, IsMemory
<1>18. CallsOK'
  <2>1. ASSUME NEW t \in Forked PROVE Called(t)' = Called(t)
    <3>1. CASE resumed /\ t = gone
      <4>1. place[t] = "finish" /\ place'[t] = "deleted"
        BY <1>3, <1>9, <3>1, ContextSwitchAssumption DEF Forked
      <4>2. Called(t)' = 3 /\ Called(t) = 3
        BY <4>1, Zenon DEF Called
      <4> QED BY <4>2
    <3>2. CASE ~(resumed /\ t = gone)
      <4>1. place'[t] = place[t]
        BY <1>9, <3>2 DEF Forked
      <4> QED BY <4>1, Zenon DEF Called
    <3> QED BY <3>1, <3>2
  <2> QED BY <1>11, <2>1 DEF SwitchInv, CallsOK, RootCallsOf, Forked
<1>19. UserOK'
  <2>1. /\ DOMAIN machine = 0 .. NumTotalRegs - 1 /\ userRegisters = [t \in Thread |-> userRegisters[t]]
        /\ space = [t \in Thread |-> space[t]]
        /\ \A t \in Thread : space[t] => place[t] \in {"func", "finish", "deleted"}
        /\ (space[old] /\ place[old] = "func" =>
              \A i \in 0 .. NumTotalRegs - 1 : machine[i] = UserWork(old, gen[old], i))
        /\ \A t \in Thread \ {old} : space[t] /\ place[t] = "func" =>
             \A i \in 0 .. NumTotalRegs - 1 : userRegisters[t][i] = UserWork(t, gen[t], i)
    BY <1>1 DEF SwitchInv, UserOK
  <2>2. /\ userRegisters' = [t \in Thread |-> userRegisters'[t]]
        /\ \A t \in Thread \ {old} : userRegisters'[t] = userRegisters[t]
        /\ (space[old] => \A i \in 0 .. NumTotalRegs - 1 : userRegisters'[old][i] = machine[i])
    BY <1>3, <1>11, <2>1 DEF SaveUserState
  <2>3. DOMAIN machine' = 0 .. NumTotalRegs - 1
    BY <1>6, <2>1 DEF RestoreUserState
  <2>4. \A t \in Thread : space[t] => place'[t] \in {"func", "finish", "deleted"}
    BY <1>9, <2>1
  <2>5. ASSUME resumed, space[next], place'[next] = "func"
        PROVE  pageTable' = next /\ \A i \in DOMAIN machine' : machine'[i] = UserWork(next, gen[next], i)
    <3>1. pageTable' = next /\ machine' = [i \in 0 .. NumTotalRegs - 1 |-> userRegisters'[next][i]]
      BY <1>6, <2>5 DEF RestoreUserState
    <3>2. userRegisters'[next] = userRegisters[next] /\ place[next] = "func" /\ next \in Thread \ {old}
      BY <1>1, <1>9, <2>2, <2>5
    <3> QED BY <2>1, <2>5, <3>1, <3>2
  <2>6. ASSUME NEW t \in Thread \ {next}, space[t], place'[t] = "func", NEW i \in 0 .. NumTotalRegs - 1
        PROVE  userRegisters'[t][i] = UserWork(t, gen[t], i)
    <3>1. place[t] = "func"
      BY <1>9, <2>6
    <3> QED BY <2>1, <2>2, <2>6, <3>1
  <2> QED BY <1>6, <1>11, <2>2, <2>3, <2>4, <2>5, <2>6, <2>1 DEF UserOK
<1> QED BY <1>12, <1>13, <1>14, <1>15, <1>16, <1>17, <1>18, <1>19 DEF SwitchInv

(* However many threads run, and on whatever host: the registers of C code,*)
(* of ThreadRoot and of user programs are where the switch to come looks   *)
(* for them (SWITCH, ThreadRoot, Scheduler::Run).                          *)
THEOREM RegistersInPlace == SwitchSpec => []SwitchInv
<1>1. SwitchInit => SwitchInv
  BY Initially
<1>2. SwitchInv /\ [SwitchNext]_switchVars => SwitchInv'
  <2> SUFFICES ASSUME SwitchInv, [SwitchNext]_switchVars PROVE SwitchInv'
    OBVIOUS
  <2>1. ASSUME NEW t \in Forked, StackAllocate(t) PROVE SwitchInv'
    BY <2>1, AllocateKeeps
  <2>2. ASSUME NEW t \in Thread, Run(t) PROVE SwitchInv'
    BY <2>2, RunKeeps
  <2>3. ASSUME NEW k \in 1 .. 3, RootCall(k) PROVE SwitchInv'
    <3>1. CASE k = 1
      BY <2>3, <3>1, FirstCallKeeps
    <3>2. CASE k \in {2, 3}
      BY <2>3, <3>2, LaterCallKeeps
    <3> QED BY <3>1, <3>2
  <2>4. CASE UNCHANGED switchVars
    <3>1. PlacesOK' /\ ProcessorOK' /\ UserOK'
      <4>1. PlacesOK' /\ UserOK'
        BY <2>4 DEF SwitchInv, switchVars, PlacesOK, UserOK, Started
      <4>2. InCode(cpu, currentThread)' = InCode(cpu, currentThread)
        BY <2>4, HostStays DEF switchVars, InCode
      <4>3. EntrySP' = EntrySP /\ \A t, o : InitialWord(t, o)' = InitialWord(t, o)
        BY <2>4, HostStays DEF switchVars
      <4>4. \A t : InitialState(t)' = InitialState(t)
        BY <2>4, HostStays DEF switchVars
      <4>5. AtRoot(cpu, block, currentThread) => AtRoot(cpu, block, currentThread)'
        BY <2>4, <4>3, <4>4, Zenon DEF switchVars, AtRoot
      <4>6. ProcessorOK'
        BY <2>4, <4>2, <4>5 DEF SwitchInv, switchVars, ProcessorOK
      <4> QED BY <4>1, <4>6
    <3>2. gen' = [t \in Thread |-> gen'[t]] /\ \A u \in Thread : u # currentThread => gen'[u] = gen[u]
      BY <2>4 DEF SwitchInv, switchVars, CallsOK
    <3>3. NotStarted' /\ AllSaved' /\ FramesKept' /\ StacksOK' /\ CallsOK'
      BY <2>4, <3>2, Still DEF switchVars
    <3> QED BY <3>1, <3>3 DEF SwitchInv
  <2> QED BY <2>1, <2>2, <2>3, <2>4, ReturnKeeps, ComputeKeeps, OverrunKeeps, OverflowKeeps, ExecuteKeeps
          DEF SwitchNext
<1> QED BY <1>1, <1>2, PTL DEF SwitchSpec

(* C code that runs finds itself on its own stack with the registers that  *)
(* calls must preserve as it left them, and a user program finds its own   *)
(* registers and page table, on every host and for any number of threads   *)
(* (SWITCH, Scheduler::Run).                                               *)
THEOREM RegistersAreKept == SwitchSpec => []ThreadsKeepRegisters
<1>1. SwitchInv => ThreadsKeepRegisters
  <2> SUFFICES ASSUME SwitchInv, at = "in" PROVE ThreadsKeepRegisters
    BY DEF ThreadsKeepRegisters
  <2>1. InCode(cpu, currentThread)
    BY DEF SwitchInv, ProcessorOK
  <2>2. cpu[SP(arch)][2] = currentThread
    BY <2>1, StackIs DEF InCode
  <2>3. \A r \in CalleeSaved(arch) \ {SP(arch)} : cpu[r] = Work(currentThread, gen[currentThread], r)
    BY <2>1 DEF InCode, Preserved
  <2>4. space[currentThread] /\ place[currentThread] = "func" =>
          /\ pageTable = currentThread
          /\ \A i \in DOMAIN machine : machine[i] = UserWork(currentThread, gen[currentThread], i)
    BY DEF SwitchInv, UserOK
  <2> QED BY <2>2, <2>3, <2>4 DEF ThreadsKeepRegisters
<1> QED BY <1>1, RegistersInPlace, PTL

(* A forked thread calls ThreadBegin, its function with its argument, and  *)
(* ThreadFinish, in this order and nothing else, and the assembly          *)
(* routines write only inside its stack and never on the fence post        *)
(* (Thread::StackAllocate, ThreadRoot).                                    *)
THEOREM StartsAreRight == SwitchSpec => []ThreadsStartRight
<1>1. SwitchInv => ThreadsStartRight
  <2> SUFFICES ASSUME SwitchInv PROVE ThreadsStartRight
    OBVIOUS
  <2>1. at # "crashed"
    BY DEF SwitchInv, PlacesOK
  <2>2. ASSUME NEW t \in Forked PROVE calls[t] = SubSeq(RootCallsOf(t), 1, Len(calls[t]))
    <3> DEFINE n == Called(t)
               s == RootCallsOf(t)
               c == calls[t]
    <3>1. n \in 0 .. 3 /\ c = [i \in 1 .. n |-> s[i]]
      <4>1. place[t] \in {"created", "forked", "startup", "func", "finish", "deleted"}
        BY DEF SwitchInv, PlacesOK, Forked
      <4> QED BY <4>1, CalledIs DEF SwitchInv, CallsOK
    <3>2. Len(s) = 3 /\ s \in Seq({s[1], s[2], s[3]})
      BY DEF RootCallsOf
    <3> HIDE DEF n, s, c
    <3>3. Len(c) = n
      BY <3>1
    <3>4. SubSeq(s, 1, n) = [i \in 1 .. n |-> s[i]]
      BY <3>1, <3>2
    <3> QED BY <3>1, <3>3, <3>4 DEF c, s
  <2>3. \A t \in Forked : /\ DOMAIN mem[t] \subseteq 0 .. StackSize - 1
                          /\ place[t] \in {"forked", "startup"} => Word(mem, Stack(t, FencePost(arch))) = Fence
    BY DEF SwitchInv, StacksOK
  <2> QED BY <2>1, <2>2, <2>3 DEF ThreadsStartRight, RootCallsOf
<1> QED BY <1>1, RegistersInPlace, PTL
=============================================================================
