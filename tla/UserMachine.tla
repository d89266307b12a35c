----------------------------- MODULE UserMachine ----------------------------
(* A user program on the simulated machine: loading, instructions, traps   *)
(* into the kernel and back (Machine::Run, AddrSpace::Execute), with the   *)
(* page tables of this kernel and, since the machine is written for any    *)
(* kernel, with others.                                                    *)
EXTENDS AddrSpace

CONSTANTS Layout,       \* the COFF files to load
          Preset,       \* machines in the middle of a program
          Operands,     \* machines whose next instruction is tried only
          Program,      \* the instructions the program may contain
          Tables,       \* other page tables a kernel may install
          Probe,        \* the instructions the invariants try
          MaxSteps

ASSUME UserMachineAssumption ==
  /\ \A m \in Preset \cup Operands : IsMachine(m) /\ m.registers[0] = 0
  /\ Program \cup Probe \subseteq Instruction
  /\ \A t \in Tables : IsMachine([PowerOn EXCEPT !.table = t])
  /\ \A s \in Layout, converter, host \in BOOLEAN :
       LET noff == LoadHeader(host, Coff2Noff(converter, s))
       IN  Fits(noff) => IsMachine(Execution(PowerOn, noff))
  /\ MaxSteps \in Nat

VARIABLES machine, sections, steps
machineVars == <<machine, sections, steps>>

Running == machine.table # <<>> /\ steps < MaxSteps

(* The machine is switched on, or watched from the middle of a program.    *)
MachineInit ==
  /\ \/ machine \in {PowerOn} \cup Preset /\ steps = 0
     \/ machine \in Operands /\ steps = MaxSteps
  /\ sections = <<>>

(* Kernel: a new AddrSpace, Load and Execute of a program converted on     *)
(* this or another host, each big- or little-endian.                       *)
Exec ==
  /\ machine = PowerOn
  /\ \E s \in Layout, converter, host \in BOOLEAN :
       LET noff == LoadHeader(host, Coff2Noff(converter, s))
       IN  /\ Fits(noff)
           /\ machine' = Execution(machine, noff)
           /\ sections' = s
  /\ UNCHANGED steps

(* One turn of the loop of Machine::Run.                                   *)
Run ==
  /\ Running /\ machine.trap = "None"
  /\ \E i \in Program : machine' = OneInstruction(machine, i)
  /\ steps' = steps + 1
  /\ UNCHANGED sections

(* ExceptionHandler: a system call may leave a result in register 2, every *)
(* other exception is only reported; the instruction is skipped.           *)
Skip ==
  /\ Running /\ machine.trap \notin {"None", "SIGFPE"}
  /\ \E r2 \in {machine.registers[2]} \cup IF machine.trap = "Syscall" THEN {-1} ELSE {} :
       machine' = IncreasePC([machine EXCEPT !.registers[2] = r2])
  /\ UNCHANGED <<sections, steps>>

(* A kernel that repairs the cause and lets the instruction run again.     *)
Restart ==
  /\ Running /\ machine.trap \in {"PageFault", "ReadOnly", "BusError"}
  /\ \E t \in Tables : machine' = [machine EXCEPT !.trap = "None", !.table = t]
  /\ UNCHANGED <<sections, steps>>

MachineNext == Exec \/ Run \/ Skip \/ Restart
MachineSpec == MachineInit /\ [][MachineNext]_machineVars

----------------------------------------------------------------------------
R == machine.registers
Ready == machine.table # <<>> /\ machine.trap = "None"
After(i) == OneInstruction(machine, i)
Op(op, extra) == [op |-> op, rs |-> 1, rt |-> 2, rd |-> 3, extra |-> extra]
Nop == [op |-> "SLL", rs |-> 0, rt |-> 0, rd |-> 0, extra |-> 0]
Imm == -(2^(ImmBits - 1)) .. 2^(ImmBits - 1) - 1
Abs(x) == IF x < 0 THEN -x ELSE x

SumExact(i, m, sum) ==
  IF sum \in WordSet
  THEN /\ m.trap # "Overflow"
       /\ m.trap = "None" => m.registers[IF i.op = "ADDI" THEN 2 ELSE 3] = sum
  ELSE m.trap # "None"

ProductExact(i, m, product) ==
  LET r == m.registers
      hi == IF i.op = "MULTU" THEN Unsigned(r[HiReg]) ELSE r[HiReg]
  IN  m.trap = "None" => hi * 2^WordBits + Unsigned(r[LoReg]) = product

QuotientExact(m) ==
  LET r == m.registers
  IN  m.trap = "None" /\ R[2] # 0 =>
        /\ R[1] = R[2] * r[LoReg] + r[HiReg]
        /\ Abs(r[HiReg]) < Abs(R[2])
        /\ r[HiReg] = 0 \/ SameSign(r[HiReg], R[1])

(* ADD, SUB and ADDI trap exactly when the sum or difference of the        *)
(* integers does not fit, and otherwise deliver it; products and quotients *)
(* are those of the integers.                                              *)
AsOfIntegers(i, m) ==
  CASE i.op = "ADD" -> SumExact(i, m, R[1] + R[2])
    [] i.op = "SUB" -> SumExact(i, m, R[1] - R[2])
    [] i.op = "ADDI" -> SumExact(i, m, R[1] + i.extra)
    [] i.op = "MULT" -> ProductExact(i, m, R[1] * R[2])
    [] i.op = "MULTU" -> ProductExact(i, m, Unsigned(R[1]) * Unsigned(R[2]))
    [] i.op = "DIV" -> QuotientExact(m)

ArithmeticExact ==
  Ready /\ R[LoadReg] \notin {2, 3} =>
    \A i \in {Op(op, 0) : op \in {"ADD", "SUB", "MULT", "MULTU", "DIV"}}
             \cup {Op("ADDI", imm) : imm \in Imm} :
      LET m == After(i) IN AsOfIntegers(i, m)

(* LWL and LWR together load the word at any address, SWL and SWR store it *)
(* there and touch nothing else, although the first half is still pending  *)
(* when the second is executed.                                            *)
ByteAt(m, a) == ReadMem(m, a, 1).value % 2^ByteBits
WordAt(m, a) == Word(MapThenSumSet(LAMBDA k : ByteAt(m, a + k) * 2^(ByteBits * k), 0 .. 3))
Both(upper, lower) == FoldLeft(Execute, machine, <<Op(upper, 1), Op(lower, -2), Nop>>)

UnalignedExact ==
  LET a == R[1] - 2
      word == {Unsigned(a + k) : k \in 0 .. 3}
      loaded == Both("LWL", "LWR")
      stored == Both("SWL", "SWR")
  IN  Ready /\ (\A k \in 0 .. 3 : Fault(machine, a + k, 1, TRUE) = "None") =>
        /\ R[LoadReg] # 1 => loaded.registers[2] = WordAt(machine, a)
        /\ R[LoadReg] \notin {1, 2} =>
             /\ WordAt(stored, a) = R[2]
             /\ \A x \in (0 .. 2^WordBits - 1) \ word :
                  Fault(machine, x, 1, FALSE) = "None" => ByteAt(stored, x) = ByteAt(machine, x)

(* ADD, SUB, ADDI, the products and the quotients over all operands of a   *)
(* word, and the unaligned loads and stores at every alignment.  The other *)
(* instructions are in Execute but not covered here; SRL and SRLV, which   *)
(* shift arithmetically, would not pass (README, section 5).               *)
InstructionsExact == ArithmeticExact /\ UnalignedExact

(* "This allows us to re-start the instruction execution from the          *)
(* beginning" (OneInstruction): an instruction that faults and runs again  *)
(* on a repaired page table leaves what it would have left without the     *)
(* fault, although the trap has finished the pending load, for every       *)
(* instruction that keeps off the register being loaded; LWL and LWR may   *)
(* continue the load.  A load into register 0, which is always 0, and the  *)
(* load pending when the simulator is stopped can no longer be seen.       *)
Repaired(m) == [m EXCEPT !.trap = "None", !.registers[BadVAddrReg] = 0,
                         !.table = [p \in 0 .. NumPhysPages - 1 |-> Identity(p)]]
Settled(m) == [m EXCEPT !.registers = DelayedLoad(@, 0, 0)]
Visible(m) ==
  IF m.trap # "None" \/ m.registers[LoadReg] = 0 THEN Settled(m) ELSE m
KeepsOff(i, reg) ==
  reg = 0 \/ reg \notin ({i.rs, i.rd, 31} \cup (IF i.op \in {"LWL", "LWR"} THEN {} ELSE {i.rt}))

FaultsRestartable ==
  \A i \in Probe :
    LET trapped == After(i)
        again == {Visible(OneInstruction(m, i)) : m \in {Repaired(trapped), Repaired(machine)}}
    IN  /\ Ready /\ trapped.trap \in {"PageFault", "ReadOnly", "BusError"}
        /\ KeepsOff(i, R[LoadReg])
        => Cardinality(again) = 1

(* A step changes a frame of memory only through a page that is mapped to  *)
(* it, valid and writable, and leaves the dirty bit behind; nothing else   *)
(* of the table but use and dirty changes, and no step through a trap      *)
(* changes memory.                                                         *)
Changed == {p \in 0 .. NumPhysPages - 1 :
              \E a \in p * PageSize .. (p + 1) * PageSize - 1 :
                machine.mainMemory[a] # machine'.mainMemory[a]}

WritesAuthorised ==
  [][machine # PowerOn =>
       \A p \in Changed : \E e \in DOMAIN machine.table :
         LET entry == machine.table[e]
         IN  /\ machine'.trap = "None"
             /\ entry.physicalPage = p /\ entry.valid /\ ~entry.readOnly
             /\ machine'.table = [machine.table EXCEPT ![e] =
                  [entry EXCEPT !.use = TRUE, !.dirty = TRUE],
                  ![CHOOSE c \in Entries(machine, Unsigned(R[PCReg]) \div PageSize) : TRUE].use
                    = TRUE]]_machineVars

(* The program finds in memory what the linker laid out: each byte of each *)
(* section at its address, zeroes elsewhere, and above the sections a      *)
(* stack of the promised size, for sections laid end to end from 0; the    *)
(* kernel's own translation of these addresses agrees with the machine's,  *)
(* in the address and in the use and dirty marks.                          *)
End(s) == s.paddr + Len(s.contents)
Filled(a) == {f \in (DOMAIN sections) \X (1 .. MemorySize) :
                /\ sections[f[1]].name # ".bss" /\ f[2] <= Len(sections[f[1]].contents)
                /\ a = sections[f[1]].paddr + f[2] - 1}

LoadedImage ==
  sections # <<>> /\ steps = 0 =>
    /\ \A a \in 0 .. Cardinality(DOMAIN machine.table) * PageSize - 1 :
         /\ \A writing \in BOOLEAN :
              LET here == Translate(machine, a, 1, writing)
              IN  KernelTranslate(machine, a, writing) =
                    [exception |-> "None", paddr |-> here.physAddr, table |-> here.m.table]
         /\ ByteAt(machine, a) =
           IF Filled(a) = {} THEN 0
           ELSE LET f == CHOOSE f \in Filled(a) : TRUE IN sections[f[1]].contents[f[2]]
    /\ \A j \in DOMAIN sections :
         /\ \A a \in sections[j].paddr .. End(sections[j]) - 1 : Fault(machine, a, 1, TRUE) = "None"
         /\ End(sections[j]) + UserStackSize <= Unsigned(R[StackReg]) + StackMargin
    /\ R[StackReg] % 4 = 0
    /\ Fault(machine, R[StackReg], 4, TRUE) = "None"
=============================================================================
