------------------------------ MODULE MCMachine -----------------------------
(* A user program as the processor and as the console see it, never at     *)
(* the same time: its instructions (UserMachine), or its console and its   *)
(* system calls (MCConsole, whose variable side tells them apart).         *)
(*                                                                         *)
(* Words of four bits: sixteen addresses, four pages of one word.          *)
EXTENDS UserMachine, MCConsole

(* Sections as the linker script lays them out: .text, .rdata, .data and   *)
(* .bss, end to end from address 0, all of them of every small length.     *)
Bytes(n, v) == [k \in 1 .. n |-> (v + k) % 2]
LayOut(t, r, d, b) ==
  << [name |-> ".text", paddr |-> 0, contents |-> Bytes(t, 0)],
     [name |-> ".rdata", paddr |-> t, contents |-> Bytes(r, 0)],
     [name |-> ".data", paddr |-> t + r, contents |-> Bytes(d, 0)],
     [name |-> ".bss", paddr |-> t + r + d, contents |-> Bytes(b, 1)] >>
Layouts == {LayOut(t, r, d, b) : t \in {4}, r \in 0 .. 2, d \in 0 .. 1, b \in 0 .. 1}
           \cup {<<[name |-> ".sbss", paddr |-> 0, contents |-> <<0>>]>>,
                 <<[name |-> ".text", paddr |-> 0, contents |-> <<1, 0, 1, 1>>],
                   [name |-> ".bss", paddr |-> 4, contents |-> <<0>>],
                   [name |-> ".bss", paddr |-> 5, contents |-> <<0>>]>>}

Entry(v, p, valid, readOnly) ==
  [virtualPage |-> v, physicalPage |-> p, valid |-> valid, readOnly |-> readOnly,
   use |-> FALSE, dirty |-> FALSE]
FourPages == [i \in 0 .. 3 |-> Identity(i)]
Mapped == [i \in 0 .. 3 |-> CASE i = 1 -> Entry(1, 3, TRUE, TRUE)
                              [] i = 2 -> Entry(2, 2, FALSE, FALSE)
                              [] i = 3 -> Entry(3, 4, TRUE, FALSE)
                              [] OTHER -> Entry(0, 0, TRUE, FALSE)]
Buffered == [i \in 0 .. 1 |-> Entry(i, 1 - i, TRUE, i = 1)]      \* of a TLB
TableSet == {FourPages, Mapped}

Pattern == [a \in 0 .. 15 |-> (a \div 3) % 2]
Midway(values, table, tlb) ==
  [registers |-> [r \in Register |-> CASE r \in {1, 2} -> values[r]
                                       [] r = NextPCReg -> 4
                                       [] OTHER -> 0],
   mainMemory |-> Pattern, tlb |-> tlb, table |-> table, trap |-> "None"]
Operand == {Midway(v, FourPages, FALSE) : v \in [1 .. 2 -> WordSet]}
Presets == {Midway(<<a, 5>>, Mapped, FALSE) : a \in {-8, -6, -1, 0, 2, 3, 4, 5}}
           \cup {Midway(<<a, 5>>, Buffered, TRUE) : a \in {-2, 0, 1, 5, 6}}

All(ops, rt, extras) ==
  {[op |-> op, rs |-> 1, rt |-> rt, rd |-> 3, extra |-> e] : op \in ops, e \in extras}
Memory == Loads \cup Stores \cup Unaligned
Programs == All(Memory, 2, {-2, 1}) \cup All({"LB"}, 0, {-2, 1})
            \cup All(Branches \cup Immediates \cup Results \cup HiLoOps
                     \cup {"J", "JAL", "JR", "JALR", "SYSCALL"}, 2, {1})
            \cup All(Illegal, 2, {0})
Probes == All(Memory, 2, {-2, 0, 1}) \cup All({"LWL", "LWR"}, 0, {1})
          \cup All(Memory \cup Results \cup HiLoOps \cup {"BEQ", "BGEZAL", "JALR"}, 3, {0})

----------------------------------------------------------------------------
UserInit ==
  \/ /\ side = "machine" /\ MachineInit
     /\ Init /\ CallsInit /\ \A i \in DOMAIN memory : memory[i] = NUL
  \/ MCInit /\ machine = PowerOn /\ sections = <<>> /\ steps = MaxSteps

UserNext ==
  \/ side = "machine" /\ MachineNext /\ UNCHANGED all
  \/ (Devices \/ Calls \/ First) /\ UNCHANGED machineVars

UserSpec ==
  /\ UserInit /\ [][UserNext]_<<machineVars, all>>
  /\ side = "devices" => Fairness
=============================================================================
