-------------------------------- MODULE Mips --------------------------------
(* The memory of the simulated MIPS machine: registers, main memory,       *)
(* address translation and the trap into the kernel (machine/translate.cc, *)
(* machine/machine.cc).                                                    *)
(*                                                                         *)
(* A word is four bytes, as in the code, of ByteBits bits each (8 in the   *)
(* code), so that every word and every address can be enumerated.  The     *)
(* whole machine is one record and its routines are functions from the     *)
(* machine to the machine they leave behind; its field "trap" says which   *)
(* exception was raised on the way, or "None".                             *)
EXTENDS Integers, FiniteSets, FiniteSetsExt, SequencesExt

CONSTANTS ByteBits, PageSize, NumPhysPages,
          GPReg                  \* the general purpose registers in use

ASSUME MachineMemoryAssumption ==
  /\ ByteBits \in Nat \ {0} /\ NumPhysPages \in Nat \ {0}
  /\ PageSize \in Nat \ {0} /\ PageSize % 4 = 0
  /\ GPReg \subseteq 0 .. 31 /\ {0, 31} \subseteq GPReg

(* What the proofs need to know of powers of two, which a prover does not  *)
(* compute.                                                                *)
ASSUME PowersAssumption ==
  \A n \in 0 .. 4 * ByteBits : 2^n \in Nat \ {0} /\ 2^(n + 1) = 2 * 2^n

WordBits == 4 * ByteBits
MemorySize == NumPhysPages * PageSize

(* Machine integers: two's complement, wrapping.                           *)
Unsigned(x) == x % 2^WordBits
SignExtend(x, bits) ==
  LET u == x % 2^bits IN IF u >= 2^(bits - 1) THEN u - 2^bits ELSE u
Word(x) == SignExtend(x, WordBits)
WordSet == -(2^(WordBits - 1)) .. (2^(WordBits - 1) - 1)

HiReg == 32
LoReg == 33
PCReg == 34
NextPCReg == 35
PrevPCReg == 36
LoadReg == 37
LoadValueReg == 38
BadVAddrReg == 39
Register == GPReg \cup HiReg .. BadVAddrReg

TranslationEntry == [virtualPage : Nat, physicalPage : Nat,
                     valid : BOOLEAN, readOnly : BOOLEAN,
                     use : BOOLEAN, dirty : BOOLEAN]

(* Every register holds a word, except that LoadReg names a register.      *)
RegisterFile == {r \in [Register -> WordSet \cup GPReg] :
                   r[LoadReg] \in GPReg /\ \A x \in Register \ {LoadReg} : r[x] \in WordSet}

(* What may be raised; "SIGFPE" is the host's, and ends the simulator.      *)
ExceptionType == {"None", "Syscall", "PageFault", "ReadOnly", "BusError", "AddressError",
                  "Overflow", "IllegalInstr", "SIGFPE"}

(* A machine whose table, page table or TLB, has so many entries.          *)
Machine(entries) == [registers : RegisterFile,
                     mainMemory : [0 .. MemorySize - 1 -> 0 .. 2^ByteBits - 1],
                     tlb : BOOLEAN,
                     table : [0 .. entries - 1 -> TranslationEntry],
                     trap : ExceptionType]
IsMachine(m) == \E n \in 0 .. NumPhysPages : m \in Machine(n)

(* Machine::DelayedLoad.                                                   *)
DelayedLoad(r, nextReg, nextValue) ==
  [r EXCEPT ![r[LoadReg]] = r[LoadValueReg],
            ![LoadReg] = nextReg,
            ![LoadValueReg] = nextValue,
            ![0] = 0]

(* Machine::RaiseException, up to the call of the handler.                 *)
RaiseException(m, which, badVAddr) ==
  [m EXCEPT !.registers = DelayedLoad([@ EXCEPT ![BadVAddrReg] = badVAddr], 0, 0),
            !.trap = which]

----------------------------------------------------------------------------
(* Machine::Translate.  The entries that can translate a virtual page: the *)
(* one it indexes in the page table, or the first that names it in the TLB.*)
Entries(m, vpn) ==
  IF m.tlb
  THEN LET hits == {i \in DOMAIN m.table : m.table[i].valid /\ m.table[i].virtualPage = vpn}
       IN  IF hits = {} THEN {} ELSE {Min(hits)}
  ELSE {vpn} \cap DOMAIN m.table

Misaligned(addr, size) == addr % size # 0

(* (A faulty translation lets programs write to read-only pages.)          *)
WritableAnyway(entry, writing) == TRUE
MayAccess(entry, writing) == ~(entry.readOnly /\ writing)

EntryFault(entry, writing) ==
  IF ~entry.valid THEN "PageFault"
  ELSE IF ~MayAccess(entry, writing) THEN "ReadOnly"
  ELSE IF entry.physicalPage >= NumPhysPages THEN "BusError"
  ELSE "None"

Fault(m, addr, size, writing) ==
  LET found == Entries(m, Unsigned(addr) \div PageSize)
  IN  IF Misaligned(addr, size) THEN "AddressError"
      ELSE IF found = {} THEN IF m.tlb THEN "PageFault" ELSE "AddressError"
      ELSE EntryFault(m.table[CHOOSE e \in found : TRUE], writing)

Marked(table, e, writing) ==
  [table EXCEPT ![e] = [table[e] EXCEPT !.use = TRUE, !.dirty = @ \/ writing]]

Translated(m, addr, writing, e, fault) ==
  IF fault # "None" THEN [m |-> RaiseException(m, fault, addr), physAddr |-> 0]
  ELSE [m |-> [m EXCEPT !.table = Marked(@, e, writing)],
        physAddr |-> m.table[e].physicalPage * PageSize + (Unsigned(addr) % PageSize)]

Translate(m, addr, size, writing) ==
  Translated(m, addr, writing,
             CHOOSE e \in Entries(m, Unsigned(addr) \div PageSize) : TRUE,
             Fault(m, addr, size, writing))

(* Machine::ReadMem: bytes are in little-endian order, a single byte comes *)
(* back sign-extended (mainMemory is an array of char), a half word not.   *)
BytesAt(memory, a, size) ==
  MapThenSumSet(LAMBDA k : memory[a + k] * 2^(ByteBits * k), 0 .. size - 1)
Extended(bytes, size) == IF size = 2 THEN bytes ELSE SignExtend(bytes, ByteBits * size)
ReadAt(t, size) ==
  [m |-> t.m, value |-> Extended(BytesAt(t.m.mainMemory, t.physAddr, size), size)]

ReadMem(m, addr, size) == ReadAt(Translate(m, addr, size, FALSE), size)

(* Machine::WriteMem                                                       *)
WriteAt(t, size, value) ==
  IF t.m.trap # "None" THEN t.m
  ELSE [t.m EXCEPT !.mainMemory =
          [a \in DOMAIN @ |-> IF a \in t.physAddr .. t.physAddr + size - 1
                              THEN (value \div 2^(ByteBits * (a - t.physAddr))) % 2^ByteBits
                              ELSE @[a]]]

WriteMem(m, addr, size, value) == WriteAt(Translate(m, addr, size, TRUE), size, value)
-----------------------------------------------------------------------------
(* The instructions of the simulated MIPS R2/3000 (machine/mipssim.cc).    *)
(* OneInstruction is a function from a machine to the machine after the    *)
(* instruction; "trap" tells whether it was completed or raised an         *)
(* exception.  Branches and loads take effect one instruction late, which  *)
(* is what NextPCReg, LoadReg and LoadValueReg are for.                    *)
CONSTANTS ShiftBits, JumpBits      \* 5 and 26 in the code

ASSUME MipsAssumption ==
  /\ ShiftBits \in Nat /\ 2^ShiftBits = WordBits
  /\ JumpBits \in Nat /\ JumpBits + 2 < WordBits

ImmBits == 2 * ByteBits

(* Instruction::Decode with opTable and specialTable: the format says what *)
(* "extra" is, a signed immediate, a shift amount or a jump target.        *)
Loads == {"LB", "LBU", "LH", "LHU", "LW"}
Stores == {"SB", "SH", "SW"}
Unaligned == {"LWL", "LWR", "SWL", "SWR"}
Branches == {"BEQ", "BNE", "BLEZ", "BGTZ", "BLTZ", "BGEZ", "BLTZAL", "BGEZAL"}
Immediates == {"ADDI", "ADDIU", "SLTI", "SLTIU", "ANDI", "ORI", "XORI", "LUI"}
Results == {"SLL", "SRL", "SRA", "SLLV", "SRLV", "SRAV", "ADD", "ADDU", "SUB", "SUBU",
            "AND", "OR", "XOR", "NOR", "SLT", "SLTU", "MFHI", "MFLO"}
HiLoOps == {"MTHI", "MTLO", "MULT", "MULTU", "DIV", "DIVU"}
Illegal == {"RES", "UNIMP"}
IFormat == Loads \cup Stores \cup Unaligned \cup Branches \cup Immediates \cup Illegal
RFormat == Results \cup HiLoOps \cup {"JR", "JALR", "SYSCALL"}
JFormat == {"J", "JAL"}

Decoded(ops, extras) == [op : ops, rs : GPReg, rt : GPReg, rd : GPReg, extra : extras]
Instruction == Decoded(IFormat, -(2^(ImmBits - 1)) .. 2^(ImmBits - 1) - 1)
               \cup Decoded(RFormat, 0 .. 2^ShiftBits - 1)
               \cup Decoded(JFormat, 0 .. 2^JumpBits - 1)

----------------------------------------------------------------------------
(* Results that go into a register at once.                                *)
Bits(x) == {k \in 0 .. WordBits - 1 : (x \div 2^k) % 2 = 1}
OfBits(set) == Word(MapThenSumSet(LAMBDA k : 2^k, set))
BitAnd(a, b) == OfBits(Bits(a) \cap Bits(b))
BitOr(a, b) == OfBits(Bits(a) \cup Bits(b))
BitXor(a, b) == OfBits((Bits(a) \cup Bits(b)) \ (Bits(a) \cap Bits(b)))
Flag(condition) == IF condition THEN 1 ELSE 0

(* SRL and SRLV shift a signed int, so they copy the sign as SRA does.     *)
ResultOf(i, rs, rt, r) ==
  LET imm == i.extra % 2^ImmBits
      count == IF i.op \in {"SLL", "SRL", "SRA"} THEN i.extra ELSE rs % 2^ShiftBits
  IN  CASE i.op \in {"ADD", "ADDU"} -> rs + rt
        [] i.op \in {"ADDI", "ADDIU"} -> rs + i.extra
        [] i.op \in {"SUB", "SUBU"} -> rs - rt
        [] i.op = "AND" -> BitAnd(rs, rt)
        [] i.op = "ANDI" -> BitAnd(rs, imm)
        [] i.op = "OR" -> BitOr(rs, rt)
        [] i.op = "ORI" -> BitOr(rs, imm)
        [] i.op = "XOR" -> BitXor(rs, rt)
        [] i.op = "XORI" -> BitXor(rs, imm)
        [] i.op = "NOR" -> -1 - BitOr(rs, rt)
        [] i.op = "LUI" -> i.extra * 2^ImmBits
        [] i.op \in {"SLL", "SLLV"} -> rt * 2^count
        [] i.op \in {"SRA", "SRAV", "SRL", "SRLV"} -> rt \div 2^count
        [] i.op = "SLT" -> Flag(rs < rt)
        [] i.op = "SLTI" -> Flag(rs < i.extra)
        [] i.op = "SLTU" -> Flag(Unsigned(rs) < Unsigned(rt))
        [] i.op = "SLTIU" -> Flag(Unsigned(rs) < Unsigned(i.extra))
        [] i.op = "MFHI" -> r[HiReg]
        [] i.op = "MFLO" -> r[LoReg]

(* Overflow is recognised by the signs of the operands and of the result   *)
(* (a faulty test for SUB is the one for ADD).                             *)
SameSign(a, b) == (a < 0) <=> (b < 0)
OverflowsAsSum(i, rs, rt) ==
  LET b == IF i.op = "ADDI" THEN i.extra ELSE rt
  IN  i.op \in {"ADD", "ADDI", "SUB"} /\ SameSign(rs, b) /\ ~SameSign(b, Word(rs + b))
Overflows(i, rs, rt) ==
  \/ i.op = "ADD" /\ SameSign(rs, rt) /\ ~SameSign(rs, Word(rs + rt))
  \/ i.op = "ADDI" /\ SameSign(rs, i.extra) /\ ~SameSign(i.extra, Word(rs + i.extra))
  \/ i.op = "SUB" /\ ~SameSign(rs, rt) /\ ~SameSign(rs, Word(rs - rt))

----------------------------------------------------------------------------
(* Mult: one addition for each bit of a, in two unsigned words with the    *)
(* carry between them found by comparison.  The early exit of the loop     *)
(* skips turns that would add nothing.                                     *)
MultStep(s, k) ==
  LET lo == Unsigned(s.lo + s.bLo)
      sum == [s EXCEPT !.lo = lo,
                       !.hi = Unsigned(@ + Flag(lo < s.bLo) + s.bHi)]
      t == IF s.a % 2 = 1 THEN sum ELSE s
  IN  [t EXCEPT !.bHi = Unsigned(2 * @ + s.bLo \div 2^(WordBits - 1)),
                !.bLo = Unsigned(2 * @),
                !.a = @ \div 2]

Mult(a, b, signedArith) ==
  LET negative == signedArith /\ ~SameSign(a, b)
      magnitude(x) == IF signedArith /\ x < 0 THEN Word(-x) ELSE x
      p == FoldLeft(MultStep,
                    [a |-> magnitude(a), bLo |-> Unsigned(magnitude(b)), bHi |-> 0,
                     hi |-> 0, lo |-> 0],
                    [k \in 1 .. WordBits |-> k])
      lo == Unsigned(-p.lo)
  IN  IF a = 0 \/ b = 0 THEN <<0, 0>>
      ELSE IF negative THEN <<Word(-1 - p.hi + Flag(lo = 0)), Word(lo)>>
      ELSE <<Word(p.hi), Word(p.lo)>>

(* Division truncates towards zero; dividing by zero gives zero twice.     *)
Truncated(a, b) ==
  LET abs(x) == IF x < 0 THEN -x ELSE x
      q == abs(a) \div abs(b)
  IN  IF SameSign(a, b) THEN q ELSE -q
Divided(a, b) == IF b = 0 THEN <<0, 0>>
                 ELSE <<Word(a - b * Truncated(a, b)), Word(Truncated(a, b))>>

HiLo(i, rs, rt, r) ==
  CASE i.op = "MTHI" -> <<rs, r[LoReg]>>
    [] i.op = "MTLO" -> <<r[HiReg], rs>>
    [] i.op = "MULT" -> Mult(rs, rt, TRUE)
    [] i.op = "MULTU" -> Mult(rs, rt, FALSE)
    [] i.op = "DIV" -> Divided(rs, rt)
    [] i.op = "DIVU" -> Divided(Unsigned(rs), Unsigned(rt))

----------------------------------------------------------------------------
(* The end of OneInstruction: the load of the instruction before takes     *)
(* effect, that of this one becomes the next, and the counters move on.    *)
Complete(m, nextLoadReg, nextLoadValue, pcAfter) ==
  LET r == DelayedLoad(m.registers, nextLoadReg, nextLoadValue)
  IN  [m EXCEPT !.registers = [r EXCEPT ![PrevPCReg] = r[PCReg],
                                        ![PCReg] = r[NextPCReg],
                                        ![NextPCReg] = pcAfter]]

Sequential(m) == Word(m.registers[NextPCReg] + 4)
Done(m) == Complete(m, 0, 0, Sequential(m))

Compute(m, i) ==
  LET r == m.registers
      rd == IF i.op \in Immediates THEN i.rt ELSE i.rd
  IN  IF Overflows(i, r[i.rs], r[i.rt])
      THEN RaiseException(m, "Overflow", 0)
      ELSE Done([m EXCEPT !.registers[rd] = Word(ResultOf(i, r[i.rs], r[i.rt], r))])

(* DIV of the smallest integer by -1 is a signal of the host that ends the *)
(* simulator.                                                              *)
ComputeHiLo(m, i) ==
  LET r == m.registers
      hiLo == HiLo(i, r[i.rs], r[i.rt], r)
  IN  IF i.op = "DIV" /\ r[i.rt] = -1 /\ r[i.rs] = -(2^(WordBits - 1))
      THEN [m EXCEPT !.trap = "SIGFPE"]
      ELSE Done([m EXCEPT !.registers[HiReg] = hiLo[1], !.registers[LoReg] = hiLo[2]])

(* The link is stored before the condition or the target is read.          *)
Linked(m, i) ==
  LET link == IF i.op = "JALR" THEN i.rd ELSE 31
  IN  IF i.op \in {"BLTZAL", "BGEZAL", "JAL", "JALR"}
      THEN [m EXCEPT !.registers[link] = Sequential(m)] ELSE m

Taken(i, rs, rt) ==
  CASE i.op = "BEQ" -> rs = rt
    [] i.op = "BNE" -> rs # rt
    [] i.op \in {"BGEZ", "BGEZAL"} -> rs >= 0
    [] i.op \in {"BLTZ", "BLTZAL"} -> rs < 0
    [] i.op = "BGTZ" -> rs > 0
    [] i.op = "BLEZ" -> rs <= 0

Branch(m, i) ==
  LET r == Linked(m, i).registers
  IN  Complete(Linked(m, i), 0, 0,
               IF Taken(i, r[i.rs], r[i.rt]) THEN Word(r[NextPCReg] + 4 * i.extra)
                                             ELSE Sequential(m))

(* J and JAL stay in the region of memory of the instruction after them.   *)
Jump(m, i) ==
  LET region == 2^(JumpBits + 2)
  IN  Complete(Linked(m, i), 0, 0,
               IF i.op \in JFormat
               THEN Word((Unsigned(Sequential(m)) \div region) * region + 4 * i.extra)
               ELSE Linked(m, i).registers[i.rs])

----------------------------------------------------------------------------
Address(m, i) == Word(m.registers[i.rs] + i.extra)
Size(i) == CASE i.op \in {"LB", "LBU", "SB"} -> 1
             [] i.op \in {"LH", "LHU", "SH"} -> 2
             [] i.op \in {"LW", "SW"} -> 4

(* LH and LW test the alignment themselves, as Translate would.            *)
LoadRead(read, i) ==
  LET bits == ByteBits * Size(i)
  IN  IF read.m.trap # "None" THEN read.m
      ELSE Complete(read.m, i.rt,
                    IF i.op \in {"LBU", "LHU"} THEN read.value % 2^bits
                                               ELSE SignExtend(read.value, bits),
                    Sequential(read.m))
Load(m, i) == LoadRead(ReadMem(m, Address(m, i), Size(i)), i)

Stored(m) == IF m.trap # "None" THEN m ELSE Done(m)
Store(m, i) == Stored(WriteMem(m, Address(m, i), Size(i), m.registers[i.rt]))

(* The two halves of an unaligned access: a word whose upper part comes    *)
(* from the lower part of another, and the other way round.                *)
UpperFrom(old, new, bits) == Word((old % 2^bits) + new * 2^bits)
LowerFrom(old, new, bits) ==
  LET kept == 2^(WordBits - bits)
  IN  Word((Unsigned(old) \div kept) * kept + Unsigned(new) \div 2^bits)

(* LWL and LWR merge with the load still pending for their register (a     *)
(* faulty one takes the register itself).                                  *)
NotForwarded(m, i) == m.registers[i.rt]
Forwarded(m, i) ==
  IF m.registers[LoadReg] = i.rt THEN m.registers[LoadValueReg] ELSE m.registers[i.rt]

Half(i, old, new, byte) ==
  CASE i.op \in {"LWL", "SWR"} ->
         UpperFrom(old, new, ByteBits * (IF i.op = "LWL" THEN 3 - byte ELSE byte))
    [] i.op \in {"LWR", "SWL"} ->
         LowerFrom(old, new, ByteBits * (IF i.op = "LWR" THEN byte ELSE 3 - byte))

HalfRead(read, i, byte) ==
  IF read.m.trap # "None" THEN read.m
  ELSE Complete(read.m, i.rt, Half(i, Forwarded(read.m, i), read.value, byte),
                Sequential(read.m))
LoadHalf(m, i) ==
  LET byte == Address(m, i) % 4
  IN  HalfRead(ReadMem(m, Address(m, i) - byte, 4), i, byte)

HalfWritten(read, i, addr, byte) ==
  IF read.m.trap # "None" THEN read.m
  ELSE Stored(WriteMem(read.m, addr, 4,
                        Half(i, read.value, read.m.registers[i.rt], byte)))
StoreHalf(m, i) ==
  LET byte == Address(m, i) % 4
  IN  HalfWritten(ReadMem(m, Address(m, i) - byte, 4), i, Address(m, i) - byte, byte)

----------------------------------------------------------------------------
(* Machine::OneInstruction                                                 *)
Execute(m, i) ==
  CASE i.op \in Immediates \cup Results -> Compute(m, i)
    [] i.op \in HiLoOps -> ComputeHiLo(m, i)
    [] i.op \in Branches -> Branch(m, i)
    [] i.op \in JFormat \cup {"JR", "JALR"} -> Jump(m, i)
    [] i.op \in Loads -> Load(m, i)
    [] i.op \in Stores -> Store(m, i)
    [] i.op \in {"LWL", "LWR"} -> LoadHalf(m, i)
    [] i.op \in {"SWL", "SWR"} -> StoreHalf(m, i)
    [] i.op = "SYSCALL" -> RaiseException(m, "Syscall", 0)
    [] i.op \in Illegal -> RaiseException(m, "IllegalInstr", 0)

Fetched(read, i) == IF read.m.trap # "None" THEN read.m ELSE Execute(read.m, i)
OneInstruction(m, i) == Fetched(ReadMem(m, m.registers[PCReg], 4), i)

(* IncreasePC of the kernel: the instruction that trapped is skipped.      *)
IncreasePC(m) ==
  LET pc == m.registers[PCReg]
  IN  [m EXCEPT !.trap = "None", !.registers[PrevPCReg] = pc,
                !.registers[PCReg] = Word(pc + 4), !.registers[NextPCReg] = Word(pc + 8)]
=============================================================================
