------------------------------ MODULE AddrSpace -----------------------------
(* From an object file to a running program: coff2noff/coff2noff.c, which  *)
(* turns the sections of a COFF file into the segments of a NOFF file, and *)
(* AddrSpace (userprog/addrspace.cc), which loads the segments into memory *)
(* and sets up page table and registers.                                   *)
EXTENDS Mips

CONSTANTS UserStackSize,     \* 1024 in the code
          StackMargin,       \* 16 in the code
          StackReg,          \* 29 in the code
          NOFFMAGIC          \* 0xbadfad in the code

(* The bytes of a word in opposite order.                                  *)
Swapped(word) ==
  MapThenSumSet(LAMBDA k : ((word \div 2^(ByteBits * k)) % 2^ByteBits) * 2^(ByteBits * (3 - k)),
                0 .. 3)

ASSUME AddrSpaceAssumption ==
  /\ UserStackSize \in Nat /\ StackMargin \in 0 .. UserStackSize
  /\ StackReg \in GPReg \ {0}
  /\ NOFFMAGIC \in 0 .. 2^WordBits - 1 /\ NOFFMAGIC # Swapped(NOFFMAGIC)

(* A section of a COFF file: its name, its address and its bytes, of which *)
(* only the number counts for .bss.                                        *)
Section == [name : {".text", ".rdata", ".data", ".bss", ".sbss"},
            paddr : Nat, contents : Seq(0 .. 2^ByteBits - 1)]

(* The hosts that convert and that run the program need not be of the same *)
(* byte order, "big" or little; words of both files are little-endian.     *)
WordToHost(big, word) == IF big THEN Swapped(word) ELSE word

(* What a host finds in a word that it reads from a file byte by byte, or  *)
(* leaves there when it writes one.                                        *)
Transferred(big, word) == IF big THEN Swapped(word) ELSE word

Words == {"virtualAddr", "inFileAddr", "size"}
Segments == {"code", "readonlyData", "initData", "uninitData"}
EachWord(noff, Op(_)) ==
  [f \in DOMAIN noff |-> CASE f = "noffMagic" -> Op(noff[f])
                           [] f \in Segments -> [w \in Words |-> Op(noff[f][w])]
                           [] OTHER -> noff[f]]
SwapHeader(big, noff) == EachWord(noff, LAMBDA word : WordToHost(big, word))
Copied(big, noff) == EachWord(noff, LAMBDA word : Transferred(big, word))

NoSegment == [virtualAddr |-> 0, inFileAddr |-> 0, size |-> 0]
EmptyNoff == [noffMagic |-> NOFFMAGIC, code |-> NoSegment, readonlyData |-> NoSegment, initData |-> NoSegment,
              uninitData |-> NoSegment, body |-> <<>>, ok |-> TRUE]

(* A section with contents is appended to the body of the file.            *)
CopyIn(noff, segment, s) ==
  [noff EXCEPT ![segment] = [virtualAddr |-> s.paddr, inFileAddr |-> Len(noff.body),
                             size |-> Len(s.contents)],
               !.body = @ \o s.contents]

(* Two .bss sections: it is the adjacent ones that are refused.            *)
AddBss(noff, s) ==
  LET old == noff.uninitData
  IN  IF old.size = 0
      THEN [noff EXCEPT !.uninitData = [NoSegment EXCEPT !.virtualAddr = s.paddr,
                                                         !.size = Len(s.contents)]]
      ELSE [noff EXCEPT !.ok = s.paddr # old.virtualAddr + old.size,
                        !.uninitData.size = @ + Len(s.contents)]

ConvertSection(noff, s) ==
  CASE ~noff.ok \/ s.contents = <<>> -> noff
    [] noff.ok /\ s.contents # <<>> ->
         CASE s.name = ".text" -> CopyIn(noff, "code", s)
           [] s.name = ".rdata" -> CopyIn(noff, "readonlyData", s)
           [] s.name = ".data" -> CopyIn(noff, "initData", s)
           [] s.name = ".bss" -> AddBss(noff, s)
           [] OTHER -> [noff EXCEPT !.ok = FALSE]

(* main of coff2noff: the section headers are read, the header is written  *)
(* little-endian; a file that is not "ok" is removed again.                *)
ReadSection(big, s) == [s EXCEPT !.paddr = WordToHost(big, Transferred(big, @))]
WriteHeader(big, noff) == Copied(big, SwapHeader(big, noff))
Coff2Noff(big, sections) ==
  WriteHeader(big, FoldLeft(LAMBDA noff, s : ConvertSection(noff, ReadSection(big, s)),
                            EmptyNoff, sections))

----------------------------------------------------------------------------
(* Machine::Machine                                                        *)
PowerOn == [registers |-> [r \in Register |-> 0],
            mainMemory |-> [a \in 0 .. MemorySize - 1 |-> 0],
            tlb |-> FALSE, table |-> <<>>, trap |-> "None"]

(* AddrSpace::AddrSpace: virtual page = physical page, memory is zeroed.   *)
Identity(i) == [virtualPage |-> i, physicalPage |-> i, valid |-> TRUE,
                readOnly |-> FALSE, use |-> FALSE, dirty |-> FALSE]
Zeroed(m) == [m EXCEPT !.mainMemory = [a \in DOMAIN @ |-> 0]]

(* AddrSpace::Load: the header as this host understands it, if it does,    *)
LoadHeader(big, file) ==
  LET noff == Copied(big, file)
  IN  IF noff.noffMagic # NOFFMAGIC /\ WordToHost(big, noff.noffMagic) = NOFFMAGIC
      THEN SwapHeader(big, noff) ELSE noff

(* ... how many pages the program needs (a faulty one forgets *)
(* the read-only data) and the copy of the segments into memory.           *)
SizeWithoutRdata(noff) ==
  noff.code.size + noff.initData.size + noff.uninitData.size + UserStackSize
SizeInMemory(noff) ==
  noff.code.size + noff.readonlyData.size + noff.initData.size + noff.uninitData.size
  + UserStackSize
NumPages(noff) == (SizeInMemory(noff) + PageSize - 1) \div PageSize

CopySegment(memory, body, s) ==
  [a \in DOMAIN memory |->
     IF a \in s.virtualAddr .. s.virtualAddr + s.size - 1
     THEN body[s.inFileAddr + a - s.virtualAddr + 1] ELSE memory[a]]

Loaded(m, noff) ==
  LET withCode == CopySegment(m.mainMemory, noff.body, noff.code)
      withData == CopySegment(withCode, noff.body, noff.initData)
  IN  [m EXCEPT !.mainMemory = CopySegment(withData, noff.body, noff.readonlyData)]

(* AddrSpace::InitRegisters and RestoreState                               *)
InitRegisters(m, numPages) ==
  [m EXCEPT !.registers = [r \in Register |->
     CASE r = NextPCReg -> 4
       [] r = StackReg -> Word(numPages * PageSize - StackMargin)
       [] OTHER -> 0]]
RestoreState(m, numPages) ==
  [m EXCEPT !.table = [i \in 0 .. numPages - 1 |-> Identity(i)]]

(* Load stops the kernel (ASSERT) when the program is too big or no NOFF.  *)
Fits(noff) == noff.ok /\ noff.noffMagic = NOFFMAGIC /\ NumPages(noff) <= NumPhysPages
Execution(m, noff) ==
  RestoreState(InitRegisters(Loaded(Zeroed(m), noff), NumPages(noff)), NumPages(noff))

(* AddrSpace::Translate, a second translation for the kernel's own use,    *)
(* which looks at neither alignment nor the valid bit.  It returns an      *)
(* exception, the address, and the table with its use and dirty marks.     *)
KernelTranslate(m, vaddr, writing) ==
  LET vpn == vaddr \div PageSize
      entry == m.table[vpn]
      Refused(exception) == [exception |-> exception, paddr |-> 0, table |-> m.table]
  IN  IF vpn \notin DOMAIN m.table THEN Refused("AddressError")
      ELSE IF writing /\ entry.readOnly THEN Refused("ReadOnly")
      ELSE IF entry.physicalPage >= NumPhysPages THEN Refused("BusError")
      ELSE [exception |-> "None", paddr |-> entry.physicalPage * PageSize + (vaddr % PageSize),
            table |-> Marked(m.table, vpn, writing)]
=============================================================================
