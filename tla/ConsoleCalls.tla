---------------------------- MODULE ConsoleCalls ----------------------------
(* The system calls for numbers, characters and strings                    *)
(* (userprog/exception.cc, userprog/ksyscall.h) as one user program makes  *)
(* them.  GetChar takes the next character typed and PutChar shows one;    *)
(* how they do so is the matter of SynchConsole.                           *)
(*                                                                         *)
(* Characters are numbered from '0', so a digit is its value.  The code's  *)
(* decimal 32-bit numbers are numbers of IntBits bits in base Base.        *)
EXTENDS Integers, FiniteSets, SequencesExt, FiniteSetsExt

CONSTANTS IntBits, Base,
          MAX_LENGTH_INT,   \* characters of the longest number, with its sign
          BufferLength,     \* size of the program's string buffer
          MaxLine           \* bound on the characters one call reads

ASSUME ConsoleCallsAssumption ==
  /\ IntBits \in Nat \ {0} /\ Base \in Nat \ {0, 1}
  /\ MAX_LENGTH_INT \in Nat \ {0}
  /\ BufferLength \in Nat /\ MaxLine \in Nat

INT_MAX == 2^(IntBits - 1) - 1
INT_MIN == -(2^(IntBits - 1))
Number == INT_MIN .. INT_MAX

Digit == 0 .. Base - 1
Minus == -3
Newline == -38
NUL == -48
Letter == 49
Character == Digit \cup {Minus, Newline, NUL, Letter}

VARIABLES
  memory,     \* the program's string buffer, BufferLength characters
  call,       \* the call in progress: what it has read, the buffer before
  last        \* the call that returned last: argument, input, output, result

callsVars == <<memory, call, last>>

NoCall == [kind |-> "none", line |-> <<>>, before |-> <<>>]
Returned(kind, arg, line, before, shown, result) ==
  [kind |-> kind, arg |-> arg, line |-> line, before |-> before, shown |-> shown,
   result |-> result]
NoReturn == Returned("none", 0, <<>>, <<>>, <<>>, 0)

CallsTypeOK ==
  /\ memory \in [1 .. BufferLength -> Character]
  /\ call.line \in Seq(Character)

----------------------------------------------------------------------------
(* SysReadNum.                                                             *)
Valid(c) == c \in Digit \cup {Minus}

(* The loop ends at a newline, at a character too many or at one that is   *)
(* no part of a number; the very first character must be valid.            *)
Ends(line) ==
  IF Len(line) = 1 THEN ~Valid(line[1])
  ELSE Last(line) = Newline \/ Len(line) > MAX_LENGTH_INT \/ ~Valid(Last(line))

(* "num += digit * pow(10, ...)" is done in floating point; where the sum  *)
(* does not fit, the conversion back to int gives INT_MIN (x86).           *)
ToInt(x) == IF x \in Number THEN x ELSE INT_MIN
Negated(x) == IF x = INT_MIN THEN INT_MIN ELSE -x
Converted(numChar) ==
  LET negative == numChar[1] = Minus
      index == Len(numChar)
      Places == [k \in 1 .. index - (IF negative THEN 1 ELSE 0) |->
                   k + (IF negative THEN 1 ELSE 0)]
      num == FoldLeft(LAMBDA n, i : ToInt(n + numChar[i] * Base^(index - i)), 0, Places)
  IN  IF negative THEN Negated(num) ELSE num

ReadNumResult(line) ==
  IF Last(line) = Newline /\ Len(line) > 1 THEN Converted(Front(line))
  ELSE IF Len(line) > MAX_LENGTH_INT THEN (IF line[1] = Minus THEN INT_MIN ELSE INT_MAX)
  ELSE -1

----------------------------------------------------------------------------
(* SysPrintNum: the digits from the last to the first, then backwards.     *)
(* |INT_MIN| does not fit: it is INT_MAX with its last digit one higher.   *)
(* (A faulty one leaves that last digit as it is.)                         *)
Magnitude(num) == IF num = INT_MIN THEN INT_MAX ELSE IF num < 0 THEN -num ELSE num
DigitsOf(temp) ==
  LET count == Cardinality({k \in 0 .. IntBits : temp >= Base^k})
  IN  [i \in 1 .. count |-> (temp \div Base^(count - i)) % Base]
PlainLast(num, i, n) == 0
Carry(num, i, n) == IF num = INT_MIN /\ i = n THEN 1 ELSE 0
PrintedNum(num) ==
  LET digits == DigitsOf(Magnitude(num))
  IN  (IF num < 0 THEN <<Minus>> ELSE <<>>)
      \o [i \in DOMAIN digits |-> digits[i] + Carry(num, i, Len(digits))]

----------------------------------------------------------------------------
(* Strings between the program and the kernel.  User2System copies up to a *)
(* terminator or the limit into a buffer of zeros; System2User copies back *)
(* up to a terminator, which it copies too.                                *)
CString(chars) ==
  LET ends == {i \in DOMAIN chars : chars[i] = NUL}
  IN  IF ends = {} THEN chars ELSE SubSeq(chars, 1, Min(ends) - 1)

User2System(limit) ==
  LET text == CString(SubSeq(memory, 1, limit))
  IN  [i \in 1 .. limit + 1 |-> IF i <= Len(text) THEN text[i] ELSE NUL]

System2User(buffer) ==
  LET copied == Len(CString(SubSeq(buffer, 1, BufferLength))) + 1
  IN  [i \in 1 .. BufferLength |-> IF i <= copied THEN buffer[i] ELSE memory[i]]

(* The kernel's buffer holds what the program's held before, and what is   *)
(* read is laid over it without a terminator.                              *)
Overwritten(buffer, text) ==
  [i \in DOMAIN buffer |-> IF i <= Len(text) THEN text[i] ELSE buffer[i]]

----------------------------------------------------------------------------
CallsInit ==
  /\ memory \in [1 .. BufferLength -> {NUL, Letter}]
  /\ call = NoCall
  /\ last = NoReturn

Free == call = NoCall /\ last = NoReturn

(* The program takes the result and goes on.                               *)
Resume ==
  /\ last # NoReturn
  /\ last' = NoReturn
  /\ UNCHANGED <<memory, call>>

Return(kind, arg, line, before, shown, result) ==
  /\ call' = NoCall
  /\ last' = Returned(kind, arg, line, before, shown, result)

(* Calls that read nothing.  PrintNum sets no result; the 0 stands for the *)
(* register as it was.                                                     *)
Add(a, b) ==
  /\ Free
  /\ Return("Add", a, <<>>, <<>>, <<>>, ((a + b - INT_MIN) % 2^IntBits) + INT_MIN)
  /\ UNCHANGED memory
PrintNum(num) ==
  /\ Free
  /\ Return("PrintNum", num, <<>>, <<>>, PrintedNum(num), 0)
  /\ UNCHANGED memory
PrintString ==
  /\ Free
  /\ Return("PrintString", 0, <<>>, memory, CString(User2System(BufferLength)), 0)
  /\ UNCHANGED memory
PrintChar(c) ==
  /\ Free
  /\ Return("PrintChar", c, <<>>, <<>>, <<c>>, c)
  /\ UNCHANGED memory
RandomNum ==
  /\ Free
  /\ \E n \in 0 .. INT_MAX : Return("RandomNum", 0, <<>>, <<>>, <<>>, n)
  /\ UNCHANGED memory

(* Calls that read: they start, and then every GetChar is a step.          *)
StartRead(kind) ==
  /\ Free
  /\ call' = [kind |-> kind, line |-> <<>>, before |-> memory]
  /\ UNCHANGED <<memory, last>>

ReadChar(c) ==
  /\ Free
  /\ Return("ReadChar", 0, <<c>>, <<>>, <<>>, c)
  /\ UNCHANGED memory

GetsNumber(c) ==
  LET line == Append(call.line, c)
  IN  /\ call.kind = "ReadNum"
      /\ IF Ends(line) THEN Return("ReadNum", 0, line, <<>>, <<>>, ReadNumResult(line))
         ELSE call' = [call EXCEPT !.line = line] /\ UNCHANGED last
      /\ UNCHANGED memory

(* ReadString, a do-while: the first character is taken whatever it is.    *)
(* MaxLine keeps the line within the kernel's buffer of BufferLength + 1.  *)
StringEnds(line) == Len(line) > 1 /\ Last(line) \in {Newline, NUL}

GetsString(c) ==
  LET line == Append(call.line, c)
  IN  /\ call.kind = "ReadString"
      /\ IF StringEnds(line)
         THEN /\ memory' = System2User(Overwritten(User2System(BufferLength), Front(line)))
              /\ Return("ReadString", 0, line, call.before, <<>>, 0)
         ELSE /\ Len(line) <= MaxLine
              /\ call' = [call EXCEPT !.line = line]
              /\ UNCHANGED <<memory, last>>

OtherCalls ==
  \/ \E a, b \in Number : Add(a, b)
  \/ \E n \in Number : PrintNum(n)
  \/ PrintString \/ RandomNum \/ Resume \/ StartRead("ReadNum")
  \/ \E c \in Character : PrintChar(c) \/ ReadChar(c) \/ GetsNumber(c)
CallsNext == OtherCalls \/ StartRead("ReadString") \/ \E c \in Character : GetsString(c)

CallsSpec == CallsInit /\ [][CallsNext]_callsVars

----------------------------------------------------------------------------
(* What a numeral denotes, by Horner's rule.                               *)
Numeral(text) ==
  LET digits == IF text[1] = Minus THEN Tail(text) ELSE text
  IN  text # <<>> /\ digits # <<>> /\ Range(digits) \subseteq Digit
Denoted(text) ==
  LET Value(digits) == FoldLeft(LAMBDA n, d : n * Base + d, 0, digits)
  IN  IF text[1] = Minus THEN -Value(Tail(text)) ELSE Value(text)

(* A number other than 0 that PrintNum shows is the numeral of its         *)
(* argument, without leading zeros, and ReadNum gives it back when it is   *)
(* typed in again, INT_MIN and INT_MAX included.  ReadNum returns the      *)
(* value of every numeral in range, and -1 for everything else but a       *)
(* number of too many characters.  Left out, because the code does not     *)
(* keep its promise there (README, section 5): PrintNum(0), and what       *)
(* ReadNum makes of a '-' that is not in front of a digit.                 *)
NumbersExact ==
  /\ last.kind = "PrintNum" /\ last.arg # 0 =>
       /\ Numeral(last.shown) /\ Denoted(last.shown) = last.arg
       /\ last.shown[1] # 0
       /\ ReadNumResult(Append(last.shown, Newline)) = last.arg
  /\ last.kind = "ReadNum" =>
       LET text == Front(last.line)
       IN  IF Last(last.line) = Newline /\ text # <<>> /\ Numeral(text)
           THEN Denoted(text) \in Number => last.result = Denoted(text)
           ELSE \/ last.result = -1
                \/ Len(last.line) > MAX_LENGTH_INT
                \/ text = <<Minus>> \/ Minus \in Range(Tail(text))

(* A string read into a buffer replaces as much of the string that was     *)
(* there as was typed (what is left of a longer old one stays), and the    *)
(* program's memory behind its terminator is not touched.  PrintString     *)
(* shows exactly the string in the buffer.                                 *)
StringsExact ==
  /\ CallsTypeOK
  /\ last.kind = "ReadString" =>
       LET text == Front(last.line)
           old == CString(last.before)
           read == CString(text \o SubSeq(old, Len(text) + 1, Len(old)))
       IN  /\ CString(memory) = SubSeq(read, 1, Min({BufferLength, Len(read)}))
           /\ \A i \in 1 .. BufferLength : i > Len(read) + 1 => memory[i] = last.before[i]
  /\ last.kind = "PrintString" => last.shown = CString(last.before)

(* A user program gets its numbers and its strings right.                  *)
CallsExact == NumbersExact /\ StringsExact

-----------------------------------------------------------------------------
(* The handler of system calls as the snapshot code/ has it                *)
(* (code/userprog/exception.cc): the calls of ConsoleCalls before there    *)
(* were files.  The helpers and most branches are those of ConsoleCalls;   *)
(* ReadString is an earlier one, that takes its characters in a do-while   *)
(* and keeps the one that ends the line, and the handler advances the      *)
(* program past whatever brought it in, a fault or an unknown call too.    *)
(* Lines too long for the kernel's buffer, which they would overrun, are   *)
(* left out (MaxLine).                                                     *)
(* SC_ReadString: the loop stores first and tests afterwards, so an empty  *)
(* line ends it.                                                           *)
EndsLine(line) == Last(line) \in {Newline, NUL}

GetsLine(c) ==
  LET line == Append(call.line, c)
  IN  /\ call.kind = "ReadLine"
      /\ IF EndsLine(line)
         THEN /\ memory' = System2User(Overwritten(User2System(BufferLength), line))
              /\ Return("ReadLine", 0, line, call.before, <<>>, 0)
         ELSE /\ Len(line) < MaxLine
              /\ call' = [call EXCEPT !.line = line]
              /\ UNCHANGED <<memory, last>>

(* An unknown call or an exception of the user program: reported, and      *)
(* skipped like a call.                                                    *)
Unexpected ==
  /\ Free
  /\ Return("Unexpected", 0, <<>>, memory, <<>>, 0)
  /\ UNCHANGED memory

(* SC_Halt does not return.                                                *)
SysHalt ==
  /\ Free
  /\ call' = [NoCall EXCEPT !.kind = "Halt"]
  /\ UNCHANGED <<memory, last>>

FirstNext ==
  \/ OtherCalls \/ Unexpected \/ SysHalt
  \/ StartRead("ReadLine") \/ \E c \in Character : GetsLine(c)

----------------------------------------------------------------------------
(* A line read into a buffer with room for it arrives with the newline     *)
(* that ended it, in front of what is left of a longer string that was     *)
(* there; nothing behind that string's terminator is touched, and no call  *)
(* that the handler does not know changes the program's memory.            *)
LinesExact ==
  /\ last.kind = "ReadLine" =>
       LET old == CString(last.before)
           read == CString(last.line \o SubSeq(old, Len(last.line) + 1, Len(old)))
       IN  /\ CString(memory) = SubSeq(read, 1, Min({BufferLength, Len(read)}))
           /\ \A i \in 1 .. BufferLength : i > Len(read) + 1 => memory[i] = last.before[i]
           /\ Range(Front(last.line)) \cap {Newline, NUL} = {}
  /\ last.kind = "Unexpected" => memory = last.before
=============================================================================
