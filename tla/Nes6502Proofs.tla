--------------------------- MODULE Nes6502Proofs ---------------------------
(***************************************************************************)
(* What holds of nes6502.c for every program: TypeOK; that what is pulled  *)
(* from the stack is what was pushed there (PulledIsPushed); that the      *)
(* table and the documented instructions are those of the 6502             *)
(* (Follows6502), and that they make up no flag (NoFlagIsMadeUp).          *)
(*                                                                         *)
(* The first goes operation by operation: each takes registers of their    *)
(* width and a RAM of bytes to such ones (Keeps), whatever address a mode  *)
(* finds, and only branches add to the cycles of the table.  The second    *)
(* needs an invariant of the frames that Remember keeps (Framed): the      *)
(* cells a push fills lie above the stack pointer it leaves, also at the   *)
(* end of the stack, and hold the address or the byte that was kept.       *)
(*                                                                         *)
(* The others compare what an operation does with what the reference in    *)
(* Mos6502 says.  The table agrees with the encoding, by the fields of the *)
(* opcode (TableAgrees); each mode finds the processor's address (Finds)   *)
(* and its operand (Values); each operation changes its target and the     *)
(* cells it pushes only (Effect), takes its cycles (CycleSum) and sets no  *)
(* flag without a reason (FlagsOf).                                        *)
(***************************************************************************)
EXTENDS Nes6502, TLAPS

\* A table of bytes, whichever offsets it has.
IsRam(ram) ==
    /\ DOMAIN ram \subseteq 0 .. RamSize - 1
    /\ \A a \in DOMAIN ram : ram[a] \in Byte

\* The registers keep their width; the cycles are bounded in the invariant.
IsMachine(m) ==
    /\ m \in [A : Byte, X : Byte, Y : Byte, SP : Byte, PC : Word, P : SUBSET Flags, ram : {m.ram}, cycles : Int]
    /\ IsRam(m.ram)

\* An operation takes m to n, and leaves the cycles as they are.
Keeps(m, n) == IsMachine(n) /\ n.cycles = m.cycles

\* What TypeOK says, with the registers together.
IInv ==
    /\ IsMachine(nes) /\ nes.cycles \in 0 .. 8
    /\ nes_loaded_cart \in Carts \cup {NULL}
    /\ phase \in {"on", "running", "astray"}
    /\ phase = "running" => nes_loaded_cart # NULL
    /\ DOMAIN pushed \subseteq Byte

-----------------------------------------------------------------------------
(* Bytes and words *)

\* Ranges by their bounds.
LEMMA Between == \A lo, hi \in Int : \A x : x \in lo .. hi <=> x \in Int /\ lo <= x /\ x <= hi
  OBVIOUS

\* What a byte is.
LEMMA OfByte == \A x : x \in Byte <=> x \in Int /\ 0 <= x /\ x <= 255
<1> DEFINE hi == 255
<1>1. Byte = 0 .. hi /\ hi \in Int
  BY DEF Byte
<1> HIDE DEF hi
<1>2. \A x : x \in Byte <=> x \in Int /\ 0 <= x /\ x <= hi
  BY <1>1
<1> QED
  BY <1>2 DEF hi

\* What a word is.
LEMMA OfWord == \A x : x \in Word <=> x \in Int /\ 0 <= x /\ x <= 65535
<1> DEFINE hi == 65535
<1>1. Word = 0 .. hi /\ hi \in Int
  BY DEF Word
<1> HIDE DEF hi
<1>2. \A x : x \in Word <=> x \in Int /\ 0 <= x /\ x <= hi
  BY <1>1
<1> QED
  BY <1>2 DEF hi

\* A number is its quotient and its remainder.
LEMMA Divided ==
    ASSUME NEW n \in Int, NEW d \in Nat \ {0}
    PROVE  n \div d \in Int /\ n % d \in Int /\ 0 <= n % d /\ n % d < d /\ n = d * (n \div d) + (n % d)
  OBVIOUS

\* What is stored in a register of 8 or of 16 bits fits there.
LEMMA Widths ==
    /\ \A n \in Int : ToByte(n) \in Byte /\ ToWord(n) \in Word
    /\ \A w \in Word : Low(w) \in Byte /\ High(w) \in Byte
<1>1. ASSUME NEW n \in Int PROVE ToByte(n) \in Byte /\ ToWord(n) \in Word
  <2>1. n % 256 \in Int /\ 0 <= n % 256 /\ n % 256 <= 255
    OBVIOUS
  <2>2. n % 65536 \in Int /\ 0 <= n % 65536 /\ n % 65536 <= 65535
    OBVIOUS
  <2>3. ToByte(n) \in Byte
    BY <2>1, OfByte DEF ToByte
  <2> QED
    BY <2>2, <2>3, OfWord DEF ToWord
<1>2. ASSUME NEW w \in Word PROVE Low(w) \in Byte /\ High(w) \in Byte
  <2> DEFINE q == w \div 256
             r == w % 256
  <2>1. w \in Int /\ 0 <= w /\ w <= 65535
    BY OfWord
  <2>2. q \in Int /\ r \in Int /\ 0 <= r /\ r < 256 /\ w = 256 * q + r
    BY <2>1, Divided
  <2>3. Low(w) = r /\ High(w) = q
    BY DEF Low, High
  <2> HIDE DEF q, r
  <2>4. 0 <= q /\ q <= 255
    BY <2>1, <2>2
  <2> QED
    BY <2>2, <2>3, <2>4, OfByte
<1> QED
  BY <1>1, <1>2

\* Bytes are words, words are numbers, and two bytes are a word.
LEMMA Ranges ==
    /\ \A b \in Byte : b \in Word
    /\ \A w \in Word : w \in Nat
    /\ \A a, b \in Byte : a + 256 * b \in Word
<1>1. ASSUME NEW a \in Byte, NEW b \in Byte PROVE a + 256 * b \in Word
  <2>1. a \in Int /\ 0 <= a /\ a <= 255 /\ b \in Int /\ 0 <= b /\ b <= 255
    BY OfByte
  <2>2. a + 256 * b \in Int /\ 0 <= a + 256 * b /\ a + 256 * b <= 65535
    BY <2>1
  <2> QED
    BY <2>2, OfWord
<1> QED
  BY <1>1, OfByte, OfWord

\* The bits of a byte, and the byte of a set of bits.
LEMMA BitsAndBytes ==
    /\ \A b \in Byte : Bits[b] \subseteq 1 .. 8
    /\ \A S \in SUBSET (1 .. 8) : ByteOf[S] \in Byte
<1>1. ASSUME NEW b \in Byte PROVE Bits[b] \subseteq 1 .. 8
  BY DEF Bits
<1>2. ASSUME NEW S \in SUBSET (1 .. 8) PROVE ByteOf[S] \in Byte
  <2>1. /\ Weight(S, 1) \in {0, 1} /\ Weight(S, 2) \in {0, 2} /\ Weight(S, 3) \in {0, 4}
        /\ Weight(S, 4) \in {0, 8} /\ Weight(S, 5) \in {0, 16} /\ Weight(S, 6) \in {0, 32}
        /\ Weight(S, 7) \in {0, 64} /\ Weight(S, 8) \in {0, 128}
    BY DEF Weight, Weights
  <2>2. ByteOf[S] = Weight(S, 1) + Weight(S, 2) + Weight(S, 3) + Weight(S, 4)
                  + Weight(S, 5) + Weight(S, 6) + Weight(S, 7) + Weight(S, 8)
    BY DEF ByteOf
  <2> QED
    BY <2>1, <2>2, OfByte
<1> QED
  BY <1>1, <1>2

\* The operators that work bit by bit give bytes.
LEMMA Bitwise8 ==
    ASSUME NEW a \in Byte, NEW b \in Byte
    PROVE  BitAnd(a, b) \in Byte /\ BitOr(a, b) \in Byte /\ BitXor(a, b) \in Byte
<1>1. Bits[a] \subseteq 1 .. 8 /\ Bits[b] \subseteq 1 .. 8
  BY BitsAndBytes
<1>2. /\ Bits[a] \cap Bits[b] \in SUBSET (1 .. 8) /\ Bits[a] \cup Bits[b] \in SUBSET (1 .. 8)
      /\ (Bits[a] \ Bits[b]) \cup (Bits[b] \ Bits[a]) \in SUBSET (1 .. 8)
  BY <1>1
<1> QED
  BY <1>2, BitsAndBytes DEF BitAnd, BitOr, BitXor

\* The flags, and the byte they are pushed as.
LEMMA Status ==
    /\ Flags = {"C", "Z", "I", "D", "B", "U", "V", "N"}
    /\ \A P \in SUBSET Flags : StatusByte(P) \in Byte
    /\ \A b : StatusOf(b) \subseteq Flags
<1>1. Flags = {"C", "Z", "I", "D", "B", "U", "V", "N"}
  BY DEF Flags, FlagBit
<1>2. \A f \in Flags : FlagBit[f] \in 1 .. 8
  BY <1>1 DEF FlagBit
<1>3. ASSUME NEW P \in SUBSET Flags PROVE StatusByte(P) \in Byte
  <2>1. {FlagBit[f] : f \in P} \in SUBSET (1 .. 8)
    BY <1>2
  <2> QED
    BY <2>1, BitsAndBytes DEF StatusByte
<1> QED
  BY <1>1, <1>3 DEF StatusOf

-----------------------------------------------------------------------------
(* The bus *)

\* The RAM has a size.
LEMMA Sizes == RamSize \in Nat \ {0}
  BY DEF RamSize

\* A read gives a byte, whatever the address.
LEMMA ReadsByte ==
    ASSUME nes_loaded_cart \in Carts, NEW ram, IsRam(ram), NEW a \in Nat
    PROVE  nes_cpu_read(ram, a) \in Byte
<1> DEFINE at == a % RamSize
<1>1. at \in 0 .. RamSize - 1
  BY Sizes
<1> HIDE DEF at
<1>2. Leftover[at] \in Byte
  BY <1>1, Nes6502Assumption
<1>3. 0 \in Byte
  BY OfByte
<1>4. nes_mapper_zero_read(a) \in Byte
  BY <1>3, Nes6502Assumption DEF nes_mapper_zero_read
<1> QED
  BY <1>2, <1>3, <1>4 DEF nes_cpu_read, nes_cpu_ppu_read, at, IsRam

\* Two bytes read are a word.
LEMMA ReadsWord ==
    ASSUME nes_loaded_cart \in Carts, NEW ram, IsRam(ram), NEW a \in Nat, NEW b \in Nat
    PROVE  nes_cpu_read(ram, a) + \h100 * nes_cpu_read(ram, b) \in Word
  BY ReadsByte, Ranges

\* A write leaves bytes, and none outside the RAM.
LEMMA WritesByte ==
    ASSUME NEW ram, IsRam(ram), NEW a \in Nat, NEW b \in Byte
    PROVE  IsRam(nes_cpu_write(ram, a, b))
<1>1. a % RamSize \in 0 .. RamSize - 1
  BY Sizes
<1>2. IsRam(Put(ram, a % RamSize, b))
  BY <1>1 DEF IsRam, Put
<1> QED
  BY <1>2 DEF nes_cpu_write, nes_cpu_ppu_write

-----------------------------------------------------------------------------
(* Registers *)

\* A register is set to a value of its width, and nothing else changes.
LEMMA SetByte ==
    ASSUME NEW m, IsMachine(m), NEW r \in {"A", "X", "Y", "SP"}, NEW b \in Byte
    PROVE  Keeps(m, [m EXCEPT ![r] = b]) /\ [m EXCEPT ![r] = b].ram = m.ram
  BY DEF IsMachine, Keeps

LEMMA SetPC ==
    ASSUME NEW m, IsMachine(m), NEW w \in Word
    PROVE  Keeps(m, [m EXCEPT !.PC = w])
  BY DEF IsMachine, Keeps

LEMMA SetFlags ==
    ASSUME NEW m, IsMachine(m), NEW P \in SUBSET Flags
    PROVE  Keeps(m, [m EXCEPT !.P = P])
  BY DEF IsMachine, Keeps

LEMMA SetRam ==
    ASSUME NEW m, IsMachine(m), NEW ram, IsRam(ram)
    PROVE  Keeps(m, [m EXCEPT !.ram = ram])
  BY DEF IsMachine, Keeps

LEMMA SetCycles ==
    ASSUME NEW m, IsMachine(m), NEW n \in Int
    PROVE  IsMachine([m EXCEPT !.cycles = n]) /\ [m EXCEPT !.cycles = n].cycles = n
  BY DEF IsMachine

\* Setting a flag, or clearing all others.
LEMMA SetFlag ==
    ASSUME NEW m, IsMachine(m), NEW f \in Flags, NEW on
    PROVE  Keeps(m, nes_setflag(m, f, on))
<1> DEFINE P == IF on THEN m.P \cup {f} ELSE m.P \cap {f}
<1>1. P \in SUBSET Flags
  BY DEF IsMachine
<1>2. nes_setflag(m, f, on) = [m EXCEPT !.P = P]
  BY DEF nes_setflag
<1> HIDE DEF P
<1> QED
  BY <1>1, <1>2, SetFlags

-----------------------------------------------------------------------------
(* The stack *)

\* The registers of a machine, each of its width.
LEMMA Registers ==
    ASSUME NEW m, IsMachine(m)
    PROVE  /\ m.A \in Byte /\ m.X \in Byte /\ m.Y \in Byte /\ m.SP \in Byte /\ m.PC \in Word
           /\ m.A \in Int /\ m.X \in Int /\ m.Y \in Int /\ m.SP \in Int /\ m.PC \in Int
           /\ m.A \in Nat /\ m.X \in Nat /\ m.Y \in Nat /\ m.SP \in Nat /\ m.PC \in Nat
           /\ m.P \in SUBSET Flags /\ m.cycles \in Int /\ IsRam(m.ram)
  BY Ranges DEF IsMachine

\* Setters one after the other.
LEMMA KeepsOn ==
    ASSUME NEW m, NEW n, NEW o, Keeps(m, n), Keeps(n, o)
    PROVE  Keeps(m, o)
  BY DEF Keeps

\* A push stores a byte and moves the stack pointer.
LEMMA Pushes ==
    ASSUME NEW m, IsMachine(m), NEW b \in Byte
    PROVE  Keeps(m, Push(m, b))
<1> DEFINE ram == nes_cpu_write(m.ram, m.SP, b)
           sp == ToByte(m.SP - 1)
<1>1. IsRam(ram) /\ sp \in Byte
  BY Registers, Widths, WritesByte
<1>2. Push(m, b) = [m EXCEPT !.ram = ram, !.SP = sp]
  BY DEF Push
<1> HIDE DEF ram, sp
<1> QED
  BY <1>1, <1>2 DEF IsMachine, Keeps

\* A word is pushed as two bytes.
LEMMA PushesWord ==
    ASSUME NEW m, IsMachine(m), NEW w \in Word
    PROVE  Keeps(m, PushWord(m, w))
<1>1. High(w) \in Byte /\ Low(w) \in Byte
  BY Widths
<1>2. Keeps(m, Push(m, High(w)))
  BY <1>1, Pushes
<1>3. Keeps(Push(m, High(w)), PushWord(m, w))
  BY <1>1, <1>2, Pushes DEF PushWord, Keeps
<1> QED
  BY <1>2, <1>3, KeepsOn

\* What lies on the stack are bytes.
LEMMA StackedIsByte ==
    ASSUME nes_loaded_cart \in Carts, NEW m, IsMachine(m), NEW k \in Int
    PROVE  Stacked(m, k) \in Byte
<1>1. m.SP + k \in Int
  BY Registers
<1>2. ToByte(m.SP + k) \in Nat
  BY <1>1, Widths, OfByte
<1> QED
  BY <1>2, Registers, ReadsByte DEF Stacked

\* Both flags of a result.
LEMMA SetsZN ==
    ASSUME NEW m, IsMachine(m), NEW b
    PROVE  Keeps(m, SetZN(m, b)) /\ Keeps(m, SetNZ(m, b))
<1>1. "Z" \in Flags /\ "N" \in Flags
  BY Status
<1>2. Keeps(m, nes_setflag(m, "Z", b = 0)) /\ Keeps(m, nes_setflag(m, "N", IsNegative(b)))
  BY <1>1, SetFlag
<1>3. Keeps(nes_setflag(m, "Z", b = 0), SetZN(m, b)) /\ Keeps(nes_setflag(m, "N", IsNegative(b)), SetNZ(m, b))
  BY <1>1, <1>2, SetFlag DEF SetZN, SetNZ, Keeps
<1> QED
  BY <1>2, <1>3, KeepsOn

-----------------------------------------------------------------------------
(* Addressing modes *)

ModeNames == {"IMP", "IMM", "ZP0", "ZPX", "ZPY", "REL", "ABS", "ABX", "ABY", "IND", "IZX", "IZY"}

\* What an addressing mode finds.
IsFound(at) == at.abs \in Word /\ at.next \in Word

\* Operands are bytes, or words.
LEMMA Operands ==
    ASSUME nes_loaded_cart \in Carts, NEW m, IsMachine(m)
    PROVE  /\ Operand(m) \in Byte /\ Operand(m) \in Nat
           /\ OperandWord(m) \in Word /\ OperandWord(m) \in Nat
<1>1. m.PC \in Nat /\ m.PC + 1 \in Int
  BY Registers
<1>2. ToWord(m.PC + 1) \in Nat
  BY <1>1, Widths, Ranges
<1>3. Operand(m) \in Byte /\ OperandWord(m) \in Word
  BY <1>1, <1>2, Registers, ReadsByte, ReadsWord DEF Operand, OperandWord
<1> QED
  BY <1>3, Ranges

\* An address that is found is a word, and so is the place to go on at.
LEMMA FoundIs ==
    ASSUME NEW m, IsMachine(m), NEW bytes \in Nat, NEW abs \in Word, NEW extra
    PROVE  IsFound(Found(m, bytes, abs, extra))
<1>1. m.PC + bytes \in Int
  BY Registers
<1> QED
  BY <1>1, Widths DEF Found, IsFound

LEMMA IndexedIs ==
    ASSUME NEW m, IsMachine(m), NEW bytes \in Nat, NEW base \in Nat, NEW by \in Nat
    PROVE  IsFound(Indexed(m, bytes, base, by))
<1>1. ToWord(base + by) \in Word
  BY Widths
<1> QED
  BY <1>1, FoundIs DEF Indexed

\* Every mode finds a word.
LEMMA AddressIs ==
    ASSUME nes_loaded_cart \in Carts, NEW m, IsMachine(m), NEW mode \in ModeNames
    PROVE  IsFound(Addressed(mode, m))
<1>1. /\ m.PC \in Word /\ m.PC \in Nat /\ m.X \in Nat /\ m.Y \in Nat /\ IsRam(m.ram)
      /\ Operand(m) \in Byte /\ Operand(m) \in Nat /\ Operand(m) \in Word
      /\ OperandWord(m) \in Word /\ OperandWord(m) \in Nat
  BY Registers, Operands, Ranges
<1>2. CASE mode = "IMP"
  BY <1>1, <1>2, FoundIs DEF Addressed
<1>3. CASE mode = "IMM"
  BY <1>1, <1>3, FoundIs DEF Addressed
<1>4. CASE mode = "ZP0"
  BY <1>1, <1>4, FoundIs DEF Addressed
<1>5. CASE mode = "ZPX"
  <2>1. ToWord(m.PC + m.X) \in Nat
    <3>1. m.PC + m.X \in Int
      BY <1>1
    <3> QED
      BY <3>1, Widths, Ranges
  <2>2. nes_cpu_read(m.ram, ToWord(m.PC + m.X)) \in Word
    BY <1>1, <2>1, ReadsByte, Ranges
  <2>3. Addressed(mode, m) = nes_ZPX(m)
    BY <1>5 DEF Addressed
  <2> QED
    BY <2>2, <2>3, FoundIs DEF nes_ZPX
<1>6. CASE mode = "ZPY"
  <2>1. ToWord(m.PC + m.Y) \in Nat
    <3>1. m.PC + m.Y \in Int
      BY <1>1
    <3> QED
      BY <3>1, Widths, Ranges
  <2>2. nes_cpu_read(m.ram, ToWord(m.PC + m.Y)) \in Word
    BY <1>1, <2>1, ReadsByte, Ranges
  <2>3. Addressed(mode, m) = nes_ZPY(m)
    BY <1>6 DEF Addressed
  <2> QED
    BY <2>2, <2>3, FoundIs DEF nes_ZPY
<1>7. CASE mode = "REL"
  <2> DEFINE rel == IF IsNegative(Operand(m)) THEN Operand(m) + \hFF00 ELSE Operand(m)
  <2>1. rel \in Word
    BY <1>1, OfByte, OfWord
  <2>2. Addressed(mode, m) = Found(m, 1, rel, FALSE)
    BY <1>7 DEF Addressed, nes_REL
  <2> HIDE DEF rel
  <2> QED
    BY <2>1, <2>2, FoundIs
<1>8. CASE mode = "ABS"
  BY <1>1, <1>8, FoundIs DEF Addressed
<1>9. CASE mode = "ABX"
  BY <1>1, <1>9, IndexedIs DEF Addressed
<1>10. CASE mode = "ABY"
  BY <1>1, <1>10, IndexedIs DEF Addressed
<1>11. CASE mode = "IND"
  <2> DEFINE ptr == OperandWord(m)
             hi == IF Low(ptr) = \hFF THEN ptr - \hFF ELSE ptr + 1
  <2>1. ptr \in Nat /\ Low(ptr) \in Int /\ Low(ptr) <= ptr
    <3>1. ptr \in Int /\ 0 <= ptr
      BY <1>1
    <3> HIDE DEF ptr
    <3> DEFINE q == ptr \div 256
               r == ptr % 256
    <3>2. q \in Int /\ r \in Int /\ 0 <= r /\ r < 256 /\ ptr = 256 * q + r
      BY <3>1, Divided
    <3>3. Low(ptr) = r
      BY DEF Low
    <3> HIDE DEF q, r
    <3>4. 0 <= q
      BY <3>1, <3>2
    <3> QED
      BY <3>1, <3>2, <3>3, <3>4
  <2>2. Addressed(mode, m)
          = Found(m, 2, nes_cpu_read(m.ram, ptr) + \h100 * nes_cpu_read(m.ram, hi), FALSE)
    BY <1>11 DEF Addressed, nes_IND
  <2> HIDE DEF ptr
  <2>3. hi \in Nat
    BY <2>1
  <2> HIDE DEF hi
  <2>4. nes_cpu_read(m.ram, ptr) + \h100 * nes_cpu_read(m.ram, hi) \in Word
    BY <1>1, <2>1, <2>3, ReadsWord
  <2> QED
    BY <2>2, <2>4, FoundIs
<1>12. CASE mode = "IZX"
  <2> DEFINE lo == ToByte(Operand(m) + m.X)
             hi == ToWord((Operand(m) + m.X + 1) * \hFF)
  <2>1. lo \in Nat /\ hi \in Nat
    <3>1. Operand(m) + m.X \in Int /\ (Operand(m) + m.X + 1) * \hFF \in Int
      BY <1>1
    <3>2. lo \in Byte /\ hi \in Word
      BY <3>1, Widths
    <3> QED
      BY <3>2, Ranges
  <2>2. Addressed(mode, m)
          = Found(m, 1, nes_cpu_read(m.ram, lo) + \h100 * nes_cpu_read(m.ram, hi), FALSE)
    BY <1>12 DEF Addressed, nes_IZX
  <2> HIDE DEF lo, hi
  <2>3. nes_cpu_read(m.ram, lo) + \h100 * nes_cpu_read(m.ram, hi) \in Word
    BY <1>1, <2>1, ReadsWord
  <2> QED
    BY <2>2, <2>3, FoundIs
<1>13. CASE mode = "IZY"
  <2> DEFINE lo == Operand(m)
             hi == ToByte(Operand(m) + 1)
             base == nes_cpu_read(m.ram, lo) + \h100 * nes_cpu_read(m.ram, hi)
  <2>1. lo \in Nat /\ hi \in Nat
    <3>1. Operand(m) + 1 \in Int
      BY <1>1
    <3>2. hi \in Byte
      BY <3>1, Widths
    <3> QED
      BY <1>1, <3>2, Ranges
  <2>2. Addressed(mode, m) = Indexed(m, 1, base, m.Y)
    BY <1>13 DEF Addressed, nes_IZY
  <2> HIDE DEF lo, hi
  <2>3. base \in Nat
    BY <1>1, <2>1, ReadsWord, Ranges
  <2> HIDE DEF base
  <2> QED
    BY <1>1, <2>2, <2>3, IndexedIs
<1> QED
  BY <1>2, <1>3, <1>4, <1>5, <1>6, <1>7, <1>8, <1>9, <1>10, <1>11, <1>12, <1>13 DEF ModeNames

-----------------------------------------------------------------------------
(* Operations *)

BranchOps == {"BCC", "BCS", "BEQ", "BMI", "BNE", "BPL", "BVC", "BVS"}

OpNames == BranchOps \cup
    {"UDF", "NOP", "BRK", "ADC", "SBC", "AND", "ORA", "EOR", "BIT", "ASL", "LSR", "ROL", "ROR",
     "INC", "DEC", "CMP", "CPX", "CPY", "CLC", "CLD", "CLI", "CLV", "SEC", "SED", "SEI",
     "LDA", "LDX", "LDY", "STA", "STX", "STY", "INX", "INY", "DEX", "DEY", "TAX", "TAY", "TSX",
     "TXA", "TYA", "TXS", "JMP", "JSR", "RTS", "RTI", "PHA", "PHP", "PLA", "PLP"}

\* A register takes a byte, and the flags Z and N go by some byte.
LEMMA Loads ==
    ASSUME NEW m, IsMachine(m), NEW r \in {"A", "X", "Y", "SP"}, NEW b \in Byte, NEW c
    PROVE  Keeps(m, SetZN([m EXCEPT ![r] = b], c)) /\ Keeps(m, SetNZ([m EXCEPT ![r] = b], c))
<1>1. Keeps(m, [m EXCEPT ![r] = b])
  BY SetByte
<1>2. /\ Keeps([m EXCEPT ![r] = b], SetZN([m EXCEPT ![r] = b], c))
      /\ Keeps([m EXCEPT ![r] = b], SetNZ([m EXCEPT ![r] = b], c))
  BY <1>1, SetsZN DEF Keeps
<1> QED
  BY <1>1, <1>2, KeepsOn

\* A byte is stored.
LEMMA StoresByte ==
    ASSUME NEW m, IsMachine(m), NEW a \in Nat, NEW b \in Byte
    PROVE  Keeps(m, [m EXCEPT !.ram = nes_cpu_write(m.ram, a, b)])
<1> DEFINE ram == nes_cpu_write(m.ram, a, b)
<1>1. IsRam(ram)
  BY Registers, WritesByte
<1> HIDE DEF ram
<1>2. Keeps(m, [m EXCEPT !.ram = ram])
  BY <1>1, SetRam
<1> QED
  BY <1>2 DEF ram

\* The result of a shift goes to the accumulator or to memory.
LEMMA PutsBack ==
    ASSUME NEW m, IsMachine(m), NEW mode, NEW a \in Nat, NEW b \in Byte
    PROVE  Keeps(m, PutBack(m, mode, a, b))
<1>1. Keeps(m, [m EXCEPT !.A = b])
  BY SetByte
<1>2. Keeps(m, [m EXCEPT !.ram = nes_cpu_write(m.ram, a, b)])
  BY StoresByte
<1> QED
  BY <1>1, <1>2 DEF PutBack

\* Any number of flags, one after the other.
LEMMA Flag2 ==
    ASSUME NEW m, IsMachine(m), NEW f \in Flags, NEW g \in Flags, NEW a, NEW b
    PROVE  Keeps(m, nes_setflag(nes_setflag(m, f, a), g, b))
<1>1. Keeps(m, nes_setflag(m, f, a))
  BY SetFlag
<1>2. Keeps(nes_setflag(m, f, a), nes_setflag(nes_setflag(m, f, a), g, b))
  BY <1>1, SetFlag DEF Keeps
<1> QED
  BY <1>1, <1>2, KeepsOn

\* BRK: the stack takes the address and the status.
LEMMA OfBRK ==
    ASSUME nes_loaded_cart \in Carts, NEW m, IsMachine(m)
    PROVE  Keeps(m, nes_BRK(m))
<1> DEFINE w == ToWord(m.PC + 1)
           m1 == [m EXCEPT !.PC = ToWord(@ + 1)]
           m2 == nes_setflag(m1, "I", TRUE)
           saved == PushWord(m2, w)
           broke == nes_setflag(saved, "B", TRUE)
           m5 == Push(broke, StatusByte(broke.P))
           m6 == nes_setflag(m5, "B", FALSE)
<1>1. w \in Word
  BY Registers, Widths
<1>2. Keeps(m, m1)
  BY <1>1, SetPC
<1> HIDE DEF w, m1
<1>3. Keeps(m1, m2)
  BY <1>2, SetFlag, Status DEF Keeps
<1> HIDE DEF m2
<1>4. Keeps(m2, saved)
  BY <1>1, <1>3, PushesWord DEF Keeps
<1> HIDE DEF saved
<1>5. Keeps(saved, broke)
  BY <1>4, SetFlag, Status DEF Keeps
<1> HIDE DEF broke
<1>6. Keeps(broke, m5)
  <2>1. IsMachine(broke)
    BY <1>5 DEF Keeps
  <2>2. StatusByte(broke.P) \in Byte
    BY <2>1, Registers, Status
  <2> QED
    BY <2>1, <2>2, Pushes
<1> HIDE DEF m5
<1>7. Keeps(m5, m6)
  BY <1>6, SetFlag, Status DEF Keeps
<1> HIDE DEF m6
<1>8. ReadWord(m, \hFFFE) \in Word
  BY Registers, ReadsWord DEF ReadWord
<1>9. Keeps(m6, [m6 EXCEPT !.PC = ReadWord(m, \hFFFE)])
  BY <1>7, <1>8, SetPC DEF Keeps
<1>10. nes_BRK(m) = [m6 EXCEPT !.PC = ReadWord(m, \hFFFE)]
  BY DEF nes_BRK, m6, m5, broke, saved, m2, m1, w
<1> QED
  BY <1>2, <1>3, <1>4, <1>5, <1>6, <1>7, <1>9, <1>10 DEF Keeps

\* The sum and the difference, as the code has them, with four flags.
LEMMA OfADC ==
    ASSUME NEW m, IsMachine(m), NEW v
    PROVE  Keeps(m, nes_ADC(m, v))
<1> DEFINE on1 == m.A + v + Carry(m) > \hFF
           on3 == ~IsNegative(m.A) \/ IsNegative(v)
           z == nes_setflag(nes_setflag(m, "C", on1), "Z", FALSE)
           on4 == FALSE
           n == nes_setflag(nes_setflag(z, "V", on3), "N", on4)
<1>1. nes_ADC(m, v) = [n EXCEPT !.A = 0]
  BY DEF nes_ADC
<1> HIDE DEF on1, on3, on4
<1>2. Keeps(m, z)
  BY Flag2, Status
<1> HIDE DEF z
<1>3. Keeps(z, n)
  BY <1>2, Flag2, Status DEF Keeps
<1> HIDE DEF n
<1>4. Keeps(n, [n EXCEPT !.A = 0])
  BY <1>3, SetByte, OfByte DEF Keeps
<1> QED
  BY <1>1, <1>2, <1>3, <1>4 DEF Keeps

LEMMA OfSBC ==
    ASSUME NEW m, IsMachine(m), NEW v \in Byte
    PROVE  Keeps(m, nes_SBC(m, v))
<1> DEFINE val == \hFF - v
           temp == m.A + val + Carry(m)
           sign == IsNegative(ToByte(temp))
           on1 == temp > \hFF
           on2 == ToByte(temp) = 0
           on3 == ~(sign <=> IsNegative(m.A)) /\ ~(sign <=> IsNegative(val))
           z == nes_setflag(nes_setflag(m, "C", on1), "Z", on2)
           n == nes_setflag(nes_setflag(z, "V", on3), "N", sign)
           b == ToByte(temp * \hFF)
<1>1. nes_SBC(m, v) = [n EXCEPT !.A = b]
  BY DEF nes_SBC
<1>2. b \in Byte
  <2>1. v \in Int /\ m.A \in Int /\ Carry(m) \in Int
    BY Registers, OfByte DEF Carry
  <2>2. temp * \hFF \in Int
    BY <2>1
  <2> HIDE DEF temp
  <2> QED
    BY <2>2, Widths
<1> HIDE DEF on1, on2, on3, sign, b
<1>3. Keeps(m, z)
  BY Flag2, Status
<1> HIDE DEF z
<1>4. Keeps(z, n)
  BY <1>3, Flag2, Status DEF Keeps
<1> HIDE DEF n
<1>5. Keeps(n, [n EXCEPT !.A = b])
  BY <1>2, <1>4, SetByte DEF Keeps
<1> QED
  BY <1>1, <1>3, <1>4, <1>5 DEF Keeps

\* BIT sets three flags.
LEMMA OfBIT ==
    ASSUME NEW m, IsMachine(m), NEW v
    PROVE  Keeps(m, nes_BIT(m, v))
<1> DEFINE n == nes_setflag(nes_setflag(m, "Z", BitAnd(m.A, v) = 0), "N", IsNegative(v))
<1>1. Keeps(m, n)
  BY Flag2, Status
<1>2. nes_BIT(m, v) = nes_setflag(n, "V", 7 \in Bits[v])
  BY DEF nes_BIT
<1> HIDE DEF n
<1>3. Keeps(n, nes_setflag(n, "V", 7 \in Bits[v]))
  BY <1>1, SetFlag, Status DEF Keeps
<1> QED
  BY <1>1, <1>2, <1>3, KeepsOn

\* A flag, and then those of the result.
LEMMA FlagZN ==
    ASSUME NEW m, IsMachine(m), NEW f \in Flags, NEW on, NEW c
    PROVE  Keeps(m, SetZN(nes_setflag(m, f, on), c)) /\ Keeps(m, nes_setflag(SetZN(m, c), f, on))
<1>1. Keeps(m, nes_setflag(m, f, on)) /\ Keeps(m, SetZN(m, c))
  BY SetFlag, SetsZN
<1>2. Keeps(nes_setflag(m, f, on), SetZN(nes_setflag(m, f, on), c))
  BY <1>1, SetsZN DEF Keeps
<1>3. Keeps(SetZN(m, c), nes_setflag(SetZN(m, c), f, on))
  BY <1>1, SetFlag DEF Keeps
<1> QED
  BY <1>1, <1>2, <1>3, KeepsOn

\* What shifts compute are bytes.
LEMMA ShiftsAreBytes ==
    ASSUME NEW v \in Byte, NEW c \in {0, 1}
    PROVE  /\ ToByte(2 * v) \in Byte /\ ToByte(2 * v + c) \in Byte
           /\ v \div 2 \in Byte /\ \h80 * c + v \div 2 \in Byte
<1> DEFINE q == v \div 2
           r == v % 2
<1>1. v \in Int /\ 0 <= v /\ v <= 255
  BY OfByte
<1>2. q \in Int /\ r \in Int /\ 0 <= r /\ r < 2 /\ v = 2 * q + r
  BY <1>1, Divided
<1>3. 2 * v \in Int /\ 2 * v + c \in Int
  BY <1>1
<1>4. ToByte(2 * v) \in Byte /\ ToByte(2 * v + c) \in Byte
  BY <1>3, Widths
<1> HIDE DEF q, r
<1>5. q \in Int /\ 0 <= q /\ q <= 127
  BY <1>1, <1>2
<1>6. \h80 * c + q \in Int /\ 0 <= \h80 * c + q /\ \h80 * c + q <= 255
  BY <1>5
<1>7. q \in Byte /\ \h80 * c + q \in Byte
  BY <1>5, <1>6, OfByte
<1> QED
  BY <1>4, <1>7 DEF q

\* The shifts.
LEMMA OfShifts ==
    ASSUME NEW m, IsMachine(m), NEW mode, NEW a \in Nat, NEW v \in Byte, nes_temp \in Int
    PROVE  /\ Keeps(m, nes_ASL(m, mode, a, v)) /\ Keeps(m, nes_LSR(m, mode, a, v))
           /\ Keeps(m, nes_ROL(m, mode, a, v)) /\ Keeps(m, nes_ROR(m, mode, a, v))
<1>1. Carry(m) \in {0, 1} /\ "C" \in Flags
  BY Status DEF Carry
<1>2. ASSUME NEW n, Keeps(m, n), NEW b \in Byte
      PROVE  Keeps(m, PutBack(n, mode, a, b))
  <2>1. Keeps(n, PutBack(n, mode, a, b))
    BY <1>2, PutsBack DEF Keeps
  <2> QED
    BY <1>2, <2>1, KeepsOn
<1>3. Keeps(m, nes_ASL(m, mode, a, v))
  <2> DEFINE c == ToByte(2 * v)
             on == v > \h7F
             b == IF mode = "IMP" THEN ToByte(nes_temp) ELSE c
             n == nes_setflag(SetZN(m, c), "C", on)
  <2>1. nes_ASL(m, mode, a, v) = PutBack(n, mode, a, b)
    BY DEF nes_ASL
  <2>2. b \in Byte
    BY <1>1, ShiftsAreBytes, Widths
  <2> HIDE DEF c, on, b
  <2>3. Keeps(m, n)
    BY <1>1, FlagZN
  <2> HIDE DEF n
  <2> QED
    BY <1>2, <2>1, <2>2, <2>3
<1>4. Keeps(m, nes_LSR(m, mode, a, v))
  <2> DEFINE b == v \div 2
             on == v % 2 = 1
             n == SetZN(nes_setflag(m, "C", on), b)
  <2>1. nes_LSR(m, mode, a, v) = PutBack(n, mode, a, b)
    BY DEF nes_LSR
  <2>2. b \in Byte
    BY <1>1, ShiftsAreBytes
  <2> HIDE DEF on, b
  <2>3. Keeps(m, n)
    BY <1>1, FlagZN
  <2> HIDE DEF n
  <2> QED
    BY <1>2, <2>1, <2>2, <2>3
<1>5. Keeps(m, nes_ROL(m, mode, a, v))
  <2> DEFINE b == ToByte(2 * v + Carry(m))
             on == v > \h7F
             n == SetZN(nes_setflag(m, "C", on), b)
  <2>1. nes_ROL(m, mode, a, v) = PutBack(n, mode, a, b)
    BY DEF nes_ROL
  <2>2. b \in Byte
    BY <1>1, ShiftsAreBytes
  <2> HIDE DEF on, b
  <2>3. Keeps(m, n)
    BY <1>1, FlagZN
  <2> HIDE DEF n
  <2> QED
    BY <1>2, <2>1, <2>2, <2>3
<1>6. Keeps(m, nes_ROR(m, mode, a, v))
  <2> DEFINE b == \h80 * Carry(m) + v \div 2
             on == v % 2 = 1
             n == SetZN(nes_setflag(m, "C", on), b)
  <2>1. nes_ROR(m, mode, a, v) = PutBack(n, mode, a, b)
    BY DEF nes_ROR
  <2>2. b \in Byte
    BY <1>1, ShiftsAreBytes
  <2> HIDE DEF on, b
  <2>3. Keeps(m, n)
    BY <1>1, FlagZN
  <2> HIDE DEF n
  <2> QED
    BY <1>2, <2>1, <2>2, <2>3
<1> QED
  BY <1>3, <1>4, <1>5, <1>6

\* INC and DEC store what they computed.
LEMMA OfINC ==
    ASSUME NEW m, IsMachine(m), NEW a \in Nat, NEW v \in Byte, NEW by \in Int
    PROVE  Keeps(m, Increment(m, a, v, by))
<1> DEFINE b == ToByte(v + by)
           n == [m EXCEPT !.ram = nes_cpu_write(m.ram, a, b)]
<1>1. Increment(m, a, v, by) = SetZN(n, b)
  BY DEF Increment
<1>2. v + by \in Int
  BY OfByte
<1>3. b \in Byte
  BY <1>2, Widths
<1> HIDE DEF b
<1>4. Keeps(m, n)
  BY <1>3, StoresByte
<1> HIDE DEF n
<1>5. Keeps(n, SetZN(n, b))
  BY <1>4, SetsZN DEF Keeps
<1> QED
  BY <1>1, <1>4, <1>5, KeepsOn

\* INX, INY, DEX, DEY, and the comparisons.
LEMMA OfIndexes ==
    ASSUME NEW m, IsMachine(m), NEW r \in {"A", "X", "Y"}, NEW v
    PROVE  /\ Keeps(m, IncrementIndex(m, r)) /\ Keeps(m, DecrementIndex(m, r))
           /\ Keeps(m, Compare(m, r, v))
<1>1. m[r] + 1 \in Int /\ m[r] - 1 \in Int
  BY Registers
<1>2. ToByte(m[r] + 1) \in Byte /\ ToByte(m[r] - 1) \in Byte
  BY <1>1, Widths
<1>3. Keeps(m, IncrementIndex(m, r))
  BY <1>2, Loads DEF IncrementIndex
<1>4. Keeps(m, DecrementIndex(m, r))
  BY <1>2, Loads DEF DecrementIndex
<1>5. Keeps(m, Compare(m, r, v))
  <2> DEFINE on == m[r] >= v
             c == ToByte(m[r] - v)
  <2>1. Compare(m, r, v) = SetZN(nes_setflag(m, "C", on), c)
    BY DEF Compare
  <2> HIDE DEF on, c
  <2> QED
    BY <2>1, FlagZN, Status
<1> QED
  BY <1>3, <1>4, <1>5

\* A branch adds at most two cycles.
LEMMA OfBranch ==
    ASSUME NEW m, IsMachine(m), NEW rel \in Word, NEW taken
    PROVE  /\ IsMachine(Branch(m, rel, taken))
           /\ Branch(m, rel, taken).cycles \in m.cycles .. m.cycles + 2
<1> DEFINE to == ToWord(m.PC + rel)
           cost == IF High(to) # High(m.PC) THEN 2 ELSE 1
           n == [m EXCEPT !.PC = to]
<1>1. m.PC + rel \in Int
  BY Registers, Ranges
<1>2. to \in Word
  BY <1>1, Widths
<1>3. Branch(m, rel, taken) = IF taken THEN [m EXCEPT !.PC = to, !.cycles = m.cycles + cost] ELSE m
  BY DEF Branch
<1>4. cost \in {1, 2}
  OBVIOUS
<1> HIDE DEF to, cost
<1>5. Keeps(m, n) /\ m.cycles \in Int
  BY <1>2, SetPC, Registers
<1>6. n.cycles = m.cycles /\ [m EXCEPT !.PC = to, !.cycles = m.cycles + cost] = [n EXCEPT !.cycles = m.cycles + cost]
  BY DEF IsMachine
<1> HIDE DEF n
<1>7. m.cycles + cost \in Int /\ m.cycles + cost \in m.cycles .. m.cycles + 2
  BY <1>4, <1>5
<1>8. /\ IsMachine([n EXCEPT !.cycles = m.cycles + cost])
      /\ [n EXCEPT !.cycles = m.cycles + cost].cycles = m.cycles + cost
  BY <1>5, <1>7, SetCycles DEF Keeps
<1>9. CASE taken
  BY <1>3, <1>6, <1>7, <1>8, <1>9
<1>10. CASE ~taken
  BY <1>3, <1>5, <1>10
<1> QED
  BY <1>9, <1>10

\* Calls and returns.
LEMMA OfJSR ==
    ASSUME NEW m, IsMachine(m), NEW a \in Word
    PROVE  Keeps(m, nes_JSR(m, a))
<1> DEFINE w == ToWord(m.PC - 1)
           n == PushWord(m, w)
<1>1. nes_JSR(m, a) = [n EXCEPT !.PC = a]
  BY DEF nes_JSR
<1>2. m.PC - 1 \in Int
  BY Registers
<1>3. w \in Word
  BY <1>2, Widths
<1> HIDE DEF w
<1>4. Keeps(m, n)
  BY <1>3, PushesWord
<1> HIDE DEF n
<1>5. Keeps(n, [n EXCEPT !.PC = a])
  BY <1>4, SetPC DEF Keeps
<1> QED
  BY <1>1, <1>4, <1>5, KeepsOn

\* The stack pointer goes up, and stays a byte.
LEMMA Pulls ==
    ASSUME NEW m, IsMachine(m), NEW k \in Int
    PROVE  ToByte(m.SP + k) \in Byte
<1>1. m.SP + k \in Int
  BY Registers
<1> QED
  BY <1>1, Widths

LEMMA OfRTS ==
    ASSUME nes_loaded_cart \in Carts, NEW m, IsMachine(m)
    PROVE  Keeps(m, nes_RTS(m))
<1> DEFINE w == ToWord(Stacked(m, 1) + \h100 * Stacked(m, 2) + 1)
           sp == ToByte(m.SP + 2)
<1>1. nes_RTS(m) = [m EXCEPT !.PC = w, !.SP = sp]
  BY DEF nes_RTS
<1>2. Stacked(m, 1) \in Byte /\ Stacked(m, 2) \in Byte
  BY StackedIsByte
<1>3. Stacked(m, 1) + \h100 * Stacked(m, 2) + 1 \in Int
  BY <1>2, OfByte
<1>4. w \in Word /\ sp \in Byte
  BY <1>3, Widths, Pulls
<1> HIDE DEF w, sp
<1> QED
  BY <1>1, <1>4 DEF IsMachine, Keeps

LEMMA OfRTI ==
    ASSUME nes_loaded_cart \in Carts, NEW m, IsMachine(m)
    PROVE  Keeps(m, nes_RTI(m))
<1> DEFINE P == StatusOf(Stacked(m, 1)) \cup {"B", "U"}
           w == Stacked(m, 2) + \h100 * Stacked(m, 3)
           sp == ToByte(m.SP + 3)
<1>1. nes_RTI(m) = [m EXCEPT !.P = P, !.PC = w, !.SP = sp]
  BY DEF nes_RTI
<1>2. Stacked(m, 2) \in Byte /\ Stacked(m, 3) \in Byte
  BY StackedIsByte
<1>3. w \in Word /\ sp \in Byte
  BY <1>2, Ranges, Pulls
<1>4. P \in SUBSET Flags
  BY Status
<1> HIDE DEF P, w, sp
<1> QED
  BY <1>1, <1>3, <1>4 DEF IsMachine, Keeps

\* PHP, PLA and PLP.
LEMMA OfPHP ==
    ASSUME NEW m, IsMachine(m)
    PROVE  Keeps(m, nes_PHP(m))
<1> DEFINE n == Push(m, StatusByte(m.P))
           off == FALSE
<1>1. Keeps(m, n)
  BY Registers, Status, Pushes
<1>2. nes_PHP(m) = nes_setflag(nes_setflag(n, "B", off), "U", off)
  BY DEF nes_PHP
<1> HIDE DEF n, off
<1>3. Keeps(n, nes_setflag(nes_setflag(n, "B", off), "U", off))
  BY <1>1, Flag2, Status DEF Keeps
<1> QED
  BY <1>1, <1>2, <1>3, KeepsOn

LEMMA OfPLA ==
    ASSUME nes_loaded_cart \in Carts, NEW m, IsMachine(m)
    PROVE  Keeps(m, nes_PLA(m))
<1> DEFINE sp == ToByte(m.SP + 1)
           n == [m EXCEPT !.SP = sp]
           b == Stacked(m, 1)
<1>1. nes_PLA(m) = SetZN([n EXCEPT !.A = b], b)
  BY DEF nes_PLA, LoadA
<1>2. sp \in Byte /\ b \in Byte
  BY StackedIsByte, Pulls
<1> HIDE DEF sp, b
<1>3. Keeps(m, n)
  BY <1>2, SetByte
<1> HIDE DEF n
<1>4. Keeps(n, SetZN([n EXCEPT !.A = b], b))
  BY <1>2, <1>3, Loads DEF Keeps
<1> QED
  BY <1>1, <1>3, <1>4, KeepsOn

LEMMA OfPLP ==
    ASSUME NEW m, IsMachine(m)
    PROVE  Keeps(m, nes_PLP(m))
<1> DEFINE P == StatusOf(Stacked(m, 1)) \cup {"U"}
           sp == ToByte(m.SP + 1)
<1>1. nes_PLP(m) = [m EXCEPT !.P = P, !.SP = sp]
  BY DEF nes_PLP
<1>2. P \in SUBSET Flags /\ sp \in Byte
  BY Status, Pulls
<1> HIDE DEF P, sp
<1> QED
  BY <1>1, <1>2 DEF IsMachine, Keeps

LEMMA OfTAX ==
    ASSUME NEW m, IsMachine(m)
    PROVE  Keeps(m, nes_TAX(m))
<1> DEFINE n == [m EXCEPT !.X = m.A]
           on1 == m.A = 0
           on2 == IsNegative(m.A)
<1>1. nes_TAX(m) = nes_setflag(nes_setflag(n, "N", on1), "Z", on2)
  BY DEF nes_TAX
<1>2. Keeps(m, n)
  BY Registers, SetByte
<1> HIDE DEF n, on1, on2
<1>3. Keeps(n, nes_setflag(nes_setflag(n, "N", on1), "Z", on2))
  BY <1>2, Flag2, Status DEF Keeps
<1> QED
  BY <1>1, <1>2, <1>3, KeepsOn

\* What an operation leaves: registers of their width, and at most two cycles
\* more, which only a branch takes.
Operated(m, op, n) ==
    /\ IsMachine(n)
    /\ n.cycles = m.cycles \/ (op \in BranchOps /\ n.cycles \in m.cycles .. m.cycles + 2)

\* The operations on the stack.
LEMMA StackOperations ==
    ASSUME NEW m, NEW mode, mode # "REL", NEW a, NEW v
    PROVE  /\ Operation("JSR", m, mode, a, v) = nes_JSR(m, a)
           /\ Operation("RTS", m, mode, a, v) = nes_RTS(m)
           /\ Operation("RTI", m, mode, a, v) = nes_RTI(m)
           /\ Operation("PHA", m, mode, a, v) = Push(m, m.A)
           /\ Operation("PHP", m, mode, a, v) = nes_PHP(m)
           /\ Operation("PLA", m, mode, a, v) = nes_PLA(m)
           /\ Operation("PLP", m, mode, a, v) = nes_PLP(m)
  BY DEF Operation, Clears, Sets

LEMMA OfOperation ==
    ASSUME nes_loaded_cart \in Carts, NEW m, IsMachine(m), nes_temp \in Int,
           NEW op \in OpNames, NEW mode \in ModeNames, (mode = "REL") <=> (op \in BranchOps),
           NEW a \in Word, NEW v \in Byte
    PROVE  Operated(m, op, Operation(op, m, mode, a, v))
<1> DEFINE n == Operation(op, m, mode, a, v)
<1> SUFFICES ASSUME op \notin BranchOps PROVE Keeps(m, n)
  <2>1. CASE op \notin BranchOps
    BY <2>1 DEF Operated, Keeps
  <2>2. CASE op \in BranchOps
    <3>1. n = Branch(m, a, IsTaken(m, op))
      BY <2>2 DEF Operation, BranchOps, Clears, Sets
    <3> QED
      BY <2>2, <3>1, OfBranch DEF Operated
  <2> QED
    BY <2>1, <2>2
<1>0. /\ mode # "REL" /\ a \in Nat
      /\ m.A \in Byte /\ m.X \in Byte /\ m.Y \in Byte /\ m.SP \in Byte
  BY Ranges, Registers
<1>1. CASE op \in {"UDF", "NOP"}
  <2>1. n = m
    BY <1>0, <1>1 DEF Operation, Clears, Sets
  <2> QED
    BY <2>1 DEF Keeps
<1>2. CASE op \in {"BRK", "ADC", "SBC"}
  <2>1. /\ op = "BRK" => n = nes_BRK(m)
        /\ op = "ADC" => n = nes_ADC(m, v)
        /\ op = "SBC" => n = nes_SBC(m, v)
    BY <1>0 DEF Operation, Clears, Sets
  <2> QED
    BY <1>2, <2>1, OfBRK, OfADC, OfSBC
<1>3. CASE op \in {"AND", "ORA", "EOR", "BIT"}
  <2>1. /\ op = "AND" => n = LoadA(m, BitAnd(m.A, v))
        /\ op = "ORA" => n = LoadA(m, BitOr(m.A, v))
        /\ op = "EOR" => n = nes_EOR(m, v)
        /\ op = "BIT" => n = nes_BIT(m, v)
    BY <1>0 DEF Operation, Clears, Sets
  <2>2. Keeps(m, LoadA(m, BitAnd(m.A, v))) /\ Keeps(m, LoadA(m, BitOr(m.A, v)))
    BY <1>0, Bitwise8, Loads DEF LoadA
  <2>3. Keeps(m, nes_EOR(m, v)) /\ Keeps(m, nes_BIT(m, v))
    BY SetsZN, OfBIT DEF nes_EOR
  <2> QED
    BY <1>3, <2>1, <2>2, <2>3
<1>4. CASE op \in {"ASL", "LSR", "ROL", "ROR"}
  <2>1. /\ op = "ASL" => n = nes_ASL(m, mode, a, v)
        /\ op = "LSR" => n = nes_LSR(m, mode, a, v)
        /\ op = "ROL" => n = nes_ROL(m, mode, a, v)
        /\ op = "ROR" => n = nes_ROR(m, mode, a, v)
    BY <1>0 DEF Operation, Clears, Sets
  <2> QED
    BY <1>0, <1>4, <2>1, OfShifts
<1>5. CASE op \in {"INC", "DEC", "CMP", "CPX", "CPY"}
  <2>1. /\ op = "INC" => n = Increment(m, a, v, 1)
        /\ op = "DEC" => n = Increment(m, a, v, -1)
        /\ op = "CMP" => n = Compare(m, "A", v)
        /\ op = "CPX" => n = Compare(m, "X", v)
        /\ op = "CPY" => n = Compare(m, "Y", v)
    BY <1>0 DEF Operation, Clears, Sets
  <2>2. Keeps(m, Increment(m, a, v, 1)) /\ Keeps(m, Increment(m, a, v, -1))
    BY <1>0, OfINC
  <2> QED
    BY <1>5, <2>1, <2>2, OfIndexes
<1>6. CASE op \in {"CLC", "CLD", "CLI", "CLV", "SEC", "SED", "SEI"}
  <2>1. /\ op \in {"CLC", "CLD", "CLI", "CLV"} => n = nes_setflag(m, Clears[op], FALSE)
        /\ op \in {"SEC", "SED", "SEI"} => n = nes_setflag(m, Sets[op], TRUE)
    BY <1>0 DEF Operation, Clears, Sets
  <2>2. /\ op \in {"CLC", "CLD", "CLI", "CLV"} => Clears[op] \in Flags
        /\ op \in {"SEC", "SED", "SEI"} => Sets[op] \in Flags
    BY Status DEF Clears, Sets
  <2> QED
    BY <1>6, <2>1, <2>2, SetFlag
<1>7. CASE op \in {"LDA", "LDX", "LDY", "TAY", "TSX", "TXA", "TYA", "TXS"}
  <2>1. /\ op = "LDA" => n = LoadA(m, v)
        /\ op = "LDX" => n = Load(m, "X", v)
        /\ op = "LDY" => n = Load(m, "Y", v)
        /\ op = "TAY" => n = Load(m, "Y", m.A)
        /\ op = "TSX" => n = Load(m, "X", m.SP)
        /\ op = "TXA" => n = LoadA(m, m.X)
        /\ op = "TYA" => n = LoadA(m, m.Y)
        /\ op = "TXS" => n = [m EXCEPT !.SP = m.X]
    BY <1>0 DEF Operation, Clears, Sets
  <2>2. ASSUME NEW b \in Byte
        PROVE  Keeps(m, LoadA(m, b)) /\ Keeps(m, Load(m, "X", b)) /\ Keeps(m, Load(m, "Y", b))
    BY Loads DEF LoadA, Load
  <2>3. Keeps(m, [m EXCEPT !.SP = m.X])
    BY <1>0, SetByte
  <2> QED
    BY <1>0, <1>7, <2>1, <2>2, <2>3
<1>8. CASE op \in {"STA", "STX", "STY"}
  <2>1. /\ op = "STA" => n = [m EXCEPT !.ram = nes_cpu_write(m.ram, a, m.A)]
        /\ op = "STX" => n = [m EXCEPT !.ram = nes_cpu_write(m.ram, a, m.X)]
        /\ op = "STY" => n = [m EXCEPT !.ram = nes_cpu_write(m.ram, a, m.Y)]
    BY <1>0 DEF Operation, Clears, Sets, Store
  <2> QED
    BY <1>0, <1>8, <2>1, StoresByte
<1>9. CASE op \in {"INX", "INY", "DEX", "DEY", "TAX", "JMP"}
  <2>1. /\ op = "INX" => n = IncrementIndex(m, "X")
        /\ op = "INY" => n = IncrementIndex(m, "Y")
        /\ op = "DEX" => n = DecrementIndex(m, "X")
        /\ op = "DEY" => n = DecrementIndex(m, "Y")
        /\ op = "TAX" => n = nes_TAX(m)
        /\ op = "JMP" => n = [m EXCEPT !.PC = a]
    BY <1>0 DEF Operation, Clears, Sets
  <2> QED
    BY <1>9, <2>1, OfIndexes, OfTAX, SetPC
<1>10. CASE op \in {"JSR", "RTS", "RTI", "PHA", "PHP", "PLA", "PLP"}
  BY <1>0, <1>10, StackOperations, OfJSR, OfRTS, OfRTI, Pushes, OfPHP, OfPLA, OfPLP
<1> QED
  BY <1>1, <1>2, <1>3, <1>4, <1>5, <1>6, <1>7, <1>8, <1>9, <1>10 DEF OpNames

-----------------------------------------------------------------------------
(* The instruction table *)

Rows == OpNames \X ModeNames \X (2 .. 8)

\* An entry of the table.  Branches, and only they, have the mode REL and take
\* two cycles; calls and jumps name their address.
IsEntry(ins) ==
    /\ ins \in Rows
    /\ (ins[2] = "REL") <=> (ins[1] \in BranchOps)
    /\ ins[1] \in BranchOps => ins[3] = 2
    /\ ins[1] = "JSR" => ins[2] = "ABS"
    /\ ins[1] = "JMP" => ins[2] \in {"ABS", "IND"}

Half == 128

\* Entry by entry: opcodes 0x00 to 0x7F.
LEMMA LowEntries ==
    /\ \A i \in 1 .. Half : IsEntry(LowInstructions[i])
    /\ Len(LowInstructions) = Half /\ LowInstructions \in Seq(Rows)
<1>1. Len(LowInstructions) = Half
  BY SMTT(60) DEF LowInstructions, Half
<1>2. LowInstructions \in Seq(Rows)
  BY SMTT(60) DEF LowInstructions, Rows, OpNames, ModeNames, BranchOps
<1>3. \A i \in 1 .. Half : (LowInstructions[i][2] = "REL") <=> (LowInstructions[i][1] \in BranchOps)
  BY SMTT(60) DEF LowInstructions, BranchOps, Half
<1>4. \A i \in 1 .. Half : LowInstructions[i][1] \in BranchOps => LowInstructions[i][3] = 2
  BY SMTT(60) DEF LowInstructions, BranchOps, Half
<1>5. \A i \in 1 .. Half : LowInstructions[i][1] = "JSR" => LowInstructions[i][2] = "ABS"
  BY SMTT(60) DEF LowInstructions, Half
<1>6. \A i \in 1 .. Half : LowInstructions[i][1] = "JMP" => LowInstructions[i][2] \in {"ABS", "IND"}
  BY SMTT(60) DEF LowInstructions, Half
<1>7. ASSUME NEW i \in 1 .. Half PROVE IsEntry(LowInstructions[i])
  <2>1. LowInstructions[i] \in Rows
    BY <1>1, <1>2
  <2> QED
    BY <1>3, <1>4, <1>5, <1>6, <2>1 DEF IsEntry
<1> QED
  BY <1>1, <1>2, <1>7

\* Opcodes 0x80 to 0xFF.
LEMMA HighEntries ==
    /\ \A i \in 1 .. Half : IsEntry(HighInstructions[i])
    /\ Len(HighInstructions) = Half /\ HighInstructions \in Seq(Rows)
<1>1. Len(HighInstructions) = Half
  BY SMTT(60) DEF HighInstructions, Half
<1>2. HighInstructions \in Seq(Rows)
  BY SMTT(60) DEF HighInstructions, Rows, OpNames, ModeNames, BranchOps
<1>3. \A i \in 1 .. Half : (HighInstructions[i][2] = "REL") <=> (HighInstructions[i][1] \in BranchOps)
  BY SMTT(60) DEF HighInstructions, BranchOps, Half
<1>4. \A i \in 1 .. Half : HighInstructions[i][1] \in BranchOps => HighInstructions[i][3] = 2
  BY SMTT(60) DEF HighInstructions, BranchOps, Half
<1>5. \A i \in 1 .. Half : HighInstructions[i][1] = "JSR" => HighInstructions[i][2] = "ABS"
  BY SMTT(60) DEF HighInstructions, Half
<1>6. \A i \in 1 .. Half : HighInstructions[i][1] = "JMP" => HighInstructions[i][2] \in {"ABS", "IND"}
  BY SMTT(60) DEF HighInstructions, Half
<1>7. ASSUME NEW i \in 1 .. Half PROVE IsEntry(HighInstructions[i])
  <2>1. HighInstructions[i] \in Rows
    BY <1>1, <1>2
  <2> QED
    BY <1>3, <1>4, <1>5, <1>6, <2>1 DEF IsEntry
<1> QED
  BY <1>1, <1>2, <1>7

\* The second half of two sequences.
LEMMA SecondHalf ==
    ASSUME NEW S, NEW s \in Seq(S), NEW t \in Seq(S), NEW i \in Len(s) + 1 .. Len(s) + Len(t)
    PROVE  (s \o t)[i] = t[i - Len(s)]
  OBVIOUS

\* Every byte is an opcode.
LEMMA Entries ==
    /\ nes_temp \in Int
    /\ \A o \in Byte : IsEntry(nes_instructions[o + 1])
<1>1. Half \in Nat
  BY DEF Half
<1>2. nes_temp = Half + Half
  BY <1>1, LowEntries, HighEntries DEF nes_temp, nes_instructions
<1>3. ASSUME NEW o \in Byte PROVE IsEntry(nes_instructions[o + 1])
  <2>1. o \in Int /\ 0 <= o /\ o < Half + Half
    BY OfByte DEF Half
  <2>2. CASE o < Half
    <3>1. o + 1 \in 1 .. Half
      BY <1>1, <2>1, <2>2
    <3>2. nes_instructions[o + 1] = LowInstructions[o + 1]
      BY <1>1, <3>1, LowEntries, HighEntries DEF nes_instructions
    <3> QED
      BY <3>1, <3>2, LowEntries
  <2>3. CASE o >= Half
    <3> DEFINE i == o + 1
               k == i - Len(LowInstructions)
    <3>1. k \in 1 .. Half /\ i \in Len(LowInstructions) + 1 .. Len(LowInstructions) + Len(HighInstructions)
      BY <1>1, <2>1, <2>3, LowEntries, HighEntries
    <3> HIDE DEF i
    <3>2. (LowInstructions \o HighInstructions)[i] = HighInstructions[k]
      BY <3>1, LowEntries, HighEntries, SecondHalf
    <3> HIDE DEF k
    <3>3. IsEntry(nes_instructions[i])
      BY <3>1, <3>2, HighEntries DEF nes_instructions
    <3> QED
      BY <3>3 DEF i
  <2> QED
    BY <1>1, <2>1, <2>2, <2>3
<1> QED
  BY <1>1, <1>2, <1>3

-----------------------------------------------------------------------------
(* The clock, the reset and the interrupts *)

\* The opcode was read: the cycles are those of the table.
LEMMA OpenedIs ==
    ASSUME NEW m, IsMachine(m), NEW ins, IsEntry(ins)
    PROVE  IsMachine(Opened(m, ins)) /\ Opened(m, ins).cycles = ins[3]
<1> DEFINE pc == ToWord(m.PC + 1)
           k == ins[3]
           n == nes_setflag(m, "U", TRUE)
<1>1. n.PC = m.PC /\ Opened(m, ins) = [n EXCEPT !.PC = ToWord(n.PC + 1), !.cycles = k]
  BY DEF Opened, nes_setflag, IsMachine
<1>2. m.PC + 1 \in Int /\ k \in Int
  BY Registers DEF IsEntry, Rows
<1>3. pc \in Word
  BY <1>2, Widths
<1>4. Opened(m, ins) = [n EXCEPT !.PC = pc, !.cycles = k]
  BY <1>1
<1>5. Keeps(m, n)
  BY SetFlag, Status
<1> HIDE DEF pc, n
<1> QED
  BY <1>2, <1>3, <1>4, <1>5 DEF IsMachine, Keeps

\* The operand is a byte.
LEMMA FetchIs ==
    ASSUME nes_loaded_cart \in Carts, NEW m, IsMachine(m), NEW mode, NEW a \in Word
    PROVE  nes_fetch(m, mode, a) \in Byte
<1>1. nes_cpu_read(m.ram, a) \in Byte /\ m.A \in Byte
  BY Registers, Ranges, ReadsByte
<1> QED
  BY <1>1 DEF nes_fetch

\* An instruction leaves registers of their width and at most eight cycles.
LEMMA ExecutedIs ==
    ASSUME nes_loaded_cart \in Carts, NEW m, IsMachine(m), NEW ins, IsEntry(ins), m.cycles = ins[3],
           NEW at, IsFound(at)
    PROVE  IsMachine(Executed(m, ins, at)) /\ Executed(m, ins, at).cycles \in 0 .. 8
<1> DEFINE m1 == [m EXCEPT !.PC = at.next]
           v == nes_fetch(m, ins[2], at.abs)
           done == Operation(ins[1], m1, ins[2], at.abs, v)
           more == IF at.extra /\ ins[1] \in TakesLonger THEN 1 ELSE 0
           k == done.cycles + more - 1
           n == [done EXCEPT !.cycles = k]
<1>1. Executed(m, ins, at) = nes_setflag(n, "U", TRUE)
  BY DEF Executed
<1>2. ins[1] \in OpNames /\ ins[2] \in ModeNames /\ ins[3] \in 2 .. 8 
      /\ ((ins[2] = "REL") <=> (ins[1] \in BranchOps)) /\ (ins[1] \in BranchOps => ins[3] = 2)
  BY DEF IsEntry, Rows
<1>3. Keeps(m, m1)
  BY SetPC DEF IsFound
<1>4. v \in Byte
  BY FetchIs DEF IsFound
<1> HIDE DEF m1, v
<1>5. Operated(m1, ins[1], done)
  BY <1>2, <1>3, <1>4, OfOperation, Entries DEF IsFound, Keeps
<1> HIDE DEF done
<1>6. ins[1] \in BranchOps => ins[1] \notin TakesLonger
  BY DEF BranchOps, TakesLonger
<1> HIDE DEF more
<1>7. k \in Int /\ k \in 0 .. 8
  <2>1. more \in {0, 1} /\ (ins[1] \in BranchOps => more = 0)
    BY <1>6 DEF more
  <2>2. m1.cycles = ins[3]
    BY <1>3 DEF Keeps
  <2> QED
    BY <1>2, <1>5, <2>1, <2>2 DEF Operated
<1> HIDE DEF k
<1>8. IsMachine(n) /\ n.cycles = k
  BY <1>5, <1>7, SetCycles DEF Operated
<1> HIDE DEF n
<1>9. Keeps(n, nes_setflag(n, "U", TRUE))
  BY <1>8, SetFlag, Status
<1> QED
  BY <1>1, <1>7, <1>8, <1>9 DEF Keeps

\* The reset fetches the address to begin at.
LEMMA RestartedIs ==
    ASSUME nes_loaded_cart \in Carts, NEW m, IsMachine(m)
    PROVE  IsMachine(Restarted(m)) /\ Restarted(m).cycles \in 0 .. 8
<1> DEFINE pc == ReadWord(m, \hFFFC)
           zero == 0
           sp == \hFD
           P == {"U"}
           k == 8
           n == [m EXCEPT !.PC = pc, !.A = zero, !.X = zero, !.Y = zero, !.SP = sp, !.P = P, !.cycles = k]
<1>1. pc \in Word
  BY Registers, ReadsWord DEF ReadWord
<1>2. zero \in Byte /\ sp \in Byte /\ P \in SUBSET Flags
  BY OfByte, Status
<1>3. k \in Int /\ k \in 0 .. 8
  OBVIOUS
<1>4. n = Restarted(m)
  BY DEF Restarted
<1> HIDE DEF pc, zero, sp, P, k
<1>5. IsMachine(n) /\ n.cycles = k
  BY <1>1, <1>2, <1>3 DEF IsMachine
<1> QED
  BY <1>3, <1>4, <1>5

\* An interrupt pushes where it came from.
LEMMA InterruptedIs ==
    ASSUME nes_loaded_cart \in Carts, NEW m, IsMachine(m), NEW vector \in Nat, NEW k \in 0 .. 8
    PROVE  IsMachine(Interrupted(m, vector, k)) /\ Interrupted(m, vector, k).cycles \in 0 .. 8
<1> DEFINE off == FALSE
           on == TRUE
           saved == PushWord(m, m.PC)
           n == nes_setflag(nes_setflag(saved, "B", off), "U", on)
           status == nes_setflag(n, "I", on)
           done == Push(status, StatusByte(status.P))
           pc == ReadWord(m, vector)
           left == [done EXCEPT !.PC = pc]
<1>1. Interrupted(m, vector, k) = [done EXCEPT !.PC = pc, !.cycles = k]
  BY DEF Interrupted
<1>2. Keeps(m, saved)
  BY Registers, PushesWord
<1> HIDE DEF off, on, saved
<1>3. Keeps(saved, n)
  BY <1>2, Flag2, Status DEF Keeps
<1> HIDE DEF n
<1>4. Keeps(n, status)
  BY <1>3, SetFlag, Status DEF Keeps
<1> HIDE DEF status
<1>5. Keeps(status, done)
  BY <1>4, Registers, Status, Pushes DEF Keeps
<1>6. pc \in Word
  BY Registers, ReadsWord DEF ReadWord
<1> HIDE DEF done, pc
<1>7. Keeps(done, left)
  BY <1>5, <1>6, SetPC DEF Keeps
<1>8. Interrupted(m, vector, k) = [left EXCEPT !.cycles = k]
  BY <1>1, <1>5 DEF Keeps, IsMachine
<1> HIDE DEF left
<1> QED
  BY <1>7, <1>8, SetCycles DEF Keeps

\* Frames are kept by stack pointers.
LEMMA RememberIs ==
    ASSUME DOMAIN pushed \subseteq Byte, NEW op, NEW m, NEW done, IsMachine(done)
    PROVE  DOMAIN Remember(op, m, done) \subseteq Byte
<1>1. done.SP \in Byte
  BY Registers
<1>2. ASSUME NEW f PROVE DOMAIN Put(pushed, done.SP, f) \subseteq Byte
  BY <1>1 DEF Put
<1>3. CASE op \in {"PHA", "PHP", "JSR", "IRQ"}
  BY <1>2, <1>3 DEF Remember
<1>4. CASE op \in {"PLA", "PLP", "RTS", "RTI"}
  BY <1>4 DEF Remember
<1>5. CASE op \notin {"PHA", "PHP", "JSR", "IRQ", "PLA", "PLP", "RTS", "RTI"}
  BY <1>5 DEF Remember
<1> QED
  BY <1>3, <1>4, <1>5


-----------------------------------------------------------------------------
(* The instruction that is executed *)

Ins     == nes_instructions[OpcodeAt(nes) + 1]
Begun   == Opened(nes, Ins)
Place   == Addressed(Ins[2], Begun)
Ready   == [Begun EXCEPT !.PC = Place.next]
Fetched == nes_fetch(Begun, Ins[2], Place.abs)
Done    == Operation(Ins[1], Ready, Ins[2], Place.abs, Fetched)

\* The registers of the operation are those before the instruction, but for the
\* program counter and U; what it leaves is left, but for U and the cycles.
LEMMA Execution ==
    ASSUME IInv, phase = "running", ExecuteNext
    PROVE  /\ nes_loaded_cart \in Carts /\ IsMachine(nes) /\ IsMachine(nes') /\ nes'.cycles \in 0 .. 8
           /\ IsEntry(Ins) /\ IsMachine(Ready) /\ IsMachine(Done) /\ IsFound(Place)
           /\ IsMachine(Begun) /\ Begun.PC = ToWord(nes.PC + 1) /\ Begun.ram = nes.ram
           /\ Begun.A = nes.A /\ Begun.X = nes.X /\ Begun.Y = nes.Y
           /\ Ready.A = nes.A /\ Ready.X = nes.X /\ Ready.Y = nes.Y
           /\ Ready.SP = nes.SP /\ Ready.ram = nes.ram
           /\ Ready.P = nes.P \cup {"U"} /\ Ready.PC = Place.next /\ Ready.cycles = Ins[3]
           /\ Fetched \in Byte
           /\ nes'.A = Done.A /\ nes'.X = Done.X /\ nes'.Y = Done.Y
           /\ nes'.SP = Done.SP /\ nes'.ram = Done.ram /\ nes'.PC = Done.PC
           /\ nes'.P = Done.P \cup {"U"}
           /\ nes'.cycles = Done.cycles + (IF Place.extra /\ Ins[1] \in TakesLonger THEN 1 ELSE 0) - 1
           /\ pushed' = Remember(Ins[1], nes, nes')
<1>1. nes_loaded_cart \in Carts /\ IsMachine(nes)
  BY DEF IInv
<1>2. nes' = Executed(Begun, Ins, Place) /\ pushed' = Remember(Ins[1], nes, nes')
  BY DEF ExecuteNext, Ins, Begun, Place
<1>3. OpcodeAt(nes) \in Byte
  BY <1>1, Registers, ReadsByte DEF OpcodeAt
<1>4. IsEntry(Ins)
  BY <1>3, Entries DEF Ins
<1>5. IsMachine(Begun) /\ Begun.cycles = Ins[3]
  BY <1>1, <1>4, OpenedIs DEF Begun
<1>6. IsFound(Place)
  BY <1>1, <1>4, <1>5, AddressIs DEF IsEntry, Rows, Place
<1>7. IsMachine(nes') /\ nes'.cycles \in 0 .. 8
  BY <1>1, <1>2, <1>4, <1>5, <1>6, ExecutedIs
<1>8. IsMachine(Ready) /\ Ready.PC = Place.next
  BY <1>5, <1>6, SetPC DEF Ready, IsFound, Keeps, IsMachine
<1>9. /\ Ready.A = Begun.A /\ Ready.X = Begun.X /\ Ready.Y = Begun.Y /\ Ready.SP = Begun.SP
      /\ Ready.ram = Begun.ram /\ Ready.P = Begun.P /\ Ready.cycles = Begun.cycles
  BY <1>5 DEF Ready, IsMachine
<1>10. /\ Begun.A = nes.A /\ Begun.X = nes.X /\ Begun.Y = nes.Y /\ Begun.SP = nes.SP /\ Begun.ram = nes.ram
       /\ Begun.P = nes.P \cup {"U"} /\ Begun.PC = ToWord(nes.PC + 1)
  BY <1>1 DEF Begun, Opened, nes_setflag, IsMachine
<1>11. Fetched \in Byte
  BY <1>1, <1>5, <1>6, FetchIs DEF Fetched, IsFound
<1>12. IsMachine(Done)
  BY <1>1, <1>4, <1>6, <1>8, <1>11, OfOperation, Entries DEF Done, IsEntry, Rows, IsFound, Operated
<1>13. /\ nes'.A = Done.A /\ nes'.X = Done.X /\ nes'.Y = Done.Y
       /\ nes'.SP = Done.SP /\ nes'.ram = Done.ram /\ nes'.PC = Done.PC
       /\ nes'.P = Done.P \cup {"U"}
       /\ nes'.cycles = Done.cycles + (IF Place.extra /\ Ins[1] \in TakesLonger THEN 1 ELSE 0) - 1
  <2> DEFINE more == IF Place.extra /\ Ins[1] \in TakesLonger THEN 1 ELSE 0
             k == Done.cycles + more - 1
  <2>1. nes' = nes_setflag([Done EXCEPT !.cycles = k], "U", TRUE)
    BY <1>2 DEF Executed, Done, Ready, Fetched
  <2>2. k \in Int
    BY <1>12, Registers DEF more
  <2> HIDE DEF k
  <2>3. /\ nes'.A = Done.A /\ nes'.X = Done.X /\ nes'.Y = Done.Y
        /\ nes'.SP = Done.SP /\ nes'.ram = Done.ram /\ nes'.PC = Done.PC
        /\ nes'.P = Done.P \cup {"U"} /\ nes'.cycles = k
    BY <1>12, <2>1, <2>2 DEF nes_setflag, IsMachine
  <2> QED
    BY <2>3 DEF k, more
<1> QED
  BY <1>1, <1>2, <1>4, <1>5, <1>6, <1>7, <1>8, <1>9, <1>10, <1>11, <1>12, <1>13

-----------------------------------------------------------------------------
(* The invariant *)

LEMMA InitInvariant == Init => IInv
<1> SUFFICES ASSUME Init PROVE IInv
  OBVIOUS
<1>1. 0 \in Byte /\ 0 \in Word
  BY OfByte, OfWord
<1>2. IsMachine(nes)
  BY <1>1 DEF Init, IsMachine, IsRam
<1> QED
  BY <1>2 DEF Init, IInv

\* An instruction, found and executed.
LEMMA ExecuteNextKeeps == IInv /\ phase = "running" /\ ExecuteNext => IInv'
<1> SUFFICES ASSUME IInv, phase = "running", ExecuteNext PROVE IInv'
  OBVIOUS
<1>1. IsMachine(nes') /\ nes'.cycles \in 0 .. 8 /\ pushed' = Remember(Ins[1], nes, nes')
  BY Execution
<1>2. DOMAIN pushed' \subseteq Byte
  BY <1>1, RememberIs DEF IInv
<1> QED
  BY <1>1, <1>2 DEF IInv, ExecuteNext, IsMachine, IsRam

LEMMA StepInvariant == IInv /\ [Next]_vars => IInv'
<1> SUFFICES ASSUME IInv, [Next]_vars PROVE IInv'
  OBVIOUS
<1>1. CASE nes_reset
  <2>1. CASE nes_loaded_cart = NULL
    BY <1>1, <2>1 DEF nes_reset, IInv, IsMachine, IsRam
  <2>2. CASE nes_loaded_cart # NULL
    <3>1. IsMachine(Restarted(nes)) /\ Restarted(nes).cycles \in 0 .. 8
      BY <2>2, RestartedIs DEF IInv
    <3>2. nes' = Restarted(nes) /\ phase' = "running" /\ nes_loaded_cart' = nes_loaded_cart /\ pushed' = <<>>
      BY <1>1, <2>2 DEF nes_reset
    <3>3. IsMachine(nes') /\ nes'.cycles \in 0 .. 8
      BY <3>1, <3>2
    <3> QED
      BY <2>2, <3>2, <3>3 DEF IInv, IsMachine, IsRam
  <2> QED
    BY <2>1, <2>2
<1>2. CASE nes_clock
  <2>1. CASE ExecuteNext
    BY <1>2, <2>1, ExecuteNextKeeps DEF nes_clock
  <2>2. CASE CountDown
    <3>1. nes.cycles \in Int /\ nes.cycles - 1 \in 0 .. 8
      BY <2>2 DEF CountDown, IInv
    <3>2. nes' = [nes EXCEPT !.cycles = nes.cycles - 1]
      BY <2>2 DEF CountDown
    <3>3. IsMachine(nes') /\ nes'.cycles \in 0 .. 8
      BY <3>1, <3>2, SetCycles DEF IInv
    <3> QED
      BY <2>2, <3>3 DEF IInv, CountDown, IsMachine, IsRam
  <2>3. CASE FollowLostEntry
    BY <2>3 DEF IInv, FollowLostEntry, IsMachine, IsRam
  <2> QED
    BY <1>2, <2>1, <2>2, <2>3 DEF nes_clock
<1>3. ASSUME NEW vector \in Nat, NEW k \in 0 .. 8, Interrupt(vector, k)
      PROVE  IInv'
  <2>1. IsMachine(nes') /\ nes'.cycles \in 0 .. 8
    BY <1>3, InterruptedIs DEF Interrupt, IInv
  <2>2. DOMAIN pushed' \subseteq Byte
    BY <1>3, <2>1, RememberIs DEF Interrupt, IInv
  <2> QED
    BY <1>3, <2>1, <2>2 DEF IInv, Interrupt, IsMachine, IsRam
<1>4. CASE nes_irq
  BY <1>3, <1>4 DEF nes_irq
<1>5. CASE nes_nmirq
  BY <1>3, <1>5 DEF nes_nmirq
<1>6. CASE UNCHANGED vars
  BY <1>6 DEF vars, IInv, IsMachine, IsRam
<1> QED
  BY <1>1, <1>2, <1>4, <1>5, <1>6 DEF Next

\* The inductive invariant holds in every state the processor reaches.
THEOREM Invariant == Spec => []IInv
<1>1. Init => IInv
  BY InitInvariant
<1>2. IInv /\ [Next]_vars => IInv'
  BY StepInvariant
<1> QED
  BY <1>1, <1>2, PTL DEF Spec

\* Whatever program runs, the registers keep their width, an instruction takes
\* at most eight cycles, and nothing is stored outside the 2048 bytes of
\* nes_cpu_ram: nes_clock, nes_irq, nes_nmirq and nes_reset.
THEOREM TypeCorrect == Spec => []TypeOK
<1>1. IInv => TypeOK
  BY DEF IInv, TypeOK, IsMachine, IsRam
<1> QED
  BY <1>1, Invariant, PTL

-----------------------------------------------------------------------------
(* Numbers that wrap *)

\* A quotient and a remainder are those of a division.
LEMMA DividesOnce ==
    ASSUME NEW d \in Nat \ {0}, NEW q \in Int, NEW r \in Int, 0 <= r, r < d
    PROVE  (d * q + r) % d = r
<1> DEFINE x == d * q + r
           p == x \div d
           s == x % d
<1>1. x \in Int
  OBVIOUS
<1>2. p \in Int /\ s \in Int /\ 0 <= s /\ s < d /\ d * q + r = d * p + s
  <2>1. x = d * q + r
    OBVIOUS
  <2> HIDE DEF x
  <2>2. p \in Int /\ s \in Int /\ 0 <= s /\ s < d /\ x = d * p + s
    BY <1>1, Divided
  <2> HIDE DEF p, s
  <2> QED
    BY <2>1, <2>2
<1> HIDE DEF x, p, s
<1>3. p = q
  <2>1. CASE p < q
    <3>1. d * (p + 1) <= d * q /\ d * (p + 1) = d * p + d
      BY <1>2, <2>1
    <3> QED
      BY <1>2, <3>1
  <2>2. CASE p > q
    <3>1. d * (q + 1) <= d * p /\ d * (q + 1) = d * q + d
      BY <1>2, <2>2
    <3> QED
      BY <1>2, <3>1
  <2> QED
    BY <1>2, <2>1, <2>2
<1>4. s = r
  BY <1>2, <1>3
<1> QED
  BY <1>4 DEF s, x

\* Wrapping before adding changes nothing.
LEMMA WrapsTwice ==
    ASSUME NEW d \in Nat \ {0}, NEW x \in Int, NEW k \in Int
    PROVE  ((x % d) + k) % d = (x + k) % d
<1> DEFINE p == x \div d
           s == x % d
           q == (s + k) \div d
           r == (s + k) % d
<1>1. p \in Int /\ s \in Int /\ x = d * p + s
  BY Divided
<1> HIDE DEF p, s
<1>2. s + k \in Int
  BY <1>1
<1>3. q \in Int /\ r \in Int /\ 0 <= r /\ r < d /\ s + k = d * q + r
  BY <1>2, Divided
<1> HIDE DEF q, r
<1>4. d * (p + q) = d * p + d * q /\ d * p \in Int /\ d * q \in Int /\ p + q \in Int
  BY <1>1, <1>3
<1>5. x + k = d * (p + q) + r
  BY <1>1, <1>3, <1>4
<1>6. (d * (p + q) + r) % d = r
  BY <1>3, <1>4, DividesOnce
<1> QED
  BY <1>5, <1>6 DEF r, s

\* What lies below the divisor is its own remainder.
LEMMA SmallIsLeft ==
    ASSUME NEW d \in Nat \ {0}, NEW r \in Int, 0 <= r, r < d
    PROVE  r % d = r
<1>1. d * 0 + r = r
  OBVIOUS
<1> QED
  BY <1>1, DividesOnce

\* Numbers less than a turn apart do not wrap to the same.
LEMMA NearDiffer ==
    ASSUME NEW d \in Nat \ {0}, NEW x \in Int, NEW k \in Int, 0 < k, k < d
    PROVE  x % d # (x - k) % d
<1> SUFFICES ASSUME x % d = (x - k) % d PROVE FALSE
  OBVIOUS
<1> DEFINE p == x \div d
           s == x % d
           q == (x - k) \div d
           r == (x - k) % d
<1>1. p \in Int /\ s \in Int /\ x = d * p + s
  BY Divided
<1>2. x - k \in Int
  OBVIOUS
<1>3. q \in Int /\ r \in Int /\ x - k = d * q + r /\ s = r
  BY <1>2, Divided
<1> HIDE DEF p, q, s, r
<1>4. k = d * p - d * q /\ d * p \in Int /\ d * q \in Int
  BY <1>1, <1>3
<1>5. CASE p <= q
  <2>1. d * p <= d * q
    BY <1>1, <1>3, <1>5
  <2> QED
    BY <1>4, <2>1
<1>6. CASE p >= q + 1
  <2>1. d * (q + 1) <= d * p /\ d * (q + 1) = d * q + d
    BY <1>1, <1>3, <1>6
  <2> QED
    BY <1>4, <2>1
<1> QED
  BY <1>1, <1>3, <1>5, <1>6

\* The same of the two registers' widths.
LEMMA Wraps ==
    /\ \A x, k \in Int : ToByte(ToByte(x) + k) = ToByte(x + k) /\ ToWord(ToWord(x) + k) = ToWord(x + k)
    /\ \A b \in Byte : ToByte(b) = b
    /\ \A w \in Word : ToWord(w) = w
    /\ \A x \in Int : ToByte(x) # ToByte(x - 1) /\ ToByte(x) # ToByte(x - 2)
<1> DEFINE d8 == 256
           d16 == 65536
<1>1. \A x : ToByte(x) = x % d8 /\ ToWord(x) = x % d16
  BY DEF ToByte, ToWord
<1>2. d8 \in Nat \ {0} /\ d16 \in Nat \ {0} /\ 2 < d8
  OBVIOUS
<1>3. \A b \in Byte : b \in Int /\ 0 <= b /\ b < d8
  BY OfByte
<1>4. \A w \in Word : w \in Int /\ 0 <= w /\ w < d16
  BY OfWord
<1> HIDE DEF d8, d16
<1>5. \A x, k \in Int : ToByte(ToByte(x) + k) = ToByte(x + k) /\ ToWord(ToWord(x) + k) = ToWord(x + k)
  BY <1>1, <1>2, WrapsTwice
<1>6. \A b \in Byte : ToByte(b) = b
  BY <1>1, <1>2, <1>3, SmallIsLeft
<1>7. \A w \in Word : ToWord(w) = w
  BY <1>1, <1>2, <1>4, SmallIsLeft
<1>8. ASSUME NEW x \in Int PROVE ToByte(x) # ToByte(x - 1) /\ ToByte(x) # ToByte(x - 2)
  <2>1. ASSUME NEW k \in 1 .. 2 PROVE x % d8 # (x - k) % d8
    <3>1. k \in Int /\ 0 < k /\ k < d8
      BY <1>2
    <3> QED
      BY <1>2, <3>1, NearDiffer
  <2> QED
    BY <1>1, <2>1
<1> QED
  BY <1>5, <1>6, <1>7, <1>8

\* A word is made of its two bytes.
LEMMA Halves == \A w \in Word : Low(w) + 256 * High(w) = w
<1> SUFFICES ASSUME NEW w \in Word PROVE Low(w) + 256 * High(w) = w
  OBVIOUS
<1> DEFINE q == w \div 256
           r == w % 256
<1>1. q \in Int /\ r \in Int /\ w = 256 * q + r
  BY OfWord, Divided
<1>2. Low(w) = r /\ High(w) = q
  BY DEF Low, High
<1> HIDE DEF q, r
<1> QED
  BY <1>1, <1>2

-----------------------------------------------------------------------------
(* What lies on the stack *)

\* A byte written to page zero is read back, and its neighbours are left.
LEMMA ReadsBack ==
    ASSUME NEW ram, NEW a \in Byte, NEW b
    PROVE  /\ nes_cpu_read(nes_cpu_write(ram, a, b), a) = b
           /\ \A c \in Byte : c # a => nes_cpu_read(nes_cpu_write(ram, a, b), c) = nes_cpu_read(ram, c)
<1>1. ASSUME NEW c \in Byte
      PROVE  c % RamSize = c /\ ~(c > \h3FFF) /\ ~(c > \h1FFF)
  <2>1. c \in Int /\ 0 <= c /\ c <= 255
    BY OfByte
  <2>2. c < RamSize /\ ~(c > \h3FFF) /\ ~(c > \h1FFF)
    BY <2>1 DEF RamSize
  <2> QED
    BY <2>1, <2>2, Sizes, SmallIsLeft
<1>2. nes_cpu_write(ram, a, b) = Put(ram, a, b)
  BY <1>1 DEF nes_cpu_write
<1>3. ASSUME NEW r, NEW c \in Byte
      PROVE  nes_cpu_read(r, c) = IF c \in DOMAIN r THEN r[c] ELSE Leftover[c]
  BY <1>1 DEF nes_cpu_read
<1>4. /\ a \in DOMAIN Put(ram, a, b) /\ Put(ram, a, b)[a] = b
      /\ \A c : c # a => /\ c \in DOMAIN Put(ram, a, b) <=> c \in DOMAIN ram
                         /\ c \in DOMAIN ram => Put(ram, a, b)[c] = ram[c]
  BY DEF Put
<1> QED
  BY <1>2, <1>3, <1>4

\* The byte on top of the stack, where m had its end.
ByteOnTop(m, b, n) == n.SP = ToByte(m.SP - 1) /\ nes_cpu_read(n.ram, m.SP) = b

\* A byte was pushed, and nothing else is changed.
HasPushed(m, b, n) ==
    /\ ByteOnTop(m, b, n) /\ n.A = m.A /\ n.P = m.P /\ n.PC = m.PC
    /\ \A c \in Byte : c # m.SP => nes_cpu_read(n.ram, c) = nes_cpu_read(m.ram, c)

LEMMA PushedByte ==
    ASSUME NEW m, IsMachine(m), NEW b \in Byte
    PROVE  HasPushed(m, b, Push(m, b)) /\ IsMachine(Push(m, b))
<1> DEFINE ram == nes_cpu_write(m.ram, m.SP, b)
           sp == ToByte(m.SP - 1)
           n == [m EXCEPT !.ram = ram, !.SP = sp]
<1>1. Push(m, b) = n
  BY DEF Push
<1>2. /\ nes_cpu_read(ram, m.SP) = b
      /\ \A c \in Byte : c # m.SP => nes_cpu_read(ram, c) = nes_cpu_read(m.ram, c)
  BY Registers, ReadsBack
<1> HIDE DEF ram
<1>3. n.ram = ram /\ n.SP = sp /\ n.A = m.A /\ n.P = m.P /\ n.PC = m.PC
  BY DEF IsMachine
<1>4. IsMachine(Push(m, b))
  BY Pushes DEF Keeps
<1> HIDE DEF n, sp
<1> QED
  BY <1>1, <1>2, <1>3, <1>4 DEF HasPushed, ByteOnTop, sp

\* The two bytes of a word, the high one above the low one.
WordOnTop(m, w, n) ==
    /\ n.SP = ToByte(m.SP - 2)
    /\ nes_cpu_read(n.ram, m.SP) = High(w)
    /\ nes_cpu_read(n.ram, ToByte(m.SP - 1)) = Low(w)

HasPushedWord(m, w, n) == WordOnTop(m, w, n) /\ n.A = m.A /\ n.P = m.P /\ n.PC = m.PC

LEMMA PushedWord ==
    ASSUME NEW m, IsMachine(m), NEW w \in Word
    PROVE  HasPushedWord(m, w, PushWord(m, w)) /\ IsMachine(PushWord(m, w))
<1> DEFINE o == Push(m, High(w))
           n == Push(o, Low(w))
<1>1. High(w) \in Byte /\ Low(w) \in Byte
  BY Widths
<1>2. HasPushed(m, High(w), o) /\ IsMachine(o)
  BY <1>1, PushedByte
<1>3. PushWord(m, w) = n
  BY DEF PushWord
<1> HIDE DEF o
<1>4. HasPushed(o, Low(w), n) /\ IsMachine(n)
  BY <1>1, <1>2, PushedByte
<1> HIDE DEF n
<1>5. m.SP \in Int /\ m.SP \in Byte /\ m.SP - 1 \in Int /\ ToByte(m.SP) = m.SP
  BY Registers, Wraps
<1>6. o.SP # m.SP
  BY <1>2, <1>5, Wraps DEF HasPushed, ByteOnTop
<1>7. ToByte(o.SP - 1) = ToByte(m.SP - 2)
  <2> DEFINE x == m.SP - 1
             k == -1
  <2>1. x \in Int /\ k \in Int /\ x + k = m.SP - 2
    BY <1>5
  <2>2. o.SP = ToByte(x) /\ o.SP + k = o.SP - 1
    BY <1>2, Registers DEF HasPushed, ByteOnTop
  <2> HIDE DEF x, k
  <2>3. ToByte(ToByte(x) + k) = ToByte(x + k)
    BY <2>1, Wraps
  <2> QED
    BY <2>1, <2>2, <2>3
<1> QED
  BY <1>2, <1>3, <1>4, <1>5, <1>6, <1>7 DEF HasPushed, ByteOnTop, HasPushedWord, WordOnTop

\* The cells of a push, as Remember keeps them.
LEMMA PushedCells ==
    ASSUME NEW m, IsMachine(m), NEW n \in Nat, NEW ram, NEW k \in Nat, k < n
    PROVE  /\ ToByte(m.SP - k) \in DOMAIN Pushed(m, n, ram)
           /\ Pushed(m, n, ram)[ToByte(m.SP - k)] = nes_cpu_read(ram, ToByte(m.SP - k))
<1>1. k \in 0 .. n - 1
  OBVIOUS
<1> QED
  BY <1>1 DEF Pushed

\* Above a stack pointer that was moved down lies what was pushed.
LEMMA MovedDown ==
    ASSUME NEW sp \in Byte, NEW n \in Int
    PROVE  ToByte(ToByte(sp - n) + n) = sp /\ ToByte(ToByte(sp - n) + (n - 1)) = ToByte(sp - 1)
<1> DEFINE x == sp - n
           k == n - 1
<1>1. x \in Int /\ k \in Int /\ x + n = sp /\ x + k = sp - 1 /\ ToByte(sp) = sp
  <2>1. sp \in Int
    BY OfByte
  <2>2. x \in Int /\ k \in Int /\ x + n = sp /\ x + k = sp - 1
    BY <2>1
  <2> QED
    BY <2>2, Wraps
<1> HIDE DEF x, k
<1>2. ToByte(ToByte(x) + n) = ToByte(x + n) /\ ToByte(ToByte(x) + k) = ToByte(x + k)
  BY <1>1, Wraps
<1> QED
  BY <1>1, <1>2 DEF x, k

\* A pull finds the byte at the top of the stack where the program sees it.
LEMMA PullsPeeked ==
    ASSUME IInv, NEW m, m.SP = nes.SP, m.ram = nes.ram, NEW k \in Nat
    PROVE  Stacked(m, k) = Peek(ToByte(nes.SP + k))
<1>1. nes.SP + k \in Int
  BY Registers DEF IInv
<1>2. ToByte(nes.SP + k) \in Word
  BY <1>1, Widths, Ranges
<1>3. ToWord(ToByte(nes.SP + k)) = ToByte(nes.SP + k)
  BY <1>2, Wraps
<1> QED
  BY <1>3 DEF Stacked, Peek

\* A status that was pushed with U has it when it is pulled.
LEMMA KeepsU ==
    ASSUME NEW P \in SUBSET Flags, "U" \in P
    PROVE  "U" \in StatusOf(StatusByte(P))
<1> DEFINE S == {FlagBit[f] : f \in P}
           lo == Weight(S, 1) + Weight(S, 2) + Weight(S, 3) + Weight(S, 4) + Weight(S, 5)
           hi == (IF 7 \in S THEN 1 ELSE 0) + (IF 8 \in S THEN 2 ELSE 0)
           b == lo + 32 + 64 * hi
<1>1. FlagBit["U"] = 6 /\ \A f \in Flags : FlagBit[f] \in 1 .. 8
  BY Status DEF FlagBit
<1>2. 6 \in S /\ S \in SUBSET (1 .. 8)
  BY <1>1
<1>3. StatusByte(P) = ByteOf[S]
  BY DEF StatusByte
<1> HIDE DEF S
<1>4. /\ Weight(S, 1) \in {0, 1} /\ Weight(S, 2) \in {0, 2} /\ Weight(S, 3) \in {0, 4}
      /\ Weight(S, 4) \in {0, 8} /\ Weight(S, 5) \in {0, 16} /\ Weight(S, 6) = 32
      /\ Weight(S, 7) = (IF 7 \in S THEN 64 ELSE 0) /\ Weight(S, 8) = (IF 8 \in S THEN 128 ELSE 0)
  BY <1>2 DEF Weight, Weights
<1>5. ByteOf[S] = Weight(S, 1) + Weight(S, 2) + Weight(S, 3) + Weight(S, 4)
                + Weight(S, 5) + Weight(S, 6) + Weight(S, 7) + Weight(S, 8)
  BY <1>2 DEF ByteOf
<1>6. lo \in Int /\ 0 <= lo /\ lo < 32 /\ hi \in Int
  BY <1>4
<1>7. ByteOf[S] = b
  BY <1>4, <1>5
<1> HIDE DEF lo, hi
<1>8. (b \div 32) % 2 = 1
  <2> DEFINE q == b \div 32
             r == b % 32
             p == q \div 2
             s == q % 2
  <2>1. b \in Int
    BY <1>6
  <2>2. q \in Int /\ r \in Int /\ 0 <= r /\ r < 32 /\ b = 32 * q + r
    BY <2>1, Divided
  <2> HIDE DEF q, r
  <2>3. p \in Int /\ s \in Int /\ 0 <= s /\ s < 2 /\ q = 2 * p + s
    BY <2>2, Divided
  <2> HIDE DEF p, s
  <2>4. b = lo + 32 + 64 * hi
    OBVIOUS
  <2> HIDE DEF b
  <2>5. q = 2 * hi + 1
    BY <1>6, <2>2, <2>4
  <2>6. s = 1
    BY <1>6, <2>3, <2>5
  <2> QED
    BY <2>6 DEF s, q
<1>9. b \in Byte
  BY <1>2, <1>7, BitsAndBytes
<1> HIDE DEF b
<1>10. 6 \in Bits[b]
  BY <1>8, <1>9 DEF Bits, Weights
<1> QED
  BY <1>1, <1>3, <1>7, <1>10, Status DEF StatusOf

-----------------------------------------------------------------------------
(* Frames *)

\* A frame at s holds, in the cells above s, what was kept: a byte, the address
\* before the one to return to, or the address itself above the status.
Framed(s, f) ==
    /\ f.by \in {"PHA", "PHP"} =>
         ToByte(s + 1) \in DOMAIN f.cells /\ f.cells[ToByte(s + 1)] = f.kept
    /\ f.by = "PHP" => \E P \in SUBSET Flags : "U" \in P /\ f.kept = StatusByte(P)
    /\ f.by = "JSR" =>
         /\ f.kept \in Word /\ ToByte(s + 1) \in DOMAIN f.cells /\ ToByte(s + 2) \in DOMAIN f.cells
         /\ f.cells[ToByte(s + 1)] = Low(ToWord(f.kept - 1))
         /\ f.cells[ToByte(s + 2)] = High(ToWord(f.kept - 1))
    /\ f.by = "IRQ" =>
         /\ f.kept \in Word /\ ToByte(s + 2) \in DOMAIN f.cells /\ ToByte(s + 3) \in DOMAIN f.cells
         /\ f.cells[ToByte(s + 2)] = Low(f.kept)
         /\ f.cells[ToByte(s + 3)] = High(f.kept)

FInv ==
    /\ executed \in Nat
    /\ \A s \in DOMAIN pushed : Framed(s, pushed[s])

\* A byte that was pushed.
LEMMA ByteFrame ==
    ASSUME NEW m, IsMachine(m), NEW b \in Byte, NEW n, ByteOnTop(m, b, n), NEW by \in {"PHA", "PHP"},
           by = "PHP" => \E P \in SUBSET Flags : "U" \in P /\ b = StatusByte(P)
    PROVE  Framed(n.SP, Frame(by, b, Pushed(m, 1, n.ram)))
<1> DEFINE cells == Pushed(m, 1, n.ram)
           f == Frame(by, b, cells)
<1>1. m.SP \in Byte /\ m.SP \in Int /\ ToByte(m.SP - 0) = m.SP
  <2>1. m.SP \in Byte /\ m.SP \in Int
    BY Registers
  <2>2. m.SP - 0 = m.SP
    BY <2>1
  <2> QED
    BY <2>1, <2>2, Wraps
<1>2. m.SP \in DOMAIN cells /\ cells[m.SP] = b
  BY <1>1, PushedCells DEF ByteOnTop
<1>3. ToByte(n.SP + 1) = m.SP
  BY <1>1, MovedDown DEF ByteOnTop
<1> HIDE DEF cells
<1>4. f.by = by /\ f.kept = b /\ f.cells = cells
  BY DEF Frame
<1> HIDE DEF f
<1>5. ToByte(n.SP + 1) \in DOMAIN f.cells /\ f.cells[ToByte(n.SP + 1)] = f.kept
  BY <1>2, <1>3, <1>4
<1>6. f.by = "PHP" => \E P \in SUBSET Flags : "U" \in P /\ f.kept = StatusByte(P)
  BY <1>4
<1>7. f.by # "JSR" /\ f.by # "IRQ"
  BY <1>4
<1>8. Framed(n.SP, f)
  BY <1>5, <1>6, <1>7 DEF Framed
<1> QED
  BY <1>8 DEF f, cells

\* The address that a call pushed.
LEMMA CallFrame ==
    ASSUME NEW m, IsMachine(m), NEW w \in Word, NEW n, WordOnTop(m, ToWord(w - 1), n)
    PROVE  Framed(n.SP, Frame("JSR", w, Pushed(m, 2, n.ram)))
<1> DEFINE cells == Pushed(m, 2, n.ram)
           f == Frame("JSR", w, cells)
<1>1. m.SP \in Byte /\ m.SP \in Int /\ ToByte(m.SP - 0) = m.SP
  <2>1. m.SP \in Byte /\ m.SP \in Int
    BY Registers
  <2>2. m.SP - 0 = m.SP
    BY <2>1
  <2> QED
    BY <2>1, <2>2, Wraps
<1>2. /\ m.SP \in DOMAIN cells /\ cells[m.SP] = High(ToWord(w - 1))
      /\ ToByte(m.SP - 1) \in DOMAIN cells /\ cells[ToByte(m.SP - 1)] = Low(ToWord(w - 1))
  BY <1>1, PushedCells DEF WordOnTop
<1>3. ToByte(n.SP + 2) = m.SP /\ ToByte(n.SP + 1) = ToByte(m.SP - 1)
  <2>1. ToByte(n.SP + 2) = m.SP /\ ToByte(n.SP + (2 - 1)) = ToByte(m.SP - 1)
    BY <1>1, MovedDown DEF WordOnTop
  <2> QED
    BY <2>1
<1> HIDE DEF cells
<1>4. f.by = "JSR" /\ f.kept = w /\ f.cells = cells
  BY DEF Frame
<1> HIDE DEF f
<1>5. Framed(n.SP, f)
  BY <1>2, <1>3, <1>4 DEF Framed
<1> QED
  BY <1>5 DEF f, cells

\* The address that an interrupt pushed, above the status.
LEMMA InterruptFrame ==
    ASSUME NEW m, IsMachine(m), NEW w \in Word, NEW n, IsMachine(n), n.SP = ToByte(m.SP - 3),
           nes_cpu_read(n.ram, m.SP) = High(w), nes_cpu_read(n.ram, ToByte(m.SP - 1)) = Low(w)
    PROVE  Framed(n.SP, Frame("IRQ", w, Pushed(m, 3, n.ram)))
<1> DEFINE cells == Pushed(m, 3, n.ram)
           f == Frame("IRQ", w, cells)
<1>1. m.SP \in Byte /\ m.SP \in Int /\ ToByte(m.SP - 0) = m.SP
  <2>1. m.SP \in Byte /\ m.SP \in Int
    BY Registers
  <2>2. m.SP - 0 = m.SP
    BY <2>1
  <2> QED
    BY <2>1, <2>2, Wraps
<1>2. /\ m.SP \in DOMAIN cells /\ cells[m.SP] = High(w)
      /\ ToByte(m.SP - 1) \in DOMAIN cells /\ cells[ToByte(m.SP - 1)] = Low(w)
  BY <1>1, PushedCells
<1>3. ToByte(n.SP + 3) = m.SP /\ ToByte(n.SP + 2) = ToByte(m.SP - 1)
  <2>1. ToByte(n.SP + 3) = m.SP /\ ToByte(n.SP + (3 - 1)) = ToByte(m.SP - 1)
    BY <1>1, MovedDown
  <2> QED
    BY <2>1
<1> HIDE DEF cells
<1>4. f.by = "IRQ" /\ f.kept = w /\ f.cells = cells
  BY DEF Frame
<1> HIDE DEF f
<1>5. Framed(n.SP, f)
  BY <1>2, <1>3, <1>4 DEF Framed
<1> QED
  BY <1>5 DEF f, cells

\* Keeping a frame, and forgetting one, leaves the others.
LEMMA FramesKept ==
    ASSUME FInv, NEW s, NEW f, Framed(s, f)
    PROVE  \A t \in DOMAIN Put(pushed, s, f) : Framed(t, Put(pushed, s, f)[t])
  BY DEF FInv, Put

-----------------------------------------------------------------------------
(* Frames are what instructions and interrupts pushed *)

\* Two steps of the program counter are one.
LEMMA ThreeOn == \A pc \in Int : ToWord(ToWord(pc + 1) + 2) = ToWord(pc + 3)
<1> SUFFICES ASSUME NEW pc \in Int PROVE ToWord(ToWord(pc + 1) + 2) = ToWord(pc + 3)
  OBVIOUS
<1> DEFINE x == pc + 1
           k == 2
<1>1. x \in Int /\ k \in Int /\ x + k = pc + 3
  OBVIOUS
<1> HIDE DEF x, k
<1>2. ToWord(ToWord(x) + k) = ToWord(x + k)
  BY <1>1, Wraps
<1> QED
  BY <1>1, <1>2 DEF x, k

\* PHA and PHP push a byte.
LEMMA BytePushed ==
    ASSUME IInv, phase = "running", ExecuteNext, Ins[1] \in {"PHA", "PHP"}
    PROVE  LET b == IF Ins[1] = "PHA" THEN nes.A ELSE StatusByte(nes.P \cup {"U"})
           IN b \in Byte /\ ByteOnTop(nes, b, nes')
<1> DEFINE b == IF Ins[1] = "PHA" THEN nes.A ELSE StatusByte(nes.P \cup {"U"})
<1>1. /\ IsMachine(nes) /\ IsMachine(Ready) /\ IsMachine(Done) /\ Ins[2] # "REL"
      /\ Ready.A = nes.A /\ Ready.SP = nes.SP /\ Ready.ram = nes.ram /\ Ready.P = nes.P \cup {"U"}
      /\ nes'.SP = Done.SP /\ nes'.ram = Done.ram
  BY Execution DEF IsEntry, BranchOps
<1>2. b \in Byte
  BY <1>1, Registers, Status
<1>3. Push(Ready, b).SP = Done.SP /\ Push(Ready, b).ram = Done.ram
  <2>1. CASE Ins[1] = "PHA"
    <3>1. Done = Push(Ready, Ready.A)
      BY <1>1, <2>1, StackOperations DEF Done
    <3> QED
      BY <1>1, <2>1, <3>1
  <2>2. CASE Ins[1] = "PHP"
    <3>1. Done = nes_PHP(Ready)
      BY <1>1, <2>2, StackOperations DEF Done
    <3>2. Ins[1] # "PHA" /\ b = StatusByte(Ready.P)
      BY <1>1, <2>2
    <3> DEFINE n == Push(Ready, b)
    <3>3. IsMachine(n)
      BY <1>1, <1>2, PushedByte
    <3>4. Done = nes_setflag(nes_setflag(n, "B", FALSE), "U", FALSE)
      BY <3>1, <3>2 DEF nes_PHP
    <3> HIDE DEF n
    <3>5. Done.SP = n.SP /\ Done.ram = n.ram
      BY <3>3, <3>4 DEF nes_setflag, IsMachine
    <3> QED
      BY <3>5 DEF n
  <2> QED
    BY <2>1, <2>2
<1> HIDE DEF b
<1>4. HasPushed(Ready, b, Push(Ready, b))
  BY <1>1, <1>2, PushedByte
<1>5. nes'.SP = ToByte(nes.SP - 1) /\ nes_cpu_read(nes'.ram, nes.SP) = b
  BY <1>1, <1>3, <1>4 DEF HasPushed, ByteOnTop
<1> QED
  BY <1>2, <1>5 DEF ByteOnTop, b

\* JSR pushes the address before the next instruction.
LEMMA CallPushed ==
    ASSUME IInv, phase = "running", ExecuteNext, Ins[1] = "JSR"
    PROVE  /\ ToWord(nes.PC + 3) \in Word
           /\ WordOnTop(nes, ToWord(ToWord(nes.PC + 3) - 1), nes')
<1> DEFINE next == ToWord(nes.PC + 3)
           w == ToWord(next - 1)
           n == PushWord(Ready, w)
<1>1. /\ IsMachine(nes) /\ IsMachine(Ready) /\ IsMachine(Done) /\ Ins[2] = "ABS"
      /\ Ready.SP = nes.SP /\ Ready.PC = Place.next /\ Begun.PC = ToWord(nes.PC + 1)
      /\ nes'.SP = Done.SP /\ nes'.ram = Done.ram
  BY Execution DEF IsEntry
<1>2. Place.next = next
  <2>1. Place.next = ToWord(Begun.PC + 2)
    BY <1>1 DEF Place, Addressed, Found
  <2> QED
    BY <1>1, <2>1, Registers, ThreeOn
<1>3. next \in Word /\ w \in Word
  <2>1. nes.PC + 3 \in Int
    BY <1>1, Registers
  <2>2. next \in Word
    BY <2>1, Widths
  <2>3. next - 1 \in Int
    BY <2>2, OfWord
  <2> QED
    BY <2>2, <2>3, Widths
<1>4. Done = nes_JSR(Ready, Place.abs)
  BY <1>1, StackOperations DEF Done
<1> HIDE DEF next
<1>5. Done = [n EXCEPT !.PC = Place.abs]
  BY <1>1, <1>2, <1>4 DEF nes_JSR
<1> HIDE DEF w
<1>6. HasPushedWord(Ready, w, n) /\ IsMachine(n)
  BY <1>1, <1>3, PushedWord
<1> HIDE DEF n
<1>7. Done.SP = n.SP /\ Done.ram = n.ram
  BY <1>5, <1>6 DEF IsMachine
<1>8. WordOnTop(nes, w, nes')
  BY <1>1, <1>6, <1>7 DEF HasPushedWord, WordOnTop
<1> QED
  BY <1>3, <1>8 DEF w, next

\* An interrupt pushes the address of the instruction that it keeps waiting, and
\* the status on it.
LEMMA InterruptPushed ==
    ASSUME IInv, NEW vector \in Nat, NEW k \in 0 .. 8, phase = "running"
    PROVE  LET n == Interrupted(nes, vector, k)
           IN /\ n.SP = ToByte(nes.SP - 3)
              /\ nes_cpu_read(n.ram, nes.SP) = High(nes.PC)
              /\ nes_cpu_read(n.ram, ToByte(nes.SP - 1)) = Low(nes.PC)
<1> DEFINE saved == PushWord(nes, nes.PC)
           status == nes_setflag(nes_setflag(nes_setflag(saved, "B", FALSE), "U", TRUE), "I", TRUE)
           b == StatusByte(status.P)
           done == Push(status, b)
           pc == ReadWord(nes, vector)
           n == Interrupted(nes, vector, k)
<1>1. IsMachine(nes)
  BY DEF IInv
<1>2. n = [done EXCEPT !.PC = pc, !.cycles = k]
  BY DEF Interrupted
<1> HIDE DEF n, pc
<1>3. HasPushedWord(nes, nes.PC, saved) /\ IsMachine(saved)
  BY <1>1, Registers, PushedWord
<1> HIDE DEF saved
<1>4. status.SP = saved.SP /\ status.ram = saved.ram
  BY <1>3 DEF nes_setflag, IsMachine
<1>5. IsMachine(status)
  BY <1>3, SetFlag, Status DEF Keeps
<1>6. b \in Byte
  BY <1>5, Registers, Status
<1> HIDE DEF status, b
<1>7. HasPushed(status, b, done) /\ IsMachine(done)
  BY <1>5, <1>6, PushedByte
<1> HIDE DEF done
<1>8. n.SP = done.SP /\ n.ram = done.ram
  BY <1>2, <1>7 DEF IsMachine
<1>9. nes.SP \in Int /\ nes.SP \in Byte /\ ToByte(nes.SP) = nes.SP
  BY <1>1, Registers, Wraps
<1>10. done.SP = ToByte(nes.SP - 3)
  <2> DEFINE x == nes.SP - 2
             j == -1
  <2>1. x \in Int /\ j \in Int /\ x + j = nes.SP - 3
    BY <1>9
  <2>2. status.SP = ToByte(x) /\ done.SP = ToByte(status.SP - 1) /\ status.SP + j = status.SP - 1
    BY <1>3, <1>4, <1>5, <1>7, Registers DEF HasPushed, ByteOnTop, HasPushedWord, WordOnTop
  <2> HIDE DEF x, j
  <2>3. ToByte(ToByte(x) + j) = ToByte(x + j)
    BY <2>1, Wraps
  <2> QED
    BY <2>1, <2>2, <2>3
<1>11. status.SP # nes.SP /\ status.SP # ToByte(nes.SP - 1) /\ ToByte(nes.SP - 1) \in Byte
  <2> DEFINE x == nes.SP - 1
  <2>1. x \in Int /\ x - 1 = nes.SP - 2
    BY <1>9
  <2>2. status.SP = ToByte(nes.SP - 2)
    BY <1>3, <1>4 DEF HasPushedWord, WordOnTop
  <2> HIDE DEF x
  <2>3. ToByte(x) # ToByte(x - 1) /\ ToByte(x) \in Byte
    BY <2>1, Wraps, Widths
  <2>4. ToByte(nes.SP) # ToByte(nes.SP - 2)
    BY <1>9, Wraps
  <2> QED
    BY <1>9, <2>1, <2>2, <2>3, <2>4 DEF x
<1>12. /\ nes_cpu_read(done.ram, nes.SP) = High(nes.PC)
       /\ nes_cpu_read(done.ram, ToByte(nes.SP - 1)) = Low(nes.PC)
  BY <1>3, <1>4, <1>7, <1>9, <1>11 DEF HasPushed, HasPushedWord, WordOnTop
<1> QED
  BY <1>8, <1>10, <1>12 DEF n

\* A step keeps the frames: a new one is what was pushed, others are left or
\* forgotten.
LEMMA StepFrames == IInv /\ FInv /\ [Next]_vars => FInv'
<1> SUFFICES ASSUME IInv, FInv, [Next]_vars PROVE FInv'
  OBVIOUS
<1>1. ASSUME UNCHANGED pushed, executed' \in Nat PROVE FInv'
  BY <1>1 DEF FInv
<1>2. CASE nes_reset
  <2>1. executed' = 0 /\ (pushed' = pushed \/ pushed' = <<>>)
    BY <1>2 DEF nes_reset
  <2>2. CASE pushed' = <<>>
    BY <2>1, <2>2 DEF FInv
  <2> QED
    BY <1>1, <2>1, <2>2
<1>3. CASE phase = "running" /\ ExecuteNext
  <2>1. executed' \in Nat
    BY <1>3 DEF ExecuteNext, FInv
  <2>2. pushed' = Remember(Ins[1], nes, nes')
    BY <1>3, Execution
  <2>3. ASSUME NEW f, Framed(nes'.SP, f), pushed' = Put(pushed, nes'.SP, f) PROVE FInv'
    <3>1. \A t \in DOMAIN pushed' : Framed(t, pushed'[t])
      BY <2>3, FramesKept
    <3> QED
      BY <2>1, <3>1 DEF FInv
  <2>4. CASE Ins[1] \in {"PHA", "PHP"}
    <3> DEFINE b == IF Ins[1] = "PHA" THEN nes.A ELSE StatusByte(nes.P \cup {"U"})
               f == Frame(Ins[1], b, Pushed(nes, 1, nes'.ram))
    <3>1. IsMachine(nes) /\ b \in Byte /\ ByteOnTop(nes, b, nes')
      BY <1>3, <2>4, BytePushed, Execution
    <3>2. Ins[1] = "PHP" => \E P \in SUBSET Flags : "U" \in P /\ b = StatusByte(P)
      <4>1. nes.P \cup {"U"} \in SUBSET Flags /\ "U" \in nes.P \cup {"U"}
        BY <3>1, Registers, Status
      <4> QED
        BY <4>1
    <3>3. pushed' = Put(pushed, nes'.SP, f)
      BY <2>2, <2>4 DEF Remember
    <3> HIDE DEF b
    <3>4. Framed(nes'.SP, f)
      BY <2>4, <3>1, <3>2, ByteFrame
    <3> QED
      BY <2>3, <3>3, <3>4
  <2>5. CASE Ins[1] = "JSR"
    <3> DEFINE w == ToWord(nes.PC + 3)
               f == Frame("JSR", w, Pushed(nes, 2, nes'.ram))
    <3>1. IsMachine(nes) /\ w \in Word /\ WordOnTop(nes, ToWord(w - 1), nes')
      BY <1>3, <2>5, CallPushed, Execution
    <3>2. pushed' = Put(pushed, nes'.SP, f)
      BY <2>2, <2>5 DEF Remember
    <3> HIDE DEF w
    <3>3. Framed(nes'.SP, f)
      BY <3>1, CallFrame
    <3> QED
      BY <2>3, <3>2, <3>3
  <2>6. CASE Ins[1] \in {"PLA", "PLP", "RTS", "RTI"}
    <3>1. pushed' = [s \in DOMAIN pushed \ {nes.SP} |-> pushed[s]]
      BY <2>2, <2>6 DEF Remember
    <3> QED
      BY <2>1, <3>1 DEF FInv
  <2>7. CASE Ins[1] \notin {"PHA", "PHP", "JSR", "PLA", "PLP", "RTS", "RTI"}
    <3>1. Ins[1] # "IRQ"
      BY <1>3, Execution DEF IsEntry, Rows, OpNames, BranchOps
    <3>2. pushed' = pushed
      BY <2>2, <2>7, <3>1 DEF Remember
    <3> QED
      BY <1>1, <2>1, <3>2
  <2> QED
    BY <2>4, <2>5, <2>6, <2>7
<1>4. CASE CountDown \/ FollowLostEntry
  BY <1>1, <1>4 DEF CountDown, FollowLostEntry, FInv
<1>5. ASSUME NEW vector \in Nat, NEW k \in 0 .. 8, Interrupt(vector, k)
      PROVE  FInv'
  <2> DEFINE f == Frame("IRQ", nes.PC, Pushed(nes, 3, nes'.ram))
  <2>1. phase = "running" /\ nes' = Interrupted(nes, vector, k) /\ executed' = executed
    BY <1>5 DEF Interrupt
  <2>2. pushed' = Put(pushed, nes'.SP, f)
    BY <1>5 DEF Interrupt, Remember
  <2>3. IsMachine(nes) /\ nes.PC \in Word /\ IsMachine(nes')
    BY <2>1, InterruptedIs, Registers DEF IInv
  <2>4. /\ nes'.SP = ToByte(nes.SP - 3)
        /\ nes_cpu_read(nes'.ram, nes.SP) = High(nes.PC)
        /\ nes_cpu_read(nes'.ram, ToByte(nes.SP - 1)) = Low(nes.PC)
    BY <2>1, InterruptPushed
  <2>5. Framed(nes'.SP, f)
    BY <2>3, <2>4, InterruptFrame
  <2>6. \A t \in DOMAIN pushed' : Framed(t, pushed'[t])
    BY <2>2, <2>5, FramesKept
  <2> QED
    BY <2>1, <2>6 DEF FInv
<1>6. CASE nes_irq
  BY <1>5, <1>6 DEF nes_irq
<1>7. CASE nes_nmirq
  BY <1>5, <1>7 DEF nes_nmirq
<1>8. CASE UNCHANGED vars
  BY <1>1, <1>8 DEF vars, FInv
<1> QED
  BY <1>2, <1>3, <1>4, <1>6, <1>7, <1>8 DEF Next, nes_clock

\* Frames are right in every state.
THEOREM FramesAreRight == Spec => []FInv
<1>1. Init => FInv
  BY DEF Init, FInv
<1>2. IInv /\ FInv /\ [Next]_vars => FInv'
  BY StepFrames
<1> QED
  BY <1>1, <1>2, Invariant, PTL DEF Spec

-----------------------------------------------------------------------------
(* What is pulled is what was pushed *)

\* What the cells of the frame on top hold is what the program sees there.
LEMMA TopIsSeen ==
    ASSUME FInv, NEW by, OnTop(by)
    PROVE  /\ Framed(nes.SP, pushed[nes.SP]) /\ pushed[nes.SP].by = by
           /\ \A a \in DOMAIN pushed[nes.SP].cells : pushed[nes.SP].cells[a] = Peek(a)
  BY DEF FInv, OnTop

LEMMA PulledStep ==
    ASSUME IInv, FInv, phase = "running", ExecuteNext
    PROVE  /\ Op = "PLA" /\ OnTop("PHA") => nes'.A = Kept
           /\ Op = "PLP" /\ OnTop("PHP") => nes'.P = StatusOf(Kept)
           /\ Op = "RTS" /\ OnTop("JSR") => nes'.PC = Kept
           /\ Op = "RTI" /\ OnTop("IRQ") => nes'.PC = Kept
<1>0. Op = Ins[1] /\ Kept = pushed[nes.SP].kept
  BY DEF Op, Ins, Kept
<1>1. /\ IsMachine(Ready) /\ IsMachine(Done) /\ Ready.SP = nes.SP /\ Ready.ram = nes.ram
      /\ (Ins[2] = "REL") <=> (Ins[1] \in BranchOps)
      /\ nes'.A = Done.A /\ nes'.PC = Done.PC /\ nes'.P = Done.P \cup {"U"}
  BY Execution DEF IsEntry
<1>2. /\ Stacked(Ready, 1) = Peek(ToByte(nes.SP + 1)) /\ Stacked(Ready, 2) = Peek(ToByte(nes.SP + 2))
      /\ Stacked(Ready, 3) = Peek(ToByte(nes.SP + 3))
  BY <1>1, PullsPeeked
<1>3. ASSUME Ins[1] = "PLA", OnTop("PHA") PROVE nes'.A = Kept
  <2>1. Done = nes_PLA(Ready)
    BY <1>1, <1>3, StackOperations DEF Done, BranchOps
  <2>2. Done.A = Stacked(Ready, 1)
    BY <1>1, <2>1 DEF nes_PLA, LoadA, SetZN, nes_setflag, IsMachine
  <2>3. Stacked(Ready, 1) = Kept
    BY <1>0, <1>2, <1>3, TopIsSeen DEF Framed
  <2> QED
    BY <1>1, <2>2, <2>3
<1>4. ASSUME Ins[1] = "PLP", OnTop("PHP") PROVE nes'.P = StatusOf(Kept)
  <2>1. Done = nes_PLP(Ready)
    BY <1>1, <1>4, StackOperations DEF Done, BranchOps
  <2>2. Done.P = StatusOf(Stacked(Ready, 1)) \cup {"U"}
    BY <1>1, <2>1 DEF nes_PLP, IsMachine
  <2>3. Stacked(Ready, 1) = Kept /\ \E P \in SUBSET Flags : "U" \in P /\ Kept = StatusByte(P)
    BY <1>0, <1>2, <1>4, TopIsSeen DEF Framed
  <2>4. "U" \in StatusOf(Kept)
    BY <2>3, KeepsU
  <2> QED
    BY <1>1, <2>2, <2>3, <2>4
<1>5. ASSUME Ins[1] = "RTS", OnTop("JSR") PROVE nes'.PC = Kept
  <2> DEFINE w == ToWord(Kept - 1)
  <2>1. Done = nes_RTS(Ready)
    BY <1>1, <1>5, StackOperations DEF Done, BranchOps
  <2>2. Done.PC = ToWord(Stacked(Ready, 1) + \h100 * Stacked(Ready, 2) + 1)
    BY <1>1, <2>1 DEF nes_RTS, IsMachine
  <2>3. Stacked(Ready, 1) = Low(w) /\ Stacked(Ready, 2) = High(w) /\ Kept \in Word
    BY <1>0, <1>2, <1>5, TopIsSeen DEF Framed
  <2>4. Kept - 1 \in Int /\ Kept \in Int
    BY <2>3, OfWord
  <2>5. Low(w) + 256 * High(w) = w
    BY <2>4, Widths, Halves
  <2>6. ToWord(w + 1) = Kept
    <3> DEFINE x == Kept - 1
               k == 1
    <3>1. x \in Int /\ k \in Int /\ x + k = Kept
      BY <2>4
    <3> HIDE DEF x, k
    <3>2. ToWord(ToWord(x) + k) = ToWord(x + k) /\ ToWord(Kept) = Kept
      BY <2>3, <3>1, Wraps
    <3> QED
      BY <3>1, <3>2 DEF x, k
  <2> QED
    BY <1>1, <2>2, <2>3, <2>5, <2>6
<1>6. ASSUME Ins[1] = "RTI", OnTop("IRQ") PROVE nes'.PC = Kept
  <2>1. Done = nes_RTI(Ready)
    BY <1>1, <1>6, StackOperations DEF Done, BranchOps
  <2>2. Done.PC = Stacked(Ready, 2) + \h100 * Stacked(Ready, 3)
    BY <1>1, <2>1 DEF nes_RTI, IsMachine
  <2>3. Stacked(Ready, 2) = Low(Kept) /\ Stacked(Ready, 3) = High(Kept) /\ Kept \in Word
    BY <1>0, <1>2, <1>6, TopIsSeen DEF Framed
  <2> QED
    BY <1>1, <2>2, <2>3, Halves
<1> QED
  BY <1>0, <1>3, <1>4, <1>5, <1>6

\* Whatever the program, PLA and PLP give back what PHA and PHP pushed, RTS goes
\* on behind the call, and RTI at the instruction that was interrupted, when
\* nothing was written over it: across nested calls, the end of the stack, and
\* interrupts at any cycle (nes_JSR, nes_RTS, nes_RTI, nes_PHA, nes_PLA, nes_irq).
THEOREM PulledIsRight == Spec => PulledIsPushed
<1> DEFINE Pulls4 ==
      /\ Op = "PLA" /\ OnTop("PHA") => nes'.A = Kept
      /\ Op = "PLP" /\ OnTop("PHP") => nes'.P = StatusOf(Kept)
      /\ Op = "RTS" /\ OnTop("JSR") => nes'.PC = Kept
      /\ Op = "RTI" /\ OnTop("IRQ") => nes'.PC = Kept
<1>1. IInv /\ FInv /\ [Next]_vars => [Executes => Pulls4]_vars
  <2> SUFFICES ASSUME IInv, FInv, [Next]_vars, Executes PROVE Pulls4 \/ UNCHANGED vars
    OBVIOUS
  <2>1. executed \in Nat /\ executed' = executed + 1
    BY DEF FInv, Executes
  <2>2. phase = "running" /\ ExecuteNext
    BY <2>1 DEF Next, nes_reset, nes_clock, CountDown, FollowLostEntry, nes_irq, nes_nmirq, Interrupt, vars
  <2> HIDE DEF Pulls4
  <2>3. Pulls4
    BY <2>2, PulledStep DEF Pulls4
  <2> QED
    BY <2>3
<1> QED
  BY <1>1, Invariant, FramesAreRight, PTL DEF Spec, PulledIsPushed

-----------------------------------------------------------------------------
(* The table, entry by entry: the fields of an opcode *)

\* The entry an opcode should have: its operation, its mode and its cycles when no
\* page is left.
Expected(op, mode) == <<op, mode, Cycles(op, mode, FALSE, FALSE)>>

\* What the modes of an operation have in common: one that indexes a whole
\* address costs a cycle, unless it writes, and stores have an address.
Legally(op, mode) ==
    /\ mode \in {"ABX", "ABY", "IZY"} => op \in TakesLonger \cup Stores \cup Modifies
    /\ op \in Stores \cup {"INC", "DEC"} => mode # "IMP"

\* An opcode is its operation, mode and group, or its column and row.
LEMMA Fields ==
    ASSUME NEW o \in Byte
    PROVE  /\ OpBits(o) \in 0 .. 7 /\ ModeBits(o) \in 0 .. 7 /\ Group(o) \in 0 .. 3
           /\ o = 32 * OpBits(o) + 4 * ModeBits(o) + Group(o)
           /\ o \div 16 \in 0 .. 15 /\ o % 16 \in 0 .. 15 /\ o = 16 * (o \div 16) + (o % 16)
<1> DEFINE p == o \div 4
           a == o \div 32
           b == p % 8
           c == o % 4
           k == o \div 16
           j == o % 16
<1>1. o \in Int /\ 0 <= o /\ o <= 255
  BY OfByte
<1>2. /\ p \in Int /\ c \in Int /\ 0 <= c /\ c < 4 /\ o = 4 * p + c
      /\ k \in Int /\ j \in Int /\ 0 <= j /\ j < 16 /\ o = 16 * k + j
  BY <1>1, Divided
<1>3. a \in Int /\ 32 * a <= o /\ o < 32 * a + 32
  BY <1>1
<1> HIDE DEF p, c, a, k, j
<1>4. b \in Int /\ 0 <= b /\ b < 8 /\ p = 8 * (p \div 8) + b /\ p \div 8 \in Int
  BY <1>2, Divided
<1> DEFINE d == p \div 8
<1> HIDE DEF b, d
<1>5. a = d
  BY <1>2, <1>3, <1>4 DEF d
<1>6. o = 32 * a + 4 * b + c /\ 0 <= a /\ a <= 7 /\ 0 <= k /\ k <= 15
  BY <1>1, <1>2, <1>3, <1>4, <1>5 DEF d
<1>7. OpBits(o) = a /\ ModeBits(o) = b /\ Group(o) = c
  BY DEF OpBits, ModeBits, Group, a, b, p, c
<1>8. a \in 0 .. 7 /\ b \in 0 .. 7 /\ c \in 0 .. 3 /\ k \in 0 .. 15 /\ j \in 0 .. 15
  BY <1>2, <1>3, <1>4, <1>6
<1>9. o \div 16 = k /\ o % 16 = j
  BY DEF k, j
<1> HIDE DEF k, j
<1> QED
  BY <1>2, <1>6, <1>7, <1>8, <1>9

\* The columns 8 and A and six opcodes are outside the groups.
LEMMA Decoded ==
    ASSUME NEW o \in Byte
    PROVE  /\ o % 16 = 8 => Decode[o] = <<Column8[o \div 16 + 1], "IMP">>
           /\ o % 16 = 10 /\ o >= 128 => Decode[o] = <<ColumnA[o \div 16 - 7], "IMP">>
           /\ o % 16 # 8 /\ ~(o % 16 = 10 /\ o >= 128) /\ o \notin {0, 32, 64, 96, 76, 108}
                => Decode[o] = Regular(o)
           /\ o = 0 => Decode[o] = <<"BRK", "IMM">>
           /\ o = 32 => Decode[o] = <<"JSR", "ABS">>
           /\ o = 64 => Decode[o] = <<"RTI", "IMP">>
           /\ o = 96 => Decode[o] = <<"RTS", "IMP">>
           /\ o = 76 => Decode[o] = <<"JMP", "ABS">>
           /\ o = 108 => Decode[o] = <<"JMP", "IND">>
  BY OfByte DEF Decode

\* What the three groups decode to.
LEMMA RegularIs ==
    ASSUME NEW o \in Byte
    PROVE  /\ Group(o) = 1 => Regular(o) = <<Accumulating[OpBits(o) + 1], AccuModes[ModeBits(o) + 1]>>
           /\ Group(o) = 2 => Regular(o) = <<Modifying[OpBits(o) + 1], ModifyMode(o)>>
           /\ Group(o) = 3 => Regular(o) = <<"none", "none">>
           /\ Group(o) = 0 /\ ModeBits(o) = 4 => Regular(o) = <<Branches[OpBits(o) + 1], "REL">>
           /\ Group(o) = 0 /\ ModeBits(o) # 4 /\ OpBits(o) \in {1, 4, 5, 6, 7}
                 => Regular(o) = <<IndexOps[OpBits(o)], IndexMode(o)>>
           /\ Group(o) = 0 /\ ModeBits(o) # 4 /\ OpBits(o) \notin {1, 4, 5, 6, 7}
                 => Regular(o) = <<"none", "none">>
  BY DEF Regular, IndexOps

\* The table of init_nes_6502 is the two halves it is written in here.
LEMMA ByHalves ==
    ASSUME NEW o \in Byte
    PROVE  nes_instructions[o + 1] = IF o < 128 THEN LowInstructions[o + 1] ELSE HighInstructions[o - 127]
<1>1. Half = 128 /\ o \in Int /\ 0 <= o /\ o < Half + Half
  BY OfByte DEF Half
<1>2. CASE o < 128
  <2>1. o + 1 \in 1 .. Half /\ Half \in Nat
    BY <1>1, <1>2
  <2>2. nes_instructions[o + 1] = LowInstructions[o + 1]
    BY <2>1, LowEntries, HighEntries DEF nes_instructions
  <2> QED
    BY <1>2, <2>2
<1>3. CASE o >= 128
  <2> DEFINE i == o + 1
             k == i - Len(LowInstructions)
  <2>1. i \in Len(LowInstructions) + 1 .. Len(LowInstructions) + Len(HighInstructions) /\ k = o - 127
    BY <1>1, <1>3, LowEntries, HighEntries
  <2> HIDE DEF i
  <2>2. (LowInstructions \o HighInstructions)[i] = HighInstructions[k]
    BY <2>1, LowEntries, HighEntries, SecondHalf
  <2> HIDE DEF k
  <2> QED
    BY <1>1, <1>3, <2>1, <2>2 DEF nes_instructions, i
<1> QED
  BY <1>1, <1>2, <1>3

-----------------------------------------------------------------------------
(* The rows of the table, by those fields *)

\* The opcodes of group 1 by operation and mode; 0x89 would store an operand.
LEMMA AccumulatingRows ==
    /\ \A a \in 0 .. 3, b \in 0 .. 7 :
         LowInstructions[32 * a + 4 * b + 2] = Expected(Accumulating[a + 1], AccuModes[b + 1])
    /\ \A b \in 0 .. 7 : b # 2 => HighInstructions[4 * b + 2] = Expected("STA", AccuModes[b + 1])
    /\ \A a \in 5 .. 7, b \in 0 .. 7 :
         HighInstructions[32 * a + 4 * b - 126] = Expected(Accumulating[a + 1], AccuModes[b + 1])
<1>1. \A a \in 0 .. 3, b \in 0 .. 7 :
        LowInstructions[32 * a + 4 * b + 2] = Expected(Accumulating[a + 1], AccuModes[b + 1])
  BY SMTT(60) DEF LowInstructions, Accumulating, AccuModes, Expected, Cycles, OwnCycles, Stores, Modifies, Shifts, ReadCycles
<1>2. \A b \in 0 .. 7 : b # 2 => HighInstructions[4 * b + 2] = Expected("STA", AccuModes[b + 1])
  BY SMTT(60) DEF HighInstructions, AccuModes, Expected, Cycles, OwnCycles, Stores, Modifies, Shifts, ReadCycles
<1>3. \A a \in 5 .. 7, b \in 0 .. 7 :
        HighInstructions[32 * a + 4 * b - 126] = Expected(Accumulating[a + 1], AccuModes[b + 1])
  BY SMTT(60) DEF HighInstructions, Accumulating, AccuModes, Expected, Cycles, OwnCycles, Stores, Modifies, Shifts, ReadCycles
<1> QED
  BY <1>1, <1>2, <1>3

\* Those of group 2: the shifts, INC and DEC, STX and LDX.
LEMMA ModifyingRows ==
    /\ \A a \in 0 .. 3 :
         /\ LowInstructions[32 * a + 7] = Expected(Modifying[a + 1], "ZP0")
         /\ LowInstructions[32 * a + 11] = Expected(Modifying[a + 1], "IMP")
         /\ LowInstructions[32 * a + 15] = Expected(Modifying[a + 1], "ABS")
         /\ LowInstructions[32 * a + 23] = Expected(Modifying[a + 1], "ZPX")
         /\ LowInstructions[32 * a + 31] = Expected(Modifying[a + 1], "ABX")
    /\ \A a \in 6 .. 7 :
         /\ HighInstructions[32 * a - 121] = Expected(Modifying[a + 1], "ZP0")
         /\ HighInstructions[32 * a - 113] = Expected(Modifying[a + 1], "ABS")
         /\ HighInstructions[32 * a - 105] = Expected(Modifying[a + 1], "ZPX")
         /\ HighInstructions[32 * a - 97] = Expected(Modifying[a + 1], "ABX")
    /\ HighInstructions[7] = Expected("STX", "ZP0")
    /\ HighInstructions[15] = Expected("STX", "ABS")
    /\ HighInstructions[23] = Expected("STX", "ZPY")
    /\ HighInstructions[35] = Expected("LDX", "IMM")
    /\ HighInstructions[39] = Expected("LDX", "ZP0")
    /\ HighInstructions[47] = Expected("LDX", "ABS")
    /\ HighInstructions[55] = Expected("LDX", "ZPY")
    /\ HighInstructions[63] = Expected("LDX", "ABY")
  BY SMTT(60) DEF LowInstructions, HighInstructions, Modifying, Expected, Cycles, OwnCycles, Stores, Modifies, Shifts, ReadCycles

\* Those of group 0: BIT, STY, LDY, CPY and CPX.
LEMMA IndexRows ==
    /\ LowInstructions[37] = Expected("BIT", "ZP0")
    /\ LowInstructions[45] = Expected("BIT", "ABS")
    /\ HighInstructions[5] = Expected("STY", "ZP0")
    /\ HighInstructions[13] = Expected("STY", "ABS")
    /\ HighInstructions[21] = Expected("STY", "ZPX")
    /\ HighInstructions[33] = Expected("LDY", "IMM")
    /\ HighInstructions[37] = Expected("LDY", "ZP0")
    /\ HighInstructions[45] = Expected("LDY", "ABS")
    /\ HighInstructions[53] = Expected("LDY", "ZPX")
    /\ HighInstructions[61] = Expected("LDY", "ABX")
    /\ \A a \in 6 .. 7 :
         /\ HighInstructions[32 * a - 127] = Expected(IndexOps[a], "IMM")
         /\ HighInstructions[32 * a - 123] = Expected(IndexOps[a], "ZP0")
         /\ HighInstructions[32 * a - 115] = Expected(IndexOps[a], "ABS")
  BY SMTT(60) DEF LowInstructions, HighInstructions, IndexOps, Expected, Cycles, OwnCycles, Stores, Modifies, Shifts, ReadCycles

\* The branches, and what lies outside the groups.
LEMMA OtherRows ==
    /\ \A a \in 0 .. 3 : LowInstructions[32 * a + 17] = Expected(Branches[a + 1], "REL")
    /\ \A a \in 4 .. 7 : HighInstructions[32 * a - 111] = Expected(Branches[a + 1], "REL")
    /\ \A k \in 0 .. 7 : LowInstructions[16 * k + 9] = Expected(Column8[k + 1], "IMP")
    /\ \A k \in 8 .. 15 : HighInstructions[16 * k - 119] = Expected(Column8[k + 1], "IMP")
    /\ \A k \in {8, 9, 10, 11, 12, 14} : HighInstructions[16 * k - 117] = Expected(ColumnA[k - 7], "IMP")
    /\ LowInstructions[1] = Expected("BRK", "IMM") /\ LowInstructions[33] = Expected("JSR", "ABS")
    /\ LowInstructions[65] = Expected("RTI", "IMP") /\ LowInstructions[97] = Expected("RTS", "IMP")
    /\ LowInstructions[77] = Expected("JMP", "ABS") /\ LowInstructions[109] = Expected("JMP", "IND")
<1>1. \A a \in 0 .. 3 : LowInstructions[32 * a + 17] = Expected(Branches[a + 1], "REL")
  BY SMTT(60) DEF LowInstructions, Branches, Expected, Cycles, OwnCycles, Stores, Modifies, Shifts, ReadCycles
<1>2. \A a \in 4 .. 7 : HighInstructions[32 * a - 111] = Expected(Branches[a + 1], "REL")
  BY SMTT(60) DEF HighInstructions, Branches, Expected, Cycles, OwnCycles, Stores, Modifies, Shifts, ReadCycles
<1>3. \A k \in 0 .. 7 : LowInstructions[16 * k + 9] = Expected(Column8[k + 1], "IMP")
  BY SMTT(60) DEF LowInstructions, Column8, Expected, Cycles, OwnCycles, Stores, Modifies, Shifts, ReadCycles
<1>4. \A k \in 8 .. 15 : HighInstructions[16 * k - 119] = Expected(Column8[k + 1], "IMP")
  BY SMTT(60) DEF HighInstructions, Column8, Expected, Cycles, OwnCycles, Stores, Modifies, Shifts, ReadCycles
<1>5. \A k \in {8, 9, 10, 11, 12, 14} : HighInstructions[16 * k - 117] = Expected(ColumnA[k - 7], "IMP")
  BY SMTT(60) DEF HighInstructions, ColumnA, Expected, Cycles, OwnCycles, Stores, Modifies, Shifts, ReadCycles
<1>6. /\ LowInstructions[1] = Expected("BRK", "IMM") /\ LowInstructions[33] = Expected("JSR", "ABS")
      /\ LowInstructions[65] = Expected("RTI", "IMP") /\ LowInstructions[97] = Expected("RTS", "IMP")
      /\ LowInstructions[77] = Expected("JMP", "ABS") /\ LowInstructions[109] = Expected("JMP", "IND")
  BY SMTT(60) DEF LowInstructions, Expected, Cycles, OwnCycles, Stores, Modifies, Shifts, ReadCycles
<1> QED
  BY <1>1, <1>2, <1>3, <1>4, <1>5, <1>6

\* Operations and modes that go together.
LEMMA Pairs ==
    /\ \A a \in 0 .. 7, b \in 0 .. 7 : Legally(Accumulating[a + 1], AccuModes[b + 1])
    /\ \A a \in 0 .. 7 : \A mode \in {"ZP0", "ABS", "ZPX"} : Legally(Modifying[a + 1], mode)
    /\ \A a \in {0, 1, 2, 3, 6, 7} : Legally(Modifying[a + 1], "ABX")
    /\ \A a \in 0 .. 3 : Legally(Modifying[a + 1], "IMP")
    /\ \A a \in 4 .. 5 : Legally(Modifying[a + 1], "ZPY")
    /\ Legally("LDX", "IMM") /\ Legally("LDX", "ABY") /\ Legally("LDY", "ABX")
    /\ \A a \in {1, 4, 5, 6, 7} : \A mode \in {"IMM", "ZP0", "ABS", "ZPX"} : Legally(IndexOps[a], mode)
    /\ \A a \in 0 .. 7 : Legally(Branches[a + 1], "REL")
    /\ \A k \in 0 .. 15 : Legally(Column8[k + 1], "IMP")
    /\ \A k \in 8 .. 15 : Legally(ColumnA[k - 7], "IMP")
    /\ Legally("BRK", "IMM") /\ Legally("JSR", "ABS") /\ Legally("RTI", "IMP") /\ Legally("RTS", "IMP")
    /\ Legally("JMP", "ABS") /\ Legally("JMP", "IND")
  BY SMTT(60) DEF Legally, TakesLonger, Stores, Modifies, Shifts, Accumulating, AccuModes, Modifying,
                  IndexOps, Branches, Column8, ColumnA

-----------------------------------------------------------------------------
(* Every documented opcode has its entry *)

\* The table has the entry that the encoding asks for.
Agrees(o) ==
    /\ nes_instructions[o + 1] = Expected(Decode[o][1], Decode[o][2])
    /\ Legally(Decode[o][1], Decode[o][2])

\* Every documented opcode is in the table of init_nes_6502 with its operation, its
\* mode and its cycles.
THEOREM TableAgrees ==
    ASSUME NEW o \in Legal
    PROVE  Agrees(o)
<1> DEFINE a == OpBits(o)
           b == ModeBits(o)
           c == Group(o)
           k == o \div 16
           j == o % 16
<1>1. /\ o \in Byte /\ o \in Int /\ 0 <= o /\ o <= 255
      /\ a \in 0 .. 7 /\ b \in 0 .. 7 /\ c \in 0 .. 3 /\ o = 32 * a + 4 * b + c
      /\ k \in 0 .. 15 /\ j \in 0 .. 15 /\ o = 16 * k + j
  BY Fields, OfByte DEF Legal
<1>2. /\ Decode[o][1] # "none" /\ Decode[o][2] # "none"
      /\ Decode[o] # <<"STA", "IMM">>
      /\ c \in {0, 2} /\ Alike(Decode[o][1]) \in DOMAIN ModesOf => Decode[o][2] \in ModesOf[Alike(Decode[o][1])]
  BY DEF Legal
<1>3. nes_instructions[o + 1] = IF o < 128 THEN LowInstructions[o + 1] ELSE HighInstructions[o - 127]
  BY <1>1, ByHalves
<1> HIDE DEF a, b, c, k, j
<1>4. CASE j = 8
  <2>1. Decode[o] = <<Column8[k + 1], "IMP">>
    BY <1>1, <1>4, Decoded DEF j, k
  <2>2. nes_instructions[o + 1] = Expected(Column8[k + 1], "IMP")
    BY <1>1, <1>3, <1>4, OtherRows
  <2> QED
    BY <1>1, <2>1, <2>2, Pairs DEF Agrees
<1>5. CASE j = 10 /\ o >= 128
  <2>1. Decode[o] = <<ColumnA[k - 7], "IMP">> /\ k \in 8 .. 15
    BY <1>1, <1>5, Decoded DEF j, k
  <2>2. k # 13 /\ k # 15
    BY <1>2, <2>1 DEF ColumnA
  <2>3. nes_instructions[o + 1] = Expected(ColumnA[k - 7], "IMP")
    BY <1>1, <1>3, <1>5, <2>1, <2>2, OtherRows
  <2> QED
    BY <2>1, <2>3, Pairs DEF Agrees
<1>6. CASE o \in {0, 32, 64, 96, 76, 108}
  BY <1>1, <1>3, <1>6, Decoded, OtherRows, Pairs DEF Agrees
<1>7. CASE j # 8 /\ ~(j = 10 /\ o >= 128) /\ o \notin {0, 32, 64, 96, 76, 108}
  <2>1. Decode[o] = Regular(o)
    BY <1>1, <1>7, Decoded DEF j
  <2>2. CASE c = 1
    <3>1. Decode[o] = <<Accumulating[a + 1], AccuModes[b + 1]>>
      BY <1>1, <2>1, <2>2, RegularIs DEF a, b, c
    <3>2. a # 4 \/ b # 2
      BY <1>2, <3>1 DEF Accumulating, AccuModes
    <3>3. Accumulating[5] = "STA"
      BY DEF Accumulating
    <3>4. nes_instructions[o + 1] = Expected(Accumulating[a + 1], AccuModes[b + 1])
      <4>1. CASE a \in 0 .. 3
        BY <1>1, <1>3, <2>2, <4>1, AccumulatingRows
      <4>2. CASE a = 4
        BY <1>1, <1>3, <2>2, <3>2, <3>3, <4>2, AccumulatingRows
      <4>3. CASE a \in 5 .. 7
        BY <1>1, <1>3, <2>2, <4>3, AccumulatingRows
      <4> QED
        BY <1>1, <4>1, <4>2, <4>3
    <3> QED
      BY <1>1, <3>1, <3>4, Pairs DEF Agrees
  <2>3. CASE c = 2
    <3>1. Decode[o] = <<Modifying[a + 1], ModifyMode(o)>>
      BY <1>1, <2>1, <2>3, RegularIs DEF a, c
    <3>2. CASE a \in 0 .. 3
      <4>1. /\ ModifyMode(o) = <<"IMM", "ZP0", "IMP", "ABS", "none", "ZPX", "none", "ABX">>[b + 1]
            /\ ModifyMode(o) \in {"ZP0", "IMP", "ABS", "ZPX", "ABX"}
        BY <1>2, <2>3, <3>1, <3>2 DEF ModifyMode, a, b, Modifying, Alike, Shifts, ModesOf
      <4>2. b \in {1, 2, 3, 5, 7}
        BY <1>1, <4>1
      <4> QED
        BY <1>1, <1>3, <2>3, <3>1, <3>2, <4>1, <4>2, ModifyingRows, Pairs DEF Agrees
    <3>3. CASE a = 4
      <4>1. Modifying[5] = "STX" /\ ModifyMode(o) = <<"IMM", "ZP0", "IMP", "ABS", "none", "ZPY", "none", "ABY">>[b + 1]
        BY <3>3 DEF ModifyMode, a, b, Modifying
      <4>2. ModifyMode(o) \in {"ZP0", "ABS", "ZPY"}
        BY <1>2, <2>3, <3>1, <3>3, <4>1 DEF Alike, Shifts, ModesOf
      <4>3. b \in {1, 3, 5}
        BY <1>1, <4>1, <4>2
      <4> QED
        BY <1>1, <1>3, <2>3, <3>1, <3>3, <4>1, <4>3, ModifyingRows, Pairs DEF Agrees
    <3>4. CASE a = 5
      <4>1. Modifying[6] = "LDX" /\ ModifyMode(o) = <<"IMM", "ZP0", "IMP", "ABS", "none", "ZPY", "none", "ABY">>[b + 1]
        BY <3>4 DEF ModifyMode, a, b, Modifying
      <4>2. ModifyMode(o) \in {"IMM", "ZP0", "ABS", "ZPY", "ABY"}
        BY <1>2, <2>3, <3>1, <3>4, <4>1 DEF Alike, Shifts, ModesOf
      <4>3. b \in {0, 1, 3, 5, 7}
        BY <1>1, <4>1, <4>2
      <4> QED
        BY <1>1, <1>3, <2>3, <3>1, <3>4, <4>1, <4>3, ModifyingRows, Pairs DEF Agrees
    <3>5. CASE a \in 6 .. 7
      <4>1. /\ ModifyMode(o) = <<"IMM", "ZP0", "IMP", "ABS", "none", "ZPX", "none", "ABX">>[b + 1]
            /\ ModifyMode(o) \in {"ZP0", "ABS", "ZPX", "ABX"}
        BY <1>2, <2>3, <3>1, <3>5 DEF ModifyMode, a, b, Modifying, Alike, Shifts, ModesOf
      <4>2. b \in {1, 3, 5, 7}
        BY <1>1, <4>1
      <4> QED
        BY <1>1, <1>3, <2>3, <3>1, <3>5, <4>1, <4>2, ModifyingRows, Pairs DEF Agrees
    <3> QED
      BY <1>1, <3>2, <3>3, <3>4, <3>5
  <2>4. CASE c = 3
    BY <1>1, <1>2, <2>1, <2>4, RegularIs DEF c
  <2>5. CASE c = 0 /\ b = 4
    <3>1. Decode[o] = <<Branches[a + 1], "REL">>
      BY <1>1, <2>1, <2>5, RegularIs DEF a, b, c
    <3>2. nes_instructions[o + 1] = Expected(Branches[a + 1], "REL")
      BY <1>1, <1>3, <2>5, OtherRows
    <3> QED
      BY <1>1, <3>1, <3>2, Pairs DEF Agrees
  <2>6. CASE c = 0 /\ b # 4
    <3>1. a \in {1, 4, 5, 6, 7} /\ Decode[o] = <<IndexOps[a], IndexMode(o)>>
      BY <1>1, <1>2, <2>1, <2>6, RegularIs DEF a, b, c
    <3>2. IndexMode(o) = <<"IMM", "ZP0", "none", "ABS", "none", "ZPX", "none", "ABX">>[b + 1]
      BY DEF IndexMode, b
    <3>3. /\ a = 1 => IndexOps[a] = "BIT" /\ IndexMode(o) \in {"ZP0", "ABS"}
          /\ a = 4 => IndexOps[a] = "STY" /\ IndexMode(o) \in {"ZP0", "ABS", "ZPX"}
          /\ a = 5 => IndexOps[a] = "LDY" /\ IndexMode(o) \in {"IMM", "ZP0", "ABS", "ZPX", "ABX"}
          /\ a \in {6, 7} => IndexMode(o) \in {"IMM", "ZP0", "ABS"}
      BY <1>2, <2>6, <3>1 DEF IndexOps, Alike, Shifts, ModesOf
    <3>4. /\ a = 1 => b \in {1, 3}
          /\ a = 4 => b \in {1, 3, 5}
          /\ a = 5 => b \in {0, 1, 3, 5, 7}
          /\ a \in {6, 7} => b \in {0, 1, 3}
      BY <1>1, <3>2, <3>3
    <3>5. CASE a \in {1, 4, 5}
      BY <1>1, <1>3, <2>6, <3>1, <3>2, <3>3, <3>4, <3>5, IndexRows, Pairs DEF Agrees
    <3>6. CASE a \in {6, 7}
      BY <1>1, <1>3, <2>6, <3>1, <3>2, <3>4, <3>6, IndexRows, Pairs DEF Agrees
    <3> QED
      BY <3>1, <3>5, <3>6
  <2> QED
    BY <1>1, <2>2, <2>3, <2>4, <2>5, <2>6
<1> QED
  BY <1>1, <1>4, <1>5, <1>6, <1>7

-----------------------------------------------------------------------------
(* A documented instruction is executed *)

\* A documented instruction is executed.
Documented == IInv /\ phase = "running" /\ ExecuteNext /\ Instruction.opcode \in Legal

\* The table names the operation and the mode that the opcode says.
LEMMA Named ==
    ASSUME Documented, NEW i, i = Instruction
    PROVE  /\ i.opcode = OpcodeAt(nes) /\ i.op = Ins[1] /\ i.mode = Ins[2]
           /\ Ins[3] = Cycles(i.op, i.mode, FALSE, FALSE) /\ Legally(i.op, i.mode)
           /\ i.op \in OpNames /\ i.mode \in ModeNames /\ ((i.mode = "REL") <=> (i.op \in BranchOps))
           /\ i.op = "JSR" => i.mode = "ABS"
           /\ i.op = "JMP" => i.mode \in {"ABS", "IND"}
           /\ i.next = ToWord(nes.PC + Length(i.mode))
           /\ i.base = BaseOf(i.mode, Peek(nes.PC + 1), Peek(nes.PC + 2))
           /\ i.abs = AddressOf(i.mode, i.base, Peek(nes.PC + 1))
           /\ i.value = IF i.mode = "IMP" THEN nes.A ELSE Peek(i.abs)
<1> DEFINE o == OpcodeAt(nes)
<1>1. /\ i.opcode = o /\ i.op = Decode[o][1] /\ i.mode = Decode[o][2]
      /\ i.next = ToWord(nes.PC + Length(i.mode))
      /\ i.base = BaseOf(i.mode, Peek(nes.PC + 1), Peek(nes.PC + 2))
      /\ i.abs = AddressOf(i.mode, i.base, Peek(nes.PC + 1))
      /\ i.value = IF i.mode = "IMP" THEN nes.A ELSE Peek(i.abs)
  BY DEF Instruction
<1>2. o \in Legal
  BY <1>1 DEF Documented
<1> HIDE DEF o
<1>3. nes_instructions[o + 1] = <<i.op, i.mode, Cycles(i.op, i.mode, FALSE, FALSE)>> /\ Legally(i.op, i.mode)
  BY <1>1, <1>2, TableAgrees DEF Agrees, Expected
<1>4. Ins = nes_instructions[o + 1] /\ IsEntry(Ins)
  BY Execution DEF Documented, Ins, o
<1>5. i.op = Ins[1] /\ i.mode = Ins[2] /\ Ins[3] = Cycles(i.op, i.mode, FALSE, FALSE)
  BY <1>3, <1>4
<1>6. /\ i.op \in OpNames /\ i.mode \in ModeNames /\ ((i.mode = "REL") <=> (i.op \in BranchOps))
      /\ i.op = "JSR" => i.mode = "ABS"
      /\ i.op = "JMP" => i.mode \in {"ABS", "IND"}
  BY <1>4, <1>5 DEF IsEntry, Rows
<1> QED
  BY <1>1, <1>3, <1>5, <1>6 DEF o

\* What the program sees at an address, and behind the opcode.
LEMMA Peeks ==
    ASSUME Documented
    PROVE  /\ \A a \in Word : Peek(a) = nes_cpu_read(nes.ram, a)
           /\ \A a \in Int : Peek(a) \in Byte
           /\ Operand(Begun) = Peek(nes.PC + 1)
           /\ OperandWord(Begun) = Peek(nes.PC + 1) + 256 * Peek(nes.PC + 2)
<1>1. /\ nes_loaded_cart \in Carts /\ IsMachine(nes)
      /\ Begun.PC = ToWord(nes.PC + 1) /\ Begun.ram = nes.ram
  BY Execution DEF Documented
<1>2. ASSUME NEW a \in Int PROVE Peek(a) \in Byte
  <2>1. ToWord(a) \in Nat
    BY Widths, Ranges
  <2> QED
    BY <1>1, <2>1, Registers, ReadsByte DEF Peek
<1>3. \A a \in Word : Peek(a) = nes_cpu_read(nes.ram, a)
  BY Wraps DEF Peek
<1>4. ToWord(ToWord(nes.PC + 1) + 1) = ToWord(nes.PC + 2)
  <2> DEFINE x == nes.PC + 1
             k == 1
  <2>1. x \in Int /\ k \in Int /\ x + k = nes.PC + 2
    BY <1>1, Registers
  <2> HIDE DEF x, k
  <2>2. ToWord(ToWord(x) + k) = ToWord(x + k)
    BY <2>1, Wraps
  <2> QED
    BY <2>1, <2>2 DEF x, k
<1> QED
  BY <1>1, <1>2, <1>3, <1>4 DEF Peek, Operand, OperandWord

\* Wrapping twice, behind the opcode.
LEMMA Onward ==
    ASSUME NEW pc \in Int, NEW k \in Int
    PROVE  ToWord(ToWord(pc + 1) + k) = ToWord(pc + (1 + k)) /\ ToWord(ToWord(pc + 1)) = ToWord(pc + 1)
<1> DEFINE x == pc + 1
<1>1. x \in Int /\ x + k = pc + (1 + k)
  OBVIOUS
<1> HIDE DEF x
<1>2. ToWord(ToWord(x) + k) = ToWord(x + k) /\ ToWord(ToWord(x)) = ToWord(x)
  BY <1>1, Wraps, Widths
<1> QED
  BY <1>1, <1>2 DEF x

\* The instruction ends where its mode says.
LEMMA Ends ==
    ASSUME Documented, NEW i, i = Instruction
    PROVE  Place.next = i.next /\ ListingGoesOn(i)
<1> DEFINE n == OperandBytes(i.mode)
<1>1. /\ i.mode = Ins[2] /\ i.mode \in ModeNames /\ i.next = ToWord(nes.PC + Length(i.mode))
      /\ i.opcode = OpcodeAt(nes)
  BY Named
<1>2. n \in Int /\ Length(i.mode) = 1 + n /\ nes.PC \in Int
  BY Execution, Registers DEF OperandBytes, Length, Documented
<1>3. Place.next = ToWord(Begun.PC + n)
  BY <1>1 DEF Place, Addressed, Found, Indexed, OperandBytes, ModeNames, nes_ZPX, nes_ZPY, nes_REL, nes_IND, nes_IZX, nes_IZY
<1>4. i.next = ToWord(nes.PC + (1 + n)) /\ nes.PC + (1 + n) = nes.PC + 1 + n
  BY <1>1, <1>2
<1>5. nes_instructions[i.opcode + 1][2] = i.mode
  BY <1>1 DEF Ins
<1> HIDE DEF n
<1>6. Place.next = i.next
  BY <1>2, <1>3, <1>4, Onward, Execution DEF Documented
<1> QED
  BY <1>4, <1>5, <1>6 DEF ListingGoesOn, n

-----------------------------------------------------------------------------
(* Addressing *)

\* Each mode finds the address that the processor finds, and notices when an
\* index leads to another page.
LEMMA Finds ==
    ASSUME Documented, NEW i, i = Instruction
    PROVE  /\ i.mode \notin {"IMP", "REL"} /\ ~OperandDiffers(i) => Place.abs = i.abs
           /\ Place.extra <=> i.mode \in {"ABX", "ABY", "IZY"} /\ High(i.abs) # High(i.base)
<1> DEFINE b1 == Peek(nes.PC + 1)
           w == b1 + 256 * Peek(nes.PC + 2)
<1>1. /\ i.mode = Ins[2] /\ i.mode \in ModeNames
      /\ i.base = BaseOf(i.mode, b1, Peek(nes.PC + 2)) /\ i.abs = AddressOf(i.mode, i.base, b1)
  BY Named
<1>2. /\ nes_loaded_cart \in Carts /\ IsMachine(nes) /\ IsMachine(Begun)
      /\ Begun.PC = ToWord(nes.PC + 1) /\ Begun.ram = nes.ram /\ Begun.X = nes.X /\ Begun.Y = nes.Y
  BY Execution DEF Documented
<1>3. Operand(Begun) = b1 /\ OperandWord(Begun) = w
  BY Peeks
<1>4. b1 \in Byte /\ b1 \in Int /\ w \in Word /\ nes.PC + 1 \in Int
  <2>1. nes.PC + 1 \in Int /\ nes.PC + 2 \in Int
    BY <1>2, Registers
  <2>2. b1 \in Byte /\ Peek(nes.PC + 2) \in Byte
    BY <2>1, Peeks
  <2> QED
    BY <2>1, <2>2, Ranges, OfByte
<1> HIDE DEF b1, w
<1>5. CASE i.mode \in {"IMP", "REL", "ZPX", "ZPY", "IZX"}
  BY <1>1, <1>5 DEF Place, Addressed, Found, OperandDiffers, nes_ZPX, nes_ZPY, nes_REL, nes_IZX
<1>6. CASE i.mode = "IMM"
  BY <1>1, <1>2, <1>6 DEF Place, Addressed, Found, BaseOf, AddressOf
<1>7. CASE i.mode = "ZP0"
  BY <1>1, <1>3, <1>7 DEF Place, Addressed, Found, BaseOf, AddressOf
<1>8. CASE i.mode = "ABS"
  BY <1>1, <1>3, <1>8 DEF Place, Addressed, Found, BaseOf, AddressOf, w
<1>9. CASE i.mode = "ABX"
  <2>1. i.base = w /\ i.abs = ToWord(w + nes.X)
    BY <1>1, <1>9 DEF BaseOf, AddressOf, w
  <2> QED
    BY <1>1, <1>2, <1>3, <1>9, <2>1 DEF Place, Addressed, Indexed, Found
<1>10. CASE i.mode = "ABY"
  <2>1. i.base = w /\ i.abs = ToWord(w + nes.Y)
    BY <1>1, <1>10 DEF BaseOf, AddressOf, w
  <2> QED
    BY <1>1, <1>2, <1>3, <1>10, <2>1 DEF Place, Addressed, Indexed, Found
<1>11. CASE i.mode = "IZY"
  <2> DEFINE base == Peek(b1) + 256 * Peek(ToByte(b1 + 1))
  <2>1. i.base = base /\ i.abs = ToWord(base + nes.Y)
    BY <1>1, <1>11 DEF BaseOf, AddressOf
  <2>2. b1 \in Word /\ ToByte(b1 + 1) \in Word
    <3>1. b1 + 1 \in Int
      BY <1>4
    <3>2. ToByte(b1 + 1) \in Byte
      BY <3>1, Widths
    <3> QED
      BY <1>4, <3>2, Ranges
  <2>3. base = nes_cpu_read(nes.ram, b1) + 256 * nes_cpu_read(nes.ram, ToByte(b1 + 1))
    BY <2>2, Peeks
  <2> HIDE DEF base
  <2>4. Addressed("IZY", Begun) = Indexed(Begun, 1, base, nes.Y)
    BY <1>2, <1>3, <2>3 DEF Addressed, nes_IZY
  <2>5. Place = Indexed(Begun, 1, base, nes.Y)
    BY <1>1, <1>11, <2>4 DEF Place
  <2>6. Place.abs = ToWord(base + nes.Y) /\ (Place.extra <=> High(ToWord(base + nes.Y)) # High(base))
    BY <2>5 DEF Indexed, Found
  <2> QED
    BY <1>11, <2>1, <2>6
<1>12. CASE i.mode = "IND"
  <2> DEFINE hi == IF Low(w) = 255 THEN w - 255 ELSE w + 1
  <2>1. i.base = w /\ i.abs = Peek(w) + 256 * Peek(hi)
    <3>1. i.base = w /\ i.abs = Peek(w) + 256 * Peek(w + 1 - (IF Low(w) = 255 THEN 256 ELSE 0))
      BY <1>1, <1>12 DEF BaseOf, AddressOf, w
    <3>2. w + 1 - (IF Low(w) = 255 THEN 256 ELSE 0) = hi
      BY <1>4, OfWord
    <3> QED
      BY <3>1, <3>2
  <2>2. hi \in Word
    <3> DEFINE q == w \div 256
               r == w % 256
    <3>1. w \in Int /\ 0 <= w /\ w <= 65535
      BY <1>4, OfWord
    <3>2. q \in Int /\ r \in Int /\ 0 <= r /\ r < 256 /\ w = 256 * q + r
      BY <3>1, Divided
    <3>3. Low(w) = r
      BY DEF Low
    <3> HIDE DEF q, r
    <3>4. hi \in Int /\ 0 <= hi /\ hi <= 65535
      BY <3>1, <3>2, <3>3
    <3> QED
      BY <3>4, OfWord
  <2>3. Peek(w) = nes_cpu_read(nes.ram, w) /\ Peek(hi) = nes_cpu_read(nes.ram, hi)
    BY <1>4, <2>2, Peeks
  <2>4. Addressed("IND", Begun) = Found(Begun, 2, nes_cpu_read(nes.ram, w) + 256 * nes_cpu_read(nes.ram, hi), FALSE)
    BY <1>2, <1>3 DEF Addressed, nes_IND
  <2> HIDE DEF hi
  <2> QED
    BY <1>1, <1>12, <2>1, <2>3, <2>4 DEF Place, Found
<1> QED
  BY <1>1, <1>5, <1>6, <1>7, <1>8, <1>9, <1>10, <1>11, <1>12 DEF ModeNames

\* Its operand is what lies there.
LEMMA Values ==
    ASSUME Documented, NEW i, i = Instruction, i.mode # "REL", ~OperandDiffers(i)
    PROVE  Fetched = i.value
<1>1. /\ i.mode = Ins[2] /\ i.value = IF i.mode = "IMP" THEN nes.A ELSE Peek(i.abs)
  BY Named
<1>2. IsFound(Place) /\ Begun.A = nes.A /\ Begun.ram = nes.ram
  BY Execution DEF Documented
<1>3. i.mode # "IMP" => Place.abs = i.abs /\ Peek(Place.abs) = nes_cpu_read(nes.ram, Place.abs)
  BY <1>2, Finds, Peeks DEF IsFound
<1> QED
  BY <1>1, <1>2, <1>3 DEF Fetched, nes_fetch

-----------------------------------------------------------------------------
(* The flags a result sets *)

\* A flag is set, or none is.
LEMMA FlagWithin ==
    ASSUME NEW m, IsMachine(m), NEW f, NEW on
    PROVE  nes_setflag(m, f, on).P \subseteq m.P \cup If(f, on)
  BY DEF IsMachine, nes_setflag, If

\* The flags of a result: Z and N, set in either order.
LEMMA ZNWithin ==
    ASSUME NEW m, IsMachine(m), NEW b
    PROVE  SetZN(m, b).P \subseteq m.P \cup SignZero(b) /\ SetNZ(m, b).P \subseteq m.P \cup SignZero(b)
<1> DEFINE z == nes_setflag(m, "Z", b = 0)
           n == nes_setflag(m, "N", IsNegative(b))
<1>1. IsMachine(z) /\ IsMachine(n)
  BY SetFlag, Status DEF Keeps
<1>2. z.P \subseteq m.P \cup If("Z", b = 0) /\ n.P \subseteq m.P \cup If("N", IsNegative(b))
  BY FlagWithin
<1>3. SetZN(m, b) = nes_setflag(z, "N", IsNegative(b)) /\ SetNZ(m, b) = nes_setflag(n, "Z", b = 0)
  BY DEF SetZN, SetNZ
<1> HIDE DEF z, n
<1>4. SetZN(m, b).P \subseteq z.P \cup If("N", IsNegative(b)) /\ SetNZ(m, b).P \subseteq n.P \cup If("Z", b = 0)
  BY <1>1, <1>3, FlagWithin
<1>5. SignZero(b) = If("Z", b = 0) \cup If("N", IsNegative(b))
  BY DEF SignZero, If
<1> QED
  BY <1>2, <1>4, <1>5

\* A flag and those of a result, in either order.
LEMMA FlagZNWithin ==
    ASSUME NEW m, IsMachine(m), NEW f \in Flags, NEW on, NEW b
    PROVE  /\ SetZN(nes_setflag(m, f, on), b).P \subseteq m.P \cup SignZero(b) \cup If(f, on)
           /\ nes_setflag(SetZN(m, b), f, on).P \subseteq m.P \cup SignZero(b) \cup If(f, on)
<1> DEFINE n == nes_setflag(m, f, on)
           z == SetZN(m, b)
<1>1. IsMachine(n) /\ IsMachine(z)
  BY SetFlag, SetsZN DEF Keeps
<1>2. n.P \subseteq m.P \cup If(f, on) /\ z.P \subseteq m.P \cup SignZero(b)
  BY FlagWithin, ZNWithin
<1> HIDE DEF n, z
<1>3. SetZN(n, b).P \subseteq n.P \cup SignZero(b) /\ nes_setflag(z, f, on).P \subseteq z.P \cup If(f, on)
  BY <1>1, FlagWithin, ZNWithin
<1> QED
  BY <1>2, <1>3 DEF n, z

\* Registers and memory are not flags.
LEMMA FlagsAreLeft ==
    ASSUME NEW m, IsMachine(m), NEW r \in {"A", "X", "Y", "SP"}, NEW b, NEW mode, NEW a
    PROVE  /\ [m EXCEPT ![r] = b].P = m.P /\ [m EXCEPT !.PC = b].P = m.P
           /\ [m EXCEPT !.ram = nes_cpu_write(m.ram, a, b)].P = m.P
           /\ PutBack(m, mode, a, b).P = m.P
           /\ Push(m, b).P = m.P
  BY DEF IsMachine, PutBack, Push

\* A register is loaded and its flags are set.
LEMMA LoadsWithin ==
    ASSUME NEW m, IsMachine(m), NEW r \in {"A", "X", "Y", "SP"}, NEW b \in Byte
    PROVE  /\ SetZN([m EXCEPT ![r] = b], b).P \subseteq m.P \cup SignZero(b)
           /\ SetNZ([m EXCEPT ![r] = b], b).P \subseteq m.P \cup SignZero(b)
<1> DEFINE n == [m EXCEPT ![r] = b]
<1>1. IsMachine(n) /\ n.P = m.P
  BY SetByte, FlagsAreLeft DEF Keeps
<1> HIDE DEF n
<1>2. SetZN(n, b).P \subseteq n.P \cup SignZero(b) /\ SetNZ(n, b).P \subseteq n.P \cup SignZero(b)
  BY <1>1, ZNWithin
<1> QED
  BY <1>1, <1>2 DEF n

\* The sign of a byte is its highest bit.
LEMMA SignBit == \A v \in Byte : IsNegative(v) <=> 8 \in Bits[v]
<1> SUFFICES ASSUME NEW v \in Byte PROVE IsNegative(v) <=> 8 \in Bits[v]
  OBVIOUS
<1> DEFINE q == v \div 128
           r == v % 128
<1>1. v \in Int /\ 0 <= v /\ v <= 255
  BY OfByte
<1>2. q \in Int /\ r \in Int /\ 0 <= r /\ r < 128 /\ v = 128 * q + r
  BY <1>1, Divided
<1> HIDE DEF q, r
<1>3. q \in {0, 1} /\ (q = 1 <=> v >= 128)
  BY <1>1, <1>2
<1>4. q % 2 = q
  BY <1>3
<1>5. 8 \in Bits[v] <=> q % 2 = 1
  BY DEF Bits, Weights, q
<1> QED
  BY <1>3, <1>4, <1>5 DEF IsNegative

\* BIT sets Z by the mask, N and V by the operand.
LEMMA BITWithin ==
    ASSUME NEW m, IsMachine(m), NEW v \in Byte
    PROVE  nes_BIT(m, v).P \subseteq m.P \cup SetBy("BIT", m, v, Carry(m))
<1> DEFINE on1 == BitAnd(m.A, v) = 0
           on2 == IsNegative(v)
           on3 == 7 \in Bits[v]
           z == nes_setflag(m, "Z", on1)
           n == nes_setflag(z, "N", on2)
<1>1. nes_BIT(m, v) = nes_setflag(n, "V", on3)
  BY DEF nes_BIT
<1>2. SetBy("BIT", m, v, Carry(m)) = If("Z", on1) \cup If("N", on2) \cup If("V", on3)
  <2>1. SetBy("BIT", m, v, Carry(m)) = If("Z", on1) \cup If("N", 8 \in Bits[v]) \cup If("V", on3)
    BY DEF SetBy, Compared
  <2>2. If("N", 8 \in Bits[v]) = If("N", on2)
    BY SignBit DEF If
  <2> QED
    BY <2>1, <2>2
<1> HIDE DEF on1, on2, on3
<1>3. IsMachine(z)
  BY SetFlag, Status DEF Keeps
<1>4. z.P \subseteq m.P \cup If("Z", on1)
  BY FlagWithin
<1> HIDE DEF z
<1>5. IsMachine(n) /\ n.P \subseteq z.P \cup If("N", on2)
  BY <1>3, SetFlag, Status, FlagWithin DEF Keeps
<1> HIDE DEF n
<1>6. nes_setflag(n, "V", on3).P \subseteq n.P \cup If("V", on3)
  BY <1>5, FlagWithin
<1> QED
  BY <1>1, <1>2, <1>4, <1>5, <1>6

\* The difference, computed by adding the complement.
LEMMA Subtracts ==
    ASSUME NEW A \in Byte, NEW v \in Byte, NEW c \in {0, 1}
    PROVE  /\ ToByte(A + (255 - v) + c) = ToByte(A - v - 1 + c)
           /\ IsNegative(255 - v) <=> ~IsNegative(v)
<1> DEFINE x == A - v - 1 + c
           k == 256
<1>1. A \in Int /\ v \in Int /\ 0 <= v /\ v <= 255 /\ c \in Int
  BY OfByte
<1>2. x \in Int /\ A + (255 - v) + c = 256 + x
  BY <1>1
<1>3. IsNegative(255 - v) <=> ~IsNegative(v)
  BY <1>1 DEF IsNegative
<1> HIDE DEF x
<1>4. (256 + x) % 256 = x % 256
  BY <1>2
<1> QED
  BY <1>2, <1>3, <1>4 DEF ToByte, x

\* SBC sets the flags of the difference, though it keeps another byte.
LEMMA SBCWithin ==
    ASSUME NEW m, IsMachine(m), NEW v \in Byte
    PROVE  nes_SBC(m, v).P \subseteq m.P \cup SetBy("SBC", m, v, Carry(m))
<1> DEFINE val == 255 - v
           temp == m.A + val + Carry(m)
           b == ToByte(temp)
           sign == IsNegative(b)
           on1 == temp > 255
           on2 == b = 0
           on3 == ~(sign <=> IsNegative(m.A)) /\ ~(sign <=> IsNegative(val))
           c == nes_setflag(m, "C", on1)
           z == nes_setflag(c, "Z", on2)
           o == nes_setflag(z, "V", on3)
           n == nes_setflag(o, "N", sign)
           diff == ToByte(m.A - v - 1 + Carry(m))
<1>1. nes_SBC(m, v) = [n EXCEPT !.A = ToByte(temp * 255)]
  BY DEF nes_SBC
<1>2. m.A \in Byte /\ Carry(m) \in {0, 1}
  BY Registers DEF Carry
<1>3. b = diff /\ (on1 <=> m.A >= v + 1 - Carry(m)) /\ (IsNegative(val) <=> ~IsNegative(v))
  <2> DEFINE A == m.A
             k == Carry(m)
  <2>1. A \in Byte /\ k \in {0, 1}
    BY <1>2
  <2> HIDE DEF A, k
  <2>2. ToByte(A + (255 - v) + k) = ToByte(A - v - 1 + k)
    BY <2>1, Subtracts
  <2>3. (A + (255 - v) + k > 255) <=> (A >= v + 1 - k)
    BY <2>1, OfByte
  <2>4. IsNegative(255 - v) <=> ~IsNegative(v)
    BY <2>1, Subtracts
  <2> QED
    BY <2>2, <2>3, <2>4 DEF A, k
<1>4. SetBy("SBC", m, v, Carry(m))
        = SignZero(diff) \cup If("C", m.A >= v + 1 - Carry(m))
          \cup If("V", ~(IsNegative(m.A) <=> IsNegative(v)) /\ (IsNegative(diff) <=> IsNegative(v)))
  BY DEF SetBy, Compared
<1>5. SetBy("SBC", m, v, Carry(m)) = If("Z", on2) \cup If("N", sign) \cup If("C", on1) \cup If("V", on3)
  <2>1. on3 <=> ~(IsNegative(m.A) <=> IsNegative(v)) /\ (IsNegative(diff) <=> IsNegative(v))
    BY <1>3
  <2> HIDE DEF on3, on1, diff
  <2> QED
    BY <1>3, <1>4, <2>1 DEF If, SignZero
<1> HIDE DEF on1, on2, on3, sign
<1>6. IsMachine(c) /\ c.P \subseteq m.P \cup If("C", on1)
  BY SetFlag, Status, FlagWithin DEF Keeps
<1> HIDE DEF c
<1>7. IsMachine(z) /\ z.P \subseteq c.P \cup If("Z", on2)
  BY <1>6, SetFlag, Status, FlagWithin DEF Keeps
<1> HIDE DEF z
<1>8. IsMachine(o) /\ o.P \subseteq z.P \cup If("V", on3)
  BY <1>7, SetFlag, Status, FlagWithin DEF Keeps
<1> HIDE DEF o
<1>9. IsMachine(n) /\ n.P \subseteq o.P \cup If("N", sign)
  BY <1>8, SetFlag, Status, FlagWithin DEF Keeps
<1> HIDE DEF n
<1>10. nes_SBC(m, v).P = n.P
  BY <1>1, <1>9 DEF IsMachine
<1> QED
  BY <1>5, <1>6, <1>7, <1>8, <1>9, <1>10

-----------------------------------------------------------------------------
(* What each operation does to its result *)

\* A branch looks at its flag.
LEMMA Branches1 ==
    ASSUME NEW m, NEW op \in BranchOps, NEW a, NEW v
    PROVE  Operation(op, m, "REL", a, v) = Branch(m, a, IsTaken(m, op))
  BY DEF Operation, BranchOps, Clears, Sets

\* Loads, transfers and counts of a register put the result there.
LEMMA LoadsAre ==
    ASSUME NEW m, IsMachine(m), NEW mode, mode # "REL", NEW a, NEW v \in Byte,
           NEW op, op \in {"LDA", "LDX", "LDY", "AND", "ORA", "TAY", "TXA", "TYA", "TSX",
                           "INX", "INY", "DEX", "DEY"}
    PROVE  /\ Result(op, m, v, Carry(m)) \in Byte /\ Target(op, mode) \in {"A", "X", "Y"}
           /\ \/ Operation(op, m, mode, a, v)
                  = SetZN([m EXCEPT ![Target(op, mode)] = Result(op, m, v, Carry(m))], Result(op, m, v, Carry(m)))
              \/ Operation(op, m, mode, a, v)
                  = SetNZ([m EXCEPT ![Target(op, mode)] = Result(op, m, v, Carry(m))], Result(op, m, v, Carry(m)))
<1> DEFINE n == Operation(op, m, mode, a, v)
           b == Result(op, m, v, Carry(m))
           r == Target(op, mode)
<1> SUFFICES /\ b \in Byte /\ r \in {"A", "X", "Y"}
             /\ n = SetZN([m EXCEPT ![r] = b], b) \/ n = SetNZ([m EXCEPT ![r] = b], b)
  OBVIOUS
<1>0. n = Operation(op, m, mode, a, v)
  OBVIOUS
<1> HIDE DEF n
<1>1. m.A \in Byte /\ m.X \in Byte /\ m.Y \in Byte /\ m.SP \in Byte
  BY Registers
<1>2. /\ op \in {"LDA", "AND", "ORA", "TXA", "TYA"} => r = "A"
      /\ op \in {"LDX", "TSX", "INX", "DEX"} => r = "X"
      /\ op \in {"LDY", "TAY", "INY", "DEY"} => r = "Y"
  BY DEF Target, Shifts, Stores, Modifies
<1> HIDE DEF r
<1>3. b \in Byte
  <2>1. BitAnd(m.A, v) \in Byte /\ BitOr(m.A, v) \in Byte
    BY <1>1, Bitwise8
  <2>2. ToByte(m.X + 1) \in Byte /\ ToByte(m.X - 1) \in Byte /\ ToByte(m.Y + 1) \in Byte /\ ToByte(m.Y - 1) \in Byte
    <3>1. m.X + 1 \in Int /\ m.X - 1 \in Int /\ m.Y + 1 \in Int /\ m.Y - 1 \in Int
      BY Registers
    <3> QED
      BY <3>1, Widths
  <2> QED
    BY <1>1, <2>1, <2>2 DEF Result
<1>4. /\ op = "LDA" => n = LoadA(m, v)
      /\ op = "LDX" => n = Load(m, "X", v)
      /\ op = "LDY" => n = Load(m, "Y", v)
      /\ op = "AND" => n = LoadA(m, BitAnd(m.A, v))
      /\ op = "ORA" => n = LoadA(m, BitOr(m.A, v))
      /\ op = "TAY" => n = Load(m, "Y", m.A)
      /\ op = "TXA" => n = LoadA(m, m.X)
      /\ op = "TYA" => n = LoadA(m, m.Y)
      /\ op = "TSX" => n = Load(m, "X", m.SP)
      /\ op = "INX" => n = IncrementIndex(m, "X")
      /\ op = "INY" => n = IncrementIndex(m, "Y")
      /\ op = "DEX" => n = DecrementIndex(m, "X")
      /\ op = "DEY" => n = DecrementIndex(m, "Y")
  BY <1>0 DEF Operation, Clears, Sets
<1>5. CASE op \in {"LDA", "AND", "ORA", "TXA", "TYA"}
  <2>1. n = LoadA(m, b) /\ r = "A"
    BY <1>2, <1>4, <1>5 DEF Result
  <2> HIDE DEF b
  <2> QED
    BY <1>3, <2>1 DEF LoadA
<1>6. CASE op \in {"LDX", "TSX", "LDY", "TAY"}
  <2>1. n = Load(m, r, b) /\ r \in {"X", "Y"}
    BY <1>2, <1>4, <1>6 DEF Result
  <2> HIDE DEF b
  <2> QED
    BY <1>3, <2>1 DEF Load
<1>7. CASE op \in {"INX", "INY"}
  <2>1. n = IncrementIndex(m, r) /\ b = ToByte(m[r] + 1) /\ r \in {"X", "Y"}
    BY <1>2, <1>4, <1>7 DEF Result
  <2> HIDE DEF b
  <2> QED
    BY <1>3, <2>1 DEF IncrementIndex
<1>8. CASE op \in {"DEX", "DEY"}
  <2>1. n = DecrementIndex(m, r) /\ b = ToByte(m[r] - 1) /\ r \in {"X", "Y"}
    BY <1>2, <1>4, <1>8 DEF Result
  <2> HIDE DEF b
  <2> QED
    BY <1>3, <2>1 DEF DecrementIndex
<1> QED
  BY <1>5, <1>6, <1>7, <1>8

\* The bit a shift moves to the carry, and what it puts back: its result, but for
\* ASL in the accumulator.
ShiftsOut(op, v) == IF op \in {"ASL", "ROL"} THEN v > \h7F ELSE v % 2 = 1
PutsBackAs(op, mode, b) == IF op = "ASL" /\ mode = "IMP" THEN ToByte(nes_temp) ELSE b

\* A shift sets the carry and the flags of its result, in either order, and puts back.
LEMMA ShiftsAre ==
    ASSUME NEW m, NEW mode, mode # "REL", NEW a, NEW v \in Byte,
           NEW op, op \in {"ASL", "LSR", "ROL", "ROR"}
    PROVE  /\ SetBy(op, m, v, Carry(m)) = SignZero(Result(op, m, v, Carry(m))) \cup If("C", ShiftsOut(op, v))
           /\ \/ Operation(op, m, mode, a, v)
                   = PutBack(SetZN(nes_setflag(m, "C", ShiftsOut(op, v)), Result(op, m, v, Carry(m))),
                             mode, a, PutsBackAs(op, mode, Result(op, m, v, Carry(m))))
              \/ Operation(op, m, mode, a, v)
                   = PutBack(nes_setflag(SetZN(m, Result(op, m, v, Carry(m))), "C", ShiftsOut(op, v)),
                             mode, a, PutsBackAs(op, mode, Result(op, m, v, Carry(m))))
<1> DEFINE n == Operation(op, m, mode, a, v)
           b == Result(op, m, v, Carry(m))
           on == ShiftsOut(op, v)
           c == PutsBackAs(op, mode, b)
<1> SUFFICES /\ SetBy(op, m, v, Carry(m)) = SignZero(b) \cup If("C", on)
             /\ \/ n = PutBack(SetZN(nes_setflag(m, "C", on), b), mode, a, c)
                \/ n = PutBack(nes_setflag(SetZN(m, b), "C", on), mode, a, c)
  OBVIOUS
<1>1. /\ op = "ASL" => n = nes_ASL(m, mode, a, v)
      /\ op = "LSR" => n = nes_LSR(m, mode, a, v)
      /\ op = "ROL" => n = nes_ROL(m, mode, a, v)
      /\ op = "ROR" => n = nes_ROR(m, mode, a, v)
  BY DEF Operation, Clears, Sets
<1> HIDE DEF n
<1>2. CASE op = "ASL"
  <2>1. b = ToByte(2 * v) /\ on = (v > 127) /\ c = IF mode = "IMP" THEN ToByte(nes_temp) ELSE ToByte(2 * v)
    BY <1>2 DEF Result, ShiftsOut, PutsBackAs
  <2>2. SetBy(op, m, v, Carry(m)) = SignZero(b) \cup If("C", on)
    BY <1>2, <2>1 DEF SetBy, Compared
  <2>3. n = PutBack(nes_setflag(SetZN(m, b), "C", on), mode, a, c)
    BY <1>1, <1>2, <2>1 DEF nes_ASL
  <2> QED
    BY <2>2, <2>3
<1>3. CASE op = "LSR"
  <2>1. b = v \div 2 /\ on = (v % 2 = 1) /\ c = b
    BY <1>3 DEF Result, ShiftsOut, PutsBackAs
  <2>2. SetBy(op, m, v, Carry(m)) = SignZero(b) \cup If("C", on)
    BY <1>3, <2>1 DEF SetBy, Compared
  <2>3. n = PutBack(SetZN(nes_setflag(m, "C", on), b), mode, a, c)
    BY <1>1, <1>3, <2>1 DEF nes_LSR
  <2> QED
    BY <2>2, <2>3
<1>4. CASE op = "ROL"
  <2>1. b = ToByte(2 * v + Carry(m)) /\ on = (v > 127) /\ c = b
    BY <1>4 DEF Result, ShiftsOut, PutsBackAs
  <2>2. SetBy(op, m, v, Carry(m)) = SignZero(b) \cup If("C", on)
    BY <1>4, <2>1 DEF SetBy, Compared
  <2>3. n = PutBack(SetZN(nes_setflag(m, "C", on), b), mode, a, c)
    BY <1>1, <1>4, <2>1 DEF nes_ROL
  <2> QED
    BY <2>2, <2>3
<1>5. CASE op = "ROR"
  <2>1. b = 128 * Carry(m) + v \div 2
    <3>1. Carry(m) \in Int /\ v \div 2 \in Int
      BY OfByte DEF Carry
    <3>2. b = v \div 2 + 128 * Carry(m)
      BY <1>5 DEF Result
    <3> QED
      BY <3>1, <3>2
  <2>2. on = (v % 2 = 1) /\ c = b
    BY <1>5 DEF ShiftsOut, PutsBackAs
  <2>3. SetBy(op, m, v, Carry(m)) = SignZero(b) \cup If("C", on)
    BY <1>5, <2>2 DEF SetBy, Compared
  <2>4. n = PutBack(SetZN(nes_setflag(m, "C", on), b), mode, a, c)
    BY <1>1, <1>5, <2>1, <2>2 DEF nes_ROR
  <2> QED
    BY <2>3, <2>4
<1> QED
  BY <1>2, <1>3, <1>4, <1>5

\* A cell is counted up or down.
LEMMA CountsAre ==
    ASSUME NEW m, NEW mode, mode # "REL", NEW a, NEW v \in Byte, NEW op, op \in {"INC", "DEC"}
    PROVE  /\ Result(op, m, v, Carry(m)) \in Byte
           /\ Operation(op, m, mode, a, v)
                = SetZN([m EXCEPT !.ram = nes_cpu_write(m.ram, a, Result(op, m, v, Carry(m)))], Result(op, m, v, Carry(m)))
<1> DEFINE n == Operation(op, m, mode, a, v)
           b == Result(op, m, v, Carry(m))
<1> SUFFICES b \in Byte /\ n = SetZN([m EXCEPT !.ram = nes_cpu_write(m.ram, a, b)], b)
  OBVIOUS
<1>1. v + 1 \in Int /\ v - 1 \in Int /\ v + (-1) = v - 1
  BY OfByte
<1>2. b \in Byte
  BY <1>1, Widths DEF Result
<1>3. /\ op = "INC" => n = Increment(m, a, v, 1)
      /\ op = "DEC" => n = Increment(m, a, v, -1)
  BY DEF Operation, Clears, Sets
<1>4. /\ op = "INC" => b = ToByte(v + 1)
      /\ op = "DEC" => b = ToByte(v + (-1))
  BY <1>1 DEF Result
<1>5. \A by : Increment(m, a, v, by) = SetZN([m EXCEPT !.ram = nes_cpu_write(m.ram, a, ToByte(v + by))], ToByte(v + by))
  BY DEF Increment
<1> HIDE DEF n, b
<1> QED
  BY <1>2, <1>3, <1>4, <1>5

\* No operation but TAX, ADC, BRK and those that pull sets a flag that is not
\* set by what it computed.
LEMMA FlagsOf ==
    ASSUME nes_loaded_cart \in Carts, NEW m, IsMachine(m), NEW mode, NEW op \in OpNames,
           op \notin {"TAX", "ADC", "BRK", "PLP", "RTI", "PLA"}, (mode = "REL") <=> (op \in BranchOps),
           NEW a \in Word, NEW v \in Byte
    PROVE  Operation(op, m, mode, a, v).P \subseteq m.P \cup SetBy(op, m, v, Carry(m))
<1> DEFINE n == Operation(op, m, mode, a, v)
           S == SetBy(op, m, v, Carry(m))
<1> SUFFICES n.P \subseteq m.P \cup S
  OBVIOUS
<1>0. n = Operation(op, m, mode, a, v) /\ S = SetBy(op, m, v, Carry(m))
  OBVIOUS
<1> HIDE DEF n, S
<1>1. m.A \in Byte /\ m.X \in Byte /\ m.Y \in Byte /\ m.SP \in Byte /\ a \in Nat
  BY Registers, Ranges
<1>2. CASE op \in BranchOps
  <2>1. n = Branch(m, a, IsTaken(m, op))
    BY <1>2, <1>0, Branches1
  <2>2. n.P = m.P
    BY <2>1 DEF Branch, IsMachine
  <2> QED
    BY <2>2
<1>3. CASE op \in {"UDF", "NOP", "STA", "STX", "STY", "TXS", "JMP"}
  <2>1. mode # "REL"
    BY <1>3 DEF BranchOps
  <2>2. /\ op = "TXS" => n = [m EXCEPT !.SP = m.X]
        /\ op = "JMP" => n = [m EXCEPT !.PC = a]
        /\ op = "UDF" => n = m
        /\ op = "NOP" => n = m
        /\ op = "STA" => n = Store(m, a, "A")
        /\ op = "STX" => n = Store(m, a, "X")
        /\ op = "STY" => n = Store(m, a, "Y")
    BY <1>0, <2>1 DEF Operation, Clears, Sets
  <2>3. /\ [m EXCEPT !.SP = m.X].P = m.P /\ [m EXCEPT !.PC = a].P = m.P
        /\ Store(m, a, "A").P = m.P /\ Store(m, a, "X").P = m.P /\ Store(m, a, "Y").P = m.P
    BY DEF Store, IsMachine
  <2>4. n.P = m.P
    BY <1>3, <2>2, <2>3
  <2> QED
    BY <2>4
<1>4. CASE op \in {"CLC", "CLD", "CLI", "CLV", "SEC", "SED", "SEI"}
  <2>1. mode # "REL"
    BY <1>4 DEF BranchOps
  <2>2. CASE op \in {"CLC", "CLD", "CLI", "CLV"}
    <3>1. n = nes_setflag(m, Clears[op], FALSE)
      BY <1>0, <2>1, <2>2 DEF Operation, Clears, Sets
    <3> QED
      BY <3>1, FlagWithin DEF If
  <2>3. CASE op \in {"SEC", "SED", "SEI"}
    <3>1. n = nes_setflag(m, Sets[op], TRUE)
      BY <1>0, <2>1, <2>3 DEF Operation, Clears, Sets
    <3>2. S = {Sets[op]}
      BY <2>3 DEF S, SetBy, Compared, If, Sets
    <3> QED
      BY <3>1, <3>2, FlagWithin DEF If
  <2> QED
    BY <1>4, <2>2, <2>3
<1>5. CASE op \in {"LDA", "LDX", "LDY", "AND", "ORA", "TAY", "TXA", "TYA", "TSX", "INX", "INY", "DEX", "DEY"}
  <2>1. mode # "REL"
    BY <1>5 DEF BranchOps
  <2> DEFINE b == Result(op, m, v, Carry(m))
             r == Target(op, mode)
  <2>2. S = SignZero(b)
    BY <1>5 DEF S, SetBy, Compared
  <2>3. /\ b \in Byte /\ r \in {"A", "X", "Y"}
        /\ n = SetZN([m EXCEPT ![r] = b], b) \/ n = SetNZ([m EXCEPT ![r] = b], b)
    BY <1>0, <1>5, <2>1, LoadsAre
  <2> HIDE DEF b, r
  <2> QED
    BY <2>2, <2>3, LoadsWithin
<1>6. CASE op \in {"CMP", "CPX", "CPY"}
  <2>1. mode # "REL"
    BY <1>6 DEF BranchOps
  <2> DEFINE r == Compared[op]
             on == m[r] >= v
             b == ToByte(m[r] - v)
  <2>2. S = SignZero(b) \cup If("C", on) /\ n = SetZN(nes_setflag(m, "C", on), b)
    <3>1. S = SignZero(b) \cup If("C", on)
      BY <1>6 DEF S, SetBy, Compared
    <3>2. /\ op = "CMP" => n = Compare(m, "A", v)
          /\ op = "CPX" => n = Compare(m, "X", v)
          /\ op = "CPY" => n = Compare(m, "Y", v)
      BY <1>0, <2>1 DEF Operation, Clears, Sets
    <3>3. /\ op = "CMP" => r = "A"
          /\ op = "CPX" => r = "X"
          /\ op = "CPY" => r = "Y"
      BY DEF Compared
    <3>4. n = Compare(m, r, v)
      BY <1>6, <3>2, <3>3
    <3> HIDE DEF r
    <3> QED
      BY <3>1, <3>4 DEF Compare
  <2> HIDE DEF on, b
  <2> QED
    BY <2>2, FlagZNWithin, Status
<1>7. CASE op \in {"ASL", "LSR", "ROL", "ROR"}
  <2>1. mode # "REL"
    BY <1>7 DEF BranchOps
  <2> DEFINE b == Result(op, m, v, Carry(m))
             on == ShiftsOut(op, v)
             c == PutsBackAs(op, mode, b)
             y == SetZN(nes_setflag(m, "C", on), b)
             z == nes_setflag(SetZN(m, b), "C", on)
  <2>2. S = SignZero(b) \cup If("C", on) /\ (n = PutBack(y, mode, a, c) \/ n = PutBack(z, mode, a, c))
    BY <1>0, <1>7, <2>1, ShiftsAre
  <2> HIDE DEF b, on, c
  <2>3. /\ IsMachine(y) /\ IsMachine(z)
        /\ y.P \subseteq m.P \cup SignZero(b) \cup If("C", on)
        /\ z.P \subseteq m.P \cup SignZero(b) \cup If("C", on)
    BY FlagZN, FlagZNWithin, Status DEF Keeps
  <2> HIDE DEF y, z
  <2>4. n.P = y.P \/ n.P = z.P
    BY <2>2, <2>3, FlagsAreLeft
  <2> QED
    BY <2>2, <2>3, <2>4
<1>8. CASE op \in {"INC", "DEC"}
  <2>1. mode # "REL"
    BY <1>8 DEF BranchOps
  <2> DEFINE b == Result(op, m, v, Carry(m))
             k == [m EXCEPT !.ram = nes_cpu_write(m.ram, a, b)]
  <2>2. S = SignZero(b)
    BY <1>8 DEF S, SetBy, Compared
  <2>3. b \in Byte /\ n = SetZN(k, b)
    BY <1>0, <1>8, <2>1, CountsAre
  <2> HIDE DEF b
  <2>4. IsMachine(k) /\ k.P = m.P
    BY <1>1, <2>3, StoresByte, FlagsAreLeft DEF Keeps
  <2> HIDE DEF k
  <2> QED
    BY <2>2, <2>3, <2>4, ZNWithin
<1>9. CASE op = "EOR"
  <2>1. mode # "REL"
    BY <1>9 DEF BranchOps
  <2>2. n = SetZN(m, BitXor(v, m.A)) /\ S = SignZero(BitXor(m.A, v))
    <3>1. n = nes_EOR(m, v)
      BY <1>0, <1>9, <2>1 DEF Operation, Clears, Sets
    <3>2. S = SignZero(BitXor(m.A, v))
      BY <1>9 DEF S, SetBy, Compared, Result
    <3> QED
      BY <3>1, <3>2 DEF nes_EOR
  <2>3. BitXor(v, m.A) = BitXor(m.A, v)
    <3>1. (Bits[v] \ Bits[m.A]) \cup (Bits[m.A] \ Bits[v]) = (Bits[m.A] \ Bits[v]) \cup (Bits[v] \ Bits[m.A])
      OBVIOUS
    <3> QED
      BY <3>1 DEF BitXor
  <2> QED
    BY <2>2, <2>3, ZNWithin
<1>10. CASE op \in {"BIT", "SBC"}
  <2>1. mode # "REL"
    BY <1>10 DEF BranchOps
  <2>2. /\ op = "BIT" => n = nes_BIT(m, v)
        /\ op = "SBC" => n = nes_SBC(m, v)
    BY <1>0, <2>1 DEF Operation, Clears, Sets
  <2>3. /\ op = "BIT" => S = SetBy("BIT", m, v, Carry(m))
        /\ op = "SBC" => S = SetBy("SBC", m, v, Carry(m))
    BY <1>0
  <2> QED
    BY <1>10, <2>2, <2>3, BITWithin, SBCWithin
<1>11. CASE op \in {"JSR", "RTS", "PHA"}
  <2>1. mode # "REL"
    BY <1>11 DEF BranchOps
  <2>2. /\ op = "JSR" => n = nes_JSR(m, a)
        /\ op = "RTS" => n = nes_RTS(m)
        /\ op = "PHA" => n = Push(m, m.A)
    BY <2>1, <1>0, StackOperations
  <2>3. n.P = m.P
    BY <1>11, <2>2 DEF nes_JSR, nes_RTS, PushWord, Push, IsMachine
  <2> QED
    BY <2>3
<1>12. CASE op = "PHP"
  <2> DEFINE p == Push(m, StatusByte(m.P))
             q == nes_setflag(p, "B", FALSE)
  <2>1. n = nes_setflag(q, "U", FALSE)
    BY <1>12, <1>0, StackOperations DEF nes_PHP, BranchOps
  <2>2. IsMachine(p) /\ p.P = m.P
    BY Registers, Status, Pushes, FlagsAreLeft DEF Keeps
  <2> HIDE DEF p
  <2>3. IsMachine(q) /\ q.P \subseteq p.P
    BY <2>2, SetFlag, Status, FlagWithin DEF Keeps, If
  <2> HIDE DEF q
  <2> QED
    BY <2>1, <2>2, <2>3, FlagWithin DEF If
<1> QED
  BY <1>2, <1>3, <1>4, <1>5, <1>6, <1>7, <1>8, <1>9, <1>10, <1>11, <1>12 DEF OpNames

-----------------------------------------------------------------------------
(* No flag is set but the ones the processor would set *)

\* What an operation computes depends on the registers and the operand only.
LEMMA SameRegisters ==
    ASSUME NEW m, NEW n, m.A = n.A, m.X = n.X, m.Y = n.Y, m.SP = n.SP, NEW op, NEW v, NEW c
    PROVE  Result(op, m, v, c) = Result(op, n, v, c) /\ SetBy(op, m, v, c) = SetBy(op, n, v, c)
<1>1. Result(op, m, v, c) = Result(op, n, v, c)
  BY DEF Result
<1>2. op \in DOMAIN Compared => m[Compared[op]] = n[Compared[op]]
  BY DEF Compared
<1>3. SetBy(op, m, v, c) = SetBy(op, n, v, c)
  <2>1. CASE op \in {"CMP", "CPX", "CPY"}
    BY <1>2, <2>1 DEF SetBy, Compared
  <2>2. CASE op \in {"ADC", "SBC", "BIT"}
    BY <2>2 DEF SetBy, Compared
  <2>3. CASE op \notin {"CMP", "CPX", "CPY", "ADC", "SBC", "BIT"}
    <3>1. Result(op, m, v, c) = Result(op, n, v, c)
      BY <1>1
    <3> QED
      BY <2>3, <3>1 DEF SetBy, Compared
  <2> QED
    BY <2>1, <2>2, <2>3
<1> QED
  BY <1>1, <1>3

\* The operation gets the registers, the carry and the operand of the program.
LEMMA Begins ==
    ASSUME Documented, NEW i, i = Instruction
    PROVE  /\ Done = Operation(i.op, Ready, i.mode, Place.abs, Fetched)
           /\ Carry(Ready) = Carry(nes)
           /\ \A v : /\ Result(i.op, Ready, v, Carry(Ready)) = Result(i.op, nes, v, Carry(nes))
                     /\ SetBy(i.op, Ready, v, Carry(Ready)) = SetBy(i.op, nes, v, Carry(nes))
<1>1. i.op = Ins[1] /\ i.mode = Ins[2]
  BY Named
<1>2. /\ Ready.A = nes.A /\ Ready.X = nes.X /\ Ready.Y = nes.Y /\ Ready.SP = nes.SP
      /\ Ready.P = nes.P \cup {"U"}
  BY Execution DEF Documented
<1>3. Carry(Ready) = Carry(nes)
  BY <1>2 DEF Carry
<1> DEFINE op == i.op
<1> HIDE DEF op
<1>4. ASSUME NEW v
      PROVE  /\ Result(op, Ready, v, Carry(nes)) = Result(op, nes, v, Carry(nes))
             /\ SetBy(op, Ready, v, Carry(nes)) = SetBy(op, nes, v, Carry(nes))
  BY <1>2, SameRegisters
<1> QED
  BY <1>1, <1>3, <1>4 DEF Done, op

\* A documented instruction adds to P flags the processor would set, and no others.
LEMMA FlagsStep ==
    ASSUME Documented, NEW i, i = Instruction, ~OperandDiffers(i),
           i.op \notin {"TAX", "ADC", "BRK", "PLP", "RTI", "PLA"}
    PROVE  nes'.P \subseteq nes.P \cup SetBy(i.op, nes, i.value, Carry(nes)) \cup {"U"}
<1> DEFINE op == i.op
           mode == i.mode
<1>1. op \in OpNames /\ ((mode = "REL") <=> (op \in BranchOps))
  BY Named
<1>2. /\ nes_loaded_cart \in Carts /\ IsMachine(Ready) /\ Fetched \in Byte /\ Place.abs \in Word
      /\ Ready.P = nes.P \cup {"U"} /\ nes'.P = Done.P \cup {"U"}
  BY Execution DEF Documented, IsFound
<1>3. /\ Done = Operation(op, Ready, mode, Place.abs, Fetched)
      /\ SetBy(op, Ready, Fetched, Carry(Ready)) = SetBy(op, nes, Fetched, Carry(nes))
  BY Begins
<1>4. mode # "REL" => Fetched = i.value
  BY Values
<1> HIDE DEF op, mode
<1>5. op \notin {"TAX", "ADC", "BRK", "PLP", "RTI", "PLA"}
  BY DEF op
<1>6. Done.P \subseteq Ready.P \cup SetBy(op, nes, Fetched, Carry(nes))
  BY <1>1, <1>2, <1>3, <1>5, FlagsOf
<1>7. SetBy(op, nes, Fetched, Carry(nes)) \subseteq SetBy(op, nes, i.value, Carry(nes))
  <2>1. CASE op \in BranchOps
    BY <2>1 DEF SetBy, BranchOps, Compared
  <2>2. CASE op \notin BranchOps
    BY <1>1, <1>4, <2>2
  <2> QED
    BY <2>1, <2>2
<1> QED
  BY <1>2, <1>6, <1>7 DEF op

\* An instruction was counted: one was executed.
LEMMA OneIsExecuted ==
    ASSUME IInv, FInv, [Next]_vars, Executes
    PROVE  phase = "running" /\ ExecuteNext
<1>1. executed \in Nat /\ executed' = executed + 1
  BY DEF FInv, Executes
<1> QED
  BY <1>1 DEF Next, nes_reset, nes_clock, CountDown, FollowLostEntry, nes_irq, nes_nmirq, Interrupt, vars

\* What a documented instruction adds to P is what its result and operand call for
\* (nes_cpu_execute), for every program, TAX, ADC, BRK and those that pull aside.  A
\* flag that was in P may stay there wrongly.
THEOREM NothingIsMadeUp == Spec => NoFlagIsMadeUp
<1>1. IInv /\ FInv /\ [Next]_vars
      => [Executes => \A i \in {Instruction} :
           /\ i.opcode \in Legal /\ ~OperandDiffers(i)
           /\ i.op \notin {"TAX", "ADC", "BRK", "PLP", "RTI", "PLA"}
           => nes'.P \subseteq nes.P \cup SetBy(i.op, nes, i.value, Carry(nes)) \cup {"U"}]_vars
  <2> SUFFICES ASSUME IInv, FInv, [Next]_vars, Executes, NEW i, i = Instruction, i.opcode \in Legal,
                      ~OperandDiffers(i), i.op \notin {"TAX", "ADC", "BRK", "PLP", "RTI", "PLA"}
               PROVE  nes'.P \subseteq nes.P \cup SetBy(i.op, nes, i.value, Carry(nes)) \cup {"U"}
    OBVIOUS
  <2>1. phase = "running" /\ ExecuteNext
    BY OneIsExecuted
  <2>2. Documented
    BY <2>1 DEF Documented
  <2> QED
    BY <2>2, FlagsStep
<1> QED
  BY <1>1, Invariant, FramesAreRight, PTL DEF Spec, NoFlagIsMadeUp

-----------------------------------------------------------------------------
(* What an operation changes: registers and memory *)

\* Nothing but flags and cycles differs, or nothing but them and t.
Only(t, m, n) ==
    /\ t # "A" => n.A = m.A
    /\ t # "X" => n.X = m.X
    /\ t # "Y" => n.Y = m.Y
    /\ t # "SP" => n.SP = m.SP
    /\ t # "PC" => n.PC = m.PC
    /\ t # "memory" => n.ram = m.ram

\* Flags and cycles aside, nothing differs.
Same(m, n) == Only("none", m, n)

\* Setting flags changes nothing else.
LEMMA FlagsOnly ==
    ASSUME NEW m, IsMachine(m), NEW f, NEW on, NEW b
    PROVE  Same(m, nes_setflag(m, f, on)) /\ Same(m, SetZN(m, b)) /\ Same(m, SetNZ(m, b))
  BY DEF Same, Only, nes_setflag, SetZN, SetNZ, IsMachine

\* Setting flags before or after a change is no other change.
LEMMA OnlyOn ==
    ASSUME NEW m, NEW n, NEW o, NEW t
    PROVE  /\ Only(t, m, n) /\ Same(n, o) => Only(t, m, o)
           /\ Same(m, n) /\ Only(t, n, o) => Only(t, m, o)
  BY DEF Only, Same

\* One register is set.
LEMMA SetOnly ==
    ASSUME NEW m, IsMachine(m), NEW r \in {"A", "X", "Y", "SP"}, NEW b
    PROVE  Only(r, m, [m EXCEPT ![r] = b]) /\ [m EXCEPT ![r] = b][r] = b
  BY DEF Only, IsMachine

\* One register is loaded, with the flags of whatever byte.
LEMMA LoadOnly ==
    ASSUME NEW m, IsMachine(m), NEW r \in {"A", "X", "Y"}, NEW b \in Byte, NEW c
    PROVE  /\ Only(r, m, SetZN([m EXCEPT ![r] = b], c)) /\ SetZN([m EXCEPT ![r] = b], c)[r] = b
           /\ Only(r, m, SetNZ([m EXCEPT ![r] = b], c)) /\ SetNZ([m EXCEPT ![r] = b], c)[r] = b
<1> DEFINE n == [m EXCEPT ![r] = b]
<1>1. IsMachine(n) /\ Only(r, m, n) /\ n[r] = b
  BY SetByte, SetOnly DEF Keeps
<1> HIDE DEF n
<1>2. Same(n, SetZN(n, c)) /\ Same(n, SetNZ(n, c))
  BY <1>1, FlagsOnly
<1>3. SetZN(n, c)[r] = n[r] /\ SetNZ(n, c)[r] = n[r]
  BY <1>2 DEF Same, Only
<1> QED
  BY <1>1, <1>2, <1>3, OnlyOn DEF n

\* The memory is written.
LEMMA StoreOnly ==
    ASSUME NEW m, IsMachine(m), NEW ram
    PROVE  /\ Only("memory", m, [m EXCEPT !.ram = ram]) /\ [m EXCEPT !.ram = ram].ram = ram
  BY DEF Only, IsMachine

\* What is stored where: t is the target, b its value.
Holds(t, m, n, a, b) ==
    /\ Only(t, m, n)
    /\ t = "A" => n.A = b
    /\ t = "X" => n.X = b
    /\ t = "Y" => n.Y = b
    /\ t = "SP" => n.SP = b
    /\ t = "memory" => n.ram = nes_cpu_write(m.ram, a, b)

\* The operations that move the stack pointer.
StackOps == {"PHA", "PHP", "JSR", "BRK", "PLA", "PLP", "RTS", "RTI"}

\* An operation that is not about the stack or the program counter changes its
\* target only, to its result but for those ResultDiffers names.
LEMMA ChangesItsTarget ==
    ASSUME NEW m, IsMachine(m), NEW op \in OpNames \ (StackOps \cup BranchOps \cup {"JMP"}),
           NEW mode, mode # "REL", Legally(op, mode), NEW a \in Word, NEW v \in Byte
    PROVE  /\ Only(Target(op, mode), m, Operation(op, m, mode, a, v))
           /\ op \in {"ADC", "SBC", "EOR"} \/ (op = "ASL" /\ mode = "IMP") \/ Target(op, mode) = "none"
              \/ Holds(Target(op, mode), m, Operation(op, m, mode, a, v), a, Result(op, m, v, Carry(m)))
<1> DEFINE n == Operation(op, m, mode, a, v)
           t == Target(op, mode)
           b == Result(op, m, v, Carry(m))
           differs == op \in {"ADC", "SBC", "EOR"} \/ (op = "ASL" /\ mode = "IMP")
<1> SUFFICES Only(t, m, n) /\ (differs \/ t = "none" \/ Holds(t, m, n, a, b))
  OBVIOUS
<1>0. n = Operation(op, m, mode, a, v) /\ t = Target(op, mode) /\ b = Result(op, m, v, Carry(m))
  OBVIOUS
<1>1. m.A \in Byte /\ m.X \in Byte /\ m.Y \in Byte /\ m.SP \in Byte /\ a \in Nat
  BY Registers, Ranges
<1> HIDE DEF n, t, b
<1>2. CASE op \in {"UDF", "NOP", "BIT", "CMP", "CPX", "CPY", "CLC", "CLD", "CLI", "CLV", "SEC", "SED", "SEI"}
  <2>1. t = "none"
    BY <1>2 DEF t, Target, Shifts, Stores, Modifies
  <2>2. CASE op \in {"UDF", "NOP"}
    <3>1. n = m
      BY <1>0, <2>2 DEF Operation, Clears, Sets
    <3> QED
      BY <2>1, <3>1 DEF Only
  <2>3. CASE op = "BIT"
    <3>1. n = nes_BIT(m, v)
      BY <1>0, <2>3 DEF Operation, Clears, Sets
    <3>2. Same(m, nes_BIT(m, v))
      BY DEF nes_BIT, nes_setflag, Same, Only, IsMachine
    <3> QED
      BY <2>1, <3>1, <3>2 DEF Same
  <2>4. CASE op \in {"CMP", "CPX", "CPY"}
    <3>1. \E r : n = Compare(m, r, v)
      <4>1. /\ op = "CMP" => n = Compare(m, "A", v)
            /\ op = "CPX" => n = Compare(m, "X", v)
            /\ op = "CPY" => n = Compare(m, "Y", v)
        BY <1>0 DEF Operation, Clears, Sets
      <4> QED
        BY <2>4, <4>1
    <3>2. PICK r : n = Compare(m, r, v)
      BY <3>1
    <3> DEFINE on == m[r] >= v
               c == ToByte(m[r] - v)
               y == nes_setflag(m, "C", on)
    <3>3. n = SetZN(y, c)
      BY <3>2 DEF Compare
    <3> HIDE DEF on, c
    <3>4. IsMachine(y) /\ Same(m, y)
      BY SetFlag, Status, FlagsOnly DEF Keeps
    <3> HIDE DEF y
    <3>5. Same(y, n)
      BY <3>3, <3>4, FlagsOnly
    <3> QED
      BY <2>1, <3>4, <3>5, OnlyOn DEF Same
  <2>5. CASE op \in {"CLC", "CLD", "CLI", "CLV", "SEC", "SED", "SEI"}
    <3>1. \E f, on : n = nes_setflag(m, f, on)
      <4>1. /\ op \in {"CLC", "CLD", "CLI", "CLV"} => n = nes_setflag(m, Clears[op], FALSE)
            /\ op \in {"SEC", "SED", "SEI"} => n = nes_setflag(m, Sets[op], TRUE)
        BY <1>0 DEF Operation, Clears, Sets
      <4> QED
        BY <2>5, <4>1
    <3> QED
      BY <2>1, <3>1, FlagsOnly DEF Same
  <2> QED
    BY <1>2, <2>2, <2>3, <2>4, <2>5, <2>1
<1>3. CASE op \in {"LDA", "LDX", "LDY", "AND", "ORA", "TAY", "TXA", "TYA", "TSX", "INX", "INY", "DEX", "DEY"}
  <2>1. /\ b \in Byte /\ t \in {"A", "X", "Y"}
        /\ n = SetZN([m EXCEPT ![t] = b], b) \/ n = SetNZ([m EXCEPT ![t] = b], b)
    BY <1>0, <1>3, LoadsAre
  <2>2. Only(t, m, n) /\ n[t] = b
    BY <2>1, LoadOnly
  <2> QED
    BY <2>1, <2>2 DEF Holds
<1>4. CASE op = "TAX"
  <2>1. t = "X" /\ b = m.A
    BY <1>4 DEF t, b, Target, Result, Shifts, Stores, Modifies
  <2> DEFINE k == [m EXCEPT !.X = m.A]
             y == nes_setflag(k, "N", m.A = 0)
  <2>2. n = nes_setflag(y, "Z", IsNegative(m.A))
    <3>1. n = nes_TAX(m)
      BY <1>0, <1>4 DEF Operation, Clears, Sets
    <3> QED
      BY <3>1 DEF nes_TAX
  <2>3. IsMachine(k) /\ Only("X", m, k) /\ k.X = m.A
    <3>1. IsMachine(k)
      BY <1>1, SetByte DEF Keeps
    <3>2. Only("X", m, k) /\ k.X = m.A
      BY DEF Only, IsMachine
    <3> QED
      BY <3>1, <3>2
  <2> HIDE DEF k
  <2>4. IsMachine(y) /\ Same(k, y)
    BY <2>3, SetFlag, Status, FlagsOnly DEF Keeps
  <2> HIDE DEF y
  <2>5. Same(y, n)
    BY <2>2, <2>4, FlagsOnly
  <2>6. Only("X", m, n)
    BY <2>3, <2>4, <2>5, OnlyOn
  <2>7. n.X = m.A
    BY <2>3, <2>4, <2>5 DEF Same, Only
  <2> QED
    BY <2>1, <2>6, <2>7 DEF Holds
<1>5. CASE op = "TXS"
  <2>1. t = "SP" /\ b = m.X
    BY <1>5 DEF t, b, Target, Result, Shifts, Stores, Modifies
  <2>2. n = [m EXCEPT !.SP = m.X]
    BY <1>0, <1>5 DEF Operation, Clears, Sets
  <2>3. Only("SP", m, n) /\ n.SP = m.X
    BY <2>2 DEF Only, IsMachine
  <2> QED
    BY <2>1, <2>3 DEF Holds
<1>6. CASE op \in {"STA", "STX", "STY"}
  <2>1. t = "memory"
    BY <1>6 DEF t, Target, Shifts, Stores, Modifies
  <2>2. n = [m EXCEPT !.ram = nes_cpu_write(m.ram, a, b)]
    <3>1. /\ op = "STA" => n = Store(m, a, "A") /\ b = m.A
          /\ op = "STX" => n = Store(m, a, "X") /\ b = m.X
          /\ op = "STY" => n = Store(m, a, "Y") /\ b = m.Y
      BY <1>0 DEF Operation, Clears, Sets, Result
    <3> QED
      BY <1>6, <3>1 DEF Store
  <2>3. Only("memory", m, n) /\ n.ram = nes_cpu_write(m.ram, a, b)
    BY <2>2, StoreOnly
  <2> QED
    BY <2>1, <2>3 DEF Holds
<1>7. CASE op \in {"INC", "DEC"}
  <2>1. mode # "IMP"
    BY <1>7 DEF Legally
  <2>2. t = "memory"
    BY <1>7, <2>1 DEF t, Target, Shifts, Stores, Modifies
  <2> DEFINE k == [m EXCEPT !.ram = nes_cpu_write(m.ram, a, b)]
  <2>3. b \in Byte /\ n = SetZN(k, b)
    BY <1>0, <1>7, CountsAre
  <2>4. IsMachine(k) /\ Only("memory", m, k) /\ k.ram = nes_cpu_write(m.ram, a, b)
    BY <1>1, <2>3, StoresByte, StoreOnly DEF Keeps
  <2> HIDE DEF k
  <2>5. Same(k, n)
    BY <2>3, <2>4, FlagsOnly
  <2>6. Only("memory", m, n)
    BY <2>4, <2>5, OnlyOn
  <2>7. n.ram = k.ram
    BY <2>5 DEF Same, Only
  <2> QED
    BY <2>2, <2>4, <2>6, <2>7 DEF Holds
<1>8. CASE op \in {"ASL", "LSR", "ROL", "ROR"}
  <2> DEFINE on == ShiftsOut(op, v)
             c == PutsBackAs(op, mode, b)
             y == SetZN(nes_setflag(m, "C", on), b)
             z == nes_setflag(SetZN(m, b), "C", on)
  <2>1. n = PutBack(y, mode, a, c) \/ n = PutBack(z, mode, a, c)
    <3>1. /\ SetBy(op, m, v, Carry(m)) = SignZero(b) \cup If("C", on)
          /\ n = PutBack(y, mode, a, c) \/ n = PutBack(z, mode, a, c)
      BY <1>8, ShiftsAre DEF n, b
    <3> QED
      BY <3>1
  <2>2. c = b \/ differs
    BY DEF PutsBackAs
  <2> HIDE DEF on, c
  <2>3. IsMachine(y) /\ IsMachine(z)
    BY FlagZN, Status DEF Keeps
  <2>4. Same(m, y) /\ Same(m, z)
    BY DEF nes_setflag, SetZN, Same, Only, IsMachine
  <2> HIDE DEF y, z
  <2>5. PICK w \in {y, z} : IsMachine(w) /\ Same(m, w) /\ n = PutBack(w, mode, a, c)
    BY <2>1, <2>3, <2>4
  <2>6. CASE mode = "IMP"
    <3>1. t = "A"
      BY <1>8, <2>6 DEF t, Target, Shifts, Stores, Modifies
    <3>2. Only("A", w, n) /\ n.A = c
      <4>1. n = PutBack(w, "IMP", a, c)
        BY <2>5, <2>6
      <4>2. Only("A", w, PutBack(w, "IMP", a, c)) /\ PutBack(w, "IMP", a, c).A = c
        BY <2>5 DEF PutBack, Only, IsMachine
      <4> QED
        BY <4>1, <4>2
    <3>3. Only("A", m, n)
      BY <2>5, <3>2, OnlyOn
    <3> QED
      BY <2>2, <3>1, <3>2, <3>3 DEF Holds
  <2>7. CASE mode # "IMP"
    <3>1. t = "memory"
      BY <1>8, <2>7 DEF t, Target, Shifts, Stores, Modifies
    <3>2. Only("memory", w, n) /\ n.ram = nes_cpu_write(w.ram, a, c)
      <4>1. n = [w EXCEPT !.ram = nes_cpu_write(w.ram, a, c)]
        BY <2>5, <2>7 DEF PutBack
      <4> QED
        BY <2>5, <4>1 DEF Only, IsMachine
    <3>3. Only("memory", m, n)
      BY <2>5, <3>2, OnlyOn
    <3>4. w.ram = m.ram /\ ~differs
      BY <1>8, <2>5, <2>7 DEF Same, Only
    <3> QED
      BY <2>2, <3>1, <3>2, <3>3, <3>4 DEF Holds
  <2> QED
    BY <2>6, <2>7
<1>9. CASE op \in {"ADC", "SBC", "EOR"}
  <2>1. t = "A"
    BY <1>9 DEF t, Target, Shifts, Stores, Modifies
  <2>2. /\ op = "ADC" => n = nes_ADC(m, v)
        /\ op = "SBC" => n = nes_SBC(m, v)
        /\ op = "EOR" => n = nes_EOR(m, v)
    BY <1>0 DEF Operation, Clears, Sets
  <2>3. Only("A", m, nes_ADC(m, v)) /\ Only("A", m, nes_EOR(m, v))
    BY DEF nes_ADC, nes_EOR, nes_setflag, SetZN, Only, IsMachine
  <2>4. Only("A", m, nes_SBC(m, v))
    BY DEF nes_SBC, nes_setflag, Only, IsMachine
  <2> QED
    BY <1>9, <2>1, <2>2, <2>3, <2>4
<1> QED
  BY <1>2, <1>3, <1>4, <1>5, <1>6, <1>7, <1>8, <1>9 DEF OpNames, StackOps

-----------------------------------------------------------------------------
(* What an operation changes: the stack *)

\* Nothing was written in a RAM but at the cells C.
Wrote(before, after, C) ==
    \A a \in DOMAIN after : a \notin C => a \in DOMAIN before /\ after[a] = before[a]

\* A write below 0x2000 changes one cell of the RAM.
LEMMA WrittenCell ==
    ASSUME NEW ram, NEW a \in Nat, NEW b, a < \h2000
    PROVE  /\ nes_cpu_write(ram, a, b) = Put(ram, a % RamSize, b)
           /\ Wrote(ram, Put(ram, a % RamSize, b), {a % RamSize})
<1>1. ~(a > \h3FFF) /\ ~(a > \h1FFF)
  OBVIOUS
<1> DEFINE k == a % RamSize
<1>2. nes_cpu_write(ram, a, b) = Put(ram, k, b)
  BY <1>1 DEF nes_cpu_write
<1> HIDE DEF k
<1>3. Wrote(ram, Put(ram, k, b), {k})
  BY DEF Put, Wrote
<1> QED
  BY <1>2, <1>3 DEF k

\* Behind the RAM nothing is written.
LEMMA NoCell ==
    ASSUME NEW ram, NEW a \in Nat, NEW b, ~(a < \h2000)
    PROVE  nes_cpu_write(ram, a, b) = ram
  BY DEF nes_cpu_write, nes_cpu_ppu_write

\* The cells of page zero are the bytes.
LEMMA StackCell ==
    ASSUME NEW a \in Byte
    PROVE  a \in Nat /\ a < \h2000 /\ a % RamSize = a
<1>1. a \in Int /\ 0 <= a /\ a <= 255
  BY OfByte
<1>2. RamSize \in Nat \ {0} /\ a < RamSize
  BY <1>1 DEF RamSize
<1> QED
  BY <1>1, <1>2, SmallIsLeft

\* The k cells from a stack pointer down.
Below(sp, k) == {ToByte(sp - j) : j \in 0 .. k - 1}

\* The stack grew by k bytes; flags, cycles and the program counter aside,
\* nothing else is changed.
Grew(m, n, k) ==
    /\ n.A = m.A /\ n.X = m.X /\ n.Y = m.Y
    /\ n.SP = ToByte(m.SP - k)
    /\ Wrote(m.ram, n.ram, Below(m.SP, k))

\* Growing by j and then by k bytes is growing by both.
LEMMA GrewOn ==
    ASSUME NEW m, NEW n, NEW o, m.SP \in Int, NEW j \in Nat, NEW k \in Nat, Grew(m, n, j), Grew(n, o, k)
    PROVE  Grew(m, o, j + k)
<1> DEFINE s == m.SP
<1>1. \A i \in Int : ToByte(ToByte(s - j) - i) = ToByte(s - (j + i))
  <2> SUFFICES ASSUME NEW i \in Int PROVE ToByte(ToByte(s - j) - i) = ToByte(s - (j + i))
    OBVIOUS
  <2> DEFINE x == s - j
             y == -i
             z == ToByte(x)
  <2>1. x \in Int /\ y \in Int /\ x + y = s - (j + i)
    OBVIOUS
  <2>2. z \in Int /\ z + y = z - i
    <3>1. z \in Int
      BY <2>1, Widths, OfByte
    <3> HIDE DEF z
    <3> QED
      BY <3>1
  <2> HIDE DEF x, y
  <2>3. ToByte(ToByte(x) + y) = ToByte(x + y)
    BY <2>1, Wraps
  <2> QED
    BY <2>1, <2>2, <2>3 DEF x
<1>2. n.SP = ToByte(s - j) /\ o.SP = ToByte(n.SP - k)
  BY DEF Grew
<1>3. o.SP = ToByte(s - (j + k))
  BY <1>1, <1>2
<1>4. Below(s, j) \subseteq Below(s, j + k)
  BY DEF Below
<1>5. Below(n.SP, k) \subseteq Below(s, j + k)
  <2> SUFFICES ASSUME NEW i \in 0 .. k - 1 PROVE ToByte(n.SP - i) \in Below(s, j + k)
    BY DEF Below
  <2>1. j + i \in 0 .. j + k - 1 /\ i \in Int
    OBVIOUS
  <2>2. ToByte(n.SP - i) = ToByte(s - (j + i))
    BY <1>1, <1>2, <2>1
  <2> QED
    BY <2>1, <2>2 DEF Below
<1>6. Wrote(m.ram, o.ram, Below(s, j + k))
  BY <1>4, <1>5 DEF Grew, Wrote
<1> QED
  BY <1>3, <1>6 DEF Grew

\* Nothing is pushed by setting flags.
LEMMA SameGrew ==
    ASSUME NEW m, IsMachine(m), NEW n, Same(m, n)
    PROVE  Grew(m, n, 0)
<1>1. m.SP \in Byte /\ m.SP - 0 = m.SP /\ ToByte(m.SP) = m.SP
  BY Registers, Wraps
<1> QED
  BY <1>1 DEF Same, Only, Grew, Wrote

\* One byte is pushed.
LEMMA PushGrew ==
    ASSUME NEW m, IsMachine(m), NEW b \in Byte
    PROVE  IsMachine(Push(m, b)) /\ Grew(m, Push(m, b), 1) /\ Push(m, b).PC = m.PC
<1> DEFINE ram == nes_cpu_write(m.ram, m.SP, b)
           sp == ToByte(m.SP - 1)
<1>1. Push(m, b) = [m EXCEPT !.ram = ram, !.SP = sp]
  BY DEF Push, IsMachine
<1>2. Wrote(m.ram, ram, {m.SP})
  <2> DEFINE a == m.SP
  <2>1. a \in Byte
    BY Registers
  <2> HIDE DEF a
  <2>2. a \in Nat /\ a < \h2000 /\ a % RamSize = a
    BY <2>1, StackCell
  <2>3. Wrote(m.ram, nes_cpu_write(m.ram, a, b), {a})
    <3>1. /\ nes_cpu_write(m.ram, a, b) = Put(m.ram, a % RamSize, b)
          /\ Wrote(m.ram, Put(m.ram, a % RamSize, b), {a % RamSize})
      BY <2>2, WrittenCell
    <3> QED
      BY <2>2, <3>1
  <2> QED
    BY <2>3 DEF a
<1>3. m.SP \in Below(m.SP, 1)
  <2>1. m.SP - 0 = m.SP /\ ToByte(m.SP) = m.SP /\ 0 \in 0 .. 1 - 1
    BY Registers, Wraps
  <2> QED
    BY <2>1 DEF Below
<1> HIDE DEF ram, sp
<1>4. /\ Push(m, b).A = m.A /\ Push(m, b).X = m.X /\ Push(m, b).Y = m.Y /\ Push(m, b).PC = m.PC
      /\ Push(m, b).SP = sp /\ Push(m, b).ram = ram
  BY <1>1 DEF IsMachine
<1>5. Wrote(m.ram, ram, Below(m.SP, 1))
  BY <1>2, <1>3 DEF Wrote
<1>6. IsMachine(Push(m, b))
  BY Pushes DEF Keeps
<1> QED
  BY <1>4, <1>5, <1>6 DEF Grew, sp

\* A word is pushed in two.
LEMMA PushWordGrew ==
    ASSUME NEW m, IsMachine(m), NEW w \in Word
    PROVE  IsMachine(PushWord(m, w)) /\ Grew(m, PushWord(m, w), 2)
<1> DEFINE o == Push(m, High(w))
           n == Push(o, Low(w))
           one == 1
<1>1. High(w) \in Byte /\ Low(w) \in Byte
  BY Widths
<1>2. IsMachine(o) /\ Grew(m, o, one)
  BY <1>1, PushGrew
<1> HIDE DEF o
<1>3. IsMachine(n) /\ Grew(o, n, one)
  BY <1>1, <1>2, PushGrew
<1> HIDE DEF n
<1>4. one \in Nat /\ one + one = 2 /\ m.SP \in Int
  BY Registers
<1> HIDE DEF one
<1>5. Grew(m, n, one + one)
  BY <1>2, <1>3, <1>4, GrewOn
<1> QED
  BY <1>3, <1>4, <1>5 DEF PushWord, n, o

\* The program counter aside.
LEMMA SetPCGrew ==
    ASSUME NEW m, IsMachine(m), NEW n, IsMachine(n), NEW w, NEW k
    PROVE  /\ Grew(m, n, k) => Grew(m, [n EXCEPT !.PC = w], k) /\ [n EXCEPT !.PC = w].PC = w
           /\ Grew([m EXCEPT !.PC = w], n, k) => Grew(m, n, k)
  BY DEF Same, Only, Grew, IsMachine

\* What the operations on the stack change.
LEMMA BRKGrew ==
    ASSUME nes_loaded_cart \in Carts, NEW m, IsMachine(m)
    PROVE  Grew(m, nes_BRK(m), 3) /\ nes_BRK(m).PC = ReadWord(m, \hFFFE)
<1> DEFINE w == ToWord(m.PC + 1)
           m1 == [m EXCEPT !.PC = w]
           m2 == nes_setflag(m1, "I", TRUE)
           saved == PushWord(m2, w)
           broke == nes_setflag(saved, "B", TRUE)
           b == StatusByte(broke.P)
           m5 == Push(broke, b)
           m6 == nes_setflag(m5, "B", FALSE)
           pc == ReadWord(m, \hFFFE)
           one == 1
           two == 2
           none == 0
<1>1. nes_BRK(m) = [m6 EXCEPT !.PC = pc]
  BY DEF nes_BRK, IsMachine
<1>2. w \in Word
  <2>1. m.PC + 1 \in Int
    BY Registers
  <2> QED
    BY <2>1, Widths
<1> HIDE DEF w
<1>3. IsMachine(m1)
  BY <1>2, SetPC DEF Keeps
<1> HIDE DEF m1
<1>4. IsMachine(m2) /\ Grew(m1, m2, none)
  BY <1>3, SetFlag, Status, FlagsOnly, SameGrew DEF Keeps
<1> HIDE DEF m2
<1>5. IsMachine(saved) /\ Grew(m2, saved, two)
  BY <1>2, <1>4, PushWordGrew
<1> HIDE DEF saved
<1>6. IsMachine(broke) /\ Grew(saved, broke, none)
  BY <1>5, SetFlag, Status, FlagsOnly, SameGrew DEF Keeps
<1> HIDE DEF broke
<1>7. b \in Byte
  BY <1>6, Registers, Status
<1> HIDE DEF b
<1>8. IsMachine(m5) /\ Grew(broke, m5, one)
  BY <1>6, <1>7, PushGrew
<1> HIDE DEF m5
<1>9. IsMachine(m6) /\ Grew(m5, m6, none)
  BY <1>8, SetFlag, Status, FlagsOnly, SameGrew DEF Keeps
<1> HIDE DEF m6
<1>10. none \in Nat /\ one \in Nat /\ two \in Nat /\ none + two = two /\ two + none = two /\ two + one = 3 /\ 3 + none = 3
  OBVIOUS
<1>11. m1.SP \in Int
  BY <1>3, Registers
<1> HIDE DEF one, two, none
<1>12. Grew(m1, saved, two)
  BY <1>4, <1>5, <1>10, <1>11, GrewOn
<1>13. Grew(m1, broke, two)
  BY <1>6, <1>10, <1>11, <1>12, GrewOn
<1>14. Grew(m1, m5, 3)
  BY <1>8, <1>10, <1>11, <1>13, GrewOn
<1>15. Grew(m1, m6, 3)
  BY <1>9, <1>10, <1>11, <1>14, GrewOn
<1>16. Grew(m, m6, 3)
  BY <1>9, <1>15, SetPCGrew DEF m1
<1> QED
  BY <1>1, <1>9, <1>16 DEF Grew, IsMachine

\* nes_PHP pushes the status and clears flags.
LEMMA PHPGrew ==
    ASSUME NEW m, IsMachine(m)
    PROVE  Grew(m, nes_PHP(m), 1) /\ nes_PHP(m).PC = m.PC
<1> DEFINE b == StatusByte(m.P)
           p == Push(m, b)
           q == nes_setflag(p, "B", FALSE)
           n == nes_setflag(q, "U", FALSE)
           one == 1
           none == 0
<1>1. nes_PHP(m) = n
  BY DEF nes_PHP
<1>2. b \in Byte
  BY Registers, Status
<1> HIDE DEF b
<1>3. IsMachine(p) /\ Grew(m, p, one) /\ p.PC = m.PC
  BY <1>2, PushGrew
<1> HIDE DEF p
<1>4. IsMachine(q) /\ Same(p, q)
  BY <1>3, SetFlag, Status, FlagsOnly DEF Keeps
<1> HIDE DEF q
<1>5. Same(q, n)
  BY <1>4, FlagsOnly
<1> HIDE DEF n
<1>6. Grew(p, q, none) /\ Grew(q, n, none)
  BY <1>3, <1>4, <1>5, SameGrew
<1>7. none \in Nat /\ one \in Nat /\ one + none = one /\ m.SP \in Int
  BY Registers
<1> HIDE DEF one, none
<1>8. Grew(m, q, one)
  BY <1>3, <1>6, <1>7, GrewOn
<1>9. Grew(m, n, one)
  BY <1>6, <1>7, <1>8, GrewOn
<1>10. n.PC = m.PC
  BY <1>3, <1>4, <1>5 DEF Same, Only
<1> QED
  BY <1>1, <1>9, <1>10 DEF one

\* nes_JSR pushes the address before the next instruction and jumps.
LEMMA JSRGrew ==
    ASSUME NEW m, IsMachine(m), NEW a
    PROVE  Grew(m, nes_JSR(m, a), 2) /\ nes_JSR(m, a).PC = a
<1> DEFINE w == ToWord(m.PC - 1)
           n == PushWord(m, w)
<1>1. w \in Word
  <2>1. m.PC - 1 \in Int
    BY Registers
  <2> QED
    BY <2>1, Widths
<1> HIDE DEF w
<1>2. IsMachine(n) /\ Grew(m, n, 2)
  BY <1>1, PushWordGrew
<1>3. nes_JSR(m, a) = [n EXCEPT !.PC = a]
  BY DEF nes_JSR, w
<1> HIDE DEF n
<1> QED
  BY <1>2, <1>3 DEF Grew, IsMachine

\* What is pulled leaves the cells as they are.
Shrank(m, n, k) ==
    /\ n.X = m.X /\ n.Y = m.Y /\ n.ram = m.ram
    /\ n.SP = ToByte(m.SP + k)

\* What the operations that pull change.
LEMMA PullsShrink ==
    ASSUME nes_loaded_cart \in Carts, NEW m, IsMachine(m)
    PROVE  /\ Shrank(m, nes_PLA(m), 1) /\ nes_PLA(m).PC = m.PC
           /\ Shrank(m, nes_PLP(m), 1) /\ nes_PLP(m).PC = m.PC /\ nes_PLP(m).A = m.A
           /\ Shrank(m, nes_RTS(m), 2) /\ nes_RTS(m).A = m.A
           /\ Shrank(m, nes_RTI(m), 3) /\ nes_RTI(m).A = m.A
<1>1. Shrank(m, nes_PLA(m), 1) /\ nes_PLA(m).PC = m.PC
  BY DEF Shrank, nes_PLA, LoadA, SetZN, nes_setflag, IsMachine
<1>2. Shrank(m, nes_PLP(m), 1) /\ nes_PLP(m).PC = m.PC /\ nes_PLP(m).A = m.A
  BY DEF Shrank, nes_PLP, IsMachine
<1>3. Shrank(m, nes_RTS(m), 2) /\ nes_RTS(m).A = m.A
  BY DEF Shrank, nes_RTS, IsMachine
<1>4. Shrank(m, nes_RTI(m), 3) /\ nes_RTI(m).A = m.A
  BY DEF Shrank, nes_RTI, IsMachine
<1> QED
  BY <1>1, <1>2, <1>3, <1>4

-----------------------------------------------------------------------------
(* Branches, and the cycles *)

\* A branch goes to the address of the program, when the program takes it.
LEMMA Branching ==
    ASSUME Documented, NEW i, i = Instruction, i.op \in BranchOps
    PROVE  /\ i.mode = "REL" /\ i.next = i.base /\ Place.next = i.base /\ Ready.PC = i.base
           /\ IsTaken(Ready, i.op) <=> Taken(i.op, nes.P)
           /\ Done = IF Taken(i.op, nes.P)
                     THEN [Ready EXCEPT !.PC = i.abs, !.cycles = @ + (IF High(i.abs) # High(i.base) THEN 2 ELSE 1)]
                     ELSE Ready
<1> DEFINE b1 == Peek(nes.PC + 1)
           x == i.base
           op == i.op
<1>1. /\ i.mode = "REL" /\ i.mode = Ins[2] /\ i.next = ToWord(nes.PC + Length(i.mode))
      /\ x = BaseOf(i.mode, b1, Peek(nes.PC + 2)) /\ i.abs = AddressOf(i.mode, x, b1)
  BY Named
<1>2. i.next = x /\ x = ToWord(nes.PC + 2)
  BY <1>1 DEF Length, BaseOf
<1>3. /\ IsMachine(nes) /\ IsMachine(Ready) /\ Ready.PC = Place.next /\ Ready.P = nes.P \cup {"U"}
      /\ nes.PC \in Int
  BY Execution, Registers DEF Documented
<1>4. Ready.PC = x /\ Place.next = x
  BY <1>2, <1>3, Ends
<1>5. x \in Word /\ x \in Int /\ b1 \in Byte /\ b1 \in Int
  <2>1. nes.PC + 2 \in Int /\ nes.PC + 1 \in Int
    BY <1>3
  <2> QED
    BY <1>2, <2>1, Widths, Peeks, OfByte, OfWord
<1>6. i.abs = ToWord(x + b1 - (IF IsNegative(b1) THEN 256 ELSE 0))
  BY <1>1 DEF AddressOf
<1>7. Place.abs = IF IsNegative(b1) THEN b1 + 65280 ELSE b1
  BY <1>1, Peeks DEF Place, Addressed, nes_REL, Found
<1>8. ToWord(x + Place.abs) = i.abs
  <2> HIDE DEF x, b1
  <2>1. CASE IsNegative(b1)
    <3> DEFINE y == x + b1 - 256
    <3>1. y \in Int /\ x + (b1 + 65280) = y + 65536
      BY <1>5
    <3> HIDE DEF y
    <3>2. (y + 65536) % 65536 = y % 65536
      BY <3>1
    <3> QED
      BY <1>6, <1>7, <2>1, <3>1, <3>2 DEF ToWord, y
  <2>2. CASE ~IsNegative(b1)
    <3>1. x + b1 - 0 = x + b1
      BY <1>5
    <3> QED
      BY <1>6, <1>7, <2>2, <3>1
  <2> QED
    BY <2>1, <2>2
<1>9. IsTaken(Ready, op) <=> Taken(op, nes.P)
  <2>1. BranchesOn(op) = BranchFlag[op] /\ BranchFlag[op] # "U"
    BY DEF BranchOps, BranchesOn, BranchFlag
  <2>2. BranchesOn(op) \in Ready.P <=> BranchFlag[op] \in nes.P
    BY <1>3, <2>1
  <2> QED
    BY <2>2 DEF IsTaken, Taken
<1>10. Done = Branch(Ready, Place.abs, IsTaken(Ready, op))
  <2>1. Done = Operation(op, Ready, i.mode, Place.abs, Fetched)
    BY Begins
  <2> HIDE DEF op
  <2>2. op \in BranchOps
    BY DEF op
  <2> QED
    BY <1>1, <2>1, <2>2, Branches1
<1> HIDE DEF x, op
<1>11. Done = IF IsTaken(Ready, op)
              THEN [Ready EXCEPT !.PC = i.abs, !.cycles = @ + (IF High(i.abs) # High(x) THEN 2 ELSE 1)] ELSE Ready
  BY <1>4, <1>8, <1>10 DEF Branch
<1> QED
  BY <1>1, <1>2, <1>4, <1>9, <1>11 DEF x, op

\* The cycles of the table, and one more.
LEMMA CycleSum ==
    ASSUME NEW op \in OpNames \ BranchOps, NEW mode \in ModeNames, mode # "REL", Legally(op, mode),
           NEW extra \in BOOLEAN, extra => mode \in {"ABX", "ABY", "IZY"}, NEW jumps \in BOOLEAN
    PROVE  Cycles(op, mode, FALSE, FALSE) + (IF extra /\ op \in TakesLonger THEN 1 ELSE 0)
             = Cycles(op, mode, extra, jumps)
<1>1. /\ \A k \in DOMAIN OwnCycles : OwnCycles[k] \in Int
      /\ \A k \in ModeNames : ReadCycles[k] \in Int
  BY DEF OwnCycles, ReadCycles, ModeNames
<1>2. CASE op \in DOMAIN OwnCycles
  <2>1. op \notin TakesLonger
    BY <1>2 DEF OwnCycles, TakesLonger
  <2> QED
    BY <1>1, <1>2, <2>1 DEF Cycles
<1>3. CASE op = "JMP"
  <2>1. op \notin TakesLonger /\ op \notin DOMAIN OwnCycles /\ op \notin Stores /\ op \notin Modifies
    BY <1>3 DEF OwnCycles, TakesLonger, Stores, Modifies, Shifts
  <2> QED
    BY <1>3, <2>1 DEF Cycles
<1>4. CASE op \in Stores
  <2>1. op \notin TakesLonger /\ op \notin DOMAIN OwnCycles /\ op # "JMP"
    BY <1>4 DEF OwnCycles, TakesLonger, Stores
  <2> QED
    BY <1>1, <1>4, <2>1 DEF Cycles
<1>5. CASE op \in Modifies
  <2>1. op \notin TakesLonger /\ op \notin DOMAIN OwnCycles /\ op # "JMP" /\ op \notin Stores
    BY <1>5 DEF OwnCycles, TakesLonger, Stores, Modifies, Shifts
  <2>2. mode = "IMP" => ~extra
    OBVIOUS
  <2> QED
    BY <1>1, <1>5, <2>1, <2>2 DEF Cycles
<1>6. CASE op \notin DOMAIN OwnCycles \cup {"JMP"} \cup Stores \cup Modifies
  <2>1. extra => op \in TakesLonger
    BY <1>6 DEF Legally
  <2> QED
    BY <1>1, <1>6, <2>1 DEF Cycles
<1> QED
  BY <1>2, <1>3, <1>4, <1>5, <1>6

\* A branch takes two cycles, one more when taken, and one more to another page.
LEMMA BranchCycles ==
    ASSUME NEW op \in BranchOps, NEW leaves \in BOOLEAN, NEW taken \in BOOLEAN
    PROVE  Cycles(op, "REL", leaves, taken)
             = 2 + (IF taken THEN 1 ELSE 0) + (IF taken /\ leaves THEN 1 ELSE 0)
<1>1. op \notin DOMAIN OwnCycles /\ op # "JMP" /\ op \notin Stores /\ op \notin Modifies
  BY DEF BranchOps, OwnCycles, Stores, Modifies, Shifts
<1> QED
  BY <1>1 DEF Cycles

\* Each documented instruction takes the cycles of the processor.
LEMMA Timed == ASSUME Documented, NEW i, i = Instruction PROVE TakesItsCycles(i)
<1> DEFINE op == i.op
           mode == i.mode
           leaves == mode \in {"ABX", "ABY", "IZY", "REL"} /\ High(i.abs) # High(i.base)
<1>1. /\ op = Ins[1] /\ mode = Ins[2] /\ Ins[3] = Cycles(op, mode, FALSE, FALSE) /\ Legally(op, mode)
      /\ op \in OpNames /\ mode \in ModeNames /\ ((mode = "REL") <=> (op \in BranchOps))
  BY Named
<1>2. /\ nes'.cycles = Done.cycles + (IF Place.extra /\ op \in TakesLonger THEN 1 ELSE 0) - 1
      /\ Ready.cycles = Ins[3] /\ IsMachine(Ready) /\ IsMachine(Done) /\ nes_loaded_cart \in Carts
      /\ Place.abs \in Word /\ Fetched \in Byte
  BY <1>1, Execution DEF Documented, IsFound
<1>3. Place.extra <=> mode \in {"ABX", "ABY", "IZY"} /\ High(i.abs) # High(i.base)
  BY Finds
<1>4. Ready.cycles \in Int /\ Done.cycles \in Int
  BY <1>2, Registers
<1>5. CASE op \in BranchOps
  <2>1. /\ mode = "REL"
        /\ Done = IF Taken(op, nes.P)
                  THEN [Ready EXCEPT !.PC = i.abs, !.cycles = @ + (IF High(i.abs) # High(i.base) THEN 2 ELSE 1)]
                  ELSE Ready
    BY <1>5, Branching
  <2>2. Done.cycles = Ready.cycles + (IF Taken(op, nes.P) THEN (IF High(i.abs) # High(i.base) THEN 2 ELSE 1) ELSE 0)
    BY <1>2, <1>4, <2>1 DEF IsMachine
  <2>3. op # "JMP" /\ op # "JSR"
    BY <1>5 DEF BranchOps
  <2>4. Ready.cycles = 2
    <3>1. op \notin DOMAIN OwnCycles /\ op \notin Stores /\ op \notin Modifies
      BY <1>5 DEF BranchOps, OwnCycles, Stores, Modifies, Shifts
    <3>2. Cycles(op, mode, FALSE, FALSE) = 2
      <4> HIDE DEF op, mode
      <4> QED
        BY <2>1, <2>3, <3>1 DEF Cycles
    <3> QED
      BY <1>1, <1>2, <3>2
  <2>5. Jumps(i) <=> Taken(op, nes.P)
    BY <2>1, <2>3 DEF Jumps
  <2>6. ~Place.extra
    BY <1>3, <2>1
  <2>7. nes'.cycles + 1 = 2 + (IF Jumps(i) THEN 1 ELSE 0) + (IF Jumps(i) /\ leaves THEN 1 ELSE 0)
    BY <1>2, <2>1, <2>2, <2>4, <2>5, <2>6
  <2>8. Cycles(op, mode, leaves, Jumps(i)) = 2 + (IF Jumps(i) THEN 1 ELSE 0) + (IF Jumps(i) /\ leaves THEN 1 ELSE 0)
    <3>1. leaves \in BOOLEAN
      OBVIOUS
    <3>2. Jumps(i) \in BOOLEAN
      BY DEF Jumps
    <3> HIDE DEF leaves, op
    <3> QED
      BY <1>5, <2>1, <3>1, <3>2, BranchCycles
  <2> QED
    BY <2>7, <2>8 DEF TakesItsCycles
<1>6. CASE op \notin BranchOps
  <2>1. Place.extra <=> leaves
    BY <1>1, <1>3, <1>6
  <2>2. Done.cycles = Ready.cycles
    <3>1. Done = Operation(op, Ready, mode, Place.abs, Fetched)
      BY Begins
    <3> DEFINE m == Ready
               a == Place.abs
               v == Fetched
               n == Operation(op, m, mode, a, v)
    <3>2. nes_temp \in Int /\ IsMachine(m) /\ a \in Word /\ v \in Byte /\ op \in OpNames /\ mode \in ModeNames
      BY <1>1, <1>2, Entries
    <3> HIDE DEF op, mode, m, a, v
    <3>3. Operated(m, op, n)
      BY <1>1, <1>2, <3>2, OfOperation
    <3>4. n.cycles = m.cycles
      BY <1>6, <3>3 DEF Operated
    <3> QED
      BY <3>1, <3>4 DEF m, a, v
  <2>3. Cycles(op, mode, FALSE, FALSE) + (IF leaves /\ op \in TakesLonger THEN 1 ELSE 0)
          = Cycles(op, mode, leaves, Jumps(i))
    <3>1. (leaves => mode \in {"ABX", "ABY", "IZY"}) /\ leaves \in BOOLEAN
      BY <1>1, <1>6
    <3>2. Jumps(i) \in BOOLEAN
      BY DEF Jumps
    <3> DEFINE jumps == Jumps(i)
    <3> HIDE DEF op, mode, leaves, jumps
    <3>3. Cycles(op, mode, FALSE, FALSE) + (IF leaves /\ op \in TakesLonger THEN 1 ELSE 0)
            = Cycles(op, mode, leaves, jumps)
      BY <1>1, <1>6, <3>1, <3>2, CycleSum DEF jumps
    <3> QED
      BY <3>3 DEF jumps
  <2>4. nes'.cycles + 1 = Cycles(op, mode, leaves, Jumps(i))
    <3> DEFINE base == Cycles(op, mode, FALSE, FALSE)
               sum == Cycles(op, mode, leaves, Jumps(i))
               more == IF leaves /\ op \in TakesLonger THEN 1 ELSE 0
    <3>1. /\ more \in Int /\ base = Done.cycles
          /\ nes'.cycles = Done.cycles + more - 1
      <4>1. more \in Int
        OBVIOUS
      <4>2. base = Done.cycles
        <5> HIDE DEF base, op, mode
        <5> QED
          BY <1>1, <1>2, <2>2 DEF base
      <4>3. more = IF Place.extra /\ op \in TakesLonger THEN 1 ELSE 0
        <5> HIDE DEF leaves, op
        <5> QED
          BY <2>1
      <4> HIDE DEF base, more
      <4> QED
        BY <1>2, <4>1, <4>2, <4>3
    <3>2. base + more = sum
      BY <2>3
    <3> HIDE DEF base, sum, more
    <3>3. nes'.cycles + 1 = sum
      BY <1>4, <3>1, <3>2
    <3> QED
      BY <3>3 DEF sum
  <2> QED
    BY <2>4 DEF TakesItsCycles, leaves
<1> QED
  BY <1>5, <1>6

-----------------------------------------------------------------------------
(* All an operation leaves behind *)

\* How many bytes an operation pushes; less than none if it pulls.
Grow(op) == IF op \in DOMAIN Grows THEN Grows[op] ELSE 0

\* Where a result goes.
Places == {"A", "X", "Y", "SP", "memory", "none"}

\* The place of a result, by what the operation is.
LEMMA TargetIs ==
    ASSUME NEW op, NEW mode
    PROVE  /\ Target(op, mode) \in Places
           /\ op \in StackOps \cup BranchOps \cup {"JMP"} =>
                Target(op, mode) = IF op = "PLA" THEN "A" ELSE "none"
           /\ op \in {"ADC", "SBC", "EOR"} \/ (op = "ASL" /\ mode = "IMP") => Target(op, mode) = "A"
           /\ op # "TXS" => Target(op, mode) # "SP"
           /\ Target(op, mode) = "memory" /\ Legally(op, mode) => mode # "IMP"
<1>1. CASE op \in {"LDA", "AND", "ORA", "EOR", "ADC", "SBC", "PLA", "TXA", "TYA"}
  BY <1>1 DEF Target, Places, StackOps, BranchOps, Shifts, Stores, Modifies
<1>2. CASE op \in Shifts /\ mode = "IMP"
  BY <1>2 DEF Target, Places, StackOps, BranchOps, Shifts, Stores, Modifies
<1>3. CASE op \in {"LDX", "TAX", "TSX", "INX", "DEX"}
  BY <1>3 DEF Target, Places, StackOps, BranchOps, Shifts, Stores, Modifies
<1>4. CASE op \in {"LDY", "TAY", "INY", "DEY"}
  BY <1>4 DEF Target, Places, StackOps, BranchOps, Shifts, Stores, Modifies
<1>5. CASE op = "TXS"
  BY <1>5 DEF Target, Places, StackOps, BranchOps, Shifts, Stores, Modifies
<1>6. CASE op \in Stores \/ (op \in Modifies /\ mode # "IMP")
  BY <1>6 DEF Target, Places, StackOps, BranchOps, Shifts, Stores, Modifies, Legally
<1>7. CASE ~ \/ op \in {"LDA", "AND", "ORA", "EOR", "ADC", "SBC", "PLA", "TXA", "TYA"}
             \/ op \in Shifts /\ mode = "IMP"
             \/ op \in {"LDX", "TAX", "TSX", "INX", "DEX"}
             \/ op \in {"LDY", "TAY", "INY", "DEY"}
             \/ op = "TXS"
             \/ op \in Stores \/ (op \in Modifies /\ mode # "IMP")
  <2>1. Target(op, mode) = "none"
    BY <1>7 DEF Target
  <2>2. op \notin {"ADC", "SBC", "EOR", "PLA", "TXS"} /\ ~(op = "ASL" /\ mode = "IMP")
    BY <1>7 DEF Shifts
  <2> QED
    BY <2>1, <2>2 DEF Places
<1> QED
  BY <1>1, <1>2, <1>3, <1>4, <1>5, <1>6, <1>7

\* What an operation leaves behind: it took m to n.
Effect(op, t, m, n, a, b, given) ==
    /\ t # "A" => n.A = m.A
    /\ t # "X" => n.X = m.X
    /\ t # "Y" => n.Y = m.Y
    /\ op # "TXS" => n.SP = ToByte(m.SP - Grow(op))
    /\ t # "memory" => Wrote(m.ram, n.ram, Below(m.SP, Grow(op)))
    /\ t = "memory" => n.ram = nes_cpu_write(m.ram, a, b)
    /\ given /\ op # "PLA" => /\ t = "A" => n.A = b
                              /\ t = "X" => n.X = b
                              /\ t = "Y" => n.Y = b
                              /\ t = "SP" => n.SP = b
    /\ op \notin {"BRK", "JSR", "JMP", "RTS", "RTI"} => n.PC = m.PC

\* Every operation but the branches has its effect.
LEMMA EffectOf ==
    ASSUME nes_loaded_cart \in Carts, NEW m, IsMachine(m), NEW op \in OpNames \ BranchOps,
           NEW mode, mode # "REL", Legally(op, mode), NEW a \in Word, NEW v \in Byte
    PROVE  Effect(op, Target(op, mode), m, Operation(op, m, mode, a, v), a, Result(op, m, v, Carry(m)),
                  op \notin {"ADC", "SBC", "EOR"} /\ ~(op = "ASL" /\ mode = "IMP"))
<1> DEFINE n == Operation(op, m, mode, a, v)
           t == Target(op, mode)
           b == Result(op, m, v, Carry(m))
           given == op \notin {"ADC", "SBC", "EOR"} /\ ~(op = "ASL" /\ mode = "IMP")
<1> SUFFICES Effect(op, t, m, n, a, b, given)
  OBVIOUS
<1>0. n = Operation(op, m, mode, a, v) /\ t = Target(op, mode) /\ b = Result(op, m, v, Carry(m))
  OBVIOUS
<1> HIDE DEF n, t, b
<1>1. t \in Places /\ (op # "TXS" => t # "SP") /\ (~given => t = "A")
  BY <1>0, TargetIs
<1>2. m.SP \in Byte /\ m.SP - 0 = m.SP /\ ToByte(m.SP) = m.SP
  BY Registers, Wraps
<1>3. CASE op \notin StackOps \cup {"JMP"}
  <2>1. Only(t, m, n) /\ (~given \/ t = "none" \/ Holds(t, m, n, a, b))
    <3>1. op \in OpNames \ (StackOps \cup BranchOps \cup {"JMP"})
      BY <1>3
    <3> QED
      BY <1>0, <3>1, ChangesItsTarget
  <2>2. Grow(op) = 0
    BY <1>3 DEF Grow, Grows, StackOps
  <2>3. Wrote(m.ram, m.ram, Below(m.SP, 0))
    BY DEF Wrote
  <2>4. t # "SP" => n.SP = ToByte(m.SP - Grow(op))
    BY <1>2, <2>1, <2>2 DEF Only
  <2>5. t # "memory" => Wrote(m.ram, n.ram, Below(m.SP, Grow(op)))
    BY <2>1, <2>2, <2>3 DEF Only
  <2>6. t # "PC" /\ op # "PLA"
    BY <1>1, <1>3 DEF Places, StackOps
  <2> HIDE DEF given
  <2>7. given /\ t # "none" => Holds(t, m, n, a, b)
    BY <2>1
  <2>8. t = "memory" => n.ram = nes_cpu_write(m.ram, a, b)
    BY <1>1, <2>7 DEF Holds
  <2>9. given => /\ t = "A" => n.A = b
                 /\ t = "X" => n.X = b
                 /\ t = "Y" => n.Y = b
                 /\ t = "SP" => n.SP = b
    BY <2>7 DEF Holds
  <2> QED
    BY <1>1, <2>1, <2>4, <2>5, <2>6, <2>8, <2>9 DEF Effect, Only
<1>4. CASE op = "JMP"
  <2>1. n = [m EXCEPT !.PC = a]
    BY <1>0, <1>4 DEF Operation, Clears, Sets
  <2>2. n.A = m.A /\ n.X = m.X /\ n.Y = m.Y /\ n.SP = m.SP /\ n.ram = m.ram
    BY <2>1 DEF IsMachine
  <2>3. Grow(op) = 0 /\ t = "none"
    BY <1>0, <1>4, TargetIs DEF Grow, Grows
  <2> QED
    BY <1>2, <1>4, <2>2, <2>3 DEF Effect, Wrote
<1>5. CASE op \in {"PHA", "PHP", "JSR", "BRK"}
  <2>1. t = "none"
    BY <1>0, <1>5, TargetIs DEF StackOps
  <2>2. /\ op = "PHA" => n = Push(m, m.A)
        /\ op = "PHP" => n = nes_PHP(m)
        /\ op = "JSR" => n = nes_JSR(m, a)
        /\ op = "BRK" => n = nes_BRK(m)
    BY <1>0 DEF Operation, Clears, Sets
  <2>3. /\ op = "PHA" => Grow(op) = 1
        /\ op = "PHP" => Grow(op) = 1
        /\ op = "JSR" => Grow(op) = 2
        /\ op = "BRK" => Grow(op) = 3
    BY DEF Grow, Grows
  <2>4. /\ Grew(m, Push(m, m.A), 1) /\ Push(m, m.A).PC = m.PC
        /\ Grew(m, nes_PHP(m), 1) /\ nes_PHP(m).PC = m.PC
        /\ Grew(m, nes_JSR(m, a), 2) /\ Grew(m, nes_BRK(m), 3)
    BY Registers, PushGrew, PHPGrew, JSRGrew, BRKGrew
  <2>5. Grew(m, n, Grow(op)) /\ (op \in {"PHA", "PHP"} => n.PC = m.PC)
    BY <1>5, <2>2, <2>3, <2>4
  <2> QED
    BY <1>5, <2>1, <2>5 DEF Effect, Grew
<1>6. CASE op \in {"PLA", "PLP", "RTS", "RTI"}
  <2>1. t = IF op = "PLA" THEN "A" ELSE "none"
    BY <1>0, <1>6, TargetIs DEF StackOps
  <2>2. /\ op = "PLA" => n = nes_PLA(m)
        /\ op = "PLP" => n = nes_PLP(m)
        /\ op = "RTS" => n = nes_RTS(m)
        /\ op = "RTI" => n = nes_RTI(m)
    BY <1>0 DEF Operation, Clears, Sets
  <2>3. /\ op = "PLA" => Grow(op) = -1
        /\ op = "PLP" => Grow(op) = -1
        /\ op = "RTS" => Grow(op) = -2
        /\ op = "RTI" => Grow(op) = -3
    BY DEF Grow, Grows
  <2>4. m.SP - (-1) = m.SP + 1 /\ m.SP - (-2) = m.SP + 2 /\ m.SP - (-3) = m.SP + 3
    BY Registers
  <2>5. /\ Shrank(m, nes_PLA(m), 1) /\ nes_PLA(m).PC = m.PC
        /\ Shrank(m, nes_PLP(m), 1) /\ nes_PLP(m).PC = m.PC /\ nes_PLP(m).A = m.A
        /\ Shrank(m, nes_RTS(m), 2) /\ nes_RTS(m).A = m.A
        /\ Shrank(m, nes_RTI(m), 3) /\ nes_RTI(m).A = m.A
    BY PullsShrink
  <2>6. /\ n.X = m.X /\ n.Y = m.Y /\ n.ram = m.ram /\ (op # "PLA" => n.A = m.A)
        /\ n.SP = ToByte(m.SP - Grow(op))
        /\ op \in {"PLA", "PLP"} => n.PC = m.PC
    BY <1>6, <2>2, <2>3, <2>4, <2>5 DEF Shrank
  <2> QED
    BY <1>6, <2>1, <2>6 DEF Effect, Wrote
<1> QED
  BY <1>3, <1>4, <1>5, <1>6 DEF StackOps

-----------------------------------------------------------------------------
(* The processor is followed *)

\* What is not written is not changed.
LEMMA ChangedWithin ==
    ASSUME Documented, NEW C, Wrote(nes.ram, nes'.ram, C)
    PROVE  Changed \subseteq C
<1> SUFFICES ASSUME NEW a \in DOMAIN nes'.ram, nes'.ram[a] # Peek(a), a \notin C PROVE FALSE
  BY DEF Changed
<1>1. a \in DOMAIN nes.ram /\ nes'.ram[a] = nes.ram[a]
  BY DEF Wrote
<1>2. IsRam(nes.ram)
  BY Execution, Registers DEF Documented
<1>3. a \in Int /\ 0 <= a /\ a < RamSize
  <2>1. a \in 0 .. RamSize - 1
    BY <1>1, <1>2 DEF IsRam
  <2>2. RamSize \in Int
    BY Sizes
  <2> QED
    BY <2>1, <2>2
<1>4. a % RamSize = a
  BY <1>3, Sizes, SmallIsLeft
<1>5. a \in Word /\ ~(a > \h3FFF) /\ ~(a > \h1FFF)
  BY <1>3, OfWord DEF RamSize
<1>6. nes_cpu_read(nes.ram, a) = nes.ram[a]
  BY <1>1, <1>4, <1>5 DEF nes_cpu_read
<1>7. Peek(a) = nes_cpu_read(nes.ram, a)
  BY <1>5, Peeks
<1> QED
  BY <1>1, <1>6, <1>7

\* What an instruction that is not a branch leaves behind.
LEMMA EffectOfStep ==
    ASSUME Documented, NEW i, i = Instruction, i.op \notin BranchOps
    PROVE  /\ Effect(i.op, TargetOf(i), nes, [nes' EXCEPT !.PC = nes.PC], Place.abs,
                     Result(i.op, nes, Fetched, Carry(nes)), ~ResultDiffers(i))
           /\ i.op \notin {"BRK", "JSR", "JMP", "RTS", "RTI"} => nes'.PC = i.next
           /\ i.op \in {"JMP", "JSR"} => nes'.PC = i.abs
           /\ i.op = "BRK" => nes'.PC = ReadWord(nes, \hFFFE)
<1> DEFINE op == i.op
           mode == i.mode
           a == Place.abs
           v == Fetched
           t == TargetOf(i)
           b == Result(op, nes, v, Carry(nes))
           given == ~ResultDiffers(i)
           m == Ready
<1>1. /\ Legally(op, mode) /\ op \in OpNames /\ mode \in ModeNames /\ ((mode = "REL") <=> (op \in BranchOps))
      /\ op = "JSR" => mode = "ABS"
      /\ op = "JMP" => mode \in {"ABS", "IND"}
  BY Named
<1>2. /\ nes_loaded_cart \in Carts /\ IsMachine(nes) /\ IsMachine(nes') /\ IsMachine(m) /\ IsMachine(Done)
      /\ m.A = nes.A /\ m.X = nes.X /\ m.Y = nes.Y /\ m.SP = nes.SP /\ m.ram = nes.ram
      /\ m.PC = Place.next /\ v \in Byte /\ a \in Word
      /\ nes'.A = Done.A /\ nes'.X = Done.X /\ nes'.Y = Done.Y
      /\ nes'.SP = Done.SP /\ nes'.ram = Done.ram /\ nes'.PC = Done.PC
  BY Execution DEF Documented, IsFound
<1>3. Done = Operation(op, m, mode, a, v) /\ Result(op, m, v, Carry(m)) = b
  BY Begins
<1>4. t = Target(op, mode)
  BY DEF TargetOf
<1>5. given <=> op \notin {"ADC", "SBC", "EOR"} /\ ~(op = "ASL" /\ mode = "IMP")
  BY DEF ResultDiffers
<1>6. m.PC = i.next
  BY <1>2, Ends
<1>7. op \in {"JMP", "JSR"} => a = i.abs
  BY <1>1, Finds DEF OperandDiffers
<1> HIDE DEF op, mode, a, v, t, b, given, m
<1>8. op \in OpNames \ BranchOps /\ mode # "REL"
  BY <1>1 DEF op
<1>9. Effect(op, t, m, Done, a, b, op \notin {"ADC", "SBC", "EOR"} /\ ~(op = "ASL" /\ mode = "IMP"))
  BY <1>1, <1>2, <1>3, <1>4, <1>8, EffectOf
<1>10. Effect(op, t, m, Done, a, b, given)
  BY <1>5, <1>9 DEF Effect
<1> DEFINE n == [nes' EXCEPT !.PC = nes.PC]
<1>11. /\ n.A = Done.A /\ n.X = Done.X /\ n.Y = Done.Y /\ n.SP = Done.SP /\ n.ram = Done.ram
       /\ n.PC = nes.PC
  BY <1>2 DEF IsMachine
<1> HIDE DEF n
<1>12. Effect(op, t, nes, n, a, b, given)
  BY <1>2, <1>10, <1>11 DEF Effect
<1>13. op \notin {"BRK", "JSR", "JMP", "RTS", "RTI"} => nes'.PC = i.next
  BY <1>2, <1>6, <1>10 DEF Effect
<1>14. op \in {"JMP", "JSR"} => nes'.PC = i.abs
  <2>1. CASE op = "JMP"
    <3>1. Done = [m EXCEPT !.PC = a]
      BY <1>3, <1>8, <2>1 DEF Operation, Clears, Sets
    <3>2. Done.PC = a
      BY <1>2, <3>1 DEF IsMachine
    <3> QED
      BY <1>2, <1>7, <2>1, <3>2
  <2>2. CASE op = "JSR"
    <3>1. Done = nes_JSR(m, a)
      BY <1>3, <1>8, <2>2 DEF Operation, Clears, Sets
    <3>2. Done.PC = a
      BY <1>2, <3>1, JSRGrew
    <3> QED
      BY <1>2, <1>7, <2>2, <3>2
  <2> QED
    BY <2>1, <2>2
<1>15. op = "BRK" => nes'.PC = ReadWord(nes, \hFFFE)
  <2> SUFFICES ASSUME op = "BRK" PROVE nes'.PC = ReadWord(nes, \hFFFE)
    OBVIOUS
  <2>1. Done = nes_BRK(m)
    BY <1>3, <1>8 DEF Operation, Clears, Sets
  <2>2. Done.PC = ReadWord(m, \hFFFE)
    BY <1>2, <2>1, BRKGrew
  <2> QED
    BY <1>2, <2>2 DEF ReadWord
<1> QED
  BY <1>12, <1>13, <1>14, <1>15 DEF op, t, a, b, v, given, n

\* The program continues where the processor would.
LEMMA Continues == ASSUME Documented, NEW i, i = Instruction PROVE GoesOn(i)
<1>1. (i.mode = "REL") <=> (i.op \in BranchOps)
  BY Named
<1>2. CASE i.op \in BranchOps
  <2>1. /\ i.mode = "REL" /\ i.next = i.base /\ Ready.PC = i.base
        /\ Done = IF Taken(i.op, nes.P)
                  THEN [Ready EXCEPT !.PC = i.abs, !.cycles = @ + (IF High(i.abs) # High(i.base) THEN 2 ELSE 1)]
                  ELSE Ready
    BY <1>2, Branching
  <2>2. IsMachine(Ready) /\ nes'.PC = Done.PC
    BY Execution DEF Documented
  <2>3. nes'.PC = IF Taken(i.op, nes.P) THEN i.abs ELSE i.next
    BY <2>1, <2>2 DEF IsMachine
  <2>4. i.op \notin {"RTS", "RTI", "BRK", "JMP", "JSR"}
    BY <1>2 DEF BranchOps
  <2>5. Jumps(i) <=> Taken(i.op, nes.P)
    BY <2>1, <2>4 DEF Jumps
  <2> QED
    BY <2>3, <2>4, <2>5 DEF GoesOn
<1>3. CASE i.op \notin BranchOps
  <2>1. /\ i.op \notin {"BRK", "JSR", "JMP", "RTS", "RTI"} => nes'.PC = i.next
        /\ i.op \in {"JMP", "JSR"} => nes'.PC = i.abs
        /\ i.op = "BRK" => nes'.PC = ReadWord(nes, \hFFFE)
    BY <1>3, EffectOfStep
  <2>2. Jumps(i) <=> i.op \in {"JMP", "JSR"}
    BY <1>1, <1>3 DEF Jumps
  <2>3. ReadWord(nes, \hFFFE) = Peek(\hFFFE) + \h100 * Peek(\hFFFF)
    <3>1. \hFFFE \in Word /\ \hFFFF \in Word /\ \hFFFE + 1 = \hFFFF
      BY OfWord
    <3>2. Peek(\hFFFE) = nes_cpu_read(nes.ram, \hFFFE) /\ Peek(\hFFFF) = nes_cpu_read(nes.ram, \hFFFF)
      BY <3>1, Peeks
    <3> QED
      BY <3>1, <3>2 DEF ReadWord
  <2> QED
    BY <2>1, <2>2, <2>3 DEF GoesOn
<1> QED
  BY <1>2, <1>3

\* A branch changes the program counter and the cycles.
LEMMA BranchLeaves ==
    ASSUME Documented, NEW i, i = Instruction, i.op \in BranchOps
    PROVE  nes'.A = nes.A /\ nes'.X = nes.X /\ nes'.Y = nes.Y /\ nes'.SP = nes.SP /\ nes'.ram = nes.ram
<1>1. Done = IF Taken(i.op, nes.P)
             THEN [Ready EXCEPT !.PC = i.abs, !.cycles = @ + (IF High(i.abs) # High(i.base) THEN 2 ELSE 1)]
             ELSE Ready
  BY Branching
<1>2. /\ IsMachine(Ready)
      /\ Ready.A = nes.A /\ Ready.X = nes.X /\ Ready.Y = nes.Y /\ Ready.SP = nes.SP /\ Ready.ram = nes.ram
      /\ nes'.A = Done.A /\ nes'.X = Done.X /\ nes'.Y = Done.Y /\ nes'.SP = Done.SP /\ nes'.ram = Done.ram
  BY Execution DEF Documented
<1>3. Done.A = Ready.A /\ Done.X = Ready.X /\ Done.Y = Ready.Y /\ Done.SP = Ready.SP /\ Done.ram = Ready.ram
  BY <1>1, <1>2 DEF IsMachine
<1> QED
  BY <1>2, <1>3

\* Nothing but the place of the result and the cells of the stack is changed.
LEMMA Leaves == ASSUME Documented, NEW i, i = Instruction PROVE OthersAreLeft(i)
<1> DEFINE t == TargetOf(i)
           g == Growth(i)
<1>1. IsMachine(nes) /\ nes.SP \in Byte /\ nes.SP - 0 = nes.SP /\ ToByte(nes.SP) = nes.SP
  <2>1. IsMachine(nes)
    BY Execution DEF Documented
  <2> QED
    BY <2>1, Registers, Wraps
<1>2. g = Grow(i.op) /\ StackCells(i) = Below(nes.SP, g)
  BY DEF Growth, Grow, StackCells, Below
<1>3. CASE i.op \in BranchOps
  <2>1. nes'.A = nes.A /\ nes'.X = nes.X /\ nes'.Y = nes.Y /\ nes'.SP = nes.SP /\ nes'.ram = nes.ram
    BY <1>3, BranchLeaves
  <2>2. g = 0
    BY <1>3 DEF Growth, Grows, BranchOps
  <2>3. Changed \subseteq StackCells(i)
    <3>1. Wrote(nes.ram, nes'.ram, StackCells(i))
      BY <2>1 DEF Wrote
    <3> QED
      BY <3>1, ChangedWithin
  <2>4. nes'["A"] = nes["A"] /\ nes'["X"] = nes["X"] /\ nes'["Y"] = nes["Y"]
    BY <2>1
  <2>5. nes'.SP = ToByte(nes.SP - g)
    BY <1>1, <2>1, <2>2
  <2> QED
    BY <2>3, <2>4, <2>5 DEF OthersAreLeft
<1>4. CASE i.op \notin BranchOps
  <2> DEFINE b == Result(i.op, nes, Fetched, Carry(nes))
             n == [nes' EXCEPT !.PC = nes.PC]
  <2>1. Effect(i.op, t, nes, n, Place.abs, b, ~ResultDiffers(i))
    BY <1>4, EffectOfStep
  <2>2. /\ n.A = nes'.A /\ n.X = nes'.X /\ n.Y = nes'.Y /\ n.SP = nes'.SP /\ n.ram = nes'.ram
        /\ Place.abs \in Word
    BY Execution DEF Documented, IsMachine, IsFound
  <2> HIDE DEF t, g, b, n
  <2>3. /\ t # "A" => nes'["A"] = nes["A"]
        /\ t # "X" => nes'["X"] = nes["X"]
        /\ t # "Y" => nes'["Y"] = nes["Y"]
        /\ i.op # "TXS" => nes'.SP = ToByte(nes.SP - g)
    BY <1>2, <2>1, <2>2 DEF Effect
  <2>4. ASSUME ~OperandDiffers(i) PROVE Changed \subseteq StackCells(i) \cup Stored(i)
    <3>1. CASE t # "memory"
      <4>1. Wrote(nes.ram, nes'.ram, StackCells(i))
        BY <1>2, <2>1, <2>2, <3>1 DEF Effect
      <4> QED
        BY <4>1, ChangedWithin
    <3>2. CASE t = "memory"
      <4>1. nes'.ram = nes_cpu_write(nes.ram, Place.abs, b)
        BY <2>1, <2>2, <3>2 DEF Effect
      <4>2. i.mode # "IMP" /\ i.mode # "REL"
        BY <1>4, <3>2, Named, TargetIs DEF t, TargetOf
      <4>3. Place.abs = i.abs /\ i.abs \in Nat
        BY <2>2, <2>4, <4>2, Finds, Ranges
      <4>4. CASE i.abs < \h2000
        <5>1. Wrote(nes.ram, nes'.ram, {i.abs % RamSize})
          <6>1. /\ nes_cpu_write(nes.ram, i.abs, b) = Put(nes.ram, i.abs % RamSize, b)
                /\ Wrote(nes.ram, Put(nes.ram, i.abs % RamSize, b), {i.abs % RamSize})
            BY <4>3, <4>4, WrittenCell
          <6> QED
            BY <4>1, <4>3, <6>1
        <5>2. Stored(i) = {i.abs % RamSize}
          BY <3>2, <4>4 DEF Stored, t
        <5> QED
          BY <5>1, <5>2, ChangedWithin
      <4>5. CASE ~(i.abs < \h2000)
        <5>1. nes'.ram = nes.ram
          BY <4>1, <4>3, <4>5, NoCell
        <5>2. Wrote(nes.ram, nes'.ram, {})
          BY <5>1 DEF Wrote
        <5> QED
          BY <5>2, ChangedWithin
      <4> QED
        BY <4>4, <4>5
    <3> QED
      BY <3>1, <3>2
  <2> QED
    BY <2>3, <2>4 DEF OthersAreLeft, t, g
<1> QED
  BY <1>3, <1>4

\* The result is where the processor would put it.
LEMMA Arrives ==
    ASSUME Documented, NEW i, i = Instruction, ~OperandDiffers(i), ~ResultDiffers(i)
    PROVE  ResultIsThere(i)
<1> DEFINE t == TargetOf(i)
           b == Result(i.op, nes, i.value, Carry(nes))
           n == [nes' EXCEPT !.PC = nes.PC]
<1>1. CASE i.op = "PLA" \/ t = "none"
  <2>1. t # "memory"
    BY <1>1, TargetIs DEF TargetOf, StackOps
  <2> QED
    BY <1>1, <2>1 DEF ResultIsThere
<1>2. CASE i.op # "PLA" /\ t # "none"
  <2>1. i.op \notin BranchOps /\ i.mode # "REL" /\ t \in Places /\ (t = "memory" => i.mode # "IMP")
    <3>1. Legally(i.op, i.mode) /\ ((i.mode = "REL") <=> (i.op \in BranchOps))
      BY Named
    <3>2. /\ t \in Places
          /\ i.op \in StackOps \cup BranchOps \cup {"JMP"} => t = IF i.op = "PLA" THEN "A" ELSE "none"
          /\ t = "memory" => i.mode # "IMP"
      BY <3>1, TargetIs DEF TargetOf
    <3> HIDE DEF t
    <3> QED
      BY <1>2, <3>1, <3>2
  <2>2. Fetched = i.value
    BY <2>1, Values
  <2>3. Effect(i.op, t, nes, n, Place.abs, b, ~ResultDiffers(i))
    BY <2>1, <2>2, EffectOfStep
  <2>4. /\ n.A = nes'.A /\ n.X = nes'.X /\ n.Y = nes'.Y /\ n.SP = nes'.SP /\ n.ram = nes'.ram
        /\ Place.abs \in Word
    BY Execution DEF Documented, IsMachine, IsFound
  <2> HIDE DEF t, b, n
  <2>5. /\ t = "A" => nes'["A"] = b
        /\ t = "X" => nes'["X"] = b
        /\ t = "Y" => nes'["Y"] = b
        /\ t = "SP" => nes'["SP"] = b
        /\ t = "memory" => nes'.ram = nes_cpu_write(nes.ram, Place.abs, b)
    BY <1>2, <2>3, <2>4 DEF Effect
  <2>6. CASE t = "memory"
    <3>1. Place.abs = i.abs /\ i.abs \in Nat
      BY <2>1, <2>4, <2>6, Finds, Ranges
    <3>2. ASSUME NEW a \in Stored(i) PROVE nes'.ram[a] = b
      <4>1. a = i.abs % RamSize /\ i.abs < \h2000
        BY DEF Stored
      <4> QED
        <5>1. nes'.ram = Put(nes.ram, a, b)
          <6>1. /\ nes_cpu_write(nes.ram, i.abs, b) = Put(nes.ram, i.abs % RamSize, b)
                /\ Wrote(nes.ram, Put(nes.ram, i.abs % RamSize, b), {i.abs % RamSize})
            BY <3>1, <4>1, WrittenCell
          <6> QED
            BY <2>5, <2>6, <3>1, <4>1, <6>1
        <5> QED
          BY <5>1 DEF Put
    <3> QED
      BY <1>2, <2>6, <3>2 DEF ResultIsThere, t, b
  <2>7. CASE t # "memory"
    <3>1. nes'[t] = b
      BY <1>2, <2>1, <2>5, <2>7 DEF Places
    <3> QED
      BY <1>2, <2>7, <3>1 DEF ResultIsThere, t, b
  <2> QED
    BY <2>6, <2>7
<1> QED
  BY <1>1, <1>2

\* nes_cpu_execute follows the 6502: a documented instruction of any program takes
\* its cycles, continues at the right address, leaves everything but its target
\* and the stack alone, and puts its result there, the deviations aside.
THEOREM ProcessorIsFollowed == Spec => Follows6502
<1>1. IInv /\ FInv /\ [Next]_vars
      => [Executes => \A i \in {Instruction} : i.opcode \in Legal =>
            /\ TakesItsCycles(i)
            /\ GoesOn(i) /\ ListingGoesOn(i)
            /\ OthersAreLeft(i)
            /\ ~OperandDiffers(i) /\ ~ResultDiffers(i) => ResultIsThere(i)]_vars
  <2> SUFFICES ASSUME IInv, FInv, [Next]_vars, Executes, NEW i, i = Instruction, i.opcode \in Legal
               PROVE  /\ TakesItsCycles(i)
                      /\ GoesOn(i) /\ ListingGoesOn(i)
                      /\ OthersAreLeft(i)
                      /\ ~OperandDiffers(i) /\ ~ResultDiffers(i) => ResultIsThere(i)
    OBVIOUS
  <2>1. Documented
    BY OneIsExecuted DEF Documented
  <2> QED
    BY <2>1, Timed, Continues, Ends, Leaves, Arrives
<1> QED
  BY <1>1, Invariant, FramesAreRight, PTL DEF Spec, Follows6502
=============================================================================
