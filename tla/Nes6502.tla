------------------------------ MODULE Nes6502 ------------------------------
(***************************************************************************)
(* nes6502.c over nesbus.c: the processor kmain resets and clocks once a   *)
(* cartridge was loaded.  A call of nes_clock, nes_irq, nes_nmirq or       *)
(* nes_reset is one step; there is one thread.                             *)
(*                                                                         *)
(* The instructions are functions on a record m of registers, RAM and      *)
(* cycles left.  What the code keeps in globals while it executes one      *)
(* instruction (nes_opcode, nes_addr_abs, nes_addr_rel, nes_fetched) is    *)
(* passed as an argument: no instruction reads what another left in them.  *)
(* nes_stack_base is never set, so the stack begins at address 0.          *)
(***************************************************************************)
EXTENDS Mos6502, Sequences

CONSTANTS
    NULL,             \* the null pointer
    Carts,            \* cartridges with mapper 0
    Banks,            \* prg_banks of each
    Prg,              \* its program: the bytes of a bank by offset, those that are not 0
    Leftover,         \* what malloc's memory holds at each offset of nes_cpu_ram
    Loops,            \* addresses at which the programs have a countdown
    MaxExecuted(_),   \* bound: instructions executed from a reset on, by cartridge
    MaxSignals(_)     \* bound: interrupts and resets while it runs

\* The bytes of nes_cpu_ram, and of a bank of a cartridge.
RamSize  == \h800
BankSize == \h4000

ASSUME Nes6502Assumption ==
    /\ NULL \notin Carts
    /\ Banks \in [Carts -> Nat]
    /\ \A c \in Carts : \A o \in DOMAIN Prg[c] : o \in 0 .. BankSize - 1 /\ Prg[c][o] \in Byte
    /\ Leftover \in [0 .. RamSize - 1 -> Byte]
    /\ Loops \subseteq Word

VARIABLES
    nes,              \* A, X, Y, SP, PC, P (a set of flags), ram, cycles
    nes_loaded_cart,  \* the cartridge, NULL when none was loaded
    phase,            \* "on" until the reset, then "running", "astray" behind a bad pointer
    executed,         \* instructions executed since the reset
    signals,          \* interrupts and resets
    pushed            \* what instructions and interrupts put on the stack, newest last

vars == <<nes, nes_loaded_cart, phase, executed, signals, pushed>>

-----------------------------------------------------------------------------
(* The bus *)

\* Mapper 0: one bank is seen twice, two are not seen at all.
nes_mapper_zero_read(a) ==
    IF /\ Banks[nes_loaded_cart] <= 1 /\ a >= \h8000
       /\ a % BankSize \in DOMAIN Prg[nes_loaded_cart]
    THEN Prg[nes_loaded_cart][a % BankSize] ELSE 0

\* No register of the picture unit holds anything yet.
nes_cpu_ppu_read(a) == 0

nes_cpu_ppu_write(ram, a) == ram

\* ram maps the offsets that were written.
nes_cpu_read(ram, a) ==
    LET at == a % RamSize
    IN IF a > \h3FFF THEN nes_mapper_zero_read(a)
       ELSE IF a > \h1FFF THEN nes_cpu_ppu_read(a % 8)
       ELSE IF at \in DOMAIN ram THEN ram[at] ELSE Leftover[at]

\* f with the value v at k.
Put(f, k, v) == [x \in DOMAIN f \cup {k} |-> IF x = k THEN v ELSE f[x]]

\* The mapper drops what is written, see NesCart.
nes_cpu_write(ram, a, b) ==
    IF a > \h3FFF THEN ram
    ELSE IF a > \h1FFF THEN nes_cpu_ppu_write(ram, a % 8)
    ELSE Put(ram, a % RamSize, b)

-----------------------------------------------------------------------------
(* The instruction table: operation, addressing mode and cycles by opcode *)
LowInstructions == <<
    <<"BRK", "IMM", 7>>, <<"ORA", "IZX", 6>>, <<"UDF", "IMP", 2>>, <<"UDF", "IMP", 8>>,
    <<"NOP", "IMP", 3>>, <<"ORA", "ZP0", 3>>, <<"ASL", "ZP0", 5>>, <<"UDF", "IMP", 5>>,
    <<"PHP", "IMP", 3>>, <<"ORA", "IMM", 2>>, <<"ASL", "IMP", 2>>, <<"UDF", "IMP", 2>>,
    <<"NOP", "IMP", 4>>, <<"ORA", "ABS", 4>>, <<"ASL", "ABS", 6>>, <<"UDF", "IMP", 6>>,
    <<"BPL", "REL", 2>>, <<"ORA", "IZY", 5>>, <<"UDF", "IMP", 2>>, <<"UDF", "IMP", 8>>,
    <<"NOP", "IMP", 4>>, <<"ORA", "ZPX", 4>>, <<"ASL", "ZPX", 6>>, <<"UDF", "IMP", 6>>,
    <<"CLC", "IMP", 2>>, <<"ORA", "ABY", 4>>, <<"NOP", "IMP", 2>>, <<"UDF", "IMP", 7>>,
    <<"NOP", "IMP", 4>>, <<"ORA", "ABX", 4>>, <<"ASL", "ABX", 7>>, <<"UDF", "IMP", 7>>,
    <<"JSR", "ABS", 6>>, <<"AND", "IZX", 6>>, <<"UDF", "IMP", 2>>, <<"UDF", "IMP", 8>>,
    <<"BIT", "ZP0", 3>>, <<"AND", "ZP0", 3>>, <<"ROL", "ZP0", 5>>, <<"UDF", "IMP", 5>>,
    <<"PLP", "IMP", 4>>, <<"AND", "IMM", 2>>, <<"ROL", "IMP", 2>>, <<"UDF", "IMP", 2>>,
    <<"BIT", "ABS", 4>>, <<"AND", "ABS", 4>>, <<"ROL", "ABS", 6>>, <<"UDF", "IMP", 6>>,
    <<"BMI", "REL", 2>>, <<"AND", "IZY", 5>>, <<"UDF", "IMP", 2>>, <<"UDF", "IMP", 8>>,
    <<"NOP", "IMP", 4>>, <<"AND", "ZPX", 4>>, <<"ROL", "ZPX", 6>>, <<"UDF", "IMP", 6>>,
    <<"SEC", "IMP", 2>>, <<"AND", "ABY", 4>>, <<"NOP", "IMP", 2>>, <<"UDF", "IMP", 7>>,
    <<"NOP", "IMP", 4>>, <<"AND", "ABX", 4>>, <<"ROL", "ABX", 7>>, <<"UDF", "IMP", 7>>,
    <<"RTI", "IMP", 6>>, <<"EOR", "IZX", 6>>, <<"UDF", "IMP", 2>>, <<"UDF", "IMP", 8>>,
    <<"NOP", "IMP", 3>>, <<"EOR", "ZP0", 3>>, <<"LSR", "ZP0", 5>>, <<"UDF", "IMP", 5>>,
    <<"PHA", "IMP", 3>>, <<"EOR", "IMM", 2>>, <<"LSR", "IMP", 2>>, <<"UDF", "IMP", 2>>,
    <<"JMP", "ABS", 3>>, <<"EOR", "ABS", 4>>, <<"LSR", "ABS", 6>>, <<"UDF", "IMP", 6>>,
    <<"BVC", "REL", 2>>, <<"EOR", "IZY", 5>>, <<"UDF", "IMP", 2>>, <<"UDF", "IMP", 8>>,
    <<"NOP", "IMP", 4>>, <<"EOR", "ZPX", 4>>, <<"LSR", "ZPX", 6>>, <<"UDF", "IMP", 6>>,
    <<"CLI", "IMP", 2>>, <<"EOR", "ABY", 4>>, <<"NOP", "IMP", 2>>, <<"UDF", "IMP", 7>>,
    <<"NOP", "IMP", 4>>, <<"EOR", "ABX", 4>>, <<"LSR", "ABX", 7>>, <<"UDF", "IMP", 7>>,
    <<"RTS", "IMP", 6>>, <<"ADC", "IZX", 6>>, <<"UDF", "IMP", 2>>, <<"UDF", "IMP", 8>>,
    <<"NOP", "IMP", 3>>, <<"ADC", "ZP0", 3>>, <<"ROR", "ZP0", 5>>, <<"UDF", "IMP", 5>>,
    <<"PLA", "IMP", 4>>, <<"ADC", "IMM", 2>>, <<"ROR", "IMP", 2>>, <<"UDF", "IMP", 2>>,
    <<"JMP", "IND", 5>>, <<"ADC", "ABS", 4>>, <<"ROR", "ABS", 6>>, <<"UDF", "IMP", 6>>,
    <<"BVS", "REL", 2>>, <<"ADC", "IZY", 5>>, <<"UDF", "IMP", 2>>, <<"UDF", "IMP", 8>>,
    <<"NOP", "IMP", 4>>, <<"ADC", "ZPX", 4>>, <<"ROR", "ZPX", 6>>, <<"UDF", "IMP", 6>>,
    <<"SEI", "IMP", 2>>, <<"ADC", "ABY", 4>>, <<"NOP", "IMP", 2>>, <<"UDF", "IMP", 7>>,
    <<"NOP", "IMP", 4>>, <<"ADC", "ABX", 4>>, <<"ROR", "ABX", 7>>, <<"UDF", "IMP", 7>>>>

HighInstructions == <<
    <<"NOP", "IMP", 2>>, <<"STA", "IZX", 6>>, <<"NOP", "IMP", 2>>, <<"UDF", "IMP", 6>>,
    <<"STY", "ZP0", 3>>, <<"STA", "ZP0", 3>>, <<"STX", "ZP0", 3>>, <<"UDF", "IMP", 3>>,
    <<"DEY", "IMP", 2>>, <<"NOP", "IMP", 2>>, <<"TXA", "IMP", 2>>, <<"UDF", "IMP", 2>>,
    <<"STY", "ABS", 4>>, <<"STA", "ABS", 4>>, <<"STX", "ABS", 4>>, <<"UDF", "IMP", 4>>,
    <<"BCC", "REL", 2>>, <<"STA", "IZY", 6>>, <<"UDF", "IMP", 2>>, <<"UDF", "IMP", 6>>,
    <<"STY", "ZPX", 4>>, <<"STA", "ZPX", 4>>, <<"STX", "ZPY", 4>>, <<"UDF", "IMP", 4>>,
    <<"TYA", "IMP", 2>>, <<"STA", "ABY", 5>>, <<"TXS", "IMP", 2>>, <<"UDF", "IMP", 5>>,
    <<"NOP", "IMP", 5>>, <<"STA", "ABX", 5>>, <<"UDF", "IMP", 5>>, <<"UDF", "IMP", 5>>,
    <<"LDY", "IMM", 2>>, <<"LDA", "IZX", 6>>, <<"LDX", "IMM", 2>>, <<"UDF", "IMP", 6>>,
    <<"LDY", "ZP0", 3>>, <<"LDA", "ZP0", 3>>, <<"LDX", "ZP0", 3>>, <<"UDF", "IMP", 3>>,
    <<"TAY", "IMP", 2>>, <<"LDA", "IMM", 2>>, <<"TAX", "IMP", 2>>, <<"UDF", "IMP", 2>>,
    <<"LDY", "ABS", 4>>, <<"LDA", "ABS", 4>>, <<"LDX", "ABS", 4>>, <<"UDF", "IMP", 4>>,
    <<"BCS", "REL", 2>>, <<"LDA", "IZY", 5>>, <<"UDF", "IMP", 2>>, <<"UDF", "IMP", 5>>,
    <<"LDY", "ZPX", 4>>, <<"LDA", "ZPX", 4>>, <<"LDX", "ZPY", 4>>, <<"UDF", "IMP", 4>>,
    <<"CLV", "IMP", 2>>, <<"LDA", "ABY", 4>>, <<"TSX", "IMP", 2>>, <<"UDF", "IMP", 4>>,
    <<"LDY", "ABX", 4>>, <<"LDA", "ABX", 4>>, <<"LDX", "ABY", 4>>, <<"UDF", "IMP", 4>>,
    <<"CPY", "IMM", 2>>, <<"CMP", "IZX", 6>>, <<"NOP", "IMP", 2>>, <<"UDF", "IMP", 8>>,
    <<"CPY", "ZP0", 3>>, <<"CMP", "ZP0", 3>>, <<"DEC", "ZP0", 5>>, <<"UDF", "IMP", 5>>,
    <<"INY", "IMP", 2>>, <<"CMP", "IMM", 2>>, <<"DEX", "IMP", 2>>, <<"UDF", "IMP", 2>>,
    <<"CPY", "ABS", 4>>, <<"CMP", "ABS", 4>>, <<"DEC", "ABS", 6>>, <<"UDF", "IMP", 6>>,
    <<"BNE", "REL", 2>>, <<"CMP", "IZY", 5>>, <<"UDF", "IMP", 2>>, <<"UDF", "IMP", 8>>,
    <<"NOP", "IMP", 4>>, <<"CMP", "ZPX", 4>>, <<"DEC", "ZPX", 6>>, <<"UDF", "IMP", 6>>,
    <<"CLD", "IMP", 2>>, <<"CMP", "ABY", 4>>, <<"NOP", "IMP", 2>>, <<"UDF", "IMP", 7>>,
    <<"NOP", "IMP", 4>>, <<"CMP", "ABX", 4>>, <<"DEC", "ABX", 7>>, <<"UDF", "IMP", 7>>,
    <<"CPX", "IMM", 2>>, <<"SBC", "IZX", 6>>, <<"NOP", "IMP", 2>>, <<"UDF", "IMP", 8>>,
    <<"CPX", "ZP0", 3>>, <<"SBC", "ZP0", 3>>, <<"INC", "ZP0", 5>>, <<"UDF", "IMP", 5>>,
    <<"INX", "IMP", 2>>, <<"SBC", "IMM", 2>>, <<"NOP", "IMP", 2>>, <<"SBC", "IMP", 2>>,
    <<"CPX", "ABS", 4>>, <<"SBC", "ABS", 4>>, <<"INC", "ABS", 6>>, <<"UDF", "IMP", 6>>,
    <<"BEQ", "REL", 2>>, <<"SBC", "IZY", 5>>, <<"UDF", "IMP", 2>>, <<"UDF", "IMP", 8>>,
    <<"NOP", "IMP", 4>>, <<"SBC", "ZPX", 4>>, <<"INC", "ZPX", 6>>, <<"UDF", "IMP", 6>>,
    <<"SED", "IMP", 2>>, <<"SBC", "ABY", 4>>, <<"NOP", "IMP", 2>>, <<"UDF", "IMP", 7>>,
    <<"NOP", "IMP", 4>>, <<"SBC", "ABX", 4>>, <<"INC", "ABX", 7>>, <<"UDF", "IMP", 7>>>>

nes_instructions == LowInstructions \o HighInstructions

\* The index at which the next entry of the table would go.
nes_temp == Len(nes_instructions)

-----------------------------------------------------------------------------
(* Flags, the stack *)

\* Clearing a flag keeps it and clears all others.
nes_setflag(m, f, on) == [m EXCEPT !.P = IF on THEN @ \cup {f} ELSE @ \cap {f}]

SetZN(m, b) == nes_setflag(nes_setflag(m, "Z", b = 0), "N", IsNegative(b))
SetNZ(m, b) == nes_setflag(nes_setflag(m, "N", IsNegative(b)), "Z", b = 0)

Carry(m) == IF "C" \in m.P THEN 1 ELSE 0

Push(m, b) == [m EXCEPT !.ram = nes_cpu_write(@, m.SP, b), !.SP = ToByte(@ - 1)]

PushWord(m, w) == Push(Push(m, High(w)), Low(w))

\* What lies k bytes above the stack pointer.
Stacked(m, k) == nes_cpu_read(m.ram, ToByte(m.SP + k))

ReadWord(m, a) == nes_cpu_read(m.ram, a) + \h100 * nes_cpu_read(m.ram, a + 1)

-----------------------------------------------------------------------------
(* Addressing modes.  Each gives the address it leaves in nes_addr_abs (in   *)
(* nes_addr_rel, for REL), the program counter behind the instruction, and   *)
(* whether a cycle is to be added.                                           *)

Found(m, bytes, abs, extra) == [abs |-> abs, next |-> ToWord(m.PC + bytes), extra |-> extra]

Operand(m) == nes_cpu_read(m.ram, m.PC)

OperandWord(m) == Operand(m) + \h100 * nes_cpu_read(m.ram, ToWord(m.PC + 1))

\* An indexed address, and whether it lies on another page than its base.
Indexed(m, bytes, base, by) ==
    LET abs == ToWord(base + by) IN Found(m, bytes, abs, High(abs) # High(base))

\* The index is added to the address of the operand, not to the operand.
nes_ZPX(m) == Found(m, 1, nes_cpu_read(m.ram, ToWord(m.PC + m.X)), FALSE)
nes_ZPY(m) == Found(m, 1, nes_cpu_read(m.ram, ToWord(m.PC + m.Y)), FALSE)

nes_REL(m) ==
    LET b == Operand(m) IN Found(m, 1, IF IsNegative(b) THEN b + \hFF00 ELSE b, FALSE)

\* The high byte of a pointer at the end of a page comes from its beginning.
nes_IND(m) ==
    LET ptr == OperandWord(m)
        hi  == IF Low(ptr) = \hFF THEN ptr - \hFF ELSE ptr + 1
    IN Found(m, 2, nes_cpu_read(m.ram, ptr) + \h100 * nes_cpu_read(m.ram, hi), FALSE)

\* The address of the high byte is multiplied by 0xFF where it should be masked.
nes_IZX(m) ==
    LET val == Operand(m) + m.X
    IN Found(m, 1, nes_cpu_read(m.ram, ToByte(val))
                     + \h100 * nes_cpu_read(m.ram, ToWord((val + 1) * \hFF)), FALSE)

\* Mutant: the pointer runs over the end of page zero.
IZY_unwrapped(m) ==
    LET val == Operand(m) IN Indexed(m, 1, ReadWord(m, val), m.Y)

nes_IZY(m) ==
    LET val == Operand(m)
    IN Indexed(m, 1, nes_cpu_read(m.ram, val) + \h100 * nes_cpu_read(m.ram, ToByte(val + 1)), m.Y)

Addressed(mode, m) ==
    CASE mode = "IMP" -> Found(m, 0, m.PC, FALSE)
      [] mode = "IMM" -> Found(m, 1, m.PC, FALSE)
      [] mode = "ZP0" -> Found(m, 1, Operand(m), FALSE)
      [] mode = "ZPX" -> nes_ZPX(m)
      [] mode = "ZPY" -> nes_ZPY(m)
      [] mode = "REL" -> nes_REL(m)
      [] mode = "ABS" -> Found(m, 2, OperandWord(m), FALSE)
      [] mode = "ABX" -> Indexed(m, 2, OperandWord(m), m.X)
      [] mode = "ABY" -> Indexed(m, 2, OperandWord(m), m.Y)
      [] mode = "IND" -> nes_IND(m)
      [] mode = "IZX" -> nes_IZX(m)
      [] mode = "IZY" -> nes_IZY(m)

\* An operation without an operand works on the accumulator.
nes_fetch(m, mode, abs) == IF mode = "IMP" THEN m.A ELSE nes_cpu_read(m.ram, abs)

-----------------------------------------------------------------------------
(* Operations.  v is the operand, abs the address, mode how it was found. *)

\* Software interrupt: the flag I set here is lost when B is cleared.
nes_BRK(m) ==
    LET saved == PushWord(nes_setflag([m EXCEPT !.PC = ToWord(@ + 1)], "I", TRUE), ToWord(m.PC + 1))
        broke == nes_setflag(saved, "B", TRUE)
    IN [nes_setflag(Push(broke, StatusByte(broke.P)), "B", FALSE) EXCEPT !.PC = ReadWord(m, \hFFFE)]

\* The sum is assigned 0 where it should be compared with 0.
nes_ADC(m, v) ==
    LET c == nes_setflag(m, "C", m.A + v + Carry(m) > \hFF)
        z == nes_setflag(c, "Z", FALSE)
        o == nes_setflag(z, "V", ~IsNegative(m.A) \/ IsNegative(v))
    IN [nes_setflag(o, "N", FALSE) EXCEPT !.A = 0]

\* Mutant: the product is not cut to the register's width.
SBC_wide(m, v) == [m EXCEPT !.A = (m.A + \hFF - v + Carry(m)) * \hFF]

\* The difference is multiplied by 0xFF where it should be masked.
nes_SBC(m, v) ==
    LET val  == \hFF - v
        temp == m.A + val + Carry(m)
        sign == IsNegative(ToByte(temp))
        c == nes_setflag(m, "C", temp > \hFF)
        z == nes_setflag(c, "Z", ToByte(temp) = 0)
        o == nes_setflag(z, "V", ~(sign <=> IsNegative(m.A)) /\ ~(sign <=> IsNegative(val)))
    IN [nes_setflag(o, "N", sign) EXCEPT !.A = ToByte(temp * \hFF)]

LoadA(m, b) == SetZN([m EXCEPT !.A = b], b)

\* The result is not stored.
nes_EOR(m, v) == SetZN(m, BitXor(v, m.A))

\* Mutant: V from the bit that is for N.
BIT_sign(m, v) ==
    nes_setflag(nes_setflag(nes_setflag(m, "Z", BitAnd(m.A, v) = 0), "N", IsNegative(v)), "V", IsNegative(v))

nes_BIT(m, v) ==
    LET n == nes_setflag(nes_setflag(m, "Z", BitAnd(m.A, v) = 0), "N", IsNegative(v))
    IN nes_setflag(n, "V", 7 \in Bits[v])

\* The result of a shift goes to the accumulator or back to memory.
PutBack(m, mode, abs, b) ==
    IF mode = "IMP" THEN [m EXCEPT !.A = b] ELSE [m EXCEPT !.ram = nes_cpu_write(@, abs, b)]

\* In the accumulator a global is stored instead of the result.
nes_ASL(m, mode, abs, v) ==
    LET done == nes_setflag(SetZN(m, ToByte(2 * v)), "C", v > \h7F)
    IN PutBack(done, mode, abs, IF mode = "IMP" THEN ToByte(nes_temp) ELSE ToByte(2 * v))

nes_LSR(m, mode, abs, v) ==
    PutBack(SetZN(nes_setflag(m, "C", v % 2 = 1), v \div 2), mode, abs, v \div 2)

nes_ROL(m, mode, abs, v) ==
    LET b == ToByte(2 * v + Carry(m))
    IN PutBack(SetZN(nes_setflag(m, "C", v > \h7F), b), mode, abs, b)

nes_ROR(m, mode, abs, v) ==
    LET b == \h80 * Carry(m) + v \div 2
    IN PutBack(SetZN(nes_setflag(m, "C", v % 2 = 1), b), mode, abs, b)

Increment(m, abs, v, by) ==
    LET b == ToByte(v + by) IN SetZN([m EXCEPT !.ram = nes_cpu_write(@, abs, b)], b)

\* Mutant: as INX and INY do it, Z before N.
DecrementIndex_ZN(m, r) == LET b == ToByte(m[r] - 1) IN SetZN([m EXCEPT ![r] = b], b)

\* DEX and DEY set N before Z, INX and INY Z before N.
DecrementIndex(m, r) == LET b == ToByte(m[r] - 1) IN SetNZ([m EXCEPT ![r] = b], b)
IncrementIndex(m, r) == LET b == ToByte(m[r] + 1) IN SetZN([m EXCEPT ![r] = b], b)

Compare(m, r, v) == SetZN(nes_setflag(m, "C", m[r] >= v), ToByte(m[r] - v))

\* A branch that is taken costs one cycle, and one more to another page.
Branch(m, rel, taken) ==
    LET to == ToWord(m.PC + rel)
    IN IF taken THEN [m EXCEPT !.PC = to, !.cycles = @ + (IF High(to) # High(m.PC) THEN 2 ELSE 1)]
       ELSE m

BranchesOn(op) ==
    [BCC |-> "C", BCS |-> "C", BEQ |-> "Z", BMI |-> "N", BNE |-> "Z", BPL |-> "N",
     BVC |-> "V", BVS |-> "V"][op]

IsTaken(m, op) == (BranchesOn(op) \in m.P) = (op \in {"BCS", "BEQ", "BMI", "BVS"})

Load(m, r, b) == SetZN([m EXCEPT ![r] = b], b)

Store(m, abs, r) == [m EXCEPT !.ram = nes_cpu_write(@, abs, m[r])]

\* Mutant: the address of the last byte of JSR is not what is pushed.
JSR_next(m, abs) == [PushWord(m, m.PC) EXCEPT !.PC = abs]

nes_JSR(m, abs) == [PushWord(m, ToWord(m.PC - 1)) EXCEPT !.PC = abs]

nes_RTS(m) ==
    [m EXCEPT !.PC = ToWord(Stacked(m, 1) + \h100 * Stacked(m, 2) + 1), !.SP = ToByte(@ + 2)]

\* B is set, since the complement of its bit is not 0.
nes_RTI(m) ==
    [m EXCEPT !.P  = StatusOf(Stacked(m, 1)) \cup {"B", "U"},
              !.PC = Stacked(m, 2) + \h100 * Stacked(m, 3),
              !.SP = ToByte(@ + 3)]

\* B and U are cleared after the status was pushed, and with them everything.
nes_PHP(m) == nes_setflag(nes_setflag(Push(m, StatusByte(m.P)), "B", FALSE), "U", FALSE)

nes_PLA(m) == LoadA([m EXCEPT !.SP = ToByte(@ + 1)], Stacked(m, 1))

nes_PLP(m) == [m EXCEPT !.P = StatusOf(Stacked(m, 1)) \cup {"U"}, !.SP = ToByte(@ + 1)]

\* N and Z are exchanged.
nes_TAX(m) ==
    nes_setflag(nes_setflag([m EXCEPT !.X = m.A], "N", m.A = 0), "Z", IsNegative(m.A))

\* The flag of an operation that only sets or clears one.
Clears == [CLC |-> "C", CLD |-> "D", CLI |-> "I", CLV |-> "V"]
Sets   == [SEC |-> "C", SED |-> "D", SEI |-> "I"]

Operation(op, m, mode, abs, v) ==
    CASE op \in {"UDF", "NOP"} -> m
      [] op = "BRK" -> nes_BRK(m)
      [] op = "ADC" -> nes_ADC(m, v)
      [] op = "SBC" -> nes_SBC(m, v)
      [] op = "AND" -> LoadA(m, BitAnd(m.A, v))
      [] op = "ORA" -> LoadA(m, BitOr(m.A, v))
      [] op = "EOR" -> nes_EOR(m, v)
      [] op = "BIT" -> nes_BIT(m, v)
      [] op = "ASL" -> nes_ASL(m, mode, abs, v)
      [] op = "LSR" -> nes_LSR(m, mode, abs, v)
      [] op = "ROL" -> nes_ROL(m, mode, abs, v)
      [] op = "ROR" -> nes_ROR(m, mode, abs, v)
      [] op = "INC" -> Increment(m, abs, v, 1)
      [] op = "DEC" -> Increment(m, abs, v, -1)
      [] op = "CMP" -> Compare(m, "A", v)
      [] op = "CPX" -> Compare(m, "X", v)
      [] op = "CPY" -> Compare(m, "Y", v)
      [] mode = "REL" -> Branch(m, abs, IsTaken(m, op))
      [] op \in DOMAIN Clears -> nes_setflag(m, Clears[op], FALSE)
      [] op \in DOMAIN Sets -> nes_setflag(m, Sets[op], TRUE)
      [] op = "LDA" -> LoadA(m, v)
      [] op = "LDX" -> Load(m, "X", v)
      [] op = "LDY" -> Load(m, "Y", v)
      [] op = "STA" -> Store(m, abs, "A")
      [] op = "STX" -> Store(m, abs, "X")
      [] op = "STY" -> Store(m, abs, "Y")
      [] op = "INX" -> IncrementIndex(m, "X")
      [] op = "INY" -> IncrementIndex(m, "Y")
      [] op = "DEX" -> DecrementIndex(m, "X")
      [] op = "DEY" -> DecrementIndex(m, "Y")
      [] op = "TAX" -> nes_TAX(m)
      [] op = "TAY" -> Load(m, "Y", m.A)
      [] op = "TSX" -> Load(m, "X", m.SP)
      [] op = "TXA" -> LoadA(m, m.X)
      [] op = "TYA" -> LoadA(m, m.Y)
      [] op = "TXS" -> [m EXCEPT !.SP = m.X]
      [] op = "JMP" -> [m EXCEPT !.PC = abs]
      [] op = "JSR" -> nes_JSR(m, abs)
      [] op = "RTS" -> nes_RTS(m)
      [] op = "RTI" -> nes_RTI(m)
      [] op = "PHA" -> Push(m, m.A)
      [] op = "PHP" -> nes_PHP(m)
      [] op = "PLA" -> nes_PLA(m)
      [] op = "PLP" -> nes_PLP(m)

\* Operations that return 1: they take a cycle more when the address mode does.
TakesLonger == {"ADC", "SBC", "AND", "CMP", "CPX", "CPY", "EOR", "LDA", "LDX", "LDY", "ORA"}

\* The bytes nes_dissasemble_display takes for the operand of an instruction.
OperandBytes(mode) ==
    IF mode = "IMP" THEN 0 ELSE IF mode \in {"ABS", "ABX", "ABY", "IND"} THEN 2 ELSE 1

-----------------------------------------------------------------------------
(* The clock, the reset and the interrupts *)

OpcodeAt(m) == nes_cpu_read(m.ram, m.PC)

\* The opcode of the instruction ins has been read.
Opened(m, ins) == [nes_setflag(m, "U", TRUE) EXCEPT !.PC = ToWord(@ + 1), !.cycles = ins[3]]

\* Its operand was found at at; then its operation, and the cycles that are
\* left once the first has gone.
Executed(m, ins, at) ==
    LET done == Operation(ins[1], [m EXCEPT !.PC = at.next], ins[2], at.abs, nes_fetch(m, ins[2], at.abs))
        more == IF at.extra /\ ins[1] \in TakesLonger THEN 1 ELSE 0
    IN nes_setflag([done EXCEPT !.cycles = @ + more - 1], "U", TRUE)

\* Where the next push would go and what a frame there keeps: for a call and an
\* interrupt the address to return to, else the byte.
Frame(by, kept, cells) == [by |-> by, kept |-> kept, cells |-> cells]

\* The cells a push of n bytes by m fills, as ram has them.
Pushed(m, n, ram) == [a \in {ToByte(m.SP - k) : k \in 0 .. n - 1} |-> nes_cpu_read(ram, a)]

\* pushed, after an operation has taken m to done: frames by the stack pointer
\* below them.  A frame is forgotten when something is pulled there.
Remember(op, m, done) ==
    LET keep(kept, n) == Put(pushed, done.SP, Frame(op, kept, Pushed(m, n, done.ram)))
    IN CASE op = "PHA" -> keep(m.A, 1)
         [] op = "PHP" -> keep(StatusByte(m.P \cup {"U"}), 1)
         [] op = "JSR" -> keep(ToWord(m.PC + 3), 2)
         [] op = "IRQ" -> keep(m.PC, 3)
         [] op \in {"PLA", "PLP", "RTS", "RTI"} -> [s \in DOMAIN pushed \ {m.SP} |-> pushed[s]]
         [] OTHER -> pushed

\* The last entry of the table lies behind the block allocated for it.
LostOpcode == \hFF

ExecuteNext ==
    /\ nes.cycles = 0
    /\ executed < MaxExecuted(nes_loaded_cart)
    /\ \E ins \in {nes_instructions[OpcodeAt(nes) + 1]} : \E m \in {Opened(nes, ins)} :
       \E at \in {Addressed(ins[2], m)} :
          /\ nes' = Executed(m, ins, at)
          /\ pushed' = Remember(ins[1], nes, nes')
    /\ executed' = executed + 1
    /\ UNCHANGED <<nes_loaded_cart, phase, signals>>

CountDown ==
    /\ nes.cycles > 0
    /\ nes' = [nes EXCEPT !.cycles = @ - 1]
    /\ UNCHANGED <<nes_loaded_cart, phase, executed, signals, pushed>>

\* The entry was written over by the owner of the memory behind the table.
FollowLostEntry ==
    /\ nes.cycles = 0
    /\ executed < MaxExecuted(nes_loaded_cart)
    /\ OpcodeAt(nes) = LostOpcode
    /\ phase' = "astray"
    /\ UNCHANGED <<nes, nes_loaded_cart, executed, signals, pushed>>

nes_clock == phase = "running" /\ (ExecuteNext \/ CountDown \/ FollowLostEntry)

\* RAM is left as it is.
Restarted(m) ==
    [m EXCEPT !.PC = ReadWord(m, \hFFFC), !.A = 0, !.X = 0, !.Y = 0, !.SP = \hFD,
              !.P = {"U"}, !.cycles = 8]

nes_reset ==
    /\ \/ phase = "on"
       \/ phase = "running" /\ signals < MaxSignals(nes_loaded_cart)
    /\ IF nes_loaded_cart = NULL
       THEN phase' = "astray" /\ UNCHANGED <<nes, signals, pushed>>
       ELSE /\ phase' = "running"
            /\ nes' = Restarted(nes)
            /\ signals' = IF phase = "on" THEN signals ELSE signals + 1
            /\ pushed' = <<>>
    /\ executed' = 0
    /\ UNCHANGED nes_loaded_cart

\* The status loses everything but B when B is cleared, and is pushed then.
Interrupted(m, vector, cycles) ==
    LET saved  == PushWord(m, m.PC)
        status == nes_setflag(nes_setflag(nes_setflag(saved, "B", FALSE), "U", TRUE), "I", TRUE)
    IN [Push(status, StatusByte(status.P)) EXCEPT !.PC = ReadWord(m, vector), !.cycles = cycles]

\* An interrupt is served at once, also within an instruction's cycles.
Interrupt(vector, cycles) ==
    /\ phase = "running"
    /\ signals < MaxSignals(nes_loaded_cart)
    /\ nes' = Interrupted(nes, vector, cycles)
    /\ signals' = signals + 1
    /\ pushed' = Remember("IRQ", nes, nes')
    /\ UNCHANGED <<nes_loaded_cart, phase, executed>>

nes_irq   == "I" \notin nes.P /\ Interrupt(\hFFFE, 7)
nes_nmirq == Interrupt(\hFFFA, 8)

\* kmain goes on whatever nes_load_cart returned.  The registers are set by the
\* reset: they are shown cleared before it.
Init ==
    /\ nes = [A |-> 0, X |-> 0, Y |-> 0, SP |-> 0, PC |-> 0, P |-> {}, ram |-> <<>>, cycles |-> 0]
    /\ nes_loaded_cart \in Carts \cup {NULL}
    /\ phase = "on"
    /\ executed = 0 /\ signals = 0 /\ pushed = <<>>

Next == nes_reset \/ nes_clock \/ nes_irq \/ nes_nmirq

\* Nothing has to happen: kmain resets the processor, clocks it ten times and returns.
Spec == Init /\ [][Next]_vars

-----------------------------------------------------------------------------
(* Properties *)

\* Registers keep their width, an instruction its cycles, and nothing is stored
\* outside the 2048 bytes of nes_cpu_ram.
TypeOK ==
    /\ nes.A \in Byte /\ nes.X \in Byte /\ nes.Y \in Byte /\ nes.SP \in Byte
    /\ nes.PC \in Word /\ nes.P \subseteq Flags /\ nes.cycles \in 0 .. 8
    /\ DOMAIN nes.ram \subseteq 0 .. RamSize - 1
    /\ \A a \in DOMAIN nes.ram : nes.ram[a] \in Byte
    /\ nes_loaded_cart \in Carts \cup {NULL}
    /\ phase \in {"on", "running", "astray"}
    /\ phase = "running" => nes_loaded_cart # NULL
    /\ DOMAIN pushed \subseteq Byte

Executes == executed' = executed + 1

Peek(a) == nes_cpu_read(nes.ram, ToWord(a))

\* The instruction about to be executed as the processor's programmer knows it:
\* where it ends, its operand, and the address an index or a jump is added to.
BaseOf(mode, b1, b2) ==
    CASE mode \in {"ABS", "ABX", "ABY", "IND"} -> b1 + \h100 * b2
      [] mode = "IZY" -> Peek(b1) + \h100 * Peek(ToByte(b1 + 1))
      [] mode = "REL" -> ToWord(nes.PC + 2)
      [] mode = "IMM" -> ToWord(nes.PC + 1)
      [] OTHER -> b1
AddressOf(mode, base, b1) ==
    CASE mode = "ABX" -> ToWord(base + nes.X)
      [] mode \in {"ABY", "IZY"} -> ToWord(base + nes.Y)
      [] mode = "REL" -> ToWord(base + b1 - (IF IsNegative(b1) THEN \h100 ELSE 0))
      [] mode = "IND" -> Peek(base) + \h100 * Peek(base + 1 - (IF Low(base) = \hFF THEN \h100 ELSE 0))
      [] OTHER -> base

Instruction ==
    LET o    == OpcodeAt(nes)
        mode == Decode[o][2]
        b1   == Peek(nes.PC + 1)
        base == BaseOf(mode, b1, Peek(nes.PC + 2))
        abs  == AddressOf(mode, base, b1)
    IN [opcode |-> o, op |-> Decode[o][1], mode |-> mode, next |-> ToWord(nes.PC + Length(mode)),
        base |-> base, abs |-> abs, value |-> IF mode = "IMP" THEN nes.A ELSE Peek(abs)]

\* What the code does otherwise, see nes_ZPX, nes_IZX, nes_ADC, nes_SBC, nes_EOR
\* and nes_ASL: the operand is another, the result is another.
OperandDiffers(i) == i.mode \in {"ZPX", "ZPY", "IZX"}
ResultDiffers(i)  == i.op \in {"ADC", "SBC", "EOR"} \/ <<i.op, i.mode>> = <<"ASL", "IMP">>

Jumps(i) == i.op \in {"JMP", "JSR"} \/ (i.mode = "REL" /\ Taken(i.op, nes.P))

TakesItsCycles(i) ==
    LET leaves == i.mode \in {"ABX", "ABY", "IZY", "REL"} /\ High(i.abs) # High(i.base)
    IN nes'.cycles + 1 = Cycles(i.op, i.mode, leaves, Jumps(i))

\* The listing of nes_dissasemble_display goes on behind it as well.
ListingGoesOn(i) == i.next = ToWord(nes.PC + 1 + OperandBytes(nes_instructions[i.opcode + 1][2]))

GoesOn(i) ==
    CASE i.op \in {"RTS", "RTI"} -> TRUE
      [] i.op = "BRK" -> nes'.PC = Peek(\hFFFE) + \h100 * Peek(\hFFFF)
      [] OTHER -> nes'.PC = IF Jumps(i) THEN i.abs ELSE i.next

\* By how many bytes an operation moves the stack pointer.
Grows == [PHA |-> 1, PHP |-> 1, JSR |-> 2, BRK |-> 3, PLA |-> -1, PLP |-> -1, RTS |-> -2, RTI |-> -3]
Growth(i) == IF i.op \in DOMAIN Grows THEN Grows[i.op] ELSE 0

StackCells(i) == {ToByte(nes.SP - k) : k \in 0 .. Growth(i) - 1}

TargetOf(i) == Target(i.op, i.mode)

Stored(i) == IF TargetOf(i) = "memory" /\ i.abs < \h2000 THEN {i.abs % RamSize} ELSE {}

Changed == {a \in DOMAIN nes'.ram : nes'.ram[a] # Peek(a)}

OthersAreLeft(i) ==
    /\ \A r \in {"A", "X", "Y"} : TargetOf(i) # r => nes'[r] = nes[r]
    /\ i.op # "TXS" => nes'.SP = ToByte(nes.SP - Growth(i))
    /\ ~OperandDiffers(i) => Changed \subseteq StackCells(i) \cup Stored(i)

ResultIsThere(i) ==
    LET result == Result(i.op, nes, i.value, Carry(nes))
    IN CASE i.op = "PLA" \/ TargetOf(i) = "none" -> TRUE
         [] TargetOf(i) = "memory" -> \A a \in Stored(i) : nes'.ram[a] = result
         [] OTHER -> nes'[TargetOf(i)] = result

\* A documented instruction takes the cycles the processor takes for it, goes on
\* at the same place, changes nothing but its target, and gives that the same
\* value: the table of init_nes_6502, twelve addressing modes and fifty-six
\* operations together, but for what OperandDiffers and ResultDiffers name.
Follows6502 ==
    [][Executes => \A i \in {Instruction} : i.opcode \in Legal =>
        /\ TakesItsCycles(i)
        /\ GoesOn(i) /\ ListingGoesOn(i)
        /\ OthersAreLeft(i)
        /\ ~OperandDiffers(i) /\ ~ResultDiffers(i) => ResultIsThere(i)]_vars

\* A documented instruction whose mode finds the right operand (OperandDiffers) adds
\* no flag but those that what it computed calls for.  Nothing is said of flags that
\* were set before: clearing one keeps it and drops the others (nes_setflag), so that
\* some are lost and some stay that should go (C through CLC, I through CLI, Z when
\* DEX gives 0x80).  TAX exchanges N and Z, ADC forgets its sum, BRK keeps B where it
\* should clear it; PLP, RTI and PLA take what was pushed.
NoFlagIsMadeUp ==
    [][Executes => \A i \in {Instruction} :
        /\ i.opcode \in Legal /\ ~OperandDiffers(i)
        /\ i.op \notin {"TAX", "ADC", "BRK", "PLP", "RTI", "PLA"}
        => nes'.P \subseteq nes.P \cup SetBy(i.op, nes, i.value, Carry(nes)) \cup {"U"}]_vars

\* The frame at the stack pointer, when it was pushed by one of these and nothing
\* has been written over it since.
OnTop(by) ==
    /\ nes.SP \in DOMAIN pushed
    /\ pushed[nes.SP].by = by
    /\ \A a \in DOMAIN pushed[nes.SP].cells : pushed[nes.SP].cells[a] = Peek(a)

Kept == pushed[nes.SP].kept

Op == nes_instructions[OpcodeAt(nes) + 1][1]

\* What is pulled is what was pushed: RTS returns behind the JSR and RTI to the
\* instruction that was interrupted, across nested calls, the end of the stack
\* and interrupts within an instruction's cycles (nes_JSR, nes_RTS, nes_irq, nes_RTI).
PulledIsPushed ==
    [][Executes =>
        /\ Op = "PLA" /\ OnTop("PHA") => nes'.A = Kept
        /\ Op = "PLP" /\ OnTop("PHP") => nes'.P = StatusOf(Kept)
        /\ Op = "RTS" /\ OnTop("JSR") => nes'.PC = Kept
        /\ Op = "RTI" /\ OnTop("IRQ") => nes'.PC = Kept]_vars

\* The BNE of a loop of DEX and BNE that begins at p is next.
AtBranch(p) ==
    /\ nes.PC = p + 1
    /\ <<Peek(p), Peek(p + 1), Peek(p + 2)>> = <<\hCA, \hD0, \hFD>>

\* A countdown from at most 128 is not left before 0, also when an interrupt between
\* the two instructions takes away the flags, and without interrupts it is left at 0
\* (nes_DEX and nes_BNE, through the flags).  With Z set before, DEX to 128 or
\* more keeps it and the loop ends there; INX never sets Z.
CountdownIsExact ==
    [][Executes => \A p \in Loops : AtBranch(p) /\ nes.X < 128 =>
        /\ nes'.PC = p + 3 => nes.X = 0
        /\ nes.X = 0 /\ signals = 0 => nes'.PC = p + 3]_vars

\* "Branch if Equal", "Compare Accumulator with Memory": a comparison of equal
\* values sets Z.
EqualIsNoticed ==
    [][Executes => \A i \in {Instruction} :
        i.op \in DOMAIN Compared /\ ~OperandDiffers(i) /\ nes[Compared[i.op]] = i.value
        => "Z" \in nes'.P]_vars
=============================================================================
