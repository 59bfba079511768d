------------------------------ MODULE Mos6502 ------------------------------
(***************************************************************************)
(* The processor that nes6502.c imitates, as its programs know it: how the *)
(* bits of an opcode name an operation and an addressing mode, how many    *)
(* cycles an instruction takes, where its operand lies, which register it  *)
(* changes and to what.  It is written from the encoding, not from the     *)
(* table of nes6502.c, and Nes6502 is compared with it.                    *)
(***************************************************************************)
EXTENDS Bytes

\* An opcode is aaabbbcc: aaa chooses the operation, bbb the mode, cc the group.
Group(o)    == o % 4
ModeBits(o) == (o \div 4) % 8
OpBits(o)   == o \div 32

Accumulating == <<"ORA", "AND", "EOR", "ADC", "STA", "LDA", "CMP", "SBC">>
AccuModes    == <<"IZX", "ZP0", "IMM", "ABS", "IZY", "ZPX", "ABY", "ABX">>
Modifying    == <<"ASL", "ROL", "LSR", "ROR", "STX", "LDX", "DEC", "INC">>
Branches     == <<"BPL", "BMI", "BVC", "BVS", "BCC", "BCS", "BNE", "BEQ">>
Column8      == <<"PHP", "CLC", "PLP", "SEC", "PHA", "CLI", "PLA", "SEI",
                  "DEY", "TYA", "TAY", "CLV", "INY", "CLD", "INX", "SED">>
ColumnA      == <<"TXA", "TXS", "TAX", "TSX", "DEX", "none", "NOP", "none">>
IndexOps     == [a \in {1, 4, 5, 6, 7} |->
                   <<"BIT", "none", "none", "STY", "LDY", "CPY", "CPX">>[a]]

\* Modes of the groups 2 and 0, by bbb; those of STX and LDX count Y for X.
ModifyMode(o) ==
    LET ofY == OpBits(o) \in {4, 5}
    IN <<"IMM", "ZP0", "IMP", "ABS", "none", IF ofY THEN "ZPY" ELSE "ZPX", "none",
         IF ofY THEN "ABY" ELSE "ABX">>[ModeBits(o) + 1]
IndexMode(o) == <<"IMM", "ZP0", "none", "ABS", "none", "ZPX", "none", "ABX">>[ModeBits(o) + 1]

\* The modes an operation of the groups 2 and 0 has, where not all of them.
ModesOf ==
    [ASL |-> {"ZP0", "IMP", "ABS", "ZPX", "ABX"}, STX |-> {"ZP0", "ABS", "ZPY"},
     LDX |-> {"IMM", "ZP0", "ABS", "ZPY", "ABY"}, DEC |-> {"ZP0", "ABS", "ZPX", "ABX"},
     BIT |-> {"ZP0", "ABS"}, STY |-> {"ZP0", "ABS", "ZPX"},
     LDY |-> {"IMM", "ZP0", "ABS", "ZPX", "ABX"}, CPY |-> {"IMM", "ZP0", "ABS"}]
Shifts == {"ASL", "ROL", "LSR", "ROR"}
Alike(op) == IF op \in Shifts THEN "ASL" ELSE IF op = "INC" THEN "DEC"
             ELSE IF op = "CPX" THEN "CPY" ELSE op

\* The operation and the mode by the three fields of an opcode.
Regular(o) ==
    CASE Group(o) = 0 /\ ModeBits(o) = 4 -> <<Branches[OpBits(o) + 1], "REL">>
      [] Group(o) = 0 /\ ModeBits(o) # 4 /\ OpBits(o) \in DOMAIN IndexOps -> <<IndexOps[OpBits(o)], IndexMode(o)>>
      [] Group(o) = 1 -> <<Accumulating[OpBits(o) + 1], AccuModes[ModeBits(o) + 1]>>
      [] Group(o) = 2 -> <<Modifying[OpBits(o) + 1], ModifyMode(o)>>
      [] OTHER -> <<"none", "none">>

\* The operation and the mode of an opcode that a program may use.
Decode == [o \in Byte |->
    CASE o % 16 = 8 -> <<Column8[o \div 16 + 1], "IMP">>
      [] o % 16 = \hA /\ o >= \h80 -> <<ColumnA[o \div 16 - 7], "IMP">>
      [] o = \h40 -> <<"RTI", "IMP">>
      [] o = \h60 -> <<"RTS", "IMP">>
      [] o = \h00 -> <<"BRK", "IMM">>
      [] o = \h20 -> <<"JSR", "ABS">>
      [] o = \h4C -> <<"JMP", "ABS">>
      [] o = \h6C -> <<"JMP", "IND">>
      [] OTHER -> Regular(o)]

Legal ==
    {o \in Byte : LET op == Decode[o][1]  mode == Decode[o][2]
                  IN /\ op # "none" /\ mode # "none"
                     /\ <<op, mode>> # <<"STA", "IMM">>
                     /\ Group(o) \in {0, 2} /\ Alike(op) \in DOMAIN ModesOf
                           => mode \in ModesOf[Alike(op)]}

\* The bytes of an instruction with the given mode.
Length(mode) == IF mode = "IMP" THEN 1
                ELSE IF mode \in {"ABS", "ABX", "ABY", "IND"} THEN 3 ELSE 2

\* Cycles to reach an operand that is read; one more where indexing leaves the page.
ReadCycles == [IMM |-> 2, ZP0 |-> 3, ZPX |-> 4, ZPY |-> 4, ABS |-> 4, ABX |-> 4, ABY |-> 4,
               IZX |-> 6, IZY |-> 5, IMP |-> 2, REL |-> 2, IND |-> 5]
OwnCycles  == [PHA |-> 3, PHP |-> 3, PLA |-> 4, PLP |-> 4, RTS |-> 6, RTI |-> 6, BRK |-> 7, JSR |-> 6]
Stores     == {"STA", "STX", "STY"}
Modifies   == Shifts \cup {"INC", "DEC"}

\* leaves: indexing, or the jump of a branch, leads to another page.
Cycles(op, mode, leaves, taken) ==
    CASE op \in DOMAIN OwnCycles -> OwnCycles[op]
      [] op = "JMP" -> IF mode = "IND" THEN 5 ELSE 3
      [] mode = "REL" -> 2 + (IF taken THEN 1 ELSE 0) + (IF taken /\ leaves THEN 1 ELSE 0)
      [] op \in Stores -> ReadCycles[mode] + (IF mode \in {"ABX", "ABY", "IZY"} THEN 1 ELSE 0)
      [] op \in Modifies /\ mode # "IMP" -> ReadCycles[mode] + (IF mode = "ABX" THEN 3 ELSE 2)
      [] OTHER -> ReadCycles[mode] + (IF leaves THEN 1 ELSE 0)

\* When a branch is taken: the flag it asks for and the answer it wants.
BranchFlag == [BPL |-> "N", BMI |-> "N", BVC |-> "V", BVS |-> "V",
               BCC |-> "C", BCS |-> "C", BNE |-> "Z", BEQ |-> "Z"]
Taken(op, P) == (BranchFlag[op] \in P) <=> (op \in {"BMI", "BVS", "BCS", "BEQ"})

\* The register an operation changes, besides PC, SP and the status.
Target(op, mode) ==
    CASE op \in {"LDA", "AND", "ORA", "EOR", "ADC", "SBC", "PLA", "TXA", "TYA"} -> "A"
      [] op \in Shifts /\ mode = "IMP" -> "A"
      [] op \in {"LDX", "TAX", "TSX", "INX", "DEX"} -> "X"
      [] op \in {"LDY", "TAY", "INY", "DEY"} -> "Y"
      [] op = "TXS" -> "SP"
      [] op \in Stores \/ (op \in Modifies /\ mode # "IMP") -> "memory"
      [] OTHER -> "none"

\* What the operation puts there: r are the registers before, v the operand,
\* c the carry.  PLA is left to the stack.
Result(op, r, v, c) ==
    CASE op \in {"LDA", "LDX", "LDY"} -> v
      [] op \in {"STA", "TAX", "TAY"} -> r.A
      [] op \in {"STX", "TXA", "TXS"} -> r.X
      [] op \in {"STY", "TYA"} -> r.Y
      [] op = "TSX" -> r.SP
      [] op = "INX" -> ToByte(r.X + 1)
      [] op = "DEX" -> ToByte(r.X - 1)
      [] op = "INY" -> ToByte(r.Y + 1)
      [] op = "DEY" -> ToByte(r.Y - 1)
      [] op = "INC" -> ToByte(v + 1)
      [] op = "DEC" -> ToByte(v - 1)
      [] op = "AND" -> BitAnd(r.A, v)
      [] op = "ORA" -> BitOr(r.A, v)
      [] op = "EOR" -> BitXor(r.A, v)
      [] op = "ADC" -> ToByte(r.A + v + c)
      [] op = "SBC" -> ToByte(r.A - v - 1 + c)
      [] op = "ASL" -> ToByte(2 * v)
      [] op = "ROL" -> ToByte(2 * v + c)
      [] op = "LSR" -> v \div 2
      [] op = "ROR" -> v \div 2 + \h80 * c

\* The flags an operation sets; those it clears or leaves are not told apart.
SignZero(b) == (IF b = 0 THEN {"Z"} ELSE {}) \cup (IF IsNegative(b) THEN {"N"} ELSE {})
If(f, holds) == IF holds THEN {f} ELSE {}
Compared == [CMP |-> "A", CPX |-> "X", CPY |-> "Y"]

SetBy(op, r, v, c) ==
    CASE op \in DOMAIN Compared ->
            SignZero(ToByte(r[Compared[op]] - v)) \cup If("C", r[Compared[op]] >= v)
      [] op = "ADC" -> SignZero(ToByte(r.A + v + c)) \cup If("C", r.A + v + c > \hFF)
                       \cup If("V", /\ IsNegative(r.A) <=> IsNegative(v)
                                    /\ ~(IsNegative(r.A) <=> IsNegative(ToByte(r.A + v + c))))
      [] op = "SBC" -> SignZero(ToByte(r.A - v - 1 + c)) \cup If("C", r.A >= v + 1 - c)
                       \cup If("V", /\ ~(IsNegative(r.A) <=> IsNegative(v))
                                    /\ IsNegative(ToByte(r.A - v - 1 + c)) <=> IsNegative(v))
      [] op = "BIT" -> If("Z", BitAnd(r.A, v) = 0) \cup If("N", 8 \in Bits[v]) \cup If("V", 7 \in Bits[v])
      [] op \in {"ASL", "ROL"} -> SignZero(Result(op, r, v, c)) \cup If("C", v > \h7F)
      [] op \in {"LSR", "ROR"} -> SignZero(Result(op, r, v, c)) \cup If("C", v % 2 = 1)
      [] op \in {"SEC", "SED", "SEI"} -> If("C", op = "SEC") \cup If("D", op = "SED") \cup If("I", op = "SEI")
      [] op = "BRK" -> {"I"}
      [] op \in {"LDA", "LDX", "LDY", "AND", "ORA", "EOR", "TAX", "TAY", "TXA", "TYA", "TSX",
                 "INX", "INY", "DEX", "DEY", "INC", "DEC"} -> SignZero(Result(op, r, v, c))
      [] OTHER -> {}
=============================================================================
