----------------------------- MODULE MCNes6502 -----------------------------
(***************************************************************************)
(* Programs for the processor:                                             *)
(*   operand   every opcode once, with registers, status and operand set   *)
(*             first: signs, carries, page ends, the stack, RAM and ROM    *)
(*   calls     nested calls that keep registers on the stack, with         *)
(*             interrupts in between and a handler that uses the stack     *)
(*   ends      the same with the stack pointer at the end of the stack     *)
(*   spoils    a subroutine writes over its own return address             *)
(*   counts    a countdown from 128; interrupted, from 2                   *)
(*   two       two banks: mapper 0 shows none of them                      *)
(* The main program lies at C0F0, the handlers at C200 and C210.           *)
(***************************************************************************)
EXTENDS Nes6502, TLC

Try(p, a, x, y, lo, hi) == [p |-> p, a |-> a, x |-> x, y |-> y, lo |-> lo, hi |-> hi]

Tries == <<
    Try(\h00, \h00, \h01, \h01, \h7F, \h02), Try(\hC3, \h80, \hFF, \hFF, \hFF, \h80),
    Try(\h01, \h7F, \hFF, \h02, \h80, \h01), Try(\h02, \hFF, \h80, \h7F, \hFF, \h07),
    Try(\h81, \h01, \h00, \h80, \h01, \h20), Try(\h40, \h90, \h7F, \h90, \h90, \h1F)>>

\* Set the status, A, X and Y, then one instruction.
Operand1(o, t) ==
    <<\hA9, t.p, \h48, \hA9, t.a, \hA2, t.x, \hA0, t.y, \h28, o, t.lo, t.hi>>

\* JSR to what follows the jump to itself; there PHA, PHP, JSR, PLP, PLA, RTS.
Calls == <<\hA9, \h80, \h20, \hF8, \hC0, \h4C, \hF5, \hC0,
           \h48, \h08, \h20, \h00, \hC1, \h28, \h68, \h60, \hE8, \h60>>

Program(c) ==
    CASE c.of = "operand" -> Operand1(c.code, Tries[c.try])
      [] c.of \in {"calls", "two"} -> Calls
      [] c.of = "ends" -> <<\hA2, c.try, \h9A, \h20, \hF9, \hC0, \h4C, \hF6, \hC0, \h48, \h68, \h60>>
      [] c.of = "spoils" -> <<\h20, \hF6, \hC0, \h4C, \hF3, \hC0, \hA2, \hC2, \h86, \hFD, \h60>>
      [] c.of = "counts" -> <<\hA2, c.try, \hCA, \hD0, \hFD, \h4C, \hF5, \hC0>>

\* The handlers: PHA, LDA #0, PLA, RTI and RTI; then where they begin.
Handler == <<\h48, \hA9, \h00, \h68, \h40>>
Vectors == <<\h10, \hC2, \hF0, \hC0, \h00, \hC2>>

From(code, offset) == [o \in offset .. offset + Len(code) - 1 |-> code[o - offset + 1]]

Image(c) ==
    From(Program(c), \hF0) @@ From(Handler, \h200) @@ From(<<\h40>>, \h210) @@ From(Vectors, \h3FFA)
        @@ From(<<\h85, \h90, \h02>>, \hFF) @@ From(<<\h7E>>, \h1FE)

\* Another byte in every cell, also a page apart.
Memory == [o \in 0 .. \h7FF |-> (o * 5 + o \div \h80) % \h100]

Cart(name, code, try) == [of |-> name, code |-> code, try |-> try]

Programs ==
    {Cart("operand", o, t) : o \in Byte, t \in DOMAIN Tries} \cup
    {Cart("calls", 0, 0), Cart("ends", 0, 0), Cart("ends", 0, 1), Cart("spoils", 0, 0),
     Cart("counts", 0, 128), Cart("counts", 0, 2), Cart("two", 0, 0)}

Images  == [c \in Programs |-> Image(c)]
BanksOf == [c \in Programs |-> IF c.of = "two" THEN 2 ELSE 1]

Instructions(c) ==
    CASE c.of = "operand" -> 7
      [] c.of = "two" -> 6
      [] c.of = "counts" -> IF c.try = 2 THEN 530 ELSE 260
      [] OTHER -> 30

Signals(c) ==
    CASE c.of = "calls" -> 2
      [] c.of = "ends" -> 1
      [] c.of = "counts" /\ c.try = 2 -> 1
      [] OTHER -> 0

\* The countdown of "counts".
CountdownAt == {\hC0F2}
=============================================================================
