------------------------------- MODULE Bytes -------------------------------
(***************************************************************************)
(* uint8_t and uint16_t, and the operators on them that work bit by bit.   *)
(***************************************************************************)
EXTENDS Integers

Byte == 0 .. \hFF
Word == 0 .. \hFFFF

\* What is left of n when it is stored in a uint8_t, a uint16_t.
ToByte(n) == n % \h100
ToWord(n) == n % \h10000

Low(w)  == w % \h100
High(w) == w \div \h100

\* The numbers of the bits set in b, and the byte in which those of S are set.
Weights == <<1, 2, 4, 8, 16, 32, 64, 128>>
Bits    == [b \in Byte |-> {k \in 1 .. 8 : (b \div Weights[k]) % 2 = 1}]

Weight(S, k) == IF k \in S THEN Weights[k] ELSE 0
ByteOf == [S \in SUBSET (1 .. 8) |->
             Weight(S, 1) + Weight(S, 2) + Weight(S, 3) + Weight(S, 4)
           + Weight(S, 5) + Weight(S, 6) + Weight(S, 7) + Weight(S, 8)]

BitAnd(a, b) == ByteOf[Bits[a] \cap Bits[b]]
BitOr(a, b)  == ByteOf[Bits[a] \cup Bits[b]]
BitXor(a, b) == ByteOf[(Bits[a] \ Bits[b]) \cup (Bits[b] \ Bits[a])]

\* Bit 7: the sign of a byte.
IsNegative(b) == b >= \h80

\* The bits of the status register, enum nes_PFlags.
FlagBit == [C |-> 1, Z |-> 2, I |-> 3, D |-> 4, B |-> 5, U |-> 6, V |-> 7, N |-> 8]
Flags   == DOMAIN FlagBit

\* A set of flags as the byte that is pushed, and back.
StatusByte(P) == ByteOf[{FlagBit[f] : f \in P}]
StatusOf(b)   == {f \in Flags : FlagBit[f] \in Bits[b]}
=============================================================================
