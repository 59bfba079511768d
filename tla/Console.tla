------------------------------ MODULE Console ------------------------------
(***************************************************************************)
(* console.c on the frame buffer of pl110.c: text is written on the last   *)
(* line and scrolls up (console_write), or anywhere (console_writestr).    *)
(* One call is one step: there is one thread.                              *)
(*                                                                         *)
(* Memory is a grid from the first pixel of the frame buffer on.  A row is *)
(* a row of pixels, a column is as wide as a glyph: all callers draw at    *)
(* multiples of that, but at any row.  The buffer ends at row Height; the  *)
(* heap goes on behind it.                                                 *)
(***************************************************************************)
EXTENDS Integers, Sequences, FiniteSets

CONSTANTS
    Glyph,     \* rows of a glyph: 8
    Width,     \* columns of the screen: 80
    Height,    \* rows of the screen: 480
    Chars,     \* characters, but for the new line
    Places     \* the calls of console_writestr: column, row, characters

ASSUME ConsoleAssumption ==
    /\ Glyph \in Nat \ {0} /\ Width \in Nat \ {0, 1}
    /\ Height \in Nat /\ Height >= 4 * Glyph
    /\ \A p \in Places : p.x \in Nat /\ p.y \in Nat /\ p.str \in Seq(Chars)

VARIABLES
    fb,       \* memory from the frame buffer on
    xPos,     \* column of the next character on the last line
    line,     \* what was written to the last line, by column
    lines     \* the lines completed that are still to be seen, newest first

vars == <<fb, xPos, line, lines>>

LastLine == Height - Glyph

\* The rows Scroll clears: it means the last line, and counts its pixels twice.
Cleared == 2 * LastLine .. 2 * LastLine + Glyph - 1

Rows == 0 .. 2 * Height - Glyph - 1
Cols == 0 .. Width - 1

\* What a glyph's strip of pixels can show: nothing, a row of a character, or
\* what the owners of the memory behind the buffer keep there.
Blank      == [of |-> "blank", row |-> 0]
Foreign    == [of |-> "foreign", row |-> 0]
Strip(c, k) == [of |-> c, row |-> k]
Strips == {Blank, Foreign} \cup {Strip(c, k) : c \in Chars, k \in 0 .. Glyph - 1}

\* init_pl110 and init_console
Init ==
    /\ fb = [r \in Rows |-> [c \in Cols |-> IF r < Height THEN Blank ELSE Foreign]]
    /\ xPos = 0
    /\ line = <<>> /\ lines = <<>>

\* A glyph with its upper left corner at column x, row y.
Drawn(m, x, y, c) ==
    [r \in Rows |-> IF r \in y .. y + Glyph - 1 THEN [m[r] EXCEPT ![x] = Strip(c, r - y)] ELSE m[r]]

\* Mutant: the rows are moved by one line.
Scroll_one(m) ==
    [r \in Rows |-> IF r < Height THEN m[r + Glyph]
                    ELSE IF r \in Cleared THEN [c \in Cols |-> Blank] ELSE m[r]]

\* Two lines up; what lies behind the buffer comes in below.  Source and target of
\* the memcpy overlap, which leaves its result open; it is taken to copy upwards from
\* the first byte, as a memmove would.
Scroll(m) ==
    [r \in Rows |-> IF r < Height THEN m[r + 2 * Glyph]
                    ELSE IF r \in Cleared THEN [c \in Cols |-> Blank] ELSE m[r]]

\* The lines that are still to be seen when one more has been completed.
Room == LastLine \div (2 * Glyph)
Completed(text) == SubSeq(<<text>> \o lines, 1, IF Len(lines) < Room THEN Len(lines) + 1 ELSE Room)

Newline ==
    /\ xPos' = 0
    /\ fb' = Scroll(fb)
    /\ line' = <<>>
    /\ lines' = Completed(line)

\* The line as it is with c at column x.
Extended(x, c) == [i \in DOMAIN line \cup {x} |-> IF i = x THEN c ELSE line[i]]

\* A line ends one column before the last.
PrintChar(c) ==
    LET drawn == Drawn(fb, xPos, LastLine, c)
    IN IF xPos + 1 >= Width - 1
       THEN /\ xPos' = 0
            /\ fb' = Scroll(drawn)
            /\ line' = <<>>
            /\ lines' = Completed(Extended(xPos, c))
       ELSE /\ xPos' = xPos + 1
            /\ fb' = drawn
            /\ line' = Extended(xPos, c)
            /\ UNCHANGED lines

console_write == Newline \/ \E c \in Chars : PrintChar(c)

\* Mutant: only the corner of the glyph has to be on the screen.
Fits_corner(x, y) == x < Width /\ y < Height

\* console_write_at draws nothing that does not fit on the screen.
Fits(x, y) == x + 1 <= Width /\ y + Glyph <= Height

\* The characters of a string one after another, over whatever is there.
console_writestr(p) ==
    LET shown == {i \in DOMAIN p.str : Fits(p.x + i - 1, p.y)}
    IN fb' = [r \in Rows |-> [c \in Cols |->
                IF r \in p.y .. p.y + Glyph - 1 /\ c - p.x + 1 \in shown
                THEN Strip(p.str[c - p.x + 1], r - p.y) ELSE fb[r][c]]]

WriteAt ==
    /\ \E p \in Places : console_writestr(p)
    /\ line' = <<>> /\ lines' = <<>>
    /\ UNCHANGED xPos

Next == console_write \/ WriteAt

Spec == Init /\ [][Next]_vars

-----------------------------------------------------------------------------
(* Properties *)

\* The column stays on the screen, and of the memory behind the frame buffer
\* nothing is written but the rows Scroll clears, over any sequence of calls:
\* SetPixel checks nothing, console_write_at and the end of the line have to.
TypeOK ==
    /\ xPos \in 0 .. Width - 2
    /\ fb \in [Rows -> [Cols -> Strips]]
    /\ \A r \in Rows \ (0 .. Height - 1) : \A c \in Cols :
          fb[r][c] = Foreign \/ (r \in Cleared /\ fb[r][c] = Blank)

\* Where the line completed j lines ago is to be seen.
RowOf(j) == LastLine - 2 * Glyph * j

IsAt(text, row) == \A c \in DOMAIN text, k \in 0 .. Glyph - 1 : fb[row + k][c] = Strip(text[c], k)

\* What is printed stays legible: the line being written is whole on the last
\* line, and each one completed is whole, two lines higher for every line since,
\* until it leaves the screen, though Scroll moves twice as far as it clears
\* and brings in foreign memory (console_write, Scroll).
LinesRise ==
    /\ IsAt(line, LastLine)
    /\ \A j \in DOMAIN lines : IsAt(lines[j], RowOf(j))
=============================================================================
