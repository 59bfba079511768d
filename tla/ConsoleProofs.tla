--------------------------- MODULE ConsoleProofs ---------------------------
(***************************************************************************)
(* Theorems about Console for every size of screen and glyph.  The         *)
(* argument: a glyph on the last line lies below every line completed, and *)
(* scrolling takes what is at RowOf(j - 1) to RowOf(j).  Legible alone is  *)
(* not inductive: it has to be known that the characters of a line lie to  *)
(* the left of xPos, or the next one could be drawn over them, and that no *)
(* more lines are remembered than fit on the screen.                       *)
(***************************************************************************)
EXTENDS Console, TLAPS

\* What a line can hold: characters at some of the columns.
Texts == UNION {[D -> Chars] : D \in SUBSET Cols}

\* The line being written lies to the left of xPos, and those completed fit on
\* the screen.
Histories ==
    /\ line \in Texts /\ DOMAIN line \subseteq 0 .. xPos - 1
    /\ lines \in Seq(Texts) /\ Len(lines) <= Room

IInv == TypeOK /\ Histories /\ LinesRise

-----------------------------------------------------------------------------

\* Sizes as integers, and the rows that are moved and cleared lie in Rows.
LEMMA Sizes ==
    /\ Glyph \in Nat /\ Glyph >= 1 /\ Width \in Nat /\ Width >= 2 /\ Height \in Nat /\ Height >= 4 * Glyph
    /\ LastLine \in Nat /\ LastLine = Height - Glyph
    /\ \A r \in 0 .. Height - 1 : r \in Rows /\ r + 2 * Glyph \in Rows
    /\ \A r \in Cleared : r \in Rows /\ r >= Height
  BY ConsoleAssumption DEF LastLine, Rows, Cleared

\* Multiplication keeps the order of natural numbers.
LEMMA TimesKeepsOrder == \A d, a, b \in Nat : a <= b => d * a <= d * b
<1> SUFFICES ASSUME NEW d \in Nat, NEW a \in Nat, NEW b \in Nat, a <= b PROVE d * a <= d * b
  OBVIOUS
<1>1. PICK k \in Nat : b = a + k
  <2>1. b - a \in Nat /\ b = a + (b - a)
    OBVIOUS
  <2> QED
    BY <2>1
<1>2. d * b = d * a + d * k
  BY <1>1
<1>3. d * k \in Nat
  OBVIOUS
<1> QED
  BY <1>2, <1>3

\* The lines that are remembered are on the screen, two lines apart.
LEMMA RowsOfLines ==
    /\ Room \in Nat /\ Room >= 1
    /\ RowOf(0) = LastLine
    /\ \A j \in 1 .. Room : RowOf(j) \in 0 .. LastLine - 2 * Glyph /\ RowOf(j) + 2 * Glyph = RowOf(j - 1)
<1> DEFINE d == 2 * Glyph
<1>1. d \in Nat /\ d >= 1 /\ LastLine >= d
  BY Sizes
<1>2. Room \in Nat /\ Room >= 1 /\ d * Room <= LastLine
  <2>1. Room = LastLine \div d
    BY DEF Room
  <2> HIDE DEF d
  <2> QED
    BY <1>1, <2>1, Sizes
<1>3. ASSUME NEW j \in 1 .. Room
      PROVE  RowOf(j) \in 0 .. LastLine - d /\ RowOf(j) + d = RowOf(j - 1)
  <2>1. RowOf(j) = LastLine - d * j /\ RowOf(j - 1) = LastLine - d * (j - 1)
    BY DEF RowOf
  <2> HIDE DEF d
  <2>2. d * j <= d * Room /\ d * 1 <= d * j
    BY <1>1, <1>2, TimesKeepsOrder
  <2>3. d * (j - 1) = d * j - d /\ d * j \in Nat
    BY <1>1
  <2> QED
    BY <1>1, <1>2, <2>1, <2>2, <2>3, Sizes
<1> QED
  BY <1>2, <1>3, Sizes DEF RowOf

\* A completed line becomes the newest; the others move back by one, and the last
\* is forgotten when there is no more room.
LEMMA CompletedLines ==
    ASSUME lines \in Seq(Texts), Len(lines) <= Room, NEW text \in Texts
    PROVE  /\ Completed(text) \in Seq(Texts) /\ Len(Completed(text)) <= Room
           /\ \A j \in DOMAIN Completed(text) :
                 /\ j \in 1 .. Room
                 /\ Completed(text)[j] = IF j = 1 THEN text ELSE lines[j - 1]
                 /\ j # 1 => j - 1 \in DOMAIN lines
<1> DEFINE all == <<text>> \o lines
           n   == IF Len(lines) < Room THEN Len(lines) + 1 ELSE Room
<1>1. all \in Seq(Texts) /\ Len(all) = Len(lines) + 1
  OBVIOUS
<1>2. \A j \in 1 .. Len(all) : all[j] = IF j = 1 THEN text ELSE lines[j - 1]
  OBVIOUS
<1>3. n \in 1 .. Len(all) /\ n <= Room
  BY <1>1, RowsOfLines
<1>4. Completed(text) = SubSeq(all, 1, n)
  BY DEF Completed
<1>5. Len(Completed(text)) = n /\ Completed(text) \in Seq(Texts)
      /\ \A j \in 1 .. n : Completed(text)[j] = all[j]
  <2> HIDE DEF all, n
  <2> QED
    BY <1>1, <1>3, <1>4
<1>6. DOMAIN Completed(text) = 1 .. n /\ DOMAIN lines = 1 .. Len(lines)
  BY <1>5
<1>7. ASSUME NEW j \in 1 .. n
      PROVE  /\ j \in 1 .. Room
             /\ Completed(text)[j] = IF j = 1 THEN text ELSE lines[j - 1]
             /\ j # 1 => j - 1 \in DOMAIN lines
  <2> HIDE DEF all, n
  <2>1. j \in 1 .. Len(all) /\ j \in 1 .. Room
    BY <1>1, <1>3, RowsOfLines
  <2>2. j # 1 => j - 1 \in 1 .. Len(lines)
    BY <1>1, <2>1
  <2> QED
    BY <1>2, <1>5, <1>6, <2>1, <2>2
<1> HIDE DEF all, n
<1> QED
  BY <1>3, <1>5, <1>6, <1>7

-----------------------------------------------------------------------------

\* The empty line has no characters.
LEMMA EmptyLine == <<>> \in Texts /\ DOMAIN <<>> = {}
<1>1. DOMAIN <<>> = {}
  OBVIOUS
<1>2. <<>> = [x \in {} |-> x]
  OBVIOUS
<1> QED
  BY <1>1, <1>2 DEF Texts

\* Memory keeps its type and its owners behind the buffer.
Sound(m) ==
    /\ m \in [Rows -> [Cols -> Strips]]
    /\ \A r \in Rows \ (0 .. Height - 1) : \A c \in Cols :
          m[r][c] = Foreign \/ (r \in Cleared /\ m[r][c] = Blank)

\* A glyph on the last line is drawn in the buffer.
LEMMA DrawnSound ==
    ASSUME NEW m, Sound(m), NEW x \in Cols, NEW c \in Chars
    PROVE  Sound(Drawn(m, x, LastLine, c))
<1>1. \A r \in Rows : m[r] \in [Cols -> Strips]
  BY DEF Sound
<1>2. \A r \in Rows : r \in LastLine .. LastLine + Glyph - 1 => r - LastLine \in 0 .. Glyph - 1
  BY Sizes DEF Rows
<1>3. \A r \in Rows : r \in LastLine .. LastLine + Glyph - 1 => Strip(c, r - LastLine) \in Strips
  BY <1>2 DEF Strips
<1>4. Drawn(m, x, LastLine, c) \in [Rows -> [Cols -> Strips]]
  BY <1>1, <1>3 DEF Drawn
<1>5. \A r \in Rows : r \in LastLine .. LastLine + Glyph - 1 => r \in 0 .. Height - 1
  BY Sizes DEF Rows
<1>6. \A r \in Rows \ (0 .. Height - 1) : Drawn(m, x, LastLine, c)[r] = m[r]
  BY <1>5 DEF Drawn
<1> QED
  BY <1>4, <1>6 DEF Sound

\* Scrolling reads inside Rows and writes the buffer and the rows of Cleared.
LEMMA ScrollSound ==
    ASSUME NEW m, Sound(m)
    PROVE  Sound(Scroll(m))
<1>1. \A r \in Rows : r < Height => r + 2 * Glyph \in Rows
  BY Sizes DEF Rows
<1>2. [c \in Cols |-> Blank] \in [Cols -> Strips]
  BY DEF Strips
<1>3. Scroll(m) \in [Rows -> [Cols -> Strips]]
  BY <1>1, <1>2 DEF Scroll, Sound
<1>4. \A r \in Rows \ (0 .. Height - 1) :
         Scroll(m)[r] = IF r \in Cleared THEN [c \in Cols |-> Blank] ELSE m[r]
  BY Sizes DEF Scroll, Rows
<1> QED
  BY <1>3, <1>4 DEF Sound

\* A glyph drawn on the last line leaves the lines above it alone, and the
\* characters to its left.
LEMMA DrawnKeeps ==
    ASSUME NEW m \in [Rows -> [Cols -> Strips]], NEW x \in Cols, NEW c
    PROVE  \A r \in Rows, col \in Cols :
             /\ r < LastLine \/ col # x => Drawn(m, x, LastLine, c)[r][col] = m[r][col]
             /\ r \in LastLine .. LastLine + Glyph - 1
                  => Drawn(m, x, LastLine, c)[r][x] = Strip(c, r - LastLine)
<1> TAKE r \in Rows, col \in Cols
<1>1. m[r] \in [Cols -> Strips]
  OBVIOUS
<1>2. r < LastLine => r \notin LastLine .. LastLine + Glyph - 1
  BY Sizes DEF Rows
<1> QED
  BY <1>1, <1>2 DEF Drawn

\* Legible(m, text, row): IsAt for another memory than fb.
Legible(m, text, row) == \A c \in DOMAIN text, k \in 0 .. Glyph - 1 : m[row + k][c] = Strip(text[c], k)

AllLegible(m) == \A j \in DOMAIN lines : Legible(m, lines[j], RowOf(j))

\* When a line is completed everything moves to where LinesRise looks for it.
LEMMA ScrollRaises ==
    ASSUME Histories, NEW m, Sound(m), AllLegible(m),
           NEW text \in Texts, Legible(m, text, LastLine)
    PROVE  \A j \in DOMAIN Completed(text) : Legible(Scroll(m), Completed(text)[j], RowOf(j))
<1> SUFFICES ASSUME NEW j \in DOMAIN Completed(text),
                    NEW c \in DOMAIN Completed(text)[j], NEW k \in 0 .. Glyph - 1
             PROVE  Scroll(m)[RowOf(j) + k][c] = Strip(Completed(text)[j][c], k)
  BY DEF Legible
<1>1. /\ j \in 1 .. Room
      /\ Completed(text)[j] = IF j = 1 THEN text ELSE lines[j - 1]
      /\ j # 1 => j - 1 \in DOMAIN lines
  BY CompletedLines DEF Histories
<1>2. RowOf(j) \in 0 .. LastLine - 2 * Glyph /\ RowOf(j) + 2 * Glyph = RowOf(j - 1)
  BY <1>1, RowsOfLines
<1>3. RowOf(j) + k \in 0 .. Height - 1 /\ RowOf(j) + k + 2 * Glyph = RowOf(j - 1) + k
  BY <1>2, Sizes
<1>4. Scroll(m)[RowOf(j) + k] = m[RowOf(j - 1) + k]
  BY <1>3, Sizes DEF Scroll
<1>5. CASE j = 1
  BY <1>1, <1>4, <1>5, RowsOfLines DEF Legible
<1>6. CASE j # 1
  BY <1>1, <1>4, <1>6 DEF Legible, AllLegible
<1> QED
  BY <1>5, <1>6

-----------------------------------------------------------------------------

\* The parts of the invariant in the terms of the lemmas.
LEMMA InParts ==
    /\ TypeOK <=> xPos \in 0 .. Width - 2 /\ Sound(fb)
    /\ LinesRise <=> Legible(fb, line, LastLine) /\ AllLegible(fb)
  BY DEF TypeOK, Sound, LinesRise, IsAt, Legible, AllLegible

\* The cleared screen satisfies the invariant.
THEOREM InitInvariant == Init => IInv
<1> SUFFICES ASSUME Init PROVE IInv
  OBVIOUS
<1> USE DEF Init
<1>1. xPos \in 0 .. Width - 2 /\ xPos = 0
  BY Sizes
<1>2. Sound(fb)
  <2>1. fb \in [Rows -> [Cols -> Strips]]
    BY DEF Strips
  <2>2. \A r \in Rows \ (0 .. Height - 1) : \A c \in Cols : fb[r][c] = Foreign
    BY Sizes DEF Rows
  <2> QED
    BY <2>1, <2>2 DEF Sound
<1>3. line \in Texts /\ DOMAIN line = {}
  BY EmptyLine
<1>4. lines \in Seq(Texts) /\ Len(lines) = 0 /\ DOMAIN lines = {}
  OBVIOUS
<1>5. Histories
  BY <1>3, <1>4, RowsOfLines DEF Histories
<1>6. Legible(fb, line, LastLine) /\ AllLegible(fb)
  BY <1>3, <1>4 DEF Legible, AllLegible
<1> QED
  BY <1>1, <1>2, <1>5, <1>6, InParts DEF IInv

\* What both steps that complete a line do to the invariant: m is the memory with
\* the line whole in it.
LEMMA CompletesLine ==
    ASSUME IInv, NEW m, Sound(m), AllLegible(m), NEW text \in Texts, Legible(m, text, LastLine),
           xPos' = 0, fb' = Scroll(m), line' = <<>>, lines' = Completed(text)
    PROVE  IInv'
<1>1. xPos' \in 0 .. Width - 2
  BY Sizes
<1>2. Sound(fb)'
  <2>1. Sound(Scroll(m))
    BY ScrollSound
  <2> QED
    BY <2>1 DEF Sound
<1>3. Histories'
  <2>1. lines' \in Seq(Texts) /\ Len(lines') <= Room
    BY CompletedLines DEF IInv, Histories
  <2> QED
    BY <2>1, EmptyLine DEF Histories
<1>4. (Legible(fb, line, LastLine))'
  BY EmptyLine DEF Legible
<1>5. AllLegible(fb)'
  <2>1. \A j \in DOMAIN Completed(text) : Legible(Scroll(m), Completed(text)[j], RowOf(j))
    BY ScrollRaises DEF IInv
  <2> QED
    BY <2>1 DEF AllLegible, Legible
<1>6. IInv' <=> (xPos \in 0 .. Width - 2 /\ Sound(fb) /\ Histories
                   /\ Legible(fb, line, LastLine) /\ AllLegible(fb))'
  BY DEF IInv, TypeOK, Sound, LinesRise, IsAt, Legible, AllLegible
<1> QED
  BY <1>1, <1>2, <1>3, <1>4, <1>5, <1>6

\* A new line completes the line as it is (console_write, character 10).
LEMMA NewlineStep == IInv /\ Newline => IInv'
<1> SUFFICES ASSUME IInv, Newline PROVE IInv'
  OBVIOUS
<1>1. Sound(fb) /\ AllLegible(fb) /\ Legible(fb, line, LastLine) /\ line \in Texts
  BY InParts DEF IInv, Histories
<1> QED
  BY <1>1, CompletesLine DEF Newline

\* A character printed at xPos makes the line longer and keeps all that is legible.
LEMMA PrintStep == ASSUME NEW c \in Chars, IInv, PrintChar(c) PROVE IInv'
<1> DEFINE drawn == Drawn(fb, xPos, LastLine, c)
           text  == Extended(xPos, c)
<1>1. /\ xPos \in 0 .. Width - 2 /\ xPos \in Cols
      /\ Sound(fb) /\ Legible(fb, line, LastLine) /\ AllLegible(fb)
      /\ fb \in [Rows -> [Cols -> Strips]]
  BY InParts, Sizes DEF IInv, Cols, Sound
<1>2. line \in Texts /\ DOMAIN line \subseteq 0 .. xPos - 1
      /\ lines \in Seq(Texts) /\ Len(lines) <= Room
  BY DEF IInv, Histories
<1>3. text \in Texts /\ DOMAIN text = DOMAIN line \cup {xPos}
      /\ \A i \in DOMAIN text : text[i] = IF i = xPos THEN c ELSE line[i]
  <2>1. PICK D \in SUBSET Cols : line \in [D -> Chars]
    BY <1>2 DEF Texts
  <2>2. text \in [D \cup {xPos} -> Chars] /\ D \cup {xPos} \in SUBSET Cols
    BY <1>1, <2>1 DEF Extended
  <2> QED
    BY <2>1, <2>2 DEF Texts, Extended
<1>4. Sound(drawn)
  BY <1>1, DrawnSound
<1>4a. \A r \in Rows, i \in Cols :
         /\ r < LastLine \/ i # xPos => drawn[r][i] = fb[r][i]
         /\ r \in LastLine .. LastLine + Glyph - 1 => drawn[r][xPos] = Strip(c, r - LastLine)
  BY <1>1, DrawnKeeps
<1>5. AllLegible(drawn)
  <2> HIDE DEF drawn
  <2> SUFFICES ASSUME NEW j \in DOMAIN lines, NEW i \in DOMAIN lines[j], NEW k \in 0 .. Glyph - 1
               PROVE  drawn[RowOf(j) + k][i] = Strip(lines[j][i], k)
    BY DEF AllLegible, Legible
  <2>1. j \in 1 .. Room /\ i \in Cols
    <3>1. DOMAIN lines = 1 .. Len(lines) /\ Len(lines) \in Nat /\ lines[j] \in Texts
      BY <1>2
    <3> QED
      BY <1>2, <3>1, RowsOfLines DEF Texts
  <2>2. RowOf(j) + k \in 0 .. LastLine - 1
    BY <2>1, RowsOfLines, Sizes
  <2>3. RowOf(j) + k \in Rows
    BY <2>2, Sizes
  <2>4. drawn[RowOf(j) + k][i] = fb[RowOf(j) + k][i]
    <3>1. RowOf(j) + k < LastLine
      BY <2>2, Sizes
    <3> QED
      BY <1>4a, <2>1, <2>3, <3>1
  <2> QED
    BY <1>1, <2>4 DEF AllLegible, Legible
<1>6. Legible(drawn, text, LastLine)
  <2> HIDE DEF drawn, text
  <2> SUFFICES ASSUME NEW i \in DOMAIN text, NEW k \in 0 .. Glyph - 1
               PROVE  drawn[LastLine + k][i] = Strip(text[i], k)
    BY DEF Legible
  <2>1. LastLine + k \in Rows /\ LastLine + k \in LastLine .. LastLine + Glyph - 1
        /\ LastLine + k - LastLine = k
    BY Sizes
  <2>2. i \in Cols
    BY <1>3 DEF Texts
  <2>3. CASE i = xPos
    <3> DEFINE row == LastLine + k
    <3>1. row \in Rows /\ row \in LastLine .. LastLine + Glyph - 1 /\ row - LastLine = k
      BY <2>1, Sizes
    <3> HIDE DEF row
    <3>2. drawn[row][xPos] = Strip(c, row - LastLine)
      BY <1>1, <1>4a, <3>1
    <3>3. drawn[row][xPos] = Strip(c, k)
      BY <3>1, <3>2
    <3> QED
      BY <1>3, <2>3, <3>3 DEF row
  <2>4. CASE i # xPos
    <3>1. drawn[LastLine + k][i] = fb[LastLine + k][i]
      BY <1>4a, <2>1, <2>2, <2>4
    <3> QED
      BY <1>1, <1>3, <2>4, <3>1 DEF Legible
  <2> QED
    BY <2>3, <2>4
<1>7. CASE xPos + 1 >= Width - 1
  <2>1. xPos' = 0 /\ fb' = Scroll(drawn) /\ line' = <<>> /\ lines' = Completed(text)
    BY <1>7 DEF PrintChar
  <2> HIDE DEF drawn, text
  <2> QED
    BY <1>3, <1>4, <1>5, <1>6, <2>1, CompletesLine
<1>8. CASE ~(xPos + 1 >= Width - 1)
  <2>1. xPos' = xPos + 1 /\ fb' = drawn /\ line' = text /\ lines' = lines
    BY <1>8 DEF PrintChar
  <2> HIDE DEF drawn, text
  <2>2. xPos' \in 0 .. Width - 2
    BY <1>1, <1>8, <2>1, Sizes
  <2>3. Histories'
    BY <1>1, <1>2, <1>3, <2>1 DEF Histories
  <2>4. Sound(fb)' /\ (Legible(fb, line, LastLine))' /\ AllLegible(fb)'
    BY <1>4, <1>5, <1>6, <2>1 DEF Sound, Legible, AllLegible
  <2> QED
    BY <2>2, <2>3, <2>4 DEF IInv, TypeOK, Sound, LinesRise, IsAt, Legible, AllLegible
<1> QED
  BY <1>7, <1>8

\* A string written anywhere stays in the buffer; what it covers is forgotten.
LEMMA WriteAtStep == IInv /\ WriteAt => IInv'
<1> SUFFICES ASSUME IInv, WriteAt PROVE IInv'
  OBVIOUS
<1>1. PICK p \in Places : console_writestr(p)
  BY DEF WriteAt
<1>2. p.x \in Nat /\ p.y \in Nat /\ p.str \in Seq(Chars)
  BY <1>1, ConsoleAssumption
<1>3. xPos \in 0 .. Width - 2 /\ xPos' = xPos /\ Sound(fb)
  BY InParts DEF IInv, WriteAt
<1> DEFINE shown == {i \in DOMAIN p.str : Fits(p.x + i - 1, p.y)}
           covers(r, c) == r \in p.y .. p.y + Glyph - 1 /\ c - p.x + 1 \in shown
<1>4. fb' = [r \in Rows |-> [c \in Cols |->
                IF covers(r, c) THEN Strip(p.str[c - p.x + 1], r - p.y) ELSE fb[r][c]]]
  BY <1>1 DEF console_writestr
<1>5. ASSUME NEW r \in Rows, NEW c \in Cols, covers(r, c)
      PROVE  Strip(p.str[c - p.x + 1], r - p.y) \in Strips /\ r \in 0 .. Height - 1
  <2>1. p.str[c - p.x + 1] \in Chars
    BY <1>2, <1>5
  <2>2. r \in p.y .. p.y + Glyph - 1 /\ p.y + Glyph <= Height
    BY <1>5 DEF Fits
  <2>3. r - p.y \in 0 .. Glyph - 1 /\ r \in 0 .. Height - 1
    <3>1. Glyph \in Nat /\ Height \in Nat /\ p.y \in Nat
      BY <1>2, Sizes
    <3> HIDE DEF covers, shown
    <3>2. ASSUME NEW y \in Nat, r \in y .. y + Glyph - 1, y + Glyph <= Height
          PROVE  r - y \in 0 .. Glyph - 1 /\ r \in 0 .. Height - 1
      BY <3>1, <3>2
    <3> QED
      BY <2>2, <3>1, <3>2
  <2> QED
    BY <2>1, <2>3 DEF Strips
<1>6. Sound(fb)'
  <2> HIDE DEF covers
  <2>1. fb' \in [Rows -> [Cols -> Strips]]
    BY <1>3, <1>4, <1>5 DEF Sound
  <2>2. \A r \in Rows \ (0 .. Height - 1) : \A c \in Cols : fb'[r][c] = fb[r][c]
    BY <1>4, <1>5
  <2> QED
    BY <1>3, <2>1, <2>2 DEF Sound
<1>7. line' = <<>> /\ lines' = <<>>
  BY DEF WriteAt
<1>8. Histories' /\ (Legible(fb, line, LastLine))' /\ AllLegible(fb)'
  <2>1. lines' \in Seq(Texts) /\ Len(lines') = 0 /\ DOMAIN lines' = {}
    BY <1>7
  <2> QED
    BY <1>7, <2>1, EmptyLine, RowsOfLines DEF Histories, Legible, AllLegible
<1> QED
  BY <1>3, <1>6, <1>8 DEF IInv, TypeOK, Sound, LinesRise, IsAt, Legible, AllLegible

\* Every character, new line and string keeps the invariant.
THEOREM StepInvariant == IInv /\ [Next]_vars => IInv'
<1> SUFFICES ASSUME IInv, [Next]_vars PROVE IInv'
  OBVIOUS
<1>1. CASE Newline
  BY <1>1, NewlineStep
<1>2. ASSUME NEW c \in Chars, PrintChar(c) PROVE IInv'
  BY <1>2, PrintStep
<1>3. CASE WriteAt
  BY <1>3, WriteAtStep
<1>4. CASE UNCHANGED vars
  BY <1>4 DEF vars, IInv, TypeOK, Histories, LinesRise, IsAt
<1> QED
  BY <1>1, <1>2, <1>3, <1>4 DEF Next, console_write

\* Drawing writes the frame buffer and the rows Scroll clears by mistake, nothing
\* else, for every size of screen and glyph (SetPixel, Scroll, console_write_at).
THEOREM StaysInBuffer == Spec => []TypeOK
<1>1. IInv => TypeOK
  BY DEF IInv
<1> QED
  BY <1>1, InitInvariant, StepInvariant, PTL DEF Spec

\* What was printed stays legible until it leaves the screen, for every size of
\* screen and glyph (console_write, Scroll).
THEOREM LinesAlwaysRise == Spec => []LinesRise
<1>1. IInv => LinesRise
  BY DEF IInv
<1> QED
  BY <1>1, InitInvariant, StepInvariant, PTL DEF Spec
=============================================================================
