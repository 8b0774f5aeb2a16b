---------------------------- MODULE EditorProofs ----------------------------
(***************************************************************************)
(* Proofs about Editor for every size of the window, every file and every  *)
(* bound: types, the agreement of the parts of a row, the place of the     *)
(* cursor in the text, the steps that may lose it, and what the operations *)
(* mean without a window (TextEditor) and without rows (Text).             *)
(***************************************************************************)
EXTENDS InWindow, ProgramFileProofs

\* A row whose size is the length of its text, before the highlighter runs.
SizedRow == {r \in Row : Len(r.chars) = r.size}

\* A row all the parts of which agree.
GoodRow == {r \in SizedRow : Len(r.hl) = r.size}

-----------------------------------------------------------------------------
(* Operations on one row.                                                  *)

\* A sequence of n equal elements.
LEMMA ConstantSeq ==
    ASSUME NEW S, NEW c \in S, NEW n \in Int
    PROVE  /\ [i \in 1..n |-> c] \in Seq(S)
           /\ Len([i \in 1..n |-> c]) = IF n >= 0 THEN n ELSE 0
<1>1. CASE n >= 0
  BY <1>1
<1>2. CASE n < 0
  <2> DEFINE s == [i \in 1..n |-> c]
  <2>1. s = <<>>
    BY <1>2
  <2> HIDE DEF s
  <2>2. s \in Seq(S) /\ Len(s) = IF n >= 0 THEN n ELSE 0
    BY <1>2, <2>1
  <2> QED
    BY <2>2 DEF s
<1>3. n >= 0 \/ n < 0
  OBVIOUS
<1> QED
  BY <1>1, <1>2, <1>3

\* A text and its length make a row.
LEMMA ResizedRow ==
    ASSUME NEW row \in Row, NEW chars \in Line, NEW n, n = Len(chars)
    PROVE  [row EXCEPT !.chars = chars, !.size = n] \in SizedRow
<1> DEFINE longer == [row EXCEPT !.chars = chars]
<1>1. [row EXCEPT !.chars = chars, !.size = n] =
        [size |-> n, chars |-> chars, hl |-> row.hl]
  <2>1. longer = [size |-> row.size, chars |-> chars, hl |-> row.hl]
    BY DEF Row
  <2> HIDE DEF longer
  <2>2. [longer EXCEPT !.size = n] = [size |-> n, chars |-> chars, hl |-> row.hl]
    BY <2>1
  <2> QED
    BY <2>2 DEF longer
<1>2. n \in Nat
  BY DEF Line
<1> QED
  BY <1>1, <1>2 DEF SizedRow, Row

\* The highlighter repairs the colours of a row and nothing else.
LEMMA UpdateSyntaxGood ==
    ASSUME NEW row \in SizedRow
    PROVE  /\ editorUpdateSyntax(row) \in GoodRow
           /\ editorUpdateSyntax(row).size = row.size
           /\ editorUpdateSyntax(row).chars = row.chars
<1> DEFINE colours == [i \in 1..row.size |-> HL_SYNTAX]
<1>1. row.size \in Nat
  BY DEF SizedRow, Row
<1>2. colours \in Seq(HL) /\ Len(colours) = row.size
  BY <1>1, ConstantSeq DEF HL
<1> HIDE DEF colours
<1>3. editorUpdateSyntax(row) = [row EXCEPT !.hl = colours]
  BY DEF editorUpdateSyntax, colours
<1> QED
  BY <1>1, <1>2, <1>3 DEF GoodRow, SizedRow, Row

\* A row made of a line agrees with itself.
LEMMA NewRowGood ==
    ASSUME NEW s \in Line
    PROVE  NewRow(s) \in GoodRow /\ NewRow(s).size = Len(s)
<1>1. [size |-> Len(s), chars |-> s, hl |-> <<>>] \in SizedRow
  BY DEF SizedRow, Row, Line, HL
<1> QED
  BY <1>1, UpdateSyntaxGood DEF NewRow

\* Inserting anywhere, past the end of the row too, keeps the parts in step.
LEMMA RowInsertCharGood ==
    ASSUME NEW row \in GoodRow, NEW at \in Nat, NEW c \in Char
    PROVE  /\ editorRowInsertChar(row, at, c) \in GoodRow
           /\ editorRowInsertChar(row, at, c).size > at
<1>1. /\ row.chars \in Seq(Char) /\ row.size \in Nat /\ Len(row.chars) = row.size
      /\ row \in Row
  BY DEF GoodRow, SizedRow, Row, Line
<1>2. CASE at > row.size
  <2> DEFINE pad == at - row.size
             chars == row.chars \o Blanks(pad) \o <<c>>
  <2>1. Blanks(pad) \in Seq(Char) /\ Len(Blanks(pad)) = pad
    <3>1. pad \in Nat
      BY <1>1, <1>2
    <3>2. Space \in Char
      BY FileAssumption
    <3> HIDE DEF pad
    <3> QED
      BY <3>1, <3>2, ConstantSeq DEF Blanks
  <2>2. chars \in Line /\ Len(chars) = row.size + pad + 1
    <3>1. pad \in Nat /\ <<c>> \in Seq(Char) /\ Len(<<c>>) = 1
      BY <1>1, <1>2
    <3> HIDE DEF pad
    <3>2. /\ row.chars \o Blanks(pad) \in Seq(Char)
          /\ Len(row.chars \o Blanks(pad)) = row.size + pad
      BY <1>1, <2>1, <3>1
    <3> QED
      BY <1>1, <3>1, <3>2, ConcatProperties DEF Line
  <2> HIDE DEF chars
  <2>3. [row EXCEPT !.chars = chars, !.size = row.size + pad + 1] \in SizedRow
    BY <1>1, <2>2, ResizedRow
  <2>4. editorRowInsertChar(row, at, c) =
          editorUpdateSyntax([row EXCEPT !.chars = chars, !.size = row.size + pad + 1])
    BY <1>2 DEF editorRowInsertChar, chars
  <2>5. [row EXCEPT !.chars = chars, !.size = row.size + pad + 1].size > at
    BY <1>1 DEF Row
  <2> QED
    BY <2>3, <2>4, <2>5, UpdateSyntaxGood
<1>3. CASE ~ (at > row.size)
  <2> DEFINE chars == InsertAt(row.chars, at + 1, c)
  <2>1. chars \in Line /\ Len(chars) = row.size + 1
    <3>1. SubSeq(row.chars, 1, at) \in Seq(Char) /\ Len(SubSeq(row.chars, 1, at)) = at
      BY <1>1, <1>3
    <3>2. /\ SubSeq(row.chars, at + 1, Len(row.chars)) \in Seq(Char)
          /\ Len(SubSeq(row.chars, at + 1, Len(row.chars))) = row.size - at
      BY <1>1, <1>3
    <3>3. (at + 1) - 1 = at
      OBVIOUS
    <3> QED
      BY <1>1, <3>1, <3>2, <3>3 DEF InsertAt, Line
  <2> HIDE DEF chars
  <2>2. [row EXCEPT !.chars = chars, !.size = row.size + 1] \in SizedRow
    BY <1>1, <2>1, ResizedRow
  <2>3. editorRowInsertChar(row, at, c) =
          editorUpdateSyntax([row EXCEPT !.chars = chars, !.size = row.size + 1])
    BY <1>3 DEF editorRowInsertChar, chars
  <2>4. [row EXCEPT !.chars = chars, !.size = row.size + 1].size > at
    BY <1>1, <1>3 DEF Row
  <2> QED
    BY <2>2, <2>3, <2>4, UpdateSyntaxGood
<1> QED
  BY <1>2, <1>3

\* A row joined to another is as long as both.
LEMMA RowAppendStringGood ==
    ASSUME NEW row \in GoodRow, NEW s \in Line
    PROVE  /\ editorRowAppendString(row, s) \in GoodRow
           /\ editorRowAppendString(row, s).size >= row.size
<1> DEFINE chars == row.chars \o s
<1>1. /\ row.chars \in Seq(Char) /\ row.size \in Nat /\ Len(row.chars) = row.size
      /\ row \in Row
  BY DEF GoodRow, SizedRow, Row, Line
<1>2. chars \in Line /\ Len(chars) = row.size + Len(s) /\ Len(s) \in Nat
  BY <1>1 DEF Line
<1> HIDE DEF chars
<1>3. [row EXCEPT !.chars = chars, !.size = row.size + Len(s)] \in SizedRow
  BY <1>1, <1>2, ResizedRow
<1>4. editorRowAppendString(row, s) =
        editorUpdateSyntax([row EXCEPT !.chars = chars, !.size = row.size + Len(s)])
  BY DEF editorRowAppendString, chars
<1>5. [row EXCEPT !.chars = chars, !.size = row.size + Len(s)].size >= row.size
  BY <1>1, <1>2 DEF Row
<1> QED
  BY <1>3, <1>4, <1>5, UpdateSyntaxGood

\* After editorRowDelChar() the colours are one too many; the caller's second
\* editorUpdateSyntax() puts that right.
LEMMA RowDelCharGood ==
    ASSUME NEW row \in GoodRow, NEW at \in Nat
    PROVE  /\ editorUpdateSyntax(editorRowDelChar(row, at)) \in GoodRow
           /\ editorUpdateSyntax(editorRowDelChar(row, at)).size >= row.size - 1
<1>1. /\ row.chars \in Seq(Char) /\ row.size \in Nat /\ Len(row.chars) = row.size
      /\ row \in Row /\ row \in SizedRow
  BY DEF GoodRow, SizedRow, Row, Line
<1>2. CASE row.size <= at
  BY <1>1, <1>2, UpdateSyntaxGood DEF editorRowDelChar
<1>3. CASE ~ (row.size <= at)
  <2> DEFINE chars == RemoveAt(row.chars, at + 1)
             colours == [i \in 1..row.size |-> HL_SYNTAX]
             moved == editorUpdateSyntax([row EXCEPT !.chars = chars])
  <2>1. chars \in Line /\ Len(chars) = row.size - 1
    <3>1. SubSeq(row.chars, 1, at) \in Seq(Char) /\ Len(SubSeq(row.chars, 1, at)) = at
      BY <1>1, <1>3
    <3>2. /\ SubSeq(row.chars, at + 2, Len(row.chars)) \in Seq(Char)
          /\ Len(SubSeq(row.chars, at + 2, Len(row.chars))) = row.size - at - 1
      BY <1>1, <1>3
    <3>3. (at + 1) - 1 = at /\ (at + 1) + 1 = at + 2
      OBVIOUS
    <3> QED
      BY <1>1, <1>3, <3>1, <3>2, <3>3 DEF RemoveAt, Line
  <2>2. colours \in Seq(HL)
    BY <1>1, ConstantSeq DEF HL
  <2> HIDE DEF chars
  <2>3. moved = [row EXCEPT !.chars = chars, !.hl = colours]
    BY <1>1 DEF editorUpdateSyntax, Row
  <2> HIDE DEF moved, colours
  <2>4. [moved EXCEPT !.size = moved.size - 1] \in SizedRow
    <3>1. moved = [size |-> row.size, chars |-> chars, hl |-> colours]
      BY <1>1, <2>3 DEF Row
    <3>2. [moved EXCEPT !.size = moved.size - 1] =
            [size |-> row.size - 1, chars |-> chars, hl |-> colours]
      BY <3>1
    <3>3. row.size - 1 \in Nat
      BY <1>1, <1>3
    <3> QED
      BY <2>1, <2>2, <3>2, <3>3 DEF SizedRow, Row
  <2>5. editorRowDelChar(row, at) = [moved EXCEPT !.size = moved.size - 1]
    BY <1>3 DEF editorRowDelChar, moved, chars
  <2>6. [moved EXCEPT !.size = moved.size - 1].size >= row.size - 1
    BY <1>1, <2>3 DEF Row
  <2> QED
    BY <2>4, <2>5, <2>6, UpdateSyntaxGood
<1> QED
  BY <1>2, <1>3

\* A row cut by a newline is as long as the part that stays.
LEMMA RowCutGood ==
    ASSUME NEW row \in GoodRow, NEW at \in 0..row.size
    PROVE  RowCut(row, at) \in GoodRow
<1> DEFINE chars == SubSeq(row.chars, 1, at)
<1>1. /\ row.chars \in Seq(Char) /\ row.size \in Nat /\ Len(row.chars) = row.size
      /\ row \in Row
  BY DEF GoodRow, SizedRow, Row, Line
<1>2. chars \in Line /\ Len(chars) = at /\ at \in Nat
  BY <1>1 DEF Line
<1> HIDE DEF chars
<1>3. [row EXCEPT !.chars = chars, !.size = at] \in SizedRow
  BY <1>1, <1>2, ResizedRow
<1> QED
  BY <1>3, UpdateSyntaxGood DEF RowCut, chars

\* The colour of an error covers the row and no more.
LEMMA RowInErrorGood ==
    ASSUME NEW row \in GoodRow
    PROVE  /\ RowInError(row) \in GoodRow
           /\ RowInError(row).size = row.size
           /\ RowInError(row).chars = row.chars
<1> DEFINE colours == [i \in 1..row.size |-> HL_ERROR]
<1>1. row.size \in Nat
  BY DEF GoodRow, SizedRow, Row
<1>2. colours \in Seq(HL) /\ Len(colours) = row.size
  BY <1>1, ConstantSeq DEF HL
<1> HIDE DEF colours
<1>3. RowInError(row) = [row EXCEPT !.hl = colours]
  BY DEF RowInError, colours
<1> QED
  BY <1>1, <1>2, <1>3 DEF GoodRow, SizedRow, Row
-----------------------------------------------------------------------------
(* Operations on the rows.                                                 *)

\* InsertAt() of the community modules adds one element.
LEMMA InsertAtType ==
    ASSUME NEW S, NEW s \in Seq(S), NEW at \in 0..Len(s), NEW e \in S
    PROVE  /\ InsertAt(s, at + 1, e) = SubSeq(s, 1, at) \o <<e>> \o SubSeq(s, at + 1, Len(s))
           /\ InsertAt(s, at + 1, e) \in Seq(S)
           /\ Len(InsertAt(s, at + 1, e)) = Len(s) + 1
<1> DEFINE s1 == SubSeq(s, 1, at)
           s2 == SubSeq(s, at + 1, Len(s))
<1>1. s1 \in Seq(S) /\ Len(s1) = at
  OBVIOUS
<1>2. s2 \in Seq(S) /\ Len(s2) = Len(s) - at
  OBVIOUS
<1>3. InsertAt(s, at + 1, e) = s1 \o <<e>> \o s2
  <2>1. (at + 1) - 1 = at
    OBVIOUS
  <2> QED
    BY <2>1, Zenon DEF InsertAt
<1> HIDE DEF s1, s2
<1>4. s1 \o <<e>> \o s2 \in Seq(S) /\ Len(s1 \o <<e>> \o s2) = Len(s) + 1
  BY <1>1, <1>2
<1> QED
  BY <1>3, <1>4 DEF s1, s2

\* RemoveAt() of the community modules takes one element away.
LEMMA RemoveAtType ==
    ASSUME NEW S, NEW s \in Seq(S), NEW at \in 0..Len(s) - 1
    PROVE  /\ RemoveAt(s, at + 1) \in Seq(S)
           /\ Len(RemoveAt(s, at + 1)) = Len(s) - 1
           /\ \A i \in 1..at : RemoveAt(s, at + 1)[i] = s[i]
<1> DEFINE s1 == SubSeq(s, 1, at)
           s2 == SubSeq(s, at + 2, Len(s))
<1>1. s1 \in Seq(S) /\ Len(s1) = at /\ \A i \in 1..at : s1[i] = s[i]
  OBVIOUS
<1>2. s2 \in Seq(S) /\ Len(s2) = Len(s) - at - 1
  OBVIOUS
<1>3. RemoveAt(s, at + 1) = s1 \o s2
  <2>1. (at + 1) - 1 = at /\ (at + 1) + 1 = at + 2
    OBVIOUS
  <2> QED
    BY <2>1, Zenon DEF RemoveAt
<1> HIDE DEF s1, s2
<1>4. /\ s1 \o s2 \in Seq(S) /\ Len(s1 \o s2) = Len(s) - 1
      /\ \A i \in 1..at : (s1 \o s2)[i] = s[i]
  <2>1. /\ s1 \o s2 \in Seq(S) /\ Len(s1 \o s2) = Len(s1) + Len(s2)
        /\ \A i \in 1..Len(s1) + Len(s2) :
              (s1 \o s2)[i] = IF i <= Len(s1) THEN s1[i] ELSE s2[i - Len(s1)]
    BY <1>1, <1>2, ConcatProperties, Zenon
  <2> QED
    BY <1>1, <1>2, <2>1
<1> QED
  BY <1>3, <1>4

\* editorInsertRow() adds one good row, or none past the end of the text.
LEMMA InsertRowGood ==
    ASSUME NEW rs \in Seq(GoodRow), NEW at \in 0..Len(rs), NEW s \in Line
    PROVE  /\ editorInsertRow(rs, at, s) \in Seq(GoodRow)
           /\ Len(editorInsertRow(rs, at, s)) = Len(rs) + 1
<1> DEFINE new == NewRow(s)
<1>1. editorInsertRow(rs, at, s) = InsertAt(rs, at + 1, new)
  BY DEF editorInsertRow
<1>2. new \in GoodRow
  BY NewRowGood
<1> HIDE DEF new
<1>3. InsertAt(rs, at + 1, new) \in Seq(GoodRow) /\ Len(InsertAt(rs, at + 1, new)) = Len(rs) + 1
  BY <1>2, InsertAtType, ZenonT(30)
<1> QED
  BY <1>1, <1>3

\* The empty rows that typing below the text adds are good, and enough.
LEMMA RowsUpToGood ==
    ASSUME NEW rs \in Seq(GoodRow), NEW at \in 0..Len(rs)
    PROVE  /\ RowsUpTo(rs, at) \in Seq(GoodRow)
           /\ Len(RowsUpTo(rs, at)) = IF at = Len(rs) THEN Len(rs) + 1 ELSE Len(rs)
<1> DEFINE n == at + 1 - Len(rs)
           new == NewRow(<<>>)
           added == [i \in 1..n |-> new]
<1>1. new \in GoodRow
  <2>1. <<>> \in Line
    BY DEF Line
  <2> QED
    BY <2>1, NewRowGood
<1>2. n \in Int /\ n <= 1 /\ (n >= 0 <=> at + 1 >= Len(rs)) /\ Len(rs) \in Nat
  OBVIOUS
<1> HIDE DEF new
<1>3. added \in Seq(GoodRow) /\ Len(added) = IF n >= 0 THEN n ELSE 0
  BY <1>1, <1>2, ConstantSeq
<1> HIDE DEF added
<1>4. RowsUpTo(rs, at) = rs \o added
  BY DEF RowsUpTo, added, new
<1>5. rs \o added \in Seq(GoodRow) /\ Len(rs \o added) = Len(rs) + Len(added)
  BY <1>3
<1> QED
  BY <1>2, <1>3, <1>4, <1>5

\* The parts of a good row.
LEMMA GoodRowChars ==
    ASSUME NEW row \in GoodRow
    PROVE  /\ row.chars \in Line /\ row.size \in Nat /\ Len(row.chars) = row.size
           /\ row \in Row /\ Len(row.hl) = row.size
BY DEF GoodRow, SizedRow, Row

\* The row that is split is still above the one its rest is put into.
LEMMA SplitKeepsRow ==
    ASSUME NEW rs \in Seq(GoodRow), NEW at \in 0..Len(rs) - 1, NEW rest \in Line
    PROVE  editorInsertRow(rs, at + 1, rest)[at + 1] = rs[at + 1]
<1> DEFINE row == rs[at + 1]
           more == editorInsertRow(rs, at + 1, rest)
<1>1. at + 1 \in 1..Len(rs) /\ row \in GoodRow
  OBVIOUS
<1>2. more = InsertAt(rs, (at + 1) + 1, NewRow(rest))
  BY <1>1 DEF editorInsertRow
<1>3. SubSeq(rs, 1, at + 1) \in Seq(GoodRow) /\ Len(SubSeq(rs, 1, at + 1)) = at + 1
      /\ SubSeq(rs, 1, at + 1)[at + 1] = row
  BY <1>1
<1>4. SubSeq(rs, at + 2, Len(rs)) \in Seq(GoodRow)
  BY <1>1
<1>5. NewRow(rest) \in GoodRow
  BY NewRowGood
<1> HIDE DEF more, row
<1>6. more = SubSeq(rs, 1, at + 1) \o <<NewRow(rest)>> \o SubSeq(rs, at + 2, Len(rs))
  <2>1. ((at + 1) + 1) - 1 = at + 1 /\ (at + 1) + 1 = at + 2
    BY <1>1
  <2> QED
    BY <1>2, <2>1, Zenon DEF InsertAt
<1>7. more[at + 1] = row
  BY <1>1, <1>3, <1>4, <1>5, <1>6
<1> QED
  BY <1>7 DEF more, row

\* A split leaves one row more, all good.
LEMMA RowsSplitGood ==
    ASSUME NEW rs \in Seq(GoodRow), NEW at \in 0..Len(rs) - 1,
           NEW col \in 0..rs[at + 1].size
    PROVE  /\ RowsSplit(rs, at, col) \in Seq(GoodRow)
           /\ Len(RowsSplit(rs, at, col)) = Len(rs) + 1
<1> DEFINE row == rs[at + 1]
           rest == SubSeq(row.chars, col + 1, row.size)
           more == editorInsertRow(rs, at + 1, rest)
<1>1. at + 1 \in 1..Len(rs) /\ row \in GoodRow
  OBVIOUS
<1>2. rest \in Line
  BY <1>1, GoodRowChars DEF Line
<1>3. more \in Seq(GoodRow) /\ Len(more) = Len(rs) + 1
  BY <1>1, <1>2, InsertRowGood
<1>4. more[at + 1] = row
  BY <1>2, SplitKeepsRow
<1>5. RowCut(row, col) \in GoodRow
  BY <1>1, RowCutGood
<1> HIDE DEF more, row
<1>6. RowsSplit(rs, at, col) = [more EXCEPT ![at + 1] = RowCut(row, col)]
  BY <1>4 DEF RowsSplit, more, row
<1> QED
  BY <1>1, <1>3, <1>5, <1>6, ExceptSeq

\* A join leaves one row less, all good.
LEMMA RowsJoinedGood ==
    ASSUME NEW rs \in Seq(GoodRow), NEW at \in 1..Len(rs) - 1
    PROVE  /\ RowsJoined(rs, at) \in Seq(GoodRow)
           /\ Len(RowsJoined(rs, at)) = Len(rs) - 1
           /\ RowsJoined(rs, at)[at].size >= rs[at].size
<1> DEFINE longer == editorRowAppendString(rs[at], rs[at + 1].chars)
           both == [rs EXCEPT ![at] = longer]
<1>1. longer \in GoodRow /\ longer.size >= rs[at].size
  BY RowAppendStringGood, GoodRowChars
<1> HIDE DEF longer
<1>2. both \in Seq(GoodRow) /\ Len(both) = Len(rs) /\ both[at] = longer
  BY <1>1, ExceptSeq
<1> HIDE DEF both
<1>3. RowsJoined(rs, at) = editorDelRow(both, at)
  BY DEF RowsJoined, both, longer
<1>4. editorDelRow(both, at) = RemoveAt(both, at + 1)
  BY <1>2 DEF editorDelRow
<1>5. at \in 0..Len(both) - 1 /\ at \in 1..at
  BY <1>2
<1>6. RowsJoined(rs, at)[at] = longer
  BY <1>2, <1>3, <1>4, <1>5, RemoveAtType
<1> QED
  BY <1>1, <1>2, <1>3, <1>4, <1>5, <1>6, RemoveAtType

\* The rows made of the lines of a file are good.
LEMMA RowsOfGood ==
    ASSUME NEW lines \in Seq(Line)
    PROVE  RowsOf(lines) \in Seq(GoodRow)
BY NewRowGood DEF RowsOf

\* The text of good rows is a sequence of lines.
LEMMA TextOfType ==
    ASSUME NEW rs \in Seq(GoodRow)
    PROVE  TextOf(rs) \in Seq(Line)
BY GoodRowChars DEF TextOf
-----------------------------------------------------------------------------
(* The inductive invariant.  TypeOK alone is not inductive: a row is       *)
(* indexed by the cursor, so it has to be known that the cursor is in the  *)
(* text, and cut by its size, so the parts of a row have to agree.         *)

Inv ==
    /\ rows \in Seq(GoodRow)
    /\ cx \in Int /\ cy \in Nat
    /\ rowoff \in Nat /\ coloff \in Int
    /\ filerow <= numrows
    /\ dirty \in BOOLEAN
    /\ err \in BOOLEAN /\ errline \in Nat
    /\ disk \in Bytes \cup {Missing}
    /\ status \in {"running", "exited", "fault"}
    /\ torn \in BOOLEAN

\* The length of a row, or 0 below the text.
LEMMA RowLenNat ==
    ASSUME Inv, NEW i \in Nat
    PROVE  RowLen(i) \in Nat
BY GoodRowChars DEF Inv, RowLen, numrows

\* The window shows at least one cell.
LEMMA ScreenSize == ScreenCols \in Nat /\ ScreenRows \in Nat /\ ScreenCols >= 1 /\ ScreenRows >= 1
BY WindowAssumption DEF ScreenCols, ScreenRows, Margin, FONT_KERNING, FONT_HEIGHT

\* An editor that has just opened a file.
LEMMA InitInv == Init => Inv
<1> SUFFICES ASSUME Init PROVE Inv
  OBVIOUS
<1>1. disk \in Bytes \cup {Missing}
  BY EditorAssumption DEF Init
<1>2. LinesOf(disk) \in Seq(Line)
  <2>1. CASE disk = Missing
    BY <2>1, FileAssumption DEF LinesOf, Line
  <2>2. CASE disk \in Bytes /\ disk # Missing
    BY <2>2, OpenLinesType DEF LinesOf
  <2> QED
    BY <1>1, <2>1, <2>2
<1>3. rows \in Seq(GoodRow)
  BY <1>2, RowsOfGood DEF Init
<1>4. numrows \in Nat
  BY <1>3 DEF numrows
<1>5. dirty \in BOOLEAN
  BY DEF Init
<1>6. /\ cx = 0 /\ cy = 0 /\ rowoff = 0 /\ coloff = 0
      /\ err = FALSE /\ errline = 0 /\ status = "running" /\ torn = FALSE
  BY DEF Init
<1>7. /\ cx \in Int /\ cy \in Nat /\ rowoff \in Nat /\ coloff \in Int
      /\ errline \in Nat /\ filerow <= numrows
  BY <1>4, <1>6 DEF filerow
<1>8. err \in BOOLEAN /\ status \in {"running", "exited", "fault"} /\ torn \in BOOLEAN
  BY <1>6
<1> QED
  BY <1>1, <1>3, <1>5, <1>7, <1>8, Zenon DEF Inv

\* Typing a character: the row of the cursor exists afterwards.
LEMMA InsertCharInv ==
    ASSUME Inv, NEW c \in Typed, editorInsertChar(c)
    PROVE  Inv'
<1> DEFINE at == filerow
           more == RowsUpTo(rows, at)
           new == editorRowInsertChar(more[at + 1], filecol, c)
<1>1. at \in 0..numrows /\ filecol \in Nat /\ numrows = Len(rows)
  BY DEF Inv, filerow, filecol, editorInsertChar, numrows
<1>2. /\ more \in Seq(GoodRow)
      /\ Len(more) = IF at = Len(rows) THEN Len(rows) + 1 ELSE Len(rows)
  BY <1>1, RowsUpToGood DEF Inv
<1>3. at + 1 \in 1..Len(more)
  BY <1>1, <1>2
<1>4. new \in GoodRow
  BY <1>1, <1>2, <1>3, RowInsertCharGood, EditorAssumption
<1> HIDE DEF more, new, at
<1>5. rows' = [more EXCEPT ![at + 1] = new]
  BY DEF editorInsertChar, more, new, at
<1>6. rows' \in Seq(GoodRow) /\ Len(rows') = Len(more)
  BY <1>2, <1>3, <1>4, <1>5, ExceptSeq
<1> QED
  BY <1>1, <1>2, <1>6 DEF Inv, filerow, numrows, editorInsertChar, at

\* A newline adds one row and moves the cursor down one.
LEMMA InsertNewlineInv ==
    ASSUME Inv, editorInsertNewline
    PROVE  Inv'
<1> DEFINE at == IF filerow = numrows \/ filecol >= RowLen(filerow)
                 THEN RowLen(filerow) ELSE filecol
<1>1. filerow \in 0..numrows /\ filecol \in Int /\ numrows = Len(rows)
  BY DEF Inv, filerow, filecol, numrows
<1>2. RowLen(filerow) \in Nat
  BY <1>1, RowLenNat
<1>3. rows' \in Seq(GoodRow) /\ Len(rows') = Len(rows) + 1
  <2>1. CASE at = 0
    <3>1. rows' = editorInsertRow(rows, filerow, <<>>)
      BY <2>1 DEF editorInsertNewline
    <3>2. <<>> \in Line
      BY DEF Line
    <3> QED
      BY <1>1, <3>1, <3>2, InsertRowGood DEF Inv
  <2>2. CASE at # 0
    <3>1. rows' = RowsSplit(rows, filerow, at)
      BY <2>2 DEF editorInsertNewline
    <3>2. filerow \in 0..Len(rows) - 1
      BY <1>1, <2>2 DEF RowLen
    <3>3. RowLen(filerow) = rows[filerow + 1].size
      BY <1>1, <3>2 DEF RowLen
    <3>4. at \in 0..rows[filerow + 1].size
      BY <1>1, <1>2, <3>2, <3>3 DEF editorInsertNewline
    <3> QED
      BY <3>1, <3>2, <3>4, RowsSplitGood DEF Inv
  <2> QED
    BY <2>1, <2>2
<1> QED
  BY <1>1, <1>3 DEF Inv, filerow, numrows, editorInsertNewline

\* Joining two rows removes one and moves the cursor up one.
LEMMA DelCharJoinInv ==
    ASSUME Inv, DelCharJoin
    PROVE  Inv'
<1>1. filerow \in 1..Len(rows) - 1
  BY DEF Inv, DelCharJoin, filerow, numrows
<1>2. rows' \in Seq(GoodRow) /\ Len(rows') = Len(rows) - 1
  BY <1>1, RowsJoinedGood DEF Inv, DelCharJoin
<1>3. RowLen(filerow - 1) \in Nat
  BY <1>1, RowLenNat
<1>4. JoinShift(RowLen(filerow - 1)) \in Int
  BY <1>3, ScreenSize DEF JoinShift
<1>5. cx' \in Int /\ coloff' \in Int
  BY <1>3, <1>4 DEF Inv, DelCharJoin
<1>6. cy' \in Nat /\ rowoff' \in Nat /\ rowoff' + cy' = filerow - 1
  BY <1>1 DEF Inv, DelCharJoin, filerow
<1>7. dirty' = TRUE /\ UNCHANGED <<err, errline, disk, status, torn>>
  BY DEF DelCharJoin
<1>8. filerow' <= numrows'
  BY <1>1, <1>2, <1>6 DEF filerow, numrows
<1> QED
  BY <1>2, <1>5, <1>6, <1>7, <1>8 DEF Inv

\* Deleting a character in a row leaves the cursor in its row of the window.
LEMMA DelCharInRowInv ==
    ASSUME Inv, DelCharInRow
    PROVE  Inv'
<1> DEFINE new == editorUpdateSyntax(editorRowDelChar(rows[filerow + 1], filecol - 1))
<1>1. filerow + 1 \in 1..Len(rows) /\ filecol - 1 \in Nat
  BY DEF Inv, DelCharInRow, filerow, filecol, numrows
<1>2. new \in GoodRow
  <2>1. rows[filerow + 1] \in GoodRow
    BY <1>1 DEF Inv
  <2> QED
    BY <1>1, <2>1, RowDelCharGood
<1> HIDE DEF new
<1>3. rows' = [rows EXCEPT ![filerow + 1] = new]
  BY DEF DelCharInRow, new
<1>4. rows' \in Seq(GoodRow) /\ Len(rows') = Len(rows)
  BY <1>1, <1>2, <1>3, ExceptSeq DEF Inv
<1> QED
  BY <1>4 DEF Inv, DelCharInRow, filerow, numrows

\* Every move ends by putting the cursor in a row of the text.
LEMMA PutCursorInv ==
    ASSUME Inv, NEW x \in Int, NEW y \in Nat, NEW ro \in Nat, NEW co \in Int,
           ro + y <= numrows, PutCursor(x, y, ro, co)
    PROVE  Inv'
<1>1. RowLen(ro + y) \in Nat
  BY RowLenNat
<1>2. cx' \in Int /\ coloff' \in Int
  BY <1>1 DEF PutCursor
<1> QED
  BY <1>2 DEF Inv, PutCursor, filerow, numrows

\* The four arrows put the cursor in a row of the text.
LEMMA MoveInv ==
    ASSUME Inv, Move
    PROVE  Inv'
<1>1. /\ cx \in Int /\ cy \in Nat /\ rowoff \in Nat /\ coloff \in Int
      /\ rowoff + cy <= numrows /\ numrows \in Nat
  BY DEF Inv, filerow, numrows
<1>2. CASE MoveLeft
  BY <1>1, <1>2, PutCursorInv DEF MoveLeft
<1>3. CASE MoveRight
  BY <1>1, <1>3, PutCursorInv, ScreenSize DEF MoveRight
<1>4. CASE MoveUp
  BY <1>1, <1>4, PutCursorInv DEF MoveUp
<1>5. CASE MoveDown
  <2>1. rowoff + cy < numrows
    BY <1>5 DEF MoveDown, filerow
  <2> QED
    BY <1>1, <1>5, <2>1, PutCursorInv DEF MoveDown
<1>6. CASE MoveNowhere
  BY <1>1, <1>6, PutCursorInv DEF MoveNowhere
<1> QED
  BY <1>2, <1>3, <1>4, <1>5, <1>6 DEF Move

\* A click on the text is accepted on a row of it, or just below.
LEMMA ClickTextInv ==
    ASSUME Inv, NEW click \in Clicks, ClickText(click[1], click[2], click[3])
    PROVE  Inv'
<1> DEFINE x == click[1]
           y == click[2]
           row == ClickedRow(y)
<1>1. x \in Int /\ y \in Int
  BY EditorAssumption
<1>2. row \in Nat
  BY <1>1, WindowAssumption
  DEF ClickText, InTextArea, ClickedRow, Margin, FONT_HEIGHT
<1>3. ClickedCol(x) \in Int
  BY <1>1 DEF ClickedCol, Margin, FONT_KERNING
<1>4. RowLen(rowoff + row) \in Nat
  <2>1. rowoff + row \in Nat
    BY <1>2 DEF Inv
  <2> QED
    BY <2>1, RowLenNat
<1> QED
  BY <1>2, <1>3, <1>4 DEF Inv, ClickText, filerow, numrows

\* A save writes bytes, whatever part of them reaches the disk.
LEMMA SaveInv ==
    ASSUME Inv, editorSave
    PROVE  Inv'
<1> DEFINE buf == editorRowsToString(TextOf(rows))
<1>1. TextOf(rows) \in Seq(Line)
  BY TextOfType DEF Inv
<1>2. buf \in Bytes
  BY <1>1, RowsToStringSteps
<1> HIDE DEF buf
<1>3. \A n \in 0..Len(buf) - 1 : SubSeq(buf, 1, n) \in Bytes
  BY <1>2 DEF Bytes
<1>4. WriteFile(buf)
  BY DEF editorSave, buf
<1>5. disk' \in Bytes \cup {Missing} /\ dirty' \in BOOLEAN /\ torn' \in BOOLEAN
  BY <1>2, <1>3, <1>4 DEF WriteFile, Inv
<1> QED
  BY <1>5 DEF Inv, editorSave, filerow, numrows

\* An error below the last row colours none.
LEMMA SetErrorInv ==
    ASSUME Inv, NEW line \in ErrLines, editorSetError(line)
    PROVE  Inv'
<1>1. line \in Nat
  BY EditorAssumption DEF editorSetError
<1>2. rows' \in Seq(GoodRow) /\ Len(rows') = Len(rows)
  <2>1. CASE line < numrows
    <3>1. line + 1 \in 1..Len(rows)
      BY <1>1, <2>1 DEF numrows, Inv
    <3>2. RowInError(rows[line + 1]) \in GoodRow
      BY <3>1, RowInErrorGood DEF Inv
    <3>3. rows' = [rows EXCEPT ![line + 1] = RowInError(rows[line + 1])]
      BY <2>1 DEF editorSetError
    <3> QED
      BY <3>1, <3>2, <3>3, ExceptSeq DEF Inv
  <2>2. CASE ~ (line < numrows)
    BY <2>2 DEF editorSetError, Inv
  <2> QED
    BY <2>1, <2>2
<1> QED
  BY <1>1, <1>2 DEF Inv, editorSetError, filerow, numrows

\* Clearing an error repairs the colours of its row.
LEMMA ClearErrorInv ==
    ASSUME Inv, editorClearError
    PROVE  Inv'
<1>1. rows' \in Seq(GoodRow) /\ Len(rows') = Len(rows)
  <2>1. CASE err /\ errline < numrows
    <3>1. errline + 1 \in 1..Len(rows)
      BY <2>1 DEF numrows, Inv
    <3>2. editorUpdateSyntax(rows[errline + 1]) \in GoodRow
      BY <3>1, UpdateSyntaxGood DEF Inv, GoodRow
    <3>3. rows' = [rows EXCEPT ![errline + 1] = editorUpdateSyntax(rows[errline + 1])]
      BY <2>1 DEF editorClearError
    <3> QED
      BY <3>1, <3>2, <3>3, ExceptSeq DEF Inv
  <2>2. CASE ~ (err /\ errline < numrows)
    BY <2>2 DEF editorClearError, Inv
  <2> QED
    BY <2>1, <2>2
<1> QED
  BY <1>1 DEF Inv, editorClearError, filerow, numrows

\* A fault changes nothing but the status.
LEMMA FaultInv ==
    ASSUME Inv, Fault
    PROVE  Inv'
BY DEF Inv, Fault, filerow, numrows

\* Every step preserves the invariant: one step of the proof per operation.
LEMMA NextInv == Inv /\ [Next]_vars => Inv'
<1> SUFFICES ASSUME Inv, [Next]_vars PROVE Inv'
  OBVIOUS
<1>1. ASSUME NEW c \in Typed, editorInsertChar(c) PROVE Inv'
  BY <1>1, InsertCharInv
<1>2. CASE editorInsertNewline
  BY <1>2, InsertNewlineInv
<1>3. CASE editorDelChar
  BY <1>3, DelCharJoinInv, DelCharInRowInv DEF editorDelChar
<1>4. CASE Move
  BY <1>4, MoveInv
<1>5. ASSUME NEW click \in Clicks, editorMouseClicked(click[1], click[2], click[3])
      PROVE  Inv'
  <2>1. CASE ClickPowerOff(click[1], click[2], click[3])
    BY <2>1 DEF ClickPowerOff, Inv, filerow, numrows
  <2>2. CASE ClickSave(click[1], click[2], click[3])
    BY <2>2, SaveInv DEF ClickSave
  <2>3. CASE ClickText(click[1], click[2], click[3])
    BY <2>3, ClickTextInv
  <2> QED
    BY <1>5, <2>1, <2>2, <2>3 DEF editorMouseClicked
<1>6. ASSUME NEW line \in ErrLines, editorSetError(line) PROVE Inv'
  BY <1>6, SetErrorInv
<1>7. CASE editorClearError
  BY <1>7, ClearErrorInv
<1>8. CASE OutOfRow
  BY <1>8, FaultInv DEF OutOfRow, EditOutOfRow, DrawOutOfRow, SetErrorOutOfRows
<1>9. CASE UNCHANGED vars
  BY <1>9 DEF vars, Inv, filerow, numrows
<1> QED
  BY <1>1, <1>2, <1>3, <1>4, <1>5, <1>6, <1>7, <1>8, <1>9 DEF Next

\* Every state the editor reaches satisfies the inductive invariant.
THEOREM Invariance == Spec => []Inv
BY InitInv, NextInv, PTL DEF Spec
-----------------------------------------------------------------------------
(* What the invariant says.                                                *)

\* The invariant is stronger than the types.
LEMMA InvTypeOK == Inv => TypeOK
<1> SUFFICES ASSUME Inv PROVE TypeOK
  OBVIOUS
<1>1. GoodRow \subseteq Row
  BY DEF GoodRow, SizedRow
<1>2. rows \in Seq(Row)
  BY <1>1, SeqMonotonic DEF Inv
<1>3. Nat \subseteq Int
  OBVIOUS
<1> QED
  BY <1>2, <1>3, Zenon DEF Inv, TypeOK

\* The variables keep their types, whatever the window, the files and the clicks.
THEOREM TypeCorrect == Spec => []TypeOK
BY Invariance, InvTypeOK, PTL

\* No operation leaves a row with a size, a text and colours of different
\* lengths.
THEOREM RowsStayConsistent == Spec => []RowsConsistent
<1>1. Inv => RowsConsistent
  <2> SUFFICES ASSUME Inv, NEW i \in DOMAIN rows
               PROVE  Len(rows[i].chars) = rows[i].size /\ Len(rows[i].hl) = rows[i].size
    BY DEF RowsConsistent
  <2>1. rows[i] \in GoodRow
    BY DEF Inv
  <2> QED
    BY <2>1, GoodRowChars
<1> QED
  BY <1>1, Invariance, PTL

\* The cursor never leaves the rows of the text and the empty line below them.
THEOREM CursorRowStaysInText == Spec => []CursorRowInText
<1>1. Inv => CursorRowInText
  BY DEF Inv, CursorRowInText
<1> QED
  BY <1>1, Invariance, PTL
-----------------------------------------------------------------------------
(* The file.                                                               *)

\* A change of the colours of a row is no change of the text.
LEMMA ColouredText ==
    ASSUME Inv, NEW i \in 1..Len(rows), NEW row \in GoodRow,
           row.chars = rows[i].chars, rows' = [rows EXCEPT ![i] = row]
    PROVE  TextOf(rows') = TextOf(rows)
<1>1. /\ rows \in Seq(GoodRow) /\ Len(rows') = Len(rows)
      /\ \A j \in 1..Len(rows) : rows'[j] = IF j = i THEN row ELSE rows[j]
  BY DEF Inv
<1>2. \A j \in 1..Len(rows) : rows'[j].chars = rows[j].chars
  BY <1>1
<1> QED
  BY <1>1, <1>2 DEF TextOf

\* What the program says of a line changes its colours only.
LEMMA ErrorKeepsText ==
    ASSUME Inv, editorClearError \/ \E line \in ErrLines : editorSetError(line)
    PROVE  TextOf(rows') = TextOf(rows) /\ UNCHANGED <<dirty, disk, torn>>
<1>1. CASE editorClearError
  <2>1. CASE err /\ errline < numrows
    <3>1. errline + 1 \in 1..Len(rows)
      BY <2>1 DEF numrows, Inv
    <3>2. /\ editorUpdateSyntax(rows[errline + 1]) \in GoodRow
          /\ editorUpdateSyntax(rows[errline + 1]).chars = rows[errline + 1].chars
      BY <3>1, UpdateSyntaxGood DEF Inv, GoodRow
    <3> QED
      BY <1>1, <2>1, <3>1, <3>2, ColouredText DEF editorClearError
  <2>2. CASE ~ (err /\ errline < numrows)
    BY <1>1, <2>2 DEF editorClearError
  <2> QED
    BY <1>1, <2>1, <2>2 DEF editorClearError
<1>2. ASSUME NEW line \in ErrLines, editorSetError(line)
      PROVE  TextOf(rows') = TextOf(rows) /\ UNCHANGED <<dirty, disk, torn>>
  <2>1. CASE line < numrows
    <3>1. line + 1 \in 1..Len(rows)
      BY <1>2, <2>1, EditorAssumption DEF numrows, Inv, editorSetError
    <3>2. /\ RowInError(rows[line + 1]) \in GoodRow
          /\ RowInError(rows[line + 1]).chars = rows[line + 1].chars
      BY <3>1, RowInErrorGood DEF Inv
    <3> QED
      BY <1>2, <2>1, <3>1, <3>2, ColouredText DEF editorSetError
  <2>2. CASE ~ (line < numrows)
    BY <1>2, <2>2 DEF editorSetError
  <2> QED
    BY <1>2, <2>1, <2>2 DEF editorSetError
<1> QED
  BY <1>1, <1>2

\* What a step does to the text and to the file: it edits, it saves, or it changes
\* neither.
TextStep ==
    \/ dirty' = TRUE
    \/ editorSave
    \/ TextOf(rows') = TextOf(rows) /\ UNCHANGED <<dirty, disk, torn>>
    \/ UNCHANGED <<rows, dirty, disk, torn>>

\* Every step of the editor is of one of these kinds.
LEMMA TextSteps == Inv /\ [Next]_vars => TextStep
<1> SUFFICES ASSUME Inv, [Next]_vars PROVE TextStep
  OBVIOUS
<1>1. Move => UNCHANGED <<rows, dirty, disk, torn>>
  BY DEF Move, MoveLeft, MoveRight, MoveUp, MoveDown, MoveNowhere, PutCursor
<1>2. ASSUME NEW click \in Clicks, editorMouseClicked(click[1], click[2], click[3])
      PROVE  editorSave \/ UNCHANGED <<rows, dirty, disk, torn>>
  BY <1>2 DEF editorMouseClicked, ClickPowerOff, ClickSave, ClickText
<1>3. OutOfRow => UNCHANGED <<rows, dirty, disk, torn>>
  BY DEF OutOfRow, EditOutOfRow, DrawOutOfRow, SetErrorOutOfRows, Fault
<1>4. ASSUME (\E c \in Typed : editorInsertChar(c)) \/ editorInsertNewline \/ editorDelChar
      PROVE  dirty' = TRUE
  BY <1>4 DEF editorInsertChar, editorInsertNewline, editorDelChar, DelCharJoin, DelCharInRow
<1>5. UNCHANGED vars => UNCHANGED <<rows, dirty, disk, torn>>
  BY DEF vars
<1> QED
  BY <1>1, <1>2, <1>3, <1>4, <1>5, ErrorKeepsText DEF Next, TextStep

\* The save icon is gone only when the file holds the text, or the last write ended
\* short: an edit brings it back, a save that fails leaves it.
THEOREM CleanStaysSaved == Spec => []CleanMeansSaved
<1>1. Init => CleanMeansSaved
  <2> SUFFICES ASSUME Init, ~dirty
               PROVE  disk = editorRowsToString(TextOf(rows))
    BY DEF CleanMeansSaved
  <2>1. LinesOf(disk) = <<>> /\ disk \in Bytes \cup {Missing}
    BY EditorAssumption DEF Init
  <2>2. disk = <<>>
    BY <2>1, OpenLinesEmpty, FileAssumption DEF LinesOf
  <2>3. TextOf(rows) = <<>>
    BY <2>1 DEF Init, RowsOf, TextOf
  <2> QED
    BY <2>2, <2>3, EmptyTextHasNoBytes
<1>2. Inv /\ CleanMeansSaved /\ [Next]_vars => CleanMeansSaved'
  <2> SUFFICES ASSUME Inv, CleanMeansSaved, [Next]_vars PROVE CleanMeansSaved'
    OBVIOUS
  <2>1. CASE dirty' = TRUE
    BY <2>1 DEF CleanMeansSaved
  <2>2. CASE editorSave
    BY <2>2 DEF editorSave, WriteFile, CleanMeansSaved
  <2>3. CASE TextOf(rows') = TextOf(rows) /\ UNCHANGED <<dirty, disk, torn>>
    BY <2>3 DEF CleanMeansSaved
  <2>4. CASE UNCHANGED <<rows, dirty, disk, torn>>
    BY <2>4 DEF CleanMeansSaved
  <2>5. TextStep
    BY TextSteps
  <2> QED
    BY <2>1, <2>2, <2>3, <2>4, <2>5 DEF TextStep
<1> QED
  BY <1>1, <1>2, Invariance, PTL DEF Spec

\* Rows shorter than the buffer are lines that fit it.
LEMMA ShortRowsFit ==
    ASSUME Inv, \A i \in DOMAIN rows : rows[i].size < LineMax - 1
    PROVE  TextOf(rows) \in Seq(Line) /\ Fits(TextOf(rows))
<1>1. rows \in Seq(GoodRow)
  BY DEF Inv
<1>2. TextOf(rows) \in Seq(Line)
  BY <1>1, TextOfType
<1>3. \A i \in DOMAIN rows : Len(rows[i].chars) = rows[i].size
  BY <1>1, GoodRowChars
<1> QED
  BY <1>2, <1>3 DEF Fits, TextOf

\* Saved and opened again, a text of short rows is the same text.
THEOREM SavedTextStaysReadable == Spec => []SavedTextReopens
<1>1. Inv => SavedTextReopens
  BY ShortRowsFit, TextReopens DEF SavedTextReopens
<1> QED
  BY <1>1, Invariance, PTL

\* What CleanMeansSaved leaves open for a write that ended short: without an edit since,
\* the file has the first bytes of the text, all of them or not.
HasBeginning(file, bytes) == \E n \in 0..Len(bytes) : file = SubSeq(bytes, 1, n)

CleanHasBeginning ==
    ~dirty => disk # Missing /\ HasBeginning(disk, editorRowsToString(TextOf(rows)))

\* A save that is done leaves all the bytes or the first of them.
LEMMA SavedBeginning ==
    ASSUME Inv, CleanHasBeginning, editorSave
    PROVE  CleanHasBeginning'
<1> DEFINE bytes == editorRowsToString(TextOf(rows))
<1>1. bytes \in Bytes
  BY TextOfType, WrittenBytes DEF Inv
<1> HIDE DEF bytes
<1>2. rows' = rows /\ WriteFile(bytes)
  BY DEF editorSave, bytes
<1>3. ASSUME NEW n \in 0..Len(bytes), disk' = SubSeq(bytes, 1, n)
      PROVE  disk' # Missing /\ HasBeginning(disk', bytes)
  <2>1. SubSeq(bytes, 1, n) \in Bytes
    BY <1>1, Beginning DEF Bytes
  <2> QED
    BY <1>3, <2>1, EditorAssumption DEF HasBeginning
<1>4. Len(bytes) \in Nat /\ Len(bytes) \in 0..Len(bytes) /\ SubSeq(bytes, 1, Len(bytes)) = bytes
  <2>1. Len(bytes) \in Nat /\ Len(bytes) \in 0..Len(bytes)
    BY <1>1 DEF Bytes
  <2> QED
    BY <1>1, <2>1, Beginning DEF Bytes
<1>5. ~ dirty' => disk' # Missing /\ HasBeginning(disk', bytes)
  <2>1. CASE disk' = bytes
    <3>1. disk' = SubSeq(bytes, 1, Len(bytes))
      BY <1>4, <2>1
    <3> QED
      BY <1>3, <1>4, <3>1
  <2>2. CASE \E n \in 0..Len(bytes) - 1 : disk' = SubSeq(bytes, 1, n)
    <3>1. PICK n \in 0..Len(bytes) - 1 : disk' = SubSeq(bytes, 1, n)
      BY <2>2
    <3>2. n \in 0..Len(bytes)
      BY <1>4, <3>1
    <3> QED
      BY <1>3, <3>1, <3>2
  <2>3. CASE UNCHANGED <<disk, dirty, torn>>
    BY <2>3 DEF CleanHasBeginning, bytes
  <2> QED
    BY <1>2, <2>1, <2>2, <2>3 DEF WriteFile
<1> QED
  BY <1>2, <1>5 DEF CleanHasBeginning, bytes

\* The beginning of the text is in the file whenever the save icon is gone.
LEMMA BeginningStays == Spec => []CleanHasBeginning
<1>1. Init => CleanHasBeginning
  <2> SUFFICES ASSUME Init, ~dirty
               PROVE  disk # Missing /\ HasBeginning(disk, editorRowsToString(TextOf(rows)))
    BY DEF CleanHasBeginning
  <2>1. LinesOf(disk) = <<>> /\ disk \in Bytes \cup {Missing}
    BY EditorAssumption DEF Init
  <2>2. disk = <<>> /\ disk # Missing
    BY <2>1, OpenLinesEmpty, FileAssumption DEF LinesOf
  <2>3. TextOf(rows) = <<>>
    BY <2>1 DEF Init, RowsOf, TextOf
  <2>4. HasBeginning(<<>>, <<>>)
    <3>1. 0 \in 0..Len(<<>>) /\ SubSeq(<<>>, 1, 0) = <<>>
      BY SubSeqEmpty
    <3> QED
      BY <3>1 DEF HasBeginning
  <2> QED
    BY <2>2, <2>3, <2>4, EmptyTextHasNoBytes
<1>2. Inv /\ CleanHasBeginning /\ [Next]_vars => CleanHasBeginning'
  <2> SUFFICES ASSUME Inv, CleanHasBeginning, [Next]_vars PROVE CleanHasBeginning'
    OBVIOUS
  <2>1. CASE dirty' = TRUE
    BY <2>1 DEF CleanHasBeginning
  <2>2. CASE editorSave
    BY <2>2, SavedBeginning
  <2>3. CASE TextOf(rows') = TextOf(rows) /\ UNCHANGED <<dirty, disk, torn>>
    BY <2>3 DEF CleanHasBeginning
  <2>4. CASE UNCHANGED <<rows, dirty, disk, torn>>
    BY <2>4 DEF CleanHasBeginning
  <2>5. TextStep
    BY TextSteps
  <2> QED
    BY <2>1, <2>2, <2>3, <2>4, <2>5 DEF TextStep
<1> QED
  BY <1>1, <1>2, Invariance, PTL DEF Spec

\* Opened again, a file that a full disk cut short gives the first lines of the text as
\* they were and at most a part of one more.
THEOREM ShortSaveStaysReadable == Spec => []ShortSaveKeepsBeginning
<1>1. Inv /\ CleanHasBeginning => ShortSaveKeepsBeginning
  <2> SUFFICES ASSUME Inv, CleanHasBeginning, ~dirty,
                      \A i \in DOMAIN rows : rows[i].size < LineMax - 1
               PROVE  /\ disk # Missing
                      /\ \A i \in DOMAIN editorOpenLines(disk) :
                            /\ i \in DOMAIN rows
                            /\ IsPrefix(editorOpenLines(disk)[i], rows[i].chars)
                            /\ i < Len(editorOpenLines(disk)) =>
                                  editorOpenLines(disk)[i] = rows[i].chars
    BY DEF ShortSaveKeepsBeginning
  <2> DEFINE lines == TextOf(rows)
             again == editorOpenLines(disk)
  <2>1. lines \in Seq(Line) /\ Fits(lines)
    BY ShortRowsFit
  <2>2. DOMAIN lines = DOMAIN rows /\ \A i \in DOMAIN rows : lines[i] = rows[i].chars
    BY DEF TextOf
  <2>3. disk # Missing /\ HasBeginning(disk, editorRowsToString(lines))
    BY DEF CleanHasBeginning
  <2> HIDE DEF lines
  <2>4. PICK n \in 0..Len(editorRowsToString(lines)) :
          disk = SubSeq(editorRowsToString(lines), 1, n)
    BY <2>3 DEF HasBeginning
  <2>5. again = editorOpenLines(SubSeq(editorRowsToString(lines), 1, n))
    BY <2>4
  <2> HIDE DEF again
  <2>6. \A i \in DOMAIN again :
           /\ i \in DOMAIN lines
           /\ IsPrefix(again[i], lines[i])
           /\ i < Len(again) => again[i] = lines[i]
    BY <2>1, <2>5, BeginningReopens
  <2>7. \A i \in DOMAIN again :
           /\ i \in DOMAIN rows
           /\ IsPrefix(again[i], rows[i].chars)
           /\ i < Len(again) => again[i] = rows[i].chars
    BY <2>2, <2>6
  <2> QED
    BY <2>3, <2>7 DEF again
<1> QED
  BY <1>1, Invariance, BeginningStays, PTL
-----------------------------------------------------------------------------
(* The cursor in the window.  For each operation: in a window that shows   *)
(* the cursor it ends in one that does, or it is one of the three the      *)
(* property names.                                                         *)

\* CursorInWindow, for a row whose length is at hand.
LEMMA ShownCursor ==
    ASSUME Inv, CursorInWindow
    PROVE  /\ cx \in 0..ScreenCols - 1 /\ cy \in 0..ScreenRows - 1
           /\ rowoff \in Nat /\ coloff \in Nat
           /\ filerow \in 0..numrows /\ filecol \in Nat
           /\ numrows = Len(rows) /\ numrows \in Nat
           /\ filerow < numrows => /\ rows[filerow + 1] \in GoodRow
                                  /\ rows[filerow + 1].size \in Nat
                                  /\ filecol <= rows[filerow + 1].size
           /\ RowLen(filerow) = IF filerow < numrows THEN rows[filerow + 1].size ELSE 0
BY GoodRowChars, ScreenSize DEF Inv, CursorInWindow, filerow, filecol, numrows, RowLen

\* The same, to be shown of a next state.
LEMMA StillShown ==
    ASSUME Inv',
           cx' \in 0..ScreenCols - 1, cy' \in 0..ScreenRows - 1, coloff' \in Nat,
           rowoff' + cy' < Len(rows') => coloff' + cx' <= rows'[rowoff' + cy' + 1].size
    PROVE  CursorInWindow'
BY ScreenSize DEF Inv, CursorInWindow, filerow, filecol, numrows, RowLen

\* Typing in the last column scrolls instead of moving the cursor.
LEMMA InsertCharShown ==
    ASSUME Inv, Inv', CursorInWindow, NEW c \in Typed, editorInsertChar(c)
    PROVE  CursorInWindow'
<1> DEFINE more == RowsUpTo(rows, filerow)
           new == editorRowInsertChar(more[filerow + 1], filecol, c)
<1>1. filerow \in 0..Len(rows) /\ filecol \in Nat /\ filerow + 1 \in Nat
  BY ShownCursor
<1>2. /\ more \in Seq(GoodRow)
      /\ Len(more) = IF filerow = Len(rows) THEN Len(rows) + 1 ELSE Len(rows)
  BY <1>1, RowsUpToGood DEF Inv
<1>3. filerow + 1 \in 1..Len(more)
  BY <1>1, <1>2
<1>4. new \in GoodRow /\ new.size > filecol
  <2>1. c \in Char
    BY EditorAssumption
  <2>2. more[filerow + 1] \in GoodRow
    BY <1>2, <1>3
  <2> QED
    BY <1>1, <2>1, <2>2, RowInsertCharGood
<1>5. new.size \in Nat
  BY <1>4, GoodRowChars
<1> HIDE DEF more, new
<1>6. rows' = [more EXCEPT ![filerow + 1] = new]
  BY DEF editorInsertChar, more, new
<1>7. rows'[filerow + 1] = new
  BY <1>2, <1>3, <1>4, <1>6, ExceptSeq
<1>8. /\ cx' \in 0..ScreenCols - 1 /\ coloff' \in Nat
      /\ coloff' + cx' = filecol + 1 /\ cy' = cy /\ rowoff' = rowoff
  <2>1. /\ cx \in 0..ScreenCols - 1 /\ coloff \in Nat /\ filecol = coloff + cx
        /\ ScreenCols \in Nat
    BY ShownCursor, ScreenSize DEF filecol
  <2>2. /\ \/ cx = ScreenCols - 1 /\ coloff' = coloff + 1 /\ cx' = cx
           \/ cx # ScreenCols - 1 /\ cx' = cx + 1 /\ coloff' = coloff
        /\ cy' = cy /\ rowoff' = rowoff
    BY DEF editorInsertChar
  <2> QED
    BY <2>1, <2>2
<1>9. rowoff' + cy' = filerow
  BY <1>8 DEF filerow
<1>10. coloff' + cx' <= rows'[rowoff' + cy' + 1].size
  <2>1. rows'[rowoff' + cy' + 1] = new
    BY <1>7, <1>9
  <2>2. filecol + 1 <= new.size
    BY <1>1, <1>4, <1>5
  <2> QED
    BY <1>8, <2>1, <2>2
<1> QED
  BY <1>8, <1>10, ShownCursor, StillShown

\* A newline in the last row shown scrolls, and goes to column 0.
LEMMA InsertNewlineShown ==
    ASSUME Inv, Inv', CursorInWindow, editorInsertNewline
    PROVE  CursorInWindow'
<1>1. cx' = 0 /\ coloff' = 0 /\ cy' \in 0..ScreenRows - 1 /\ rowoff' + cy' \in Nat
  <2>1. cy \in 0..ScreenRows - 1 /\ rowoff \in Nat /\ ScreenRows \in Nat
    BY ShownCursor, ScreenSize
  <2>2. /\ cx' = 0 /\ coloff' = 0
        /\ \/ cy = ScreenRows - 1 /\ rowoff' = rowoff + 1 /\ cy' = cy
           \/ cy # ScreenRows - 1 /\ cy' = cy + 1 /\ rowoff' = rowoff
    BY DEF editorInsertNewline
  <2> QED
    BY <2>1, <2>2
<1>2. rowoff' + cy' < Len(rows') => rows'[rowoff' + cy' + 1].size \in Nat
  <2> SUFFICES ASSUME rowoff' + cy' < Len(rows') PROVE rows'[rowoff' + cy' + 1].size \in Nat
    OBVIOUS
  <2>1. rows' \in Seq(GoodRow)
    BY DEF Inv
  <2>2. rows'[rowoff' + cy' + 1] \in GoodRow
    BY <1>1, <2>1
  <2> QED
    BY <2>2, GoodRowChars
<1> QED
  BY <1>1, <1>2, ScreenSize, StillShown

\* A join whose place is right of the window by one column at most scrolls by
\* that column.
LEMMA DelCharJoinShown ==
    ASSUME Inv, Inv', CursorInWindow, DelCharJoin, ~ LongJoin
    PROVE  CursorInWindow'
<1> DEFINE end == RowLen(filerow - 1)
<1>1. filerow \in 1..Len(rows) - 1 /\ coloff = 0 /\ cx = 0
  BY ShownCursor DEF DelCharJoin, filecol
<1>2. end = rows[filerow].size /\ end \in Nat
  BY <1>1, RowLenNat, ShownCursor DEF RowLen
<1>3. end <= ScreenCols
  BY <1>2, ScreenSize DEF LongJoin
<1> HIDE DEF end
<1>4. /\ cx' = end - JoinShift(end) /\ coloff' = coloff + JoinShift(end)
      /\ rows' = RowsJoined(rows, filerow)
  BY DEF DelCharJoin, end
<1>5. cx' \in 0..ScreenCols - 1 /\ coloff' \in Nat /\ coloff' + cx' = end
  <2>1. ScreenCols \in Nat /\ ScreenCols >= 1
    BY ScreenSize
  <2>2. JoinShift(end) = IF end >= ScreenCols THEN ScreenCols - end + 1 ELSE 0
    BY DEF JoinShift
  <2>3. JoinShift(end) = IF end = ScreenCols THEN 1 ELSE 0
    BY <1>2, <1>3, <2>1, <2>2
  <2> QED
    BY <1>1, <1>2, <1>3, <1>4, <2>1, <2>3
<1>6. cy' \in 0..ScreenRows - 1 /\ rowoff' + cy' + 1 = filerow
  <2>1. /\ cy \in 0..ScreenRows - 1 /\ rowoff \in Nat /\ ScreenRows \in Nat
        /\ filerow = rowoff + cy
    BY ShownCursor, ScreenSize DEF filerow
  <2>2. \/ cy = 0 /\ rowoff' = rowoff - 1 /\ cy' = cy
        \/ cy # 0 /\ cy' = cy - 1 /\ rowoff' = rowoff
    BY DEF DelCharJoin
  <2> QED
    BY <2>1, <2>2
<1>7. rows'[filerow].size >= end
  BY <1>1, <1>2, <1>4, RowsJoinedGood DEF Inv
<1>8. rows'[filerow].size \in Nat
  <2>1. rows' \in Seq(GoodRow) /\ filerow \in 1..Len(rows')
    BY <1>1, <1>4, RowsJoinedGood DEF Inv
  <2> QED
    BY <2>1, GoodRowChars
<1> QED
  BY <1>2, <1>5, <1>6, <1>7, <1>8, StillShown

\* Deleting in column 0 of the window scrolls back.
LEMMA DelCharInRowShown ==
    ASSUME Inv, Inv', CursorInWindow, DelCharInRow
    PROVE  CursorInWindow'
<1> DEFINE row == rows[filerow + 1]
           new == editorUpdateSyntax(editorRowDelChar(row, filecol - 1))
<1>1. /\ filerow + 1 \in 1..Len(rows) /\ filecol - 1 \in Nat
      /\ row \in GoodRow /\ row.size \in Nat /\ filecol <= row.size
  BY ShownCursor DEF DelCharInRow
<1>2. new \in GoodRow /\ new.size >= row.size - 1
  BY <1>1, RowDelCharGood
<1>3. new.size \in Nat
  BY <1>2, GoodRowChars
<1> HIDE DEF new
<1>4. rows' = [rows EXCEPT ![filerow + 1] = new]
  BY DEF DelCharInRow, new
<1>5. rows'[filerow + 1] = new
  BY <1>1, <1>2, <1>4, ExceptSeq DEF Inv
<1>6. /\ cx' \in 0..ScreenCols - 1 /\ coloff' \in Nat
      /\ coloff' + cx' = filecol - 1 /\ cy' = cy /\ rowoff' = rowoff
  <2>1. /\ cx \in 0..ScreenCols - 1 /\ coloff \in Nat /\ filecol = coloff + cx
        /\ ScreenCols \in Nat
    BY ShownCursor, ScreenSize DEF filecol
  <2>2. /\ \/ cx = 0 /\ coloff # 0 /\ coloff' = coloff - 1 /\ cx' = cx
           \/ ~ (cx = 0 /\ coloff # 0) /\ cx' = cx - 1 /\ coloff' = coloff
        /\ filecol > 0 /\ cy' = cy /\ rowoff' = rowoff
    BY DEF DelCharInRow
  <2> QED
    BY <2>1, <2>2
<1>7. rowoff' + cy' = filerow
  BY <1>6 DEF filerow
<1>8. coloff' + cx' <= rows'[rowoff' + cy' + 1].size
  <2>1. rows'[rowoff' + cy' + 1] = new
    BY <1>5, <1>7
  <2>2. filecol - 1 <= new.size
    BY <1>1, <1>2, <1>3, ShownCursor, SMTT(30)
  <2> QED
    BY <1>6, <2>1, <2>2
<1> QED
  BY <1>6, <1>8, ShownCursor, StillShown

\* A cursor put in a cell of the window ends in its row and in the window.
LEMMA PutCursorShown ==
    ASSUME Inv, Inv', NEW x \in 0..ScreenCols - 1, NEW y \in 0..ScreenRows - 1,
           NEW ro \in Nat, NEW co \in Nat, PutCursor(x, y, ro, co)
    PROVE  CursorInWindow'
<1> DEFINE len == RowLen(ro + y)
<1>1. ro + y \in Nat /\ x \in Nat /\ ScreenCols \in Nat
  BY ScreenSize
<1>2. len \in Nat
  BY <1>1, RowLenNat
<1> HIDE DEF len
<1>3. /\ cx' = IF (co + x) - len <= 0 THEN x
              ELSE IF x < (co + x) - len THEN 0 ELSE x - ((co + x) - len)
      /\ coloff' = IF (co + x) - len > 0 /\ x < (co + x) - len
                   THEN co + (x - ((co + x) - len)) ELSE co
      /\ cy' = y /\ rowoff' = ro /\ rows' = rows
  BY DEF PutCursor, len
<1>4. cx' \in 0..ScreenCols - 1 /\ coloff' \in Nat /\ coloff' + cx' <= len
  BY <1>1, <1>2, <1>3
<1>5. ro + y < Len(rows) => len = rows[ro + y + 1].size
  BY DEF len, RowLen, numrows
<1> QED
  BY <1>3, <1>4, <1>5, StillShown

\* An arrow moves the cursor in the window or scrolls.
LEMMA MoveShown ==
    ASSUME Inv, Inv', CursorInWindow, Move
    PROVE  CursorInWindow'
<1>1. /\ cx \in 0..ScreenCols - 1 /\ cy \in 0..ScreenRows - 1
      /\ rowoff \in Nat /\ coloff \in Nat /\ ScreenCols \in Nat /\ ScreenRows \in Nat
  BY ShownCursor, ScreenSize
<1>2. CASE MoveLeft
  BY <1>1, <1>2, PutCursorShown DEF MoveLeft
<1>3. CASE MoveRight
  BY <1>1, <1>3, PutCursorShown DEF MoveRight
<1>4. CASE MoveUp
  BY <1>1, <1>4, PutCursorShown DEF MoveUp
<1>5. CASE MoveDown
  BY <1>1, <1>5, PutCursorShown DEF MoveDown
<1>6. CASE MoveNowhere
  BY <1>1, <1>6, PutCursorShown DEF MoveNowhere
<1> QED
  BY <1>2, <1>3, <1>4, <1>5, <1>6 DEF Move

\* A click on a cell of the window, on a row that is shown there.
LEMMA ClickTextShown ==
    ASSUME Inv, Inv', CursorInWindow, NEW click \in Clicks,
           ClickText(click[1], click[2], click[3]),
           ~ ClickBelowRows(click[1], click[2], click[3]),
           ~ ClickBesideRow(click[1], click[2], click[3])
    PROVE  CursorInWindow'
<1> DEFINE row == ClickedRow(click[2])
           col == ClickedCol(click[1])
           r == rowoff + row
           size == RowLen(r)
<1>1. click[1] \in Int /\ click[2] \in Int /\ ScreenRows \in Int /\ ScreenCols \in Int
  BY EditorAssumption, ScreenSize
<1>2. row \in Nat /\ col \in Nat
  BY <1>1, WindowAssumption
  DEF ClickText, InTextArea, ClickedRow, ClickedCol, Margin, FONT_HEIGHT, FONT_KERNING
<1>3. size \in Nat /\ coloff \in Nat /\ rowoff \in Nat
  <2>1. r \in Nat
    BY <1>2, SMTT(30) DEF Inv
  <2> QED
    BY <2>1, RowLenNat, ShownCursor
<1> HIDE DEF row, col
<1>4. row < ScreenRows
  BY <1>1, <1>2 DEF ClickBelowRows, row
<1>5. coloff <= size /\ col < ScreenCols
  BY <1>1, <1>2, <1>3 DEF ClickBesideRow, row, col
<1>6. r = numrows => size = 0
  <2>1. numrows \in Nat
    BY ShownCursor
  <2> QED
    BY <2>1 DEF RowLen
<1>7. r < Len(rows) => size = rows[r + 1].size
  BY DEF RowLen, numrows
<1> HIDE DEF size
<1>8. /\ cx' = IF r = numrows THEN 0 ELSE IF coloff + col >= size THEN size - coloff ELSE col
      /\ cy' = row /\ rowoff' = rowoff /\ coloff' = coloff /\ rows' = rows
  BY DEF ClickText, row, col, size
<1>9. cx' \in 0..ScreenCols - 1 /\ coloff' + cx' <= size
  BY <1>1, <1>2, <1>3, <1>5, <1>8, ScreenSize
<1> QED
  BY <1>1, <1>2, <1>3, <1>4, <1>7, <1>8, <1>9, StillShown

\* Colouring a row does not change its length.
LEMMA ErrorShown ==
    ASSUME Inv, Inv', CursorInWindow,
           editorClearError \/ \E line \in ErrLines : editorSetError(line)
    PROVE  CursorInWindow'
<1>1. /\ Len(rows') = Len(rows)
      /\ \A i \in 1..Len(rows) : rows'[i].size = rows[i].size
  <2>1. CASE editorClearError
    <3>1. CASE err /\ errline < numrows
      <4>1. errline + 1 \in 1..Len(rows)
        BY <3>1 DEF numrows, Inv
      <4>2. /\ editorUpdateSyntax(rows[errline + 1]) \in GoodRow
            /\ editorUpdateSyntax(rows[errline + 1]).size = rows[errline + 1].size
        BY <4>1, UpdateSyntaxGood DEF Inv, GoodRow
      <4>3. rows' = [rows EXCEPT ![errline + 1] = editorUpdateSyntax(rows[errline + 1])]
        BY <2>1, <3>1 DEF editorClearError
      <4> QED
        BY <4>1, <4>2, <4>3, ExceptSeq DEF Inv
    <3>2. CASE ~ (err /\ errline < numrows)
      BY <2>1, <3>2 DEF editorClearError
    <3> QED
      BY <3>1, <3>2
  <2>2. ASSUME NEW line \in ErrLines, editorSetError(line)
        PROVE  /\ Len(rows') = Len(rows)
               /\ \A i \in 1..Len(rows) : rows'[i].size = rows[i].size
    <3>1. CASE line < numrows
      <4>1. line + 1 \in 1..Len(rows)
        BY <2>2, <3>1, EditorAssumption DEF numrows, Inv, editorSetError
      <4>2. /\ RowInError(rows[line + 1]) \in GoodRow
            /\ RowInError(rows[line + 1]).size = rows[line + 1].size
        BY <4>1, RowInErrorGood DEF Inv
      <4>3. rows' = [rows EXCEPT ![line + 1] = RowInError(rows[line + 1])]
        BY <2>2, <3>1 DEF editorSetError
      <4> QED
        BY <4>1, <4>2, <4>3, ExceptSeq DEF Inv
    <3>2. CASE ~ (line < numrows)
      BY <2>2, <3>2 DEF editorSetError
    <3> QED
      BY <3>1, <3>2
  <2> QED
    BY <2>1, <2>2
<1>2. cx' = cx /\ cy' = cy /\ rowoff' = rowoff /\ coloff' = coloff
  BY DEF editorClearError, editorSetError
<1>3. filerow = rowoff + cy /\ filecol = coloff + cx
  BY DEF filerow, filecol
<1>4. rowoff' + cy' < Len(rows') => coloff' + cx' <= rows'[rowoff' + cy' + 1].size
  BY <1>1, <1>2, <1>3, ShownCursor, SMTT(30)
<1> QED
  BY <1>2, <1>4, ShownCursor, StillShown

\* Typing, splitting, deleting, moving, scrolling and saving never take a cursor
\* that is shown out of the window: only the three steps of LosesCursor do.
THEOREM CursorKept == Spec => CursorLostOnlyBy
<1>1. ASSUME Inv, Inv', [Next]_vars, CursorInWindow, ~ LosesCursor
      PROVE  CursorInWindow'
  <2>1. ASSUME NEW c \in Typed, editorInsertChar(c) PROVE CursorInWindow'
    BY <1>1, <2>1, InsertCharShown
  <2>2. CASE editorInsertNewline
    BY <1>1, <2>2, InsertNewlineShown
  <2>3. CASE editorDelChar
    BY <1>1, <2>3, DelCharJoinShown, DelCharInRowShown DEF editorDelChar, LosesCursor
  <2>4. CASE Move
    BY <1>1, <2>4, MoveShown
  <2>5. ASSUME NEW click \in Clicks, editorMouseClicked(click[1], click[2], click[3])
        PROVE  CursorInWindow'
    <3>1. CASE ClickPowerOff(click[1], click[2], click[3])
      BY <1>1, <3>1 DEF ClickPowerOff, CursorInWindow, filerow, filecol, numrows, RowLen
    <3>2. CASE ClickSave(click[1], click[2], click[3])
      BY <1>1, <3>2
      DEF ClickSave, editorSave, CursorInWindow, filerow, filecol, numrows, RowLen
    <3>3. CASE ClickText(click[1], click[2], click[3])
      BY <1>1, <3>3, ClickTextShown DEF LosesCursor
    <3> QED
      BY <2>5, <3>1, <3>2, <3>3 DEF editorMouseClicked
  <2>6. CASE editorClearError \/ \E line \in ErrLines : editorSetError(line)
    BY <1>1, <2>6, ErrorShown
  <2>7. CASE OutOfRow
    <3>1. Fault
      BY <2>7 DEF OutOfRow, EditOutOfRow, DrawOutOfRow, SetErrorOutOfRows
    <3> QED
      BY <1>1, <3>1 DEF Fault, CursorInWindow, filerow, filecol, numrows, RowLen
  <2>8. CASE UNCHANGED vars
    BY <1>1, <2>8 DEF vars, CursorInWindow, filerow, filecol, numrows, RowLen
  <2> QED
    BY <1>1, <2>1, <2>2, <2>3, <2>4, <2>5, <2>6, <2>7, <2>8 DEF Next
<1>2. Inv /\ Inv' /\ [Next]_vars => [CursorInWindow /\ ~ CursorInWindow' => LosesCursor]_vars
  BY <1>1
<1> QED
  BY <1>2, Invariance, PTL DEF Spec, CursorLostOnlyBy

-----------------------------------------------------------------------------
(* The editor without its window.                                          *)

\* What becomes of the characters of a row.
LEMMA NewRowText ==
    ASSUME NEW s \in Line
    PROVE  NewRow(s).chars = s
<1>1. [size |-> Len(s), chars |-> s, hl |-> <<>>] \in SizedRow
  BY DEF SizedRow, Row, Line, HL
<1> QED
  BY <1>1, UpdateSyntaxGood DEF NewRow

\* A row given other characters and their number has them.
LEMMA ResizedText ==
    ASSUME NEW row \in Row, NEW chars \in Line, NEW n, n = Len(chars)
    PROVE  editorUpdateSyntax([row EXCEPT !.chars = chars, !.size = n]).chars = chars
<1> DEFINE new == [row EXCEPT !.chars = chars, !.size = n]
<1>1. new \in SizedRow
  BY ResizedRow
<1>2. new.chars = chars
  BY DEF Row
<1> HIDE DEF new
<1>3. editorUpdateSyntax(new).chars = new.chars
  BY <1>1, UpdateSyntaxGood
<1> QED
  BY <1>2, <1>3 DEF new

\* A character put in a row is put in its line, after spaces when it lies past the end.
LEMMA RowInsertCharText ==
    ASSUME NEW row \in GoodRow, NEW at \in Nat, NEW c \in Char
    PROVE  editorRowInsertChar(row, at, c).chars = Plain!Spliced(row.chars, at, c)
<1>1. /\ row.chars \in Seq(Char) /\ row.size \in Nat /\ Len(row.chars) = row.size
      /\ row \in Row
  BY DEF GoodRow, SizedRow, Row, Line
<1>2. CASE at > row.size
  <2> DEFINE pad == at - row.size
             chars == row.chars \o Blanks(pad) \o <<c>>
  <2>1. Blanks(pad) \in Seq(Char) /\ Len(Blanks(pad)) = pad /\ pad \in Nat
    <3>1. pad \in Nat
      BY <1>1, <1>2
    <3>2. Space \in Char
      BY FileAssumption
    <3> HIDE DEF pad
    <3> QED
      BY <3>1, <3>2, ConstantSeq DEF Blanks
  <2>2. Blanks(pad) = Plain!Padding(pad)
    BY DEF Blanks, Plain!Padding
  <2>3. chars \in Line /\ Len(chars) = row.size + pad + 1
    <3> HIDE DEF pad
    <3>1. <<c>> \in Seq(Char) /\ Len(<<c>>) = 1
      OBVIOUS
    <3>2. /\ row.chars \o Blanks(pad) \in Seq(Char)
          /\ Len(row.chars \o Blanks(pad)) = row.size + pad
      BY <1>1, <2>1, <3>1
    <3> QED
      BY <1>1, <2>1, <3>1, <3>2, ConcatProperties DEF Line
  <2>4. Plain!Spliced(row.chars, at, c) = chars
    BY <1>1, <1>2, <2>2 DEF Plain!Spliced
  <2> HIDE DEF chars
  <2>5. editorRowInsertChar(row, at, c) =
          editorUpdateSyntax([row EXCEPT !.chars = chars, !.size = row.size + pad + 1])
    BY <1>2 DEF editorRowInsertChar, chars
  <2> HIDE DEF pad
  <2>6. editorUpdateSyntax([row EXCEPT !.chars = chars,
                                       !.size = row.size + pad + 1]).chars = chars
    <3>1. row \in Row /\ chars \in Line /\ row.size + pad + 1 = Len(chars)
      BY <1>1, <2>3
    <3> QED
      BY <3>1, ResizedText, Zenon
  <2> QED
    BY <2>4, <2>5, <2>6
<1>3. CASE ~ (at > row.size)
  <2> DEFINE chars == InsertAt(row.chars, at + 1, c)
  <2>1. at \in 0..Len(row.chars)
    BY <1>1, <1>3
  <2>2. /\ chars = SubSeq(row.chars, 1, at) \o <<c>> \o SubSeq(row.chars, at + 1, Len(row.chars))
        /\ chars \in Seq(Char) /\ Len(chars) = Len(row.chars) + 1
    <3>1. row.chars \in Seq(Char)
      BY <1>1
    <3> QED
      BY <2>1, <3>1, InsertAtType, ZenonT(30)
  <2>3. Plain!Spliced(row.chars, at, c) = chars
    BY <1>1, <1>3, <2>2 DEF Plain!Spliced
  <2> HIDE DEF chars
  <2>4. editorRowInsertChar(row, at, c) =
          editorUpdateSyntax([row EXCEPT !.chars = chars, !.size = row.size + 1])
    BY <1>3 DEF editorRowInsertChar, chars
  <2>5. editorUpdateSyntax([row EXCEPT !.chars = chars, !.size = row.size + 1]).chars = chars
    <3>1. row \in Row /\ chars \in Line /\ row.size + 1 = Len(chars)
      BY <1>1, <2>2 DEF Line
    <3> QED
      BY <3>1, ResizedText, Zenon
  <2> QED
    BY <2>3, <2>4, <2>5
<1> QED
  BY <1>2, <1>3

\* A row appended to holds its line and the string.
LEMMA RowAppendText ==
    ASSUME NEW row \in GoodRow, NEW s \in Line
    PROVE  editorRowAppendString(row, s).chars = row.chars \o s
<1> DEFINE chars == row.chars \o s
<1>1. /\ row.chars \in Seq(Char) /\ row.size \in Nat /\ Len(row.chars) = row.size
      /\ row \in Row
  BY DEF GoodRow, SizedRow, Row, Line
<1>2. chars \in Line /\ Len(chars) = row.size + Len(s) /\ Len(s) \in Nat
  BY <1>1 DEF Line
<1> HIDE DEF chars
<1>3. editorRowAppendString(row, s) =
        editorUpdateSyntax([row EXCEPT !.chars = chars, !.size = row.size + Len(s)])
  BY DEF editorRowAppendString, chars
<1>4. editorUpdateSyntax([row EXCEPT !.chars = chars, !.size = row.size + Len(s)]).chars = chars
  <2>1. row \in Row /\ chars \in Line /\ row.size + Len(s) = Len(chars)
    BY <1>1, <1>2
  <2> QED
    BY <2>1, ResizedText, Zenon
<1> QED
  BY <1>3, <1>4 DEF chars

\* A row with a character deleted lacks that character and no other.
LEMMA RowDelCharText ==
    ASSUME NEW row \in GoodRow, NEW at \in 0..row.size - 1
    PROVE  editorUpdateSyntax(editorRowDelChar(row, at)).chars =
             SubSeq(row.chars, 1, at) \o SubSeq(row.chars, at + 2, Len(row.chars))
<1> DEFINE chars == RemoveAt(row.chars, at + 1)
           colours == [i \in 1..row.size |-> HL_SYNTAX]
           moved == editorUpdateSyntax([row EXCEPT !.chars = chars])
<1>1. /\ row.chars \in Seq(Char) /\ row.size \in Nat /\ Len(row.chars) = row.size
      /\ row \in Row
  BY DEF GoodRow, SizedRow, Row, Line
<1>2. chars = SubSeq(row.chars, 1, at) \o SubSeq(row.chars, at + 2, Len(row.chars))
  <2>1. (at + 1) - 1 = at /\ (at + 1) + 1 = at + 2
    BY <1>1
  <2> QED
    BY <2>1, Zenon DEF RemoveAt
<1>3. chars \in Line /\ Len(chars) = row.size - 1
  BY <1>1, RemoveAtType DEF Line
<1>4. colours \in Seq(HL)
  BY <1>1, ConstantSeq DEF HL
<1> HIDE DEF chars
<1>5. moved = [row EXCEPT !.chars = chars, !.hl = colours]
  BY <1>1 DEF editorUpdateSyntax, Row
<1> HIDE DEF moved, colours
<1>6. moved = [size |-> row.size, chars |-> chars, hl |-> colours]
  BY <1>1, <1>5 DEF Row
<1>7. [moved EXCEPT !.size = moved.size - 1] =
            [size |-> row.size - 1, chars |-> chars, hl |-> colours]
  BY <1>6
<1>8. row.size - 1 \in Nat
  BY <1>1
<1>9. [moved EXCEPT !.size = moved.size - 1] \in SizedRow
  BY <1>3, <1>4, <1>7, <1>8 DEF SizedRow, Row
<1>10. editorRowDelChar(row, at) = [moved EXCEPT !.size = moved.size - 1]
  BY <1>1 DEF editorRowDelChar, moved, chars
<1> QED
  BY <1>2, <1>7, <1>9, <1>10, UpdateSyntaxGood

\* A row cut at a column keeps the beginning of its line.
LEMMA RowCutText ==
    ASSUME NEW row \in GoodRow, NEW at \in 0..row.size
    PROVE  RowCut(row, at).chars = SubSeq(row.chars, 1, at)
<1> DEFINE chars == SubSeq(row.chars, 1, at)
<1>1. /\ row.chars \in Seq(Char) /\ row.size \in Nat /\ Len(row.chars) = row.size
      /\ row \in Row
  BY DEF GoodRow, SizedRow, Row, Line
<1>2. chars \in Line /\ Len(chars) = at /\ at \in Nat
  BY <1>1 DEF Line
<1> HIDE DEF chars
<1>3. editorUpdateSyntax([row EXCEPT !.chars = chars, !.size = at]).chars = chars
  <2>1. row \in Row /\ chars \in Line /\ at = Len(chars)
    BY <1>1, <1>2
  <2> QED
    BY <2>1, ResizedText, Zenon
<1> QED
  BY <1>3 DEF RowCut, chars

\* The text of some rows: a line for each.
LEMMA TextAt ==
    ASSUME NEW rs \in Seq(GoodRow)
    PROVE  /\ TextOf(rs) \in Seq(Line) /\ Len(TextOf(rs)) = Len(rs)
           /\ \A i \in 1..Len(rs) : TextOf(rs)[i] = rs[i].chars
BY GoodRowChars DEF TextOf

\* The text of some rows and then some others.
LEMMA TextConcat ==
    ASSUME NEW rs \in Seq(GoodRow), NEW qs \in Seq(GoodRow)
    PROVE  TextOf(rs \o qs) = TextOf(rs) \o TextOf(qs)
<1> DEFINE all == rs \o qs
           s == TextOf(rs)
           t == TextOf(qs)
<1>1. /\ all \in Seq(GoodRow) /\ Len(all) = Len(rs) + Len(qs)
      /\ \A i \in 1..Len(rs) + Len(qs) : all[i] = IF i <= Len(rs) THEN rs[i] ELSE qs[i - Len(rs)]
  OBVIOUS
<1>2. /\ s \in Seq(Line) /\ Len(s) = Len(rs) /\ \A i \in 1..Len(rs) : s[i] = rs[i].chars
      /\ t \in Seq(Line) /\ Len(t) = Len(qs) /\ \A i \in 1..Len(qs) : t[i] = qs[i].chars
  BY TextAt
<1> HIDE DEF all, s, t
<1>3. /\ TextOf(all) \in Seq(Line) /\ Len(TextOf(all)) = Len(all)
      /\ \A i \in 1..Len(all) : TextOf(all)[i] = all[i].chars
  BY <1>1, TextAt
<1>4. /\ s \o t \in Seq(Line) /\ Len(s \o t) = Len(s) + Len(t)
      /\ \A i \in 1..Len(s) + Len(t) : (s \o t)[i] = IF i <= Len(s) THEN s[i] ELSE t[i - Len(s)]
  <2>1. s \in Seq(Line) /\ t \in Seq(Line)
    BY <1>2
  <2> QED
    BY <2>1, ConcatProperties, Zenon
<1> DEFINE st == s \o t
<1> HIDE DEF st
<1>5. /\ st \in Seq(Line) /\ Len(st) = Len(rs) + Len(qs)
      /\ \A i \in 1..Len(rs) + Len(qs) : st[i] = IF i <= Len(rs) THEN s[i] ELSE t[i - Len(rs)]
  BY <1>2, <1>4 DEF st
<1>6. ASSUME NEW i \in 1..Len(all) PROVE all[i].chars = st[i]
  <2>1. Len(rs) \in Nat /\ Len(qs) \in Nat /\ i \in 1..Len(rs) + Len(qs)
    BY <1>1
  <2>2. CASE i <= Len(rs)
    BY <1>1, <1>2, <1>5, <2>1, <2>2
  <2>3. CASE ~ (i <= Len(rs))
    <3>1. i - Len(rs) \in 1..Len(qs)
      BY <2>1, <2>3
    <3> QED
      BY <1>1, <1>2, <1>5, <2>1, <2>3, <3>1
  <2> QED
    BY <2>2, <2>3
<1>7. TextOf(all) = st
  BY <1>1, <1>3, <1>5, <1>6, SeqEqual
<1> QED
  BY <1>7 DEF all, s, t, st

\* The text of a part of the rows.
LEMMA TextPart ==
    ASSUME NEW rs \in Seq(GoodRow), NEW m \in 1..Len(rs) + 1, NEW n \in 0..Len(rs)
    PROVE  TextOf(SubSeq(rs, m, n)) = SubSeq(TextOf(rs), m, n)
<1> DEFINE part == SubSeq(rs, m, n)
           s == TextOf(rs)
           t == SubSeq(s, m, n)
<1>1. /\ part \in Seq(GoodRow)
      /\ Len(part) = IF m <= n THEN n - m + 1 ELSE 0
      /\ \A i \in 1..n - m + 1 : part[i] = rs[m + i - 1]
  OBVIOUS
<1>2. s \in Seq(Line) /\ Len(s) = Len(rs) /\ \A i \in 1..Len(rs) : s[i] = rs[i].chars
  BY TextAt
<1> HIDE DEF part, s
<1>3. /\ t \in Seq(Line) /\ Len(t) = IF m <= n THEN n - m + 1 ELSE 0
      /\ \A i \in 1..n - m + 1 : t[i] = s[m + i - 1]
  BY <1>2
<1>4. /\ TextOf(part) \in Seq(Line) /\ Len(TextOf(part)) = Len(part)
      /\ \A i \in 1..Len(part) : TextOf(part)[i] = part[i].chars
  BY <1>1, TextAt
<1> HIDE DEF t
<1>5. ASSUME NEW i \in 1..Len(part) PROVE part[i].chars = t[i]
  <2>1. i \in 1..n - m + 1 /\ m + i - 1 \in 1..Len(rs)
    BY <1>1
  <2> QED
    BY <1>1, <1>2, <1>3, <2>1
<1>6. TextOf(part) = t
  BY <1>1, <1>3, <1>4, <1>5, SeqEqual
<1> QED
  BY <1>6 DEF part, s, t

\* The text of one row.
LEMMA TextOne ==
    ASSUME NEW row \in GoodRow
    PROVE  TextOf(<<row>>) = <<row.chars>>
BY DEF TextOf

\* One row replaced replaces its line.
LEMMA TextExcept ==
    ASSUME NEW rs \in Seq(GoodRow), NEW i \in 1..Len(rs), NEW row \in GoodRow
    PROVE  TextOf([rs EXCEPT ![i] = row]) = [TextOf(rs) EXCEPT ![i] = row.chars]
<1> DEFINE new == [rs EXCEPT ![i] = row]
<1>1. /\ new \in Seq(GoodRow) /\ Len(new) = Len(rs)
      /\ \A j \in 1..Len(rs) : new[j] = IF j = i THEN row ELSE rs[j]
  BY ExceptSeq
<1> HIDE DEF new
<1>2. TextOf(new) = [j \in 1..Len(rs) |-> IF j = i THEN row.chars ELSE rs[j].chars]
  BY <1>1 DEF TextOf
<1>3. TextOf(rs) = [j \in 1..Len(rs) |-> rs[j].chars]
  BY DEF TextOf
<1> QED
  BY <1>2, <1>3 DEF new

\* A row put between others is its line put between theirs.
LEMMA InsertRowText ==
    ASSUME NEW rs \in Seq(GoodRow), NEW at \in 0..Len(rs), NEW s \in Line
    PROVE  TextOf(editorInsertRow(rs, at, s)) =
             SubSeq(TextOf(rs), 1, at) \o <<s>> \o SubSeq(TextOf(rs), at + 1, Len(TextOf(rs)))
<1> DEFINE new == NewRow(s)
           p == SubSeq(rs, 1, at)
           q == SubSeq(rs, at + 1, Len(rs))
<1>1. new \in GoodRow /\ new.chars = s
  BY NewRowGood, NewRowText
<1>2. editorInsertRow(rs, at, s) = InsertAt(rs, at + 1, new)
  BY DEF editorInsertRow
<1> HIDE DEF new
<1>3. InsertAt(rs, at + 1, new) = p \o <<new>> \o q
  BY <1>1, InsertAtType, ZenonT(30)
<1>4. p \in Seq(GoodRow) /\ q \in Seq(GoodRow)
  OBVIOUS
<1>5. TextOf(p) = SubSeq(TextOf(rs), 1, at)
  BY TextPart
<1>6. TextOf(q) = SubSeq(TextOf(rs), at + 1, Len(TextOf(rs)))
  <2>1. at + 1 \in 1..Len(rs) + 1 /\ Len(rs) \in 0..Len(rs)
    OBVIOUS
  <2> QED
    BY <2>1, TextPart, TextAt, ZenonT(30)
<1> HIDE DEF p, q
<1>7. <<new>> \in Seq(GoodRow) /\ p \o <<new>> \in Seq(GoodRow)
  BY <1>1, <1>4
<1>8. TextOf(p \o <<new>> \o q) = TextOf(p) \o <<s>> \o TextOf(q)
  <2>1. TextOf(p \o <<new>> \o q) = TextOf(p \o <<new>>) \o TextOf(q)
    BY <1>4, <1>7, TextConcat, Zenon
  <2>2. TextOf(p \o <<new>>) = TextOf(p) \o TextOf(<<new>>)
    BY <1>4, <1>7, TextConcat, Zenon
  <2>3. TextOf(<<new>>) = <<s>>
    BY <1>1, TextOne
  <2> QED
    BY <2>1, <2>2, <2>3
<1> QED
  BY <1>2, <1>3, <1>5, <1>6, <1>8

\* The last element of a beginning replaced.
LEMMA ReplacedLast ==
    ASSUME NEW S, NEW s \in Seq(S), NEW n \in 0..Len(s) - 1, NEW t \in Seq(S), NEW e \in S
    PROVE  [SubSeq(s, 1, n + 1) \o t EXCEPT ![n + 1] = e] = SubSeq(s, 1, n) \o <<e>> \o t
<1> DEFINE p == SubSeq(s, 1, n + 1)
           q == SubSeq(s, 1, n)
<1>1. p \in Seq(S) /\ Len(p) = n + 1 /\ \A i \in 1..n : p[i] = s[i]
  OBVIOUS
<1>2. q \in Seq(S) /\ Len(q) = n /\ \A i \in 1..n : q[i] = s[i]
  OBVIOUS
<1> HIDE DEF p, q
<1> DEFINE r == q \o <<e>>
<1>3. r \in Seq(S) /\ Len(r) = n + 1 /\ r[n + 1] = e /\ \A i \in 1..n : r[i] = s[i]
  BY <1>2
<1> HIDE DEF r
<1>4. /\ p \o t \in Seq(S) /\ Len(p \o t) = n + 1 + Len(t)
      /\ \A i \in 1..n + 1 + Len(t) : (p \o t)[i] = IF i <= n + 1 THEN p[i] ELSE t[i - (n + 1)]
  BY <1>1, SMTT(30)
<1>5. /\ r \o t \in Seq(S) /\ Len(r \o t) = n + 1 + Len(t)
      /\ \A i \in 1..n + 1 + Len(t) : (r \o t)[i] = IF i <= n + 1 THEN r[i] ELSE t[i - (n + 1)]
  BY <1>3
<1> DEFINE u == p \o t
           v == r \o t
           new == [u EXCEPT ![n + 1] = e]
<1>6. /\ u \in Seq(S) /\ Len(u) = n + 1 + Len(t)
      /\ \A i \in 1..n + 1 + Len(t) : u[i] = IF i <= n + 1 THEN p[i] ELSE t[i - (n + 1)]
  BY <1>4
<1>7. /\ v \in Seq(S) /\ Len(v) = n + 1 + Len(t)
      /\ \A i \in 1..n + 1 + Len(t) : v[i] = IF i <= n + 1 THEN r[i] ELSE t[i - (n + 1)]
  BY <1>5
<1> HIDE DEF u, v
<1>8. n + 1 \in 1..n + 1 + Len(t) /\ Len(t) \in Nat /\ n + 1 \in 1..Len(u)
  BY <1>6
<1>9. /\ new \in Seq(S) /\ Len(new) = n + 1 + Len(t)
      /\ \A i \in 1..n + 1 + Len(t) : new[i] = IF i = n + 1 THEN e ELSE u[i]
  BY <1>6, <1>8, ExceptSeq
<1> HIDE DEF new
<1>10. ASSUME NEW i \in 1..n + 1 + Len(t) PROVE new[i] = v[i]
  <2>1. CASE i = n + 1
    BY <1>3, <1>7, <1>9, <2>1
  <2>2. CASE i < n + 1
    BY <1>1, <1>3, <1>6, <1>7, <1>9, <2>2
  <2>3. CASE i > n + 1
    <3>1. ~ (i <= n + 1) /\ i # n + 1
      BY <1>8, <2>3
    <3>2. u[i] = t[i - (n + 1)] /\ v[i] = t[i - (n + 1)] /\ new[i] = u[i]
      BY <1>6, <1>7, <1>9, <3>1, Zenon
    <3> QED
      BY <3>2
  <2> QED
    BY <1>8, <2>1, <2>2, <2>3
<1>11. new = v
  BY <1>7, <1>9, <1>10, SeqEqual
<1> QED
  BY <1>11 DEF u, v, r, p, q, new

\* Two elements between two parts, added one by one.
LEMMA Regrouped ==
    ASSUME NEW S, NEW s \in Seq(S), NEW t \in Seq(S), NEW d \in S, NEW e \in S
    PROVE  (s \o <<d>>) \o (<<e>> \o t) = s \o <<d, e>> \o t
<1> DEFINE x == <<d>>
           y == <<e>>
           xy == <<d, e>>
<1>1. x \in Seq(S) /\ Len(x) = 1 /\ x[1] = d
  OBVIOUS
<1>2. y \in Seq(S) /\ Len(y) = 1 /\ y[1] = e
  OBVIOUS
<1>3. xy \in Seq(S) /\ Len(xy) = 2 /\ xy[1] = d /\ xy[2] = e
  OBVIOUS
<1> HIDE DEF x, y, xy
<1>4. x \o y = xy
  <2>1. /\ x \o y \in Seq(S) /\ Len(x \o y) = 2
        /\ (x \o y)[1] = d /\ (x \o y)[2] = e
    <3>1. /\ x \o y \in Seq(S) /\ Len(x \o y) = Len(x) + Len(y)
          /\ \A i \in 1..Len(x) + Len(y) : (x \o y)[i] =
                 IF i <= Len(x) THEN x[i] ELSE y[i - Len(x)]
      BY <1>1, <1>2, ConcatProperties
    <3> QED
      BY <1>1, <1>2, <3>1
  <2> DEFINE both == x \o y
  <2> HIDE DEF both
  <2>2. both \in Seq(S) /\ Len(both) = 2 /\ both[1] = d /\ both[2] = e
    BY <2>1 DEF both
  <2>3. \A i \in 1..2 : both[i] = xy[i]
    BY <1>3, <2>2
  <2>4. both = xy
    BY <1>3, <2>2, <2>3, SeqEqual
  <2> QED
    BY <2>4 DEF both
<1>5. y \o t \in Seq(S)
  BY <1>2, ConcatProperties, Zenon
<1>6. (s \o x) \o (y \o t) = s \o (x \o (y \o t))
  <2> DEFINE yt == y \o t
  <2>1. x \in Seq(S) /\ yt \in Seq(S)
    BY <1>1, <1>5
  <2> HIDE DEF yt
  <2>2. (s \o x) \o yt = s \o (x \o yt)
    BY <2>1, ConcatAssociative, SMTT(30)
  <2> QED
    BY <2>2 DEF yt
<1>7. (x \o y) \o t = x \o (y \o t)
  <2>1. x \in Seq(S) /\ y \in Seq(S)
    BY <1>1, <1>2
  <2> QED
    BY <2>1, ConcatAssociative, SMTT(30)
<1>8. (s \o xy) \o t = s \o (xy \o t)
  BY <1>3, ConcatAssociative, SMTT(30)
<1> QED
  BY <1>4, <1>6, <1>7, <1>8 DEF x, y, xy

\* The first element of a part.
LEMMA FirstOfPart ==
    ASSUME NEW S, NEW s \in Seq(S), NEW n \in 0..Len(s) - 1
    PROVE  SubSeq(s, n + 1, Len(s)) = <<s[n + 1]>> \o SubSeq(s, n + 2, Len(s))
<1> DEFINE one == SubSeq(s, n + 1, n + 1)
           e == s[n + 1]
           single == <<e>>
<1>1. /\ n + 1 \in 1..Len(s) + 1 /\ n + 1 \in (n + 1) - 1..Len(s)
      /\ Len(s) \in n + 1..Len(s) /\ (n + 1) + 1 = n + 2
  OBVIOUS
<1>2. SubSeq(s, n + 1, n + 1) \o SubSeq(s, (n + 1) + 1, Len(s)) = SubSeq(s, n + 1, Len(s))
  BY <1>1, ConcatAdjacentSubSeq, Zenon
<1>3. one \in Seq(S) /\ Len(one) = 1 /\ one[1] = e /\ e \in S
  BY <1>1
<1> HIDE DEF one, e
<1>4. single \in Seq(S) /\ Len(single) = 1 /\ single[1] = e
  BY <1>3
<1> HIDE DEF single
<1>5. one = single
  <2>1. \A i \in 1..1 : one[i] = single[i]
    BY <1>3, <1>4
  <2> QED
    BY <1>3, <1>4, <2>1, SeqEqual
<1> QED
  BY <1>1, <1>2, <1>5 DEF one, single, e

\* The parts of a sequence with an element replaced.
LEMMA PartsOfExcept ==
    ASSUME NEW S, NEW s \in Seq(S), NEW i \in 1..Len(s), NEW e \in S,
           NEW j \in i + 1..Len(s) + 1
    PROVE  /\ SubSeq([s EXCEPT ![i] = e], 1, i) = SubSeq(s, 1, i - 1) \o <<e>>
           /\ SubSeq([s EXCEPT ![i] = e], j, Len(s)) = SubSeq(s, j, Len(s))
<1> DEFINE new == [s EXCEPT ![i] = e]
<1>1. /\ new \in Seq(S) /\ Len(new) = Len(s)
      /\ \A k \in 1..Len(s) : new[k] = IF k = i THEN e ELSE s[k]
  BY ExceptSeq
<1> HIDE DEF new
<1>2. SubSeq(new, 1, i) = SubSeq(s, 1, i - 1) \o <<e>>
  <2> DEFINE p == SubSeq(new, 1, i)
             q == SubSeq(s, 1, i - 1) \o <<e>>
  <2>1. p \in Seq(S) /\ Len(p) = i /\ \A k \in 1..i : p[k] = new[k]
    BY <1>1
  <2>2. q \in Seq(S) /\ Len(q) = i /\ \A k \in 1..i : q[k] = IF k = i THEN e ELSE s[k]
    <3> DEFINE r == SubSeq(s, 1, i - 1)
    <3>1. r \in Seq(S) /\ Len(r) = i - 1 /\ \A k \in 1..i - 1 : r[k] = s[k]
      OBVIOUS
    <3> HIDE DEF r
    <3>2. /\ r \o <<e>> \in Seq(S) /\ Len(r \o <<e>>) = i
          /\ \A k \in 1..i : (r \o <<e>>)[k] = IF k = i THEN e ELSE s[k]
      BY <3>1
    <3> QED
      BY <3>2 DEF r
  <2> HIDE DEF p, q
  <2>3. \A k \in 1..i : p[k] = q[k]
    BY <1>1, <2>1, <2>2
  <2>4. p = q
    BY <2>1, <2>2, <2>3, SeqEqual
  <2> QED
    BY <2>4 DEF p, q
<1>3. SubSeq(new, j, Len(s)) = SubSeq(s, j, Len(s))
  <2> DEFINE p == SubSeq(new, j, Len(s))
             q == SubSeq(s, j, Len(s))
  <2>1. /\ p \in Seq(S) /\ Len(p) = Len(s) - j + 1
        /\ \A k \in 1..Len(s) - j + 1 : p[k] = new[j + k - 1]
    BY <1>1
  <2>2. /\ q \in Seq(S) /\ Len(q) = Len(s) - j + 1
        /\ \A k \in 1..Len(s) - j + 1 : q[k] = s[j + k - 1]
    OBVIOUS
  <2> HIDE DEF p, q
  <2>3. ASSUME NEW k \in 1..Len(s) - j + 1 PROVE p[k] = q[k]
    <3>1. j + k - 1 \in 1..Len(s) /\ j + k - 1 # i
      OBVIOUS
    <3> QED
      BY <1>1, <2>1, <2>2, <3>1
  <2>4. p = q
    BY <2>1, <2>2, <2>3, SeqEqual
  <2> QED
    BY <2>4 DEF p, q
<1> QED
  BY <1>2, <1>3 DEF new

\* Typing below the text begins an empty line.
LEMMA RowsUpToText ==
    ASSUME NEW rs \in Seq(GoodRow), NEW at \in 0..Len(rs)
    PROVE  TextOf(RowsUpTo(rs, at)) =
             IF at = Len(TextOf(rs)) THEN Append(TextOf(rs), <<>>) ELSE TextOf(rs)
<1> DEFINE new == NewRow(<<>>)
           s == TextOf(rs)
<1>1. new \in GoodRow /\ new.chars = <<>>
  <2>1. <<>> \in Line
    BY DEF Line
  <2> QED
    BY <2>1, NewRowGood, NewRowText
<1>2. s \in Seq(Line) /\ Len(s) = Len(rs)
  BY TextAt
<1> HIDE DEF new
<1>3. RowsUpTo(rs, at) = rs \o [i \in 1..(at + 1 - Len(rs)) |-> new]
  BY DEF RowsUpTo, new
<1>4. CASE at = Len(rs)
  <2>1. [i \in 1..(at + 1 - Len(rs)) |-> new] = <<new>>
    BY <1>4
  <2>2. <<new>> \in Seq(GoodRow)
    BY <1>1
  <2>3. TextOf(rs \o <<new>>) = s \o TextOf(<<new>>)
    BY <2>2, TextConcat, Zenon
  <2>4. TextOf(<<new>>) = <<<<>>>>
    BY <1>1, TextOne
  <2> HIDE DEF s
  <2>5. <<>> \in Line /\ s \o <<<<>>>> = Append(s, <<>>)
    BY <1>2 DEF Line
  <2> QED
    BY <1>2, <1>3, <1>4, <2>1, <2>3, <2>4, <2>5 DEF s
<1>5. CASE at # Len(rs)
  <2>1. [i \in 1..(at + 1 - Len(rs)) |-> new] = <<>>
    BY <1>5
  <2>2. rs \o <<>> = rs
    BY ConcatEmptySeq
  <2> QED
    BY <1>2, <1>3, <1>5, <2>1, <2>2
<1> QED
  BY <1>4, <1>5

\* The cut row and the new one below are the two parts of the line.
LEMMA RowsSplitText ==
    ASSUME NEW rs \in Seq(GoodRow), NEW at \in 0..Len(rs) - 1,
           NEW col \in 0..rs[at + 1].size
    PROVE  TextOf(RowsSplit(rs, at, col)) =
             SubSeq(TextOf(rs), 1, at) \o Plain!SplitAt(TextOf(rs)[at + 1], col)
                 \o SubSeq(TextOf(rs), at + 2, Len(TextOf(rs)))
<1> DEFINE row == rs[at + 1]
           rest == SubSeq(row.chars, col + 1, row.size)
           more == editorInsertRow(rs, at + 1, rest)
           s == TextOf(rs)
           cut == SubSeq(row.chars, 1, col)
           after == SubSeq(s, at + 2, Len(s))
<1>1. at + 1 \in 1..Len(rs) /\ row \in GoodRow /\ Len(row.chars) = row.size /\ row.chars \in Line
  BY GoodRowChars
<1>2. rest \in Line /\ cut \in Line
  BY <1>1, GoodRowChars DEF Line
<1>3. more \in Seq(GoodRow) /\ Len(more) = Len(rs) + 1 /\ more[at + 1] = row
  BY <1>1, <1>2, InsertRowGood, SplitKeepsRow
<1>4. RowCut(row, col) \in GoodRow /\ RowCut(row, col).chars = cut
  BY <1>1, RowCutGood, RowCutText
<1>5. s \in Seq(Line) /\ Len(s) = Len(rs) /\ s[at + 1] = row.chars
  BY <1>1, TextAt
<1>6. Plain!SplitAt(s[at + 1], col) = <<cut, rest>>
  BY <1>1, <1>5 DEF Plain!SplitAt
<1>7. TextOf(more) = SubSeq(s, 1, at + 1) \o <<rest>> \o SubSeq(s, (at + 1) + 1, Len(s))
  <2>1. at + 1 \in 0..Len(rs)
    BY <1>1
  <2> QED
    BY <1>2, <2>1, InsertRowText, Zenon
<1>8. RowsSplit(rs, at, col) = [more EXCEPT ![at + 1] = RowCut(row, col)]
  BY <1>3 DEF RowsSplit
<1> HIDE DEF more, row, rest, cut, s
<1>9. TextOf(RowsSplit(rs, at, col)) = [TextOf(more) EXCEPT ![at + 1] = cut]
  <2>1. at + 1 \in 1..Len(more)
    BY <1>1, <1>3
  <2>2. TextOf([more EXCEPT ![at + 1] = RowCut(row, col)]) =
          [TextOf(more) EXCEPT ![at + 1] = RowCut(row, col).chars]
    <3>1. more \in Seq(GoodRow) /\ RowCut(row, col) \in GoodRow
      BY <1>3, <1>4
    <3> QED
      BY <2>1, <3>1, TextExcept, Zenon
  <2> QED
    BY <1>4, <1>8, <2>2
<1>10. after \in Seq(Line) /\ SubSeq(s, 1, at + 1) \in Seq(Line) /\ SubSeq(s, 1, at) \in Seq(Line)
  BY <1>1, <1>5
<1>11. TextOf(more) = SubSeq(s, 1, at + 1) \o (<<rest>> \o after)
  <2>1. (at + 1) + 1 = at + 2
    OBVIOUS
  <2>2. <<rest>> \in Seq(Line)
    BY <1>2
  <2>3. (SubSeq(s, 1, at + 1) \o <<rest>>) \o after = SubSeq(s, 1, at + 1) \o (<<rest>> \o after)
    <3> DEFINE y == <<rest>>
               p == SubSeq(s, 1, at + 1)
    <3>1. p \in Seq(Line) /\ y \in Seq(Line) /\ after \in Seq(Line)
      BY <1>10, <2>2
    <3> HIDE DEF y, p, after
    <3>2. (p \o y) \o after = p \o (y \o after)
      BY <3>1, ConcatAssociative, SMTT(30)
    <3> QED
      BY <3>2 DEF y, p
  <2> QED
    BY <1>7, <2>1, <2>3
<1> HIDE DEF after
<1>12. [SubSeq(s, 1, at + 1) \o (<<rest>> \o after) EXCEPT ![at + 1] = cut] =
         SubSeq(s, 1, at) \o <<cut>> \o (<<rest>> \o after)
  <2>1. <<rest>> \in Seq(Line)
    BY <1>2
  <2>2. <<rest>> \o after \in Seq(Line)
    BY <1>10, <2>1, ConcatProperties, Zenon
  <2>3. at \in 0..Len(s) - 1
    BY <1>5
  <2> QED
    <3> DEFINE t == <<rest>> \o after
    <3>1. t \in Seq(Line) /\ s \in Seq(Line) /\ cut \in Line
      BY <1>2, <1>5, <2>2
    <3> HIDE DEF t
    <3>2. [SubSeq(s, 1, at + 1) \o t EXCEPT ![at + 1] = cut] = SubSeq(s, 1, at) \o <<cut>> \o t
      BY <2>3, <3>1, ReplacedLast
    <3> QED
      BY <3>2 DEF t
<1>13. SubSeq(s, 1, at) \o <<cut>> \o (<<rest>> \o after) =
         SubSeq(s, 1, at) \o <<cut, rest>> \o after
  <2> DEFINE p == SubSeq(s, 1, at)
  <2>1. p \in Seq(Line) /\ after \in Seq(Line) /\ cut \in Line /\ rest \in Line
    BY <1>2, <1>10
  <2> HIDE DEF p
  <2>2. (p \o <<cut>>) \o (<<rest>> \o after) = p \o <<cut, rest>> \o after
    BY <2>1, Regrouped, SMTT(30)
  <2> QED
    BY <2>2 DEF p
<1> QED
  BY <1>6, <1>9, <1>11, <1>12, <1>13 DEF s, after

\* The two lines of a join become one.
LEMMA RowsJoinedText ==
    ASSUME NEW rs \in Seq(GoodRow), NEW at \in 1..Len(rs) - 1
    PROVE  TextOf(RowsJoined(rs, at)) =
             SubSeq(TextOf(rs), 1, at - 1) \o <<TextOf(rs)[at] \o TextOf(rs)[at + 1]>>
                 \o SubSeq(TextOf(rs), at + 2, Len(TextOf(rs)))
<1> DEFINE longer == editorRowAppendString(rs[at], rs[at + 1].chars)
           both == [rs EXCEPT ![at] = longer]
           s == TextOf(rs)
           line == s[at] \o s[at + 1]
<1>1. at \in 1..Len(rs) /\ at + 1 \in 1..Len(rs) /\ rs[at] \in GoodRow /\ rs[at + 1] \in GoodRow
  OBVIOUS
<1>2. s \in Seq(Line) /\ Len(s) = Len(rs) /\ s[at] = rs[at].chars /\ s[at + 1] = rs[at + 1].chars
  BY <1>1, TextAt
<1>3. longer \in GoodRow /\ longer.chars = line
  BY <1>1, <1>2, RowAppendStringGood, RowAppendText, GoodRowChars
<1> HIDE DEF longer, line
<1>4. both \in Seq(GoodRow) /\ Len(both) = Len(rs)
  BY <1>1, <1>3, ExceptSeq
<1>5. TextOf(both) = [s EXCEPT ![at] = line]
  BY <1>1, <1>3, TextExcept
<1>6. RowsJoined(rs, at) = editorDelRow(both, at)
  BY DEF RowsJoined, longer
<1> HIDE DEF both
<1>7. editorDelRow(both, at) = SubSeq(both, 1, at) \o SubSeq(both, at + 2, Len(both))
  <2>1. (at + 1) - 1 = at /\ (at + 1) + 1 = at + 2 /\ ~ (at >= Len(both))
    BY <1>4
  <2> QED
    BY <2>1, Zenon DEF RemoveAt, editorDelRow
<1>8. /\ SubSeq(both, 1, at) \in Seq(GoodRow) /\ SubSeq(both, at + 2, Len(both)) \in Seq(GoodRow)
      /\ 1 \in 1..Len(both) + 1 /\ at \in 0..Len(both)
      /\ at + 2 \in 1..Len(both) + 1 /\ Len(both) \in 0..Len(both)
  BY <1>1, <1>4
<1>9. TextOf(RowsJoined(rs, at)) =
        SubSeq(TextOf(both), 1, at) \o SubSeq(TextOf(both), at + 2, Len(both))
  <2>1. TextOf(SubSeq(both, 1, at) \o SubSeq(both, at + 2, Len(both))) =
          TextOf(SubSeq(both, 1, at)) \o TextOf(SubSeq(both, at + 2, Len(both)))
    BY <1>8, TextConcat, Zenon
  <2>2. /\ TextOf(SubSeq(both, 1, at)) = SubSeq(TextOf(both), 1, at)
        /\ TextOf(SubSeq(both, at + 2, Len(both))) = SubSeq(TextOf(both), at + 2, Len(both))
    BY <1>4, <1>8, TextPart, Zenon
  <2> QED
    BY <1>6, <1>7, <2>1, <2>2
<1>10. line \in Line
  BY <1>3, GoodRowChars
<1> HIDE DEF s
<1>11. /\ SubSeq([s EXCEPT ![at] = line], 1, at) = SubSeq(s, 1, at - 1) \o <<line>>
       /\ SubSeq([s EXCEPT ![at] = line], at + 2, Len(s)) = SubSeq(s, at + 2, Len(s))
  <2>1. at \in 1..Len(s) /\ at + 2 \in at + 1..Len(s) + 1
    BY <1>2
  <2> QED
    <3>1. s \in Seq(Line) /\ line \in Line
      BY <1>2, <1>10
    <3> QED
      BY <2>1, <3>1, PartsOfExcept
<1> QED
  BY <1>2, <1>4, <1>5, <1>9, <1>11 DEF s, line

\* The lines of the rows, and the length of each.
LEMMA LinesOfRows ==
    ASSUME Inv
    PROVE  /\ rows \in Seq(GoodRow) /\ TextOf(rows) \in Seq(Line)
           /\ Len(TextOf(rows)) = Len(rows) /\ numrows = Len(rows)
           /\ \A i \in 1..Len(rows) : TextOf(rows)[i] = rows[i].chars
           /\ \A i \in Nat : Len(Plain!LineAt(i)) = RowLen(i)
<1>1. rows \in Seq(GoodRow)
  BY DEF Inv
<1>2. /\ TextOf(rows) \in Seq(Line) /\ Len(TextOf(rows)) = Len(rows)
      /\ \A i \in 1..Len(rows) : TextOf(rows)[i] = rows[i].chars
  BY <1>1, TextAt
<1>3. ASSUME NEW i \in Nat PROVE Len(Plain!LineAt(i)) = RowLen(i)
  <2>1. CASE i < Len(rows)
    <3>1. i + 1 \in 1..Len(rows) /\ rows[i + 1] \in GoodRow
      BY <1>1, <2>1
    <3>2. Plain!LineAt(i) = rows[i + 1].chars
      BY <1>2, <2>1, <3>1 DEF Plain!LineAt
    <3> QED
      BY <2>1, <3>1, <3>2, GoodRowChars DEF RowLen, numrows
  <2>2. CASE ~ (i < Len(rows))
    BY <1>2, <2>2 DEF Plain!LineAt, RowLen, numrows
  <2> QED
    BY <2>1, <2>2
<1> QED
  BY <1>1, <1>2, <1>3 DEF numrows

\* Typing puts a character at the column of the cursor, whether the window scrolls or not.
LEMMA InsertCharPlain ==
    ASSUME Inv, CursorInWindow, NEW c \in Typed, editorInsertChar(c)
    PROVE  Plain!Insert(c)
<1> DEFINE at == filerow
           more == RowsUpTo(rows, at)
           new == editorRowInsertChar(more[at + 1], filecol, c)
           s == TextOf(rows)
           lines == IF at = Len(s) THEN Append(s, <<>>) ELSE s
<1>1. at \in 0..Len(rows) /\ filecol \in Nat /\ at \in Nat /\ rows \in Seq(GoodRow)
  BY ShownCursor DEF Inv
<1>2. c \in Char
  BY EditorAssumption
<1>3. /\ more \in Seq(GoodRow)
      /\ Len(more) = IF at = Len(rows) THEN Len(rows) + 1 ELSE Len(rows)
  BY <1>1, RowsUpToGood
<1>4. TextOf(more) = lines
  BY <1>1, RowsUpToText
<1> HIDE DEF more, lines
<1>5. at + 1 \in 1..Len(more) /\ more[at + 1] \in GoodRow
  BY <1>1, <1>3
<1>6. lines[at + 1] = more[at + 1].chars
  BY <1>3, <1>4, <1>5, TextAt
<1>7. new \in GoodRow /\ new.chars = Plain!Spliced(lines[at + 1], filecol, c)
  BY <1>1, <1>2, <1>5, <1>6, RowInsertCharGood, RowInsertCharText
<1> HIDE DEF new
<1>8. rows' = [more EXCEPT ![at + 1] = new]
  BY DEF editorInsertChar, more, new
<1>9. TextOf(rows') = [lines EXCEPT ![at + 1] = Plain!Spliced(lines[at + 1], filecol, c)]
  <2>1. new \in GoodRow
    BY <1>7
  <2>2. TextOf([more EXCEPT ![at + 1] = new]) = [TextOf(more) EXCEPT ![at + 1] = new.chars]
    BY <1>3, <1>5, <2>1, TextExcept
  <2> QED
    BY <1>4, <1>7, <1>8, <2>2
<1>10. filecol' = filecol + 1 /\ filerow' = filerow
  <2>1. cx \in Int /\ coloff \in Int
    BY DEF Inv
  <2> QED
    BY <2>1 DEF editorInsertChar, filecol, filerow
<1>11. filerow < MaxRows /\ filecol < MaxCols /\ Len(Plain!LineAt(filerow)) < MaxCols
  BY <1>1, LinesOfRows DEF editorInsertChar
<1> QED
  BY <1>9, <1>10, <1>11 DEF Plain!Insert, lines

\* A newline cuts the line at the column of the cursor, or adds one below the text.
LEMMA InsertNewlinePlain ==
    ASSUME Inv, CursorInWindow, editorInsertNewline
    PROVE  Plain!Newline
<1> DEFINE s == TextOf(rows)
           at == IF filerow = numrows \/ filecol >= RowLen(filerow)
                 THEN RowLen(filerow) ELSE filecol
<1>1. /\ rows \in Seq(GoodRow) /\ s \in Seq(Line) /\ Len(s) = Len(rows) /\ numrows = Len(rows)
      /\ \A i \in 1..Len(rows) : s[i] = rows[i].chars
  BY LinesOfRows
<1>2. /\ filerow \in 0..Len(rows) /\ filecol \in Nat
      /\ filerow < numrows => /\ rows[filerow + 1] \in GoodRow
                             /\ rows[filerow + 1].size \in Nat
                             /\ filecol <= rows[filerow + 1].size
      /\ RowLen(filerow) = IF filerow < numrows THEN rows[filerow + 1].size ELSE 0
  BY ShownCursor
<1>3. rows' = IF at = 0 THEN editorInsertRow(rows, filerow, <<>>)
                        ELSE RowsSplit(rows, filerow, at)
  BY DEF editorInsertNewline
<1>4. <<>> \in Line
  BY DEF Line
<1>5. ASSUME filerow = Len(rows) PROVE Plain!NewlineBelow
  <2>1. at = 0
    BY <1>1, <1>2, <1>5
  <2>2. TextOf(rows') = SubSeq(s, 1, filerow) \o <<<<>>>> \o SubSeq(s, filerow + 1, Len(s))
    BY <1>1, <1>2, <1>3, <1>4, <2>1, InsertRowText
  <2>3. filerow = Len(s)
    BY <1>1, <1>5
  <2> HIDE DEF s, at
  <2>4. /\ SubSeq(s, 1, filerow) = s
        /\ SubSeq(s, filerow + 1, Len(s)) = <<>>
    BY <1>1, <2>3
  <2>5. Append(s, <<>>) \in Seq(Line) /\ s \o <<<<>>>> = Append(s, <<>>)
    BY <1>1, <1>4
  <2>6. Append(s, <<>>) \o <<>> = Append(s, <<>>)
    BY <2>5, ConcatEmptySeq
  <2>7. TextOf(rows') = Append(s, <<>>)
    BY <2>2, <2>4, <2>5, <2>6
  <2> QED
    BY <2>3, <2>7 DEF Plain!NewlineBelow, s
<1>6. ASSUME filerow < Len(rows) PROVE Plain!NewlineInText
  <2>1. /\ filerow \in 0..Len(rows) - 1 /\ filerow + 1 \in 1..Len(rows)
        /\ filecol \in 0..rows[filerow + 1].size /\ at = filecol
        /\ s[filerow + 1] = rows[filerow + 1].chars /\ rows[filerow + 1] \in GoodRow
    BY <1>1, <1>2, <1>6
  <2>2. TextOf(rows') = SubSeq(s, 1, filerow) \o Plain!SplitAt(s[filerow + 1], filecol)
                            \o SubSeq(s, filerow + 2, Len(s))
    <3>1. CASE filecol = 0
      <4> DEFINE line == s[filerow + 1]
                 before == SubSeq(s, 1, filerow)
                 after == SubSeq(s, filerow + 2, Len(s))
      <4>1. TextOf(rows') = before \o <<<<>>>> \o SubSeq(s, filerow + 1, Len(s))
        BY <1>1, <1>2, <1>3, <1>4, <2>1, <3>1, InsertRowText
      <4>2. SubSeq(s, filerow + 1, Len(s)) = <<line>> \o after
        BY <1>1, <2>1, FirstOfPart
      <4>3. line \in Line /\ before \in Seq(Line) /\ after \in Seq(Line)
        BY <1>1, <2>1
      <4>4. Plain!SplitAt(line, filecol) = <<<<>>, line>>
        <5>1. line \in Seq(Char)
          BY <4>3 DEF Line
        <5>2. SubSeq(line, 1, 0) = <<>> /\ SubSeq(line, 0 + 1, Len(line)) = line
          BY <5>1
        <5> QED
          BY <3>1, <5>2 DEF Plain!SplitAt
      <4> HIDE DEF line, before, after, s
      <4>5. (before \o <<<<>>>>) \o (<<line>> \o after) = before \o <<<<>>, line>> \o after
        BY <1>4, <4>3, Regrouped, SMTT(30)
      <4> QED
        BY <4>1, <4>2, <4>4, <4>5 DEF line, before, after
    <3>2. CASE filecol # 0
      <4>1. rows' = RowsSplit(rows, filerow, filecol)
        BY <1>3, <2>1, <3>2
      <4>2. TextOf(RowsSplit(rows, filerow, filecol)) =
              SubSeq(s, 1, filerow) \o Plain!SplitAt(s[filerow + 1], filecol)
                  \o SubSeq(s, filerow + 2, Len(s))
        BY <1>1, <2>1, RowsSplitText
      <4> QED
        BY <4>1, <4>2
    <3> QED
      BY <3>1, <3>2
  <2>3. filerow < Len(s)
    BY <1>1, <1>6
  <2> QED
    BY <2>2, <2>3 DEF Plain!NewlineInText
<1>7. Plain!NewlineBelow \/ Plain!NewlineInText
  <2>1. filerow = Len(rows) \/ filerow < Len(rows)
    BY <1>2
  <2> QED
    BY <1>5, <1>6, <2>1
<1>8. Len(s) < MaxRows /\ filerow' = filerow + 1 /\ filecol' = 0
  <2>1. cy \in Int /\ rowoff \in Int
    BY DEF Inv
  <2> QED
    BY <1>1, <2>1 DEF editorInsertNewline, filerow, filecol
<1> QED
  BY <1>7, <1>8 DEF Plain!Newline

\* A join appends the line to the one above, and the cursor stays between the two.
LEMMA DelCharJoinPlain ==
    ASSUME Inv, CursorInWindow, DelCharJoin
    PROVE  Plain!Join
<1> DEFINE s == TextOf(rows)
           end == RowLen(filerow - 1)
<1>1. /\ rows \in Seq(GoodRow) /\ s \in Seq(Line) /\ Len(s) = Len(rows) /\ numrows = Len(rows)
      /\ \A i \in 1..Len(rows) : s[i] = rows[i].chars
      /\ \A i \in Nat : Len(Plain!LineAt(i)) = RowLen(i)
  BY LinesOfRows
<1>2. filerow \in 1..Len(rows) - 1 /\ filecol = 0
  BY ShownCursor, SMTT(30) DEF DelCharJoin
<1>3. rows' = RowsJoined(rows, filerow)
  BY DEF DelCharJoin
<1>4. TextOf(rows') = SubSeq(s, 1, filerow - 1) \o <<s[filerow] \o s[filerow + 1]>>
                          \o SubSeq(s, filerow + 2, Len(s))
  BY <1>1, <1>2, <1>3, RowsJoinedText
<1>5. end = Len(s[filerow]) /\ end \in Nat
  <2>1. filerow \in 1..Len(rows) /\ rows[filerow] \in GoodRow
    BY <1>1, <1>2, SMTT(30)
  <2>2. end = rows[filerow].size
    BY <1>1, <1>2 DEF RowLen
  <2> QED
    BY <1>1, <2>1, <2>2, GoodRowChars
<1>6. Len(Plain!LineAt(filerow - 1)) + Len(Plain!LineAt(filerow)) <= MaxCols
  <2>1. end + RowLen(filerow) <= MaxCols
    BY DEF DelCharJoin
  <2>2. filerow - 1 \in Nat /\ filerow \in Nat
    BY <1>2
  <2> QED
    BY <1>1, <2>1, <2>2
<1>7. filerow' = filerow - 1
  <2>1. cy \in Int /\ rowoff \in Int
    BY DEF Inv
  <2> QED
    BY <2>1 DEF DelCharJoin, filerow
<1>8. filecol' = end
  <2>1. cx' = end - JoinShift(end) /\ coloff' = coloff + JoinShift(end)
    BY DEF DelCharJoin
  <2>2. coloff = 0
    BY <1>2, ShownCursor DEF filecol
  <2>3. JoinShift(end) \in Int
    BY <1>5, ScreenSize DEF JoinShift
  <2> QED
    BY <1>5, <2>1, <2>2, <2>3 DEF filecol
<1>9. filerow < Len(s) /\ filerow > 0
  BY <1>1, <1>2
<1> QED
  BY <1>2, <1>4, <1>5, <1>6, <1>7, <1>8, <1>9 DEF Plain!Join

\* Deleting takes away the character left of the cursor.
LEMMA DelCharInRowPlain ==
    ASSUME Inv, CursorInWindow, DelCharInRow
    PROVE  Plain!Delete
<1> DEFINE s == TextOf(rows)
           row == rows[filerow + 1]
           line == s[filerow + 1]
           new == editorUpdateSyntax(editorRowDelChar(row, filecol - 1))
           less == SubSeq(line, 1, filecol - 1) \o SubSeq(line, filecol + 1, Len(line))
<1>1. /\ rows \in Seq(GoodRow) /\ s \in Seq(Line) /\ Len(s) = Len(rows) /\ numrows = Len(rows)
      /\ \A i \in 1..Len(rows) : s[i] = rows[i].chars
  BY LinesOfRows
<1>2. /\ filerow + 1 \in 1..Len(rows) /\ filerow < Len(rows)
      /\ filecol \in Nat /\ filecol > 0 /\ filecol <= row.size
      /\ row \in GoodRow /\ row.size \in Nat
  BY ShownCursor DEF DelCharInRow
<1>3. filecol - 1 \in 0..row.size - 1 /\ filecol - 1 \in Nat /\ (filecol - 1) + 2 = filecol + 1
  BY <1>2
<1>4. line = row.chars
  BY <1>1, <1>2
<1>5. new \in GoodRow /\ new.chars = less
  <2>1. new \in GoodRow
    BY <1>2, <1>3, RowDelCharGood
  <2>2. new.chars = SubSeq(row.chars, 1, filecol - 1)
                      \o SubSeq(row.chars, (filecol - 1) + 2, Len(row.chars))
    BY <1>2, <1>3, RowDelCharText
  <2> QED
    BY <1>3, <1>4, <2>1, <2>2
<1>6. rows' = [rows EXCEPT ![filerow + 1] = new]
  BY DEF DelCharInRow
<1> HIDE DEF new, less
<1>7. TextOf(rows') = [s EXCEPT ![filerow + 1] = less]
  <2>1. rows \in Seq(GoodRow) /\ filerow + 1 \in 1..Len(rows) /\ new \in GoodRow
    BY <1>1, <1>2, <1>5
  <2>2. TextOf([rows EXCEPT ![filerow + 1] = new]) =
          [TextOf(rows) EXCEPT ![filerow + 1] = new.chars]
    BY <2>1, TextExcept, ZenonT(30)
  <2> QED
    BY <1>5, <1>6, <2>2
<1>8. filecol' = filecol - 1 /\ filerow' = filerow
  <2>1. cx \in Int /\ coloff \in Int
    BY DEF Inv
  <2> QED
    BY <2>1 DEF DelCharInRow, filecol, filerow
<1> QED
  BY <1>1, <1>2, <1>7, <1>8 DEF Plain!Delete, less

\* However the window scrolls, a move goes to a row and a column, or to the end of the row.
LEMMA PutCursorPlain ==
    ASSUME Inv, NEW x \in Nat, NEW y \in Nat, NEW ro \in Nat, NEW co \in Nat,
           PutCursor(x, y, ro, co)
    PROVE  Plain!Goto(ro + y, co + x)
<1> DEFINE len == RowLen(ro + y)
<1>1. ro + y \in Nat
  OBVIOUS
<1>2. len \in Nat /\ Len(Plain!LineAt(ro + y)) = len
  BY <1>1, RowLenNat, LinesOfRows
<1> HIDE DEF len
<1>3. /\ cx' = IF (co + x) - len <= 0 THEN x
              ELSE IF x < (co + x) - len THEN 0 ELSE x - ((co + x) - len)
      /\ coloff' = IF (co + x) - len > 0 /\ x < (co + x) - len
                   THEN co + (x - ((co + x) - len)) ELSE co
      /\ cy' = y /\ rowoff' = ro /\ rows' = rows
  BY DEF PutCursor, len
<1>4. coloff' + cx' = IF co + x > len THEN len ELSE co + x
  BY <1>2, <1>3
<1> QED
  BY <1>2, <1>3, <1>4 DEF Plain!Goto, filerow, filecol

\* The arrows.
LEMMA MovePlain ==
    ASSUME Inv, CursorInWindow, Move
    PROVE  Plain!Left \/ Plain!Right \/ Plain!Up \/ Plain!Down \/ Plain!Stay
<1>1. /\ cx \in Nat /\ cy \in Nat /\ rowoff \in Nat /\ coloff \in Nat
      /\ filerow = rowoff + cy /\ filecol = coloff + cx /\ numrows = Len(TextOf(rows))
      /\ filerow \in Nat /\ Len(Plain!LineAt(filerow)) = RowLen(filerow)
      /\ ScreenCols \in Nat /\ ScreenRows \in Nat /\ ScreenCols >= 1 /\ ScreenRows >= 1
  BY ShownCursor, ScreenSize, LinesOfRows, SMTT(30) DEF filerow, filecol
<1>2. CASE MoveLeft
  <2>1. PICK x \in Nat, co \in Nat : PutCursor(x, cy, rowoff, co) /\ co + x = filecol - 1
    BY <1>1, <1>2 DEF MoveLeft
  <2>2. filecol > 0
    BY <1>1, <2>1
  <2>3. Plain!Goto(rowoff + cy, co + x)
    BY <1>1, <2>1, PutCursorPlain
  <2> QED
    BY <1>1, <2>1, <2>2, <2>3 DEF Plain!Left
<1>3. CASE MoveRight
  <2>1. PICK x \in Nat, co \in Nat : PutCursor(x, cy, rowoff, co) /\ co + x = filecol + 1
    BY <1>1, <1>3 DEF MoveRight
  <2>2. filerow < Len(TextOf(rows)) /\ filecol < Len(Plain!LineAt(filerow))
    BY <1>1, <1>3 DEF MoveRight
  <2>3. Plain!Goto(rowoff + cy, co + x)
    BY <1>1, <2>1, PutCursorPlain
  <2> QED
    BY <1>1, <2>1, <2>2, <2>3 DEF Plain!Right
<1>4. CASE MoveUp
  <2>1. PICK y \in Nat, ro \in Nat : PutCursor(cx, y, ro, coloff) /\ ro + y = filerow - 1
    BY <1>1, <1>4 DEF MoveUp
  <2>2. filerow > 0
    BY <1>1, <2>1
  <2>3. Plain!Goto(ro + y, coloff + cx)
    BY <1>1, <2>1, PutCursorPlain
  <2> QED
    BY <1>1, <2>1, <2>2, <2>3 DEF Plain!Up
<1>5. CASE MoveDown
  <2>1. PICK y \in Nat, ro \in Nat : PutCursor(cx, y, ro, coloff) /\ ro + y = filerow + 1
    BY <1>1, <1>5 DEF MoveDown
  <2>2. filerow < Len(TextOf(rows))
    BY <1>1, <1>5 DEF MoveDown
  <2>3. Plain!Goto(ro + y, coloff + cx)
    BY <1>1, <2>1, PutCursorPlain
  <2> QED
    BY <1>1, <2>1, <2>2, <2>3 DEF Plain!Down
<1>6. CASE MoveNowhere
  <2>1. PutCursor(cx, cy, rowoff, coloff)
    BY <1>6 DEF MoveNowhere
  <2>2. Plain!Goto(rowoff + cy, coloff + cx)
    BY <1>1, <2>1, PutCursorPlain
  <2> QED
    BY <1>1, <2>2 DEF Plain!Stay
<1> QED
  BY <1>2, <1>3, <1>4, <1>5, <1>6 DEF Move

\* What the next state shows of the cursor.
LEMMA ShownAgain ==
    ASSUME Inv', CursorInWindow'
    PROVE  /\ filerow' \in 0..numrows' /\ filecol' \in Nat /\ numrows' = Len(rows')
           /\ filerow' < numrows' => filecol' <= rows'[filerow' + 1].size
<1>1. /\ cx' \in Nat /\ cy' \in Nat /\ rowoff' \in Nat /\ coloff' \in Nat
      /\ filerow' = rowoff' + cy' /\ filecol' = coloff' + cx' /\ numrows' = Len(rows')
      /\ filerow' <= numrows' /\ rows' \in Seq(GoodRow)
  BY DEF Inv, CursorInWindow, filerow, filecol, numrows
<1>2. filerow' < numrows' => filecol' <= RowLen(filerow)'
  BY DEF CursorInWindow
<1>3. filerow' < numrows' => RowLen(filerow)' = rows'[filerow' + 1].size
  BY DEF RowLen
<1>4. filerow' \in Nat /\ filecol' \in Nat /\ numrows' \in Nat
  <2> \A m, n \in Nat : m + n \in Nat
    OBVIOUS
  <2>1. filerow' \in Nat
    BY <1>1, Zenon
  <2>2. filecol' \in Nat
    BY <1>1, Zenon
  <2>3. numrows' \in Nat
    BY <1>1
  <2> QED
    BY <2>1, <2>2, <2>3
<1>5. filerow' \in 0..numrows'
  <2>1. \A m, n \in Nat : m <= n => m \in 0..n
    OBVIOUS
  <2> QED
    BY <1>1, <1>4, <2>1, Zenon
<1> QED
  BY <1>1, <1>2, <1>3, <1>4, <1>5

\* A click that leaves the cursor in the window puts it in a row.
LEMMA ClickTextPlain ==
    ASSUME Inv, Inv', CursorInWindow, CursorInWindow', NEW click \in Clicks,
           ClickText(click[1], click[2], click[3])
    PROVE  Plain!Place
<1>1. /\ rows' = rows /\ numrows = Len(rows) /\ Len(TextOf(rows)) = Len(rows)
      /\ rows \in Seq(GoodRow)
      /\ \A i \in 1..Len(rows) : TextOf(rows)[i] = rows[i].chars
  BY LinesOfRows DEF ClickText
<1>2. /\ filerow' \in 0..numrows' /\ filecol' \in Nat /\ numrows' = Len(rows')
      /\ filerow' < numrows' => filecol' <= rows'[filerow' + 1].size
  BY ShownAgain
<1>3. filerow' \in 0..Len(TextOf(rows))
  BY <1>1, <1>2
<1>4. filerow' < Len(TextOf(rows)) => filecol' <= Len(TextOf(rows)[filerow' + 1])
  <2> SUFFICES ASSUME filerow' < Len(TextOf(rows))
               PROVE  filecol' <= Len(TextOf(rows)[filerow' + 1])
    OBVIOUS
  <2>1. PICK r \in 1..Len(rows) : r = filerow' + 1
    <3>1. PICK k \in 0..Len(rows) : k = filerow'
      BY <1>1, <1>3
    <3>2. k < Len(rows)
      BY <1>1, <3>1
    <3>3. k + 1 \in 1..Len(rows)
      BY <3>2
    <3> QED
      BY <3>1, <3>3
  <2>2. rows[r] \in GoodRow
    BY <1>1
  <2>3. Len(TextOf(rows)[r]) = rows[r].size
    BY <1>1, <2>2, GoodRowChars
  <2> QED
    BY <1>1, <1>2, <2>1, <2>3
<1> QED
  BY <1>1, <1>2, <1>3, <1>4 DEF Plain!Place

\* A step between two states that show the cursor is a step of the editor without a window.
LEMMA StepPlain ==
    ASSUME Inv, Inv', CursorInWindow, CursorInWindow', Next
    PROVE  Plain!Next \/ UNCHANGED Plain!editor
<1>1. ASSUME NEW c \in Typed, editorInsertChar(c) PROVE Plain!Next
  <2>1. c \in Char
    BY EditorAssumption
  <2> QED
    BY <1>1, <2>1, InsertCharPlain DEF Plain!Next
<1>2. CASE editorInsertNewline
  BY <1>2, InsertNewlinePlain DEF Plain!Next
<1>3. CASE editorDelChar
  BY <1>3, DelCharJoinPlain, DelCharInRowPlain DEF editorDelChar, Plain!Next
<1>4. CASE Move
  BY <1>4, MovePlain DEF Plain!Next
<1>5. ASSUME NEW click \in Clicks, editorMouseClicked(click[1], click[2], click[3])
      PROVE  Plain!Next \/ UNCHANGED Plain!editor
  <2>1. CASE ClickPowerOff(click[1], click[2], click[3])
    BY <2>1 DEF ClickPowerOff, Plain!editor, filerow, filecol
  <2>2. CASE ClickSave(click[1], click[2], click[3])
    BY <2>2 DEF ClickSave, editorSave, Plain!editor, filerow, filecol
  <2>3. CASE ClickText(click[1], click[2], click[3])
    BY <2>3, ClickTextPlain DEF Plain!Next
  <2> QED
    BY <1>5, <2>1, <2>2, <2>3 DEF editorMouseClicked
<1>6. CASE editorClearError \/ \E line \in ErrLines : editorSetError(line)
  <2>1. TextOf(rows') = TextOf(rows)
    BY <1>6, ErrorKeepsText
  <2>2. UNCHANGED <<cx, cy, rowoff, coloff>>
    BY <1>6 DEF editorClearError, editorSetError
  <2> QED
    BY <2>1, <2>2 DEF Plain!editor, filerow, filecol
<1>7. CASE OutOfRow
  <2>1. Fault
    BY <1>7 DEF OutOfRow, EditOutOfRow, DrawOutOfRow, SetErrorOutOfRows
  <2> QED
    BY <2>1 DEF Fault, Plain!editor, filerow, filecol
<1> QED
  BY <1>1, <1>2, <1>3, <1>4, <1>5, <1>6, <1>7 DEF Next

\* An editor that has just opened a file shows the cursor at the beginning of the text.
LEMMA InitPlain == Init => Plain!Init /\ CursorInWindow
<1> SUFFICES ASSUME Init PROVE Plain!Init /\ CursorInWindow
  OBVIOUS
<1>1. Inv
  BY InitInv
<1>2. cx = 0 /\ cy = 0 /\ rowoff = 0 /\ coloff = 0
  BY DEF Init
<1>3. filerow = 0 /\ filecol = 0
  BY <1>2 DEF filerow, filecol
<1>4. RowLen(filerow) \in Nat
  BY <1>1, <1>3, RowLenNat
<1> QED
  BY <1>1, <1>2, <1>3, <1>4, LinesOfRows, ScreenSize DEF Plain!Init, CursorInWindow

\* The steps that keep the cursor in the window keep the invariant.
LEMMA ShownInvariant ==
    Inv /\ CursorInWindow /\ [Next /\ CursorInWindow']_vars => Inv' /\ CursorInWindow'
<1>1. UNCHANGED vars /\ CursorInWindow => CursorInWindow'
  BY DEF vars, CursorInWindow, filerow, filecol, numrows, RowLen
<1> QED
  BY <1>1, NextInv

\* Scrolling, padding, splitting and joining in the window are what they mean for the text:
\* as long as the window shows the cursor, the editor is the one without a window.
THEOREM TextEditorIsImplemented == InWindowSpec => ImplementsTextEditor
<1>1. Init => Inv /\ CursorInWindow /\ Plain!Init
  BY InitInv, InitPlain
<1>2. Inv /\ CursorInWindow /\ [Next /\ CursorInWindow']_vars => Inv' /\ CursorInWindow'
  BY ShownInvariant
<1>3. Inv /\ Inv' /\ CursorInWindow /\ CursorInWindow' /\ [Next /\ CursorInWindow']_vars
        => [Plain!Next]_(Plain!editor)
  <2> SUFFICES ASSUME Inv, Inv', CursorInWindow, CursorInWindow', Next \/ UNCHANGED vars
               PROVE  Plain!Next \/ UNCHANGED Plain!editor
    OBVIOUS
  <2>1. UNCHANGED vars => UNCHANGED Plain!editor
    BY DEF vars, Plain!editor, filerow, filecol
  <2> QED
    BY <2>1, StepPlain
<1> QED
  BY <1>1, <1>2, <1>3, PTL DEF InWindowSpec, ImplementsTextEditor, Plain!Spec

-----------------------------------------------------------------------------
(* The bytes before and after the cursor.                                  *)

\* Two adjacent parts of a sequence make it.
LEMMA PartsJoined ==
    ASSUME NEW S, NEW s \in Seq(S), NEW n \in 0..Len(s)
    PROVE  SubSeq(s, 1, n) \o SubSeq(s, n + 1, Len(s)) = s
<1>1. 1 \in 1..Len(s) + 1 /\ n \in 1 - 1..Len(s) /\ Len(s) \in n..Len(s)
  OBVIOUS
<1>2. SubSeq(s, 1, n) \o SubSeq(s, n + 1, Len(s)) = SubSeq(s, 1, Len(s))
  BY <1>1, ConcatAdjacentSubSeq, ZenonT(30)
<1> QED
  BY <1>2, SubSeqFull

\* A sequence with one element replaced is what is before it, the new one and what is
\* after it.
LEMMA ElementReplaced ==
    ASSUME NEW S, NEW s \in Seq(S), NEW n \in 0..Len(s) - 1, NEW e \in S
    PROVE  [s EXCEPT ![n + 1] = e] = SubSeq(s, 1, n) \o <<e>> \o SubSeq(s, n + 2, Len(s))
<1> DEFINE new == [s EXCEPT ![n + 1] = e]
<1>1. n + 1 \in 1..Len(s) /\ n + 2 \in (n + 1) + 1..Len(s) + 1 /\ (n + 1) - 1 = n
  OBVIOUS
<1>2. new \in Seq(S) /\ Len(new) = Len(s)
  BY <1>1, ExceptSeq
<1>3. /\ SubSeq(new, 1, n + 1) = SubSeq(s, 1, n) \o <<e>>
      /\ SubSeq(new, n + 2, Len(s)) = SubSeq(s, n + 2, Len(s))
  <2>1. /\ SubSeq(new, 1, n + 1) = SubSeq(s, 1, (n + 1) - 1) \o <<e>>
        /\ SubSeq(new, n + 2, Len(s)) = SubSeq(s, n + 2, Len(s))
    BY <1>1, PartsOfExcept, SMTT(30)
  <2> QED
    BY <1>1, <2>1
<1> HIDE DEF new
<1>4. PICK m \in 0..Len(new) : m = n + 1 /\ m + 1 = n + 2
  BY <1>2
<1>5. SubSeq(new, 1, m) \o SubSeq(new, m + 1, Len(new)) = new
  BY <1>2, PartsJoined, ZenonT(30)
<1> QED
  BY <1>2, <1>3, <1>4, <1>5 DEF new

\* A text cut in the column k of its row r.
CutOf(s, r, k, p, x, y, q) ==
    /\ s = p \o <<x \o y>> \o q /\ Len(p) = r /\ Len(x) = k /\ s[r + 1] = x \o y
    /\ p = SubSeq(s, 1, r) /\ q = SubSeq(s, r + 2, Len(s))
    /\ x = SubSeq(s[r + 1], 1, k) /\ y = SubSeq(s[r + 1], k + 1, Len(s[r + 1]))

\* A text can be cut wherever it has a column.
LEMMA CutAt ==
    ASSUME NEW s \in Seq(Line), NEW r \in 0..Len(s) - 1, NEW k \in 0..Len(s[r + 1])
    PROVE  \E p \in Seq(Line), x \in Line, y \in Line, q \in Seq(Line) :
             CutOf(s, r, k, p, x, y, q)
<1> DEFINE line == s[r + 1]
           p == SubSeq(s, 1, r)
           q == SubSeq(s, r + 2, Len(s))
           x == SubSeq(line, 1, k)
           y == SubSeq(line, k + 1, Len(line))
<1>1. line \in Line /\ line \in Seq(Char) /\ r + 1 \in 1..Len(s)
  BY DEF Line
<1>2. [s EXCEPT ![r + 1] = line] = s
  <2> DEFINE t == [s EXCEPT ![r + 1] = line]
  <2>1. /\ t \in Seq(Line) /\ Len(t) = Len(s)
        /\ \A i \in 1..Len(s) : t[i] = IF i = r + 1 THEN line ELSE s[i]
    BY <1>1, ExceptSeq
  <2> HIDE DEF t
  <2>2. \A i \in 1..Len(s) : t[i] = s[i]
    BY <2>1
  <2>3. t = s
    BY <2>1, <2>2, SeqEqual
  <2> QED
    BY <2>3 DEF t
<1>3. s = p \o <<line>> \o q
  <2>1. \A e \in Line : [s EXCEPT ![r + 1] = e] =
                           SubSeq(s, 1, r) \o <<e>> \o SubSeq(s, r + 2, Len(s))
    BY ElementReplaced, ZenonT(30)
  <2> HIDE DEF line
  <2> QED
    BY <1>1, <1>2, <2>1
<1>4. x \o y = line
  <2> HIDE DEF line
  <2>1. line \in Seq(Char) /\ k \in 0..Len(line)
    BY <1>1 DEF line
  <2>2. SubSeq(line, 1, k) \o SubSeq(line, k + 1, Len(line)) = line
    BY <2>1, PartsJoined, ZenonT(30)
  <2> QED
    BY <2>2
<1>5. p \in Seq(Line) /\ Len(p) = r /\ q \in Seq(Line)
  OBVIOUS
<1>6. x \in Line /\ Len(x) = k /\ y \in Line
  <2> HIDE DEF line
  <2>1. line \in Seq(Char) /\ k \in 0..Len(line)
    BY <1>1 DEF line
  <2> QED
    BY <2>1 DEF Line
<1> HIDE DEF p, q, x, y
<1>7. s = p \o <<x \o y>> \o q
  BY <1>3, <1>4
<1>8. /\ p = SubSeq(s, 1, r) /\ q = SubSeq(s, r + 2, Len(s))
      /\ x = SubSeq(s[r + 1], 1, k) /\ y = SubSeq(s[r + 1], k + 1, Len(s[r + 1]))
  BY DEF p, q, x, y
<1>9. CutOf(s, r, k, p, x, y, q)
  BY <1>4, <1>5, <1>6, <1>7, <1>8 DEF CutOf
<1> QED
  BY <1>5, <1>6, <1>9, ZenonT(30)

\* The bytes before the cursor and those after it, as Text sees them.
LineIn(s, r) == IF r < Len(s) THEN s[r + 1] ELSE <<>>

InLine(line, k) == IF k > Len(line) THEN Len(line) ELSE k

BytesBefore(s, r, k) ==
    editorRowsToString(SubSeq(s, 1, r)) \o SubSeq(LineIn(s, r), 1, InLine(LineIn(s, r), k))

BytesAfter(s, r, k) ==
    SubSeq(editorRowsToString(s),
           Len(editorRowsToString(SubSeq(s, 1, r))) + 1 + InLine(LineIn(s, r), k),
           Len(editorRowsToString(s)))

\* The point between the two parts of a line.
PointBetween(s, p, x, y, q) ==
    /\ BytesBefore(s, Len(p), Len(x)) = editorRowsToString(p) \o x
    /\ BytesAfter(s, Len(p), Len(x)) = (y \o <<NL>>) \o editorRowsToString(q)
    /\ editorRowsToString(s) = BytesBefore(s, Len(p), Len(x)) \o BytesAfter(s, Len(p), Len(x))

\* Where a line is cut, the point is between its parts.
LEMMA PointInLine ==
    ASSUME NEW p \in Seq(Line), NEW q \in Seq(Line), NEW x \in Line, NEW y \in Line,
           NEW s, s = p \o <<x \o y>> \o q
    PROVE  PointBetween(s, p, x, y, q)
<1> DEFINE P == editorRowsToString(p)
           Q == editorRowsToString(q)
           xy == x \o y
           one == <<xy>>
           all == editorRowsToString(s)
           nl == <<NL>>
           b == P \o x
           a == (y \o nl) \o Q
<1>1. /\ s \in Seq(Line) /\ Len(p) \in Nat /\ Len(p) < Len(s)
      /\ s[Len(p) + 1] = xy /\ SubSeq(s, 1, Len(p)) = p
      /\ SubSeq(xy, 1, Len(x)) = x /\ Len(x) \in Nat /\ Len(x) <= Len(xy)
  <2>1. IsCut(s, p, x, y, q)
    BY LineCut, ZenonT(30)
  <2> QED
    BY <2>1 DEF IsCut
<1>2. xy \in Line
  BY ConcatProperties, ZenonT(30) DEF Line
<1>3. P \in Bytes /\ Q \in Bytes /\ x \in Bytes /\ y \in Bytes /\ nl \in Bytes
  BY WrittenBytes, BytesJoined, ZenonT(30)
<1>4. LineIn(s, Len(p)) = xy
  BY <1>1 DEF LineIn
<1>5. InLine(xy, Len(x)) = Len(x)
  <2> HIDE DEF xy
  <2> QED
    BY <1>1 DEF InLine
<1>6. BytesBefore(s, Len(p), Len(x)) = b
  <2> HIDE DEF xy
  <2> QED
    BY <1>1, <1>4, <1>5, ZenonT(30) DEF BytesBefore
<1>7. all = (P \o (xy \o nl)) \o Q
  <2> HIDE DEF xy
  <2>1. one \in Seq(Line)
    BY <1>2
  <2>2. p \o one \in Seq(Line)
    BY <2>1, ConcatProperties, ZenonT(30)
  <2>3. editorRowsToString(one) = xy \o nl
    BY <1>2, WrittenOne, ZenonT(30)
  <2> HIDE DEF one, nl
  <2>4. editorRowsToString(p \o one) = P \o editorRowsToString(one)
    BY <2>1, WrittenConcat, ZenonT(30)
  <2> DEFINE po == p \o one
  <2> HIDE DEF po
  <2>5. editorRowsToString(po \o q) = editorRowsToString(po) \o Q
    <3>1. po \in Seq(Line)
      BY <2>2 DEF po
    <3> QED
      BY <3>1, WrittenConcat, ZenonT(30)
  <2>6. s = po \o q
    BY DEF po, one, xy
  <2> QED
    BY <2>3, <2>4, <2>5, <2>6 DEF po
<1> HIDE DEF P, Q, nl
<1>8. all = b \o a
  <2>1. (P \o ((x \o y) \o nl)) \o Q = (P \o x) \o ((y \o nl) \o Q)
    <3> DEFINE yn == y \o nl
               px == P \o x
    <3>1. yn \in Bytes /\ px \in Bytes
      BY <1>3, BytesJoined, ZenonT(30)
    <3>2. (x \o y) \o nl = x \o yn
      BY <1>3, BytesGrouped, SMTT(30)
    <3> HIDE DEF yn
    <3>3. P \o (x \o yn) = px \o yn
      BY <1>3, <3>1, BytesGrouped, SMTT(30)
    <3> HIDE DEF px
    <3>4. (px \o yn) \o Q = px \o (yn \o Q)
      BY <1>3, <3>1, BytesGrouped, SMTT(30)
    <3> QED
      BY <3>2, <3>3, <3>4, ZenonT(30) DEF yn, px
  <2> QED
    BY <1>7, <2>1
<1>9. b \in Bytes /\ a \in Bytes
  BY <1>3, BytesJoined, ZenonT(30)
<1>10. Len(b) = Len(P) + Len(x) /\ Len(P) \in Nat
  BY <1>3 DEF Bytes
<1> HIDE DEF all, a, b
<1>11. SubSeq(all, Len(b) + 1, Len(all)) = a
  <2>1. SubSeq(b \o a, Len(b) + 1, Len(b \o a)) = a
    BY <1>9, CutConcat, SMTT(30) DEF Bytes
  <2> QED
    BY <1>8, <2>1
<1>12. Len(P) + 1 + Len(x) = Len(b) + 1
  BY <1>1, <1>10
<1>13. BytesAfter(s, Len(p), Len(x)) = SubSeq(all, Len(P) + 1 + Len(x), Len(all))
  <2> HIDE DEF xy
  <2> QED
    BY <1>1, <1>4, <1>5, ZenonT(30) DEF BytesAfter, P, all
<1>14. BytesAfter(s, Len(p), Len(x)) = a
  BY <1>11, <1>12, <1>13
<1> QED
  BY <1>6, <1>8, <1>14 DEF a, b, all, P, Q, nl, PointBetween

\* The point below the text.
LEMMA PointBelow ==
    ASSUME NEW s \in Seq(Line), NEW k \in Nat
    PROVE  /\ BytesBefore(s, Len(s), k) = editorRowsToString(s)
           /\ BytesAfter(s, Len(s), k) = <<>>
<1> DEFINE all == editorRowsToString(s)
           none == <<>>
<1>1. all \in Bytes /\ all \in Seq(Char \cup {NL}) /\ Len(s) \in Nat /\ Len(all) \in Nat
  BY WrittenBytes DEF Bytes
<1>2. SubSeq(s, 1, Len(s)) = s
  BY SubSeqFull
<1>3. LineIn(s, Len(s)) = none
  BY DEF LineIn
<1>4. InLine(none, k) = 0
  BY DEF InLine
<1>5. SubSeq(none, 1, 0) = none
  BY SubSeqEmpty
<1> HIDE DEF none
<1>6. BytesBefore(s, Len(s), k) = all \o none
  BY <1>2, <1>3, <1>4, <1>5, ZenonT(30) DEF BytesBefore
<1>7. all \o none = all
  BY <1>1, ConcatEmptySeq DEF none
<1>8. BytesAfter(s, Len(s), k) = SubSeq(all, Len(all) + 1 + 0, Len(all))
  BY <1>2, <1>3, <1>4, ZenonT(30) DEF BytesAfter
<1> HIDE DEF all
<1>9. SubSeq(all, Len(all) + 1 + 0, Len(all)) = <<>>
  BY <1>1, SubSeqEmpty
<1> QED
  BY <1>6, <1>7, <1>8, <1>9 DEF all

\* A cursor on the text: in a line or at its end, or below all lines.
OnText(s, r, k) ==
    /\ s \in Seq(Line) /\ r \in 0..Len(s) /\ k \in Nat
    /\ r < Len(s) => k <= Len(s[r + 1])

\* One step of Text, from some bytes before and after the point to others.
TypesChar(b, a, d, e) ==
    \E c \in Char :
        \/ a # <<>> /\ d = b \o <<c>> /\ e = a
        \/ /\ a = <<>> /\ e = <<NL>>
           /\ \E n \in 0..MaxCols : d = b \o [i \in 1..n |-> Space] \o <<c>>

TypesNewline(b, a, d, e) == d = b \o <<NL>> /\ e = a

TakesByte(b, a, d, e) == b # <<>> /\ d = SubSeq(b, 1, Len(b) - 1) /\ e = a

\* The last byte taken off.
LEMMA LastTaken ==
    ASSUME NEW b \in Bytes, NEW e \in Char \cup {NL}, NEW a
    PROVE  TakesByte(b \o <<e>>, a, b, a)
<1> DEFINE one == <<e>>
           be == b \o one
<1>1. one \in Bytes /\ Len(one) = 1
  BY DEF Bytes
<1> HIDE DEF one
<1>2. be \in Bytes /\ Len(be) = Len(b) + 1 /\ Len(b) \in Nat
  BY <1>1, BytesJoined, BytesLen
<1>3. SubSeq(be, 1, Len(b)) = b
  BY <1>1, CutConcat, SMTT(30) DEF Bytes
<1> HIDE DEF be
<1>4. be # <<>> /\ Len(be) - 1 = Len(b)
  <2>1. Len(be) # 0
    BY <1>2
  <2> QED
    BY <1>2, <2>1, EmptySeq DEF Bytes
<1>5. TakesByte(be, a, b, a)
  BY <1>3, <1>4 DEF TakesByte
<1> QED
  BY <1>5 DEF be, one

\* The bytes of some lines and one more.
LEMMA OneLineMore ==
    ASSUME NEW p \in Seq(Line), NEW l \in Line
    PROVE  /\ p \o <<l>> \in Seq(Line) /\ Len(p \o <<l>>) = Len(p) + 1
           /\ editorRowsToString(p) \in Bytes
           /\ editorRowsToString(p \o <<l>>) = (editorRowsToString(p) \o l) \o <<NL>>
<1>1. p \o <<l>> = Append(p, l)
  BY AppendIsConcat
<1>2. Append(p, l) \in Seq(Line) /\ Len(Append(p, l)) = Len(p) + 1
  OBVIOUS
<1>3. editorRowsToString(p) \in Bytes
  BY WrittenBytes
<1>4. editorRowsToString(Append(p, l)) = (editorRowsToString(p) \o l) \o <<NL>>
  BY WrittenAppend, ZenonT(30)
<1> QED
  BY <1>1, <1>2, <1>3, <1>4

\* After the point in a line there is at least its newline.
LEMMA NewlineIsAfter ==
    ASSUME NEW y \in Bytes, NEW q \in Bytes
    PROVE  (y \o <<NL>>) \o q # <<>>
<1> DEFINE end == <<NL>>
           ye == y \o end
<1>1. end \in Bytes /\ Len(end) = 1
  BY BytesJoined
<1> HIDE DEF end
<1>2. ye \in Bytes /\ Len(ye) = Len(y) + Len(end) /\ Len(y) \in Nat
  BY <1>1, BytesJoined, BytesLen, ZenonT(30)
<1> HIDE DEF ye
<1>3. Len(ye \o q) = Len(ye) + Len(q) /\ Len(q) \in Nat
  BY <1>2, BytesLen, ZenonT(30)
<1>4. ye \o q # <<>>
  <2>1. Len(ye \o q) # 0
    BY <1>1, <1>2, <1>3
  <2> QED
    BY <2>1, EmptySeq
<1> QED
  BY <1>4 DEF ye, end

\* Where a line is cut the cursor may be.
LEMMA CutOnText ==
    ASSUME NEW p \in Seq(Line), NEW x \in Line, NEW y \in Line, NEW q \in Seq(Line),
           NEW s, s = p \o <<x \o y>> \o q
    PROVE  OnText(s, Len(p), Len(x))
<1>1. IsCut(s, p, x, y, q)
  BY LineCut, ZenonT(30)
<1>2. /\ s \in Seq(Line) /\ Len(p) \in Nat /\ Len(p) < Len(s) /\ Len(x) \in Nat
      /\ Len(x) <= Len(s[Len(p) + 1])
  BY <1>1 DEF IsCut
<1>3. Len(p) \in 0..Len(s)
  BY <1>2
<1> QED
  BY <1>2, <1>3 DEF OnText

\* Wherever the cursor is, the bytes before it and those after it are the whole text.
LEMMA PointWhole ==
    ASSUME NEW s, NEW r, NEW k, OnText(s, r, k)
    PROVE  BytesBefore(s, r, k) \o BytesAfter(s, r, k) = editorRowsToString(s)
<1>1. s \in Seq(Line) /\ r \in 0..Len(s) /\ k \in Nat /\ Len(s) \in Nat
  BY DEF OnText
<1>2. CASE r = Len(s)
  <2> DEFINE all == editorRowsToString(s)
  <2>1. BytesBefore(s, r, k) = all /\ BytesAfter(s, r, k) = <<>>
    BY <1>1, <1>2, PointBelow
  <2>2. all \in Seq(Char \cup {NL})
    BY <1>1, WrittenBytes DEF Bytes
  <2> HIDE DEF all
  <2>3. all \o <<>> = all
    BY <2>2, ConcatEmptySeq
  <2> QED
    BY <2>1, <2>3 DEF all
<1>3. CASE r < Len(s)
  <2>1. r \in 0..Len(s) - 1 /\ k \in 0..Len(s[r + 1])
    BY <1>1, <1>3 DEF OnText
  <2>2. PICK p \in Seq(Line), x \in Line, y \in Line, q \in Seq(Line) :
          CutOf(s, r, k, p, x, y, q)
    BY <1>1, <2>1, CutAt, ZenonT(30)
  <2>3. s = p \o <<x \o y>> \o q /\ Len(p) = r /\ Len(x) = k
    BY <2>2 DEF CutOf
  <2>4. PointBetween(s, p, x, y, q)
    BY <2>3, PointInLine, ZenonT(30)
  <2> QED
    BY <2>3, <2>4 DEF PointBetween
<1> QED
  BY <1>1, <1>2, <1>3

\* Typing in a line.
LEMMA TypedInLine ==
    ASSUME NEW s, NEW r, NEW k, OnText(s, r, k), r < Len(s), NEW c \in Char,
           NEW t, t = [s EXCEPT ![r + 1] = Plain!Spliced(s[r + 1], k, c)]
    PROVE  /\ TypesChar(BytesBefore(s, r, k), BytesAfter(s, r, k),
                        BytesBefore(t, r, k + 1), BytesAfter(t, r, k + 1))
           /\ OnText(t, r, k + 1)
<1> DEFINE one == <<c>>
           line == s[r + 1]
<1>1. s \in Seq(Line) /\ r \in 0..Len(s) - 1 /\ k \in 0..Len(line) /\ k \in Nat /\ line \in Line
  BY DEF OnText
<1>2. PICK p \in Seq(Line), x \in Line, y \in Line, q \in Seq(Line) :
          CutOf(s, r, k, p, x, y, q)
  BY <1>1, CutAt, ZenonT(30)
<1>15. /\ s = p \o <<x \o y>> \o q /\ Len(p) = r /\ Len(x) = k
       /\ p = SubSeq(s, 1, r) /\ q = SubSeq(s, r + 2, Len(s))
       /\ x = SubSeq(line, 1, k) /\ y = SubSeq(line, k + 1, Len(line))
  BY <1>2 DEF CutOf
<1> DEFINE xc == x \o one
           new == xc \o y
<1>3. Plain!Spliced(line, k, c) = new
  <2> HIDE DEF line
  <2>1. ~ (k > Len(line))
    BY <1>1 DEF Line
  <2> QED
    BY <1>15, <2>1 DEF Plain!Spliced
<1>4. one \in Line /\ one \in Bytes /\ Len(one) = 1
  BY DEF Line, Bytes
<1> HIDE DEF one
<1>5. xc \in Line /\ Len(xc) = k + 1
  <2>1. xc \in Line
    BY <1>4, ConcatProperties, ZenonT(30) DEF Line
  <2>2. x \in Bytes
    BY BytesJoined
  <2>3. Len(xc) = Len(x) + Len(one)
    BY <1>4, <2>2, BytesLen
  <2> QED
    BY <1>4, <1>15, <2>1, <2>3
<1> HIDE DEF xc
<1>6. new \in Line
  BY <1>5, ConcatProperties, ZenonT(30) DEF Line
<1>7. t = p \o <<new>> \o q
  <2> HIDE DEF new, line
  <2>1. [s EXCEPT ![r + 1] = new] = SubSeq(s, 1, r) \o <<new>> \o SubSeq(s, r + 2, Len(s))
    BY <1>1, <1>6, ElementReplaced, ZenonT(30)
  <2> QED
    BY <1>3, <1>15, <2>1 DEF line
<1> DEFINE P == editorRowsToString(p)
           Q == editorRowsToString(q)
           end == <<NL>>
           a == (y \o end) \o Q
<1>8. /\ BytesBefore(s, Len(p), Len(x)) = P \o x
      /\ BytesAfter(s, Len(p), Len(x)) = a
  <2>1. PointBetween(s, p, x, y, q)
    BY <1>15, PointInLine, ZenonT(30)
  <2> QED
    BY <2>1 DEF PointBetween
<1>9. /\ BytesBefore(t, Len(p), Len(xc)) = P \o xc
      /\ BytesAfter(t, Len(p), Len(xc)) = a
  <2>1. PointBetween(t, p, xc, y, q)
    BY <1>5, <1>7, PointInLine, ZenonT(30)
  <2> QED
    BY <2>1 DEF PointBetween
<1>10. P \in Bytes /\ Q \in Bytes /\ x \in Bytes /\ y \in Bytes /\ end \in Bytes /\ Len(end) = 1
  BY WrittenBytes, BytesJoined, ZenonT(30)
<1> HIDE DEF P, Q, end
<1>11. (P \o x) \o one = P \o (x \o one)
  BY <1>4, <1>10, BytesGrouped, SMTT(30)
<1>12. a # <<>>
  BY <1>10, NewlineIsAfter, ZenonT(30) DEF end
<1> HIDE DEF a, new
<1>13. TypesChar(BytesBefore(s, r, k), BytesAfter(s, r, k),
                 BytesBefore(t, r, k + 1), BytesAfter(t, r, k + 1))
  <2>1. /\ BytesBefore(s, r, k) = P \o x /\ BytesAfter(s, r, k) = a
        /\ BytesBefore(t, r, k + 1) = P \o xc /\ BytesAfter(t, r, k + 1) = a
    BY <1>5, <1>8, <1>9, <1>15
  <2>2. P \o xc = (P \o x) \o <<c>>
    BY <1>11 DEF xc, one
  <2> QED
    BY <1>12, <2>1, <2>2, ZenonT(30) DEF TypesChar
<1>14. OnText(t, r, k + 1)
  <2>1. OnText(t, Len(p), Len(xc))
    BY <1>5, <1>7, CutOnText, ZenonT(30) DEF new
  <2> QED
    BY <1>5, <1>15, <2>1
<1> QED
  BY <1>13, <1>14

\* A row opened below the text.
LEMMA TypedBelow ==
    ASSUME NEW s \in Seq(Line), NEW k \in Nat, k \in 0..MaxCols, NEW c \in Char,
           NEW t, t = [Append(s, <<>>) EXCEPT ![Len(s) + 1] = Plain!Spliced(<<>>, k, c)]
    PROVE  /\ TypesChar(BytesBefore(s, Len(s), k), BytesAfter(s, Len(s), k),
                        BytesBefore(t, Len(s), k + 1), BytesAfter(t, Len(s), k + 1))
           /\ OnText(t, Len(s), k + 1)
<1> DEFINE one == <<c>>
           pad == [i \in 1..k |-> Space]
           none == <<>>
           l == pad \o one
           all == editorRowsToString(s)
           end == <<NL>>
<1>1. /\ one \in Line /\ one \in Bytes /\ Len(one) = 1 /\ none \in Line /\ none \in Bytes
      /\ end \in Bytes /\ none \in Seq(Line) /\ all \in Bytes
  BY WrittenBytes, BytesJoined DEF Line, Bytes
<1>2. pad \in Line /\ pad \in Bytes /\ Len(pad) = k
  <2>1. pad \in Seq(Char) /\ Len(pad) = k
    BY FileAssumption, ConstantSeq
  <2> HIDE DEF pad
  <2> QED
    BY <2>1, BytesJoined DEF Line
<1>3. Plain!Spliced(none, k, c) = l
  <2>1. Len(none) = 0 /\ k - Len(none) = k
    OBVIOUS
  <2>2. CASE k > 0
    <3>1. none \o pad = pad
      BY <1>2, ConcatEmptySeq
    <3> QED
      BY <2>1, <2>2, <3>1 DEF Plain!Spliced, Plain!Padding
  <2>3. CASE k = 0
    <3>1. SubSeq(none, 1, k) = none /\ SubSeq(none, k + 1, Len(none)) = none
      BY <2>1, <2>3, SubSeqEmpty
    <3>2. pad = none
      BY <2>3
    <3>3. none \o one = one /\ one \o none = one
      BY <1>1, ConcatEmptySeq
    <3> QED
      BY <2>1, <2>3, <3>1, <3>2, <3>3 DEF Plain!Spliced
  <2> QED
    BY <2>2, <2>3
<1> HIDE DEF one, pad
<1>4. l \in Line /\ Len(l) = k + 1
  <2>1. l \in Line
    BY <1>1, <1>2, ConcatProperties, ZenonT(30) DEF Line
  <2>2. Len(l) = Len(pad) + Len(one)
    BY <1>1, <1>2, BytesLen, ZenonT(30)
  <2> QED
    BY <1>1, <1>2, <2>1, <2>2
<1>5. (all \o pad) \o one = all \o l
  BY <1>1, <1>2, BytesGrouped, SMTT(30)
<1> HIDE DEF l
<1>6. t = Append(s, l)
  <2> DEFINE u == Append(s, none)
             v == Append(s, l)
             w == [u EXCEPT ![Len(s) + 1] = l]
  <2>1. u \in Seq(Line) /\ Len(u) = Len(s) + 1 /\ \A i \in 1..Len(s) : u[i] = s[i]
    BY <1>1
  <2>2. /\ v \in Seq(Line) /\ Len(v) = Len(s) + 1 /\ v[Len(s) + 1] = l
        /\ \A i \in 1..Len(s) : v[i] = s[i]
    BY <1>4
  <2>3. t = w
    BY <1>3
  <2> HIDE DEF u, v, none
  <2>4. /\ w \in Seq(Line) /\ Len(w) = Len(u)
        /\ \A i \in 1..Len(u) : w[i] = IF i = Len(s) + 1 THEN l ELSE u[i]
    <3>1. Len(s) + 1 \in 1..Len(u)
      BY <2>1
    <3> QED
      BY <1>4, <2>1, <3>1, ExceptSeq
  <2> HIDE DEF w
  <2>5. ASSUME NEW i \in 1..Len(w) PROVE w[i] = v[i]
    <3>1. i \in 1..Len(u) /\ (i # Len(s) + 1 => i \in 1..Len(s))
      BY <2>1, <2>4
    <3>2. w[i] = IF i = Len(s) + 1 THEN l ELSE u[i]
      BY <2>4, <3>1
    <3>3. CASE i = Len(s) + 1
      BY <2>2, <3>2, <3>3
    <3>4. CASE i # Len(s) + 1
      BY <2>1, <2>2, <3>1, <3>2, <3>4
    <3> QED
      BY <3>3, <3>4
  <2>6. w = v
    BY <2>1, <2>2, <2>4, <2>5, SeqEqual
  <2> QED
    BY <2>3, <2>6 DEF v
<1>7. t = s \o <<l \o none>> \o none
  <2>1. l \o none = l
    BY <1>4, ConcatEmptySeq DEF Line
  <2>2. Append(s, l) = s \o <<l>>
    BY <1>4, AppendIsConcat
  <2>3. s \o <<l>> \in Seq(Line)
    BY <1>4, OneLineMore, ZenonT(30)
  <2>4. (s \o <<l>>) \o none = s \o <<l>>
    BY <2>3, ConcatEmptySeq
  <2> QED
    BY <1>6, <2>1, <2>2, <2>4
<1>8. PointBetween(t, s, l, none, none)
  <2> HIDE DEF none
  <2> QED
    BY <1>1, <1>4, <1>7, PointInLine, ZenonT(30)
<1>9. OnText(t, Len(s), Len(l))
  <2> HIDE DEF none
  <2> QED
    BY <1>1, <1>4, <1>7, CutOnText, ZenonT(30)
<1>10. /\ BytesBefore(s, Len(s), k) = all /\ BytesAfter(s, Len(s), k) = <<>>
  BY PointBelow
<1>11. (none \o end) \o editorRowsToString(none) = end
  <2>1. editorRowsToString(none) = none
    BY EmptyTextHasNoBytes
  <2>2. none \o end = end /\ end \o none = end
    BY <1>1, ConcatEmptySeq DEF Bytes
  <2> QED
    BY <2>1, <2>2
<1> HIDE DEF all, none
<1>12. /\ BytesBefore(t, Len(s), k + 1) = (all \o pad) \o one
       /\ BytesAfter(t, Len(s), k + 1) = end
  BY <1>4, <1>5, <1>8, <1>11 DEF PointBetween, all
<1>13. TypesChar(BytesBefore(s, Len(s), k), BytesAfter(s, Len(s), k),
                 BytesBefore(t, Len(s), k + 1), BytesAfter(t, Len(s), k + 1))
  BY <1>10, <1>12, ZenonT(30) DEF TypesChar, pad, one
<1> QED
  BY <1>4, <1>9, <1>13

\* Two lines are one, and another that begins at once.
TwoLines(p, x, y, q) == p \o <<x, y>> \o q = (p \o <<x>>) \o <<<<>> \o y>> \o q

\* How the lines are grouped makes no difference.
LEMMA TwoLinesApart ==
    ASSUME NEW p \in Seq(Line), NEW x \in Line, NEW y \in Line, NEW q \in Seq(Line)
    PROVE  TwoLines(p, x, y, q)
<1> DEFINE X == <<x>>
           Y == <<y>>
           XY == <<x, y>>
<1>1. X \in Seq(Line) /\ Len(X) = 1 /\ X[1] = x
  OBVIOUS
<1>2. Y \in Seq(Line) /\ Len(Y) = 1 /\ Y[1] = y
  OBVIOUS
<1>3. XY \in Seq(Line) /\ Len(XY) = 2 /\ XY[1] = x /\ XY[2] = y
  OBVIOUS
<1>4. <<>> \o y = y
  BY ConcatEmptySeq DEF Line
<1>5. p \o <<x>> \o <<<<>> \o y>> = p \o X \o Y
  BY <1>4
<1> HIDE DEF X, Y, XY
<1> DEFINE c == X \o Y
<1>6. c \in Seq(Line) /\ Len(c) = 2 /\ c[1] = x /\ c[2] = y
  <2>1. /\ c \in Seq(Line) /\ Len(c) = Len(X) + Len(Y)
        /\ \A i \in 1..Len(X) + Len(Y) : c[i] = IF i <= Len(X) THEN X[i] ELSE Y[i - Len(X)]
    BY <1>1, <1>2, ConcatProperties, ZenonT(30)
  <2> HIDE DEF c
  <2>2. /\ 1 \in 1..Len(X) + Len(Y) /\ 2 \in 1..Len(X) + Len(Y)
        /\ 1 <= Len(X) /\ ~ (2 <= Len(X)) /\ 2 - Len(X) = 1
    BY <1>1, <1>2
  <2>3. c[1] = X[1] /\ c[2] = Y[2 - Len(X)]
    BY <2>1, <2>2
  <2> QED
    BY <1>1, <1>2, <2>1, <2>2, <2>3
<1> HIDE DEF c
<1>7. c = XY
  <2>1. \A i \in 1..Len(c) : c[i] = XY[i]
    BY <1>3, <1>6
  <2> QED
    BY <1>3, <1>6, <2>1, SeqEqual
<1>8. (p \o X) \o Y = p \o (X \o Y)
  BY <1>1, <1>2, ConcatAssociative, SMTT(30)
<1> QED
  BY <1>5, <1>7, <1>8, ZenonT(30) DEF TwoLines, c, XY

\* A newline in a line.
LEMMA SplitInLine ==
    ASSUME NEW s, NEW r, NEW k, OnText(s, r, k), r < Len(s),
           NEW t, t = SubSeq(s, 1, r) \o Plain!SplitAt(s[r + 1], k) \o SubSeq(s, r + 2, Len(s))
    PROVE  /\ TypesNewline(BytesBefore(s, r, k), BytesAfter(s, r, k),
                           BytesBefore(t, r + 1, 0), BytesAfter(t, r + 1, 0))
           /\ OnText(t, r + 1, 0)
<1> DEFINE none == <<>>
           end == <<NL>>
<1>1. s \in Seq(Line) /\ r \in 0..Len(s) - 1 /\ k \in 0..Len(s[r + 1]) /\ k \in Nat
  BY DEF OnText
<1>2. PICK p \in Seq(Line), x \in Line, y \in Line, q \in Seq(Line) :
          CutOf(s, r, k, p, x, y, q)
  BY <1>1, CutAt, ZenonT(30)
<1>3. /\ s = p \o <<x \o y>> \o q /\ Len(p) = r /\ Len(x) = k
      /\ p = SubSeq(s, 1, r) /\ q = SubSeq(s, r + 2, Len(s))
      /\ x = SubSeq(s[r + 1], 1, k) /\ y = SubSeq(s[r + 1], k + 1, Len(s[r + 1]))
  BY <1>2 DEF CutOf
<1>4. t = p \o <<x, y>> \o q
  BY <1>3, ZenonT(30) DEF Plain!SplitAt
<1> DEFINE P == editorRowsToString(p)
           Q == editorRowsToString(q)
           px == p \o <<x>>
<1>5. /\ px \in Seq(Line) /\ Len(px) = Len(p) + 1 /\ P \in Bytes
      /\ editorRowsToString(px) = (P \o x) \o end
  BY OneLineMore, ZenonT(30)
<1>6. t = px \o <<none \o y>> \o q
  <2>1. TwoLines(p, x, y, q)
    BY TwoLinesApart, ZenonT(30)
  <2> QED
    BY <1>4, <2>1, ZenonT(30) DEF TwoLines
<1>7. none \in Line /\ Len(none) = 0
  BY DEF Line
<1> HIDE DEF none, px
<1>8. PointBetween(t, px, none, y, q)
  BY <1>5, <1>6, <1>7, PointInLine, ZenonT(30)
<1>9. PointBetween(s, p, x, y, q)
  BY <1>3, PointInLine, ZenonT(30)
<1>10. OnText(t, Len(px), Len(none))
  BY <1>5, <1>6, <1>7, CutOnText, ZenonT(30)
<1>11. ((P \o x) \o end) \o none = (P \o x) \o end
  <2>1. editorRowsToString(px) \in Seq(Char \cup {NL})
    BY <1>5, WrittenBytes DEF Bytes
  <2>2. editorRowsToString(px) \o <<>> = editorRowsToString(px)
    BY <2>1, ConcatEmptySeq
  <2> QED
    BY <1>5, <2>2 DEF none
<1>12. Len(p) = r /\ Len(px) = r + 1 /\ Len(none) = 0 /\ Len(x) = k
  BY <1>3, <1>5, <1>7
<1> HIDE DEF P, end
<1>13. /\ BytesBefore(t, r + 1, 0) = (P \o x) \o end
       /\ BytesAfter(t, r + 1, 0) = (y \o end) \o Q
  BY <1>5, <1>8, <1>11, <1>12 DEF PointBetween, end
<1>14. /\ BytesBefore(s, r, k) = P \o x
       /\ BytesAfter(s, r, k) = (y \o end) \o Q
  BY <1>9, <1>12 DEF PointBetween, P, end
<1> QED
  BY <1>10, <1>12, <1>13, <1>14 DEF TypesNewline, end

\* A newline below the text.
LEMMA SplitBelow ==
    ASSUME NEW s \in Seq(Line), NEW k \in Nat, NEW t, t = Append(s, <<>>)
    PROVE  /\ TypesNewline(BytesBefore(s, Len(s), k), BytesAfter(s, Len(s), k),
                           BytesBefore(t, Len(s) + 1, 0), BytesAfter(t, Len(s) + 1, 0))
           /\ OnText(t, Len(s) + 1, 0)
<1> DEFINE none == <<>>
           all == editorRowsToString(s)
<1>1. none \in Line /\ all \in Bytes /\ all \in Seq(Char \cup {NL})
  BY WrittenBytes DEF Line, Bytes
<1>2. t \in Seq(Line) /\ Len(t) = Len(s) + 1 /\ Len(s) \in Nat
  BY <1>1
<1>3. editorRowsToString(t) = all \o none \o <<NL>>
  BY <1>1, WrittenAppend, ZenonT(30)
<1>4. all \o none = all
  BY <1>1, ConcatEmptySeq
<1>5. /\ BytesBefore(s, Len(s), k) = all /\ BytesAfter(s, Len(s), k) = <<>>
  BY PointBelow
<1>6. /\ BytesBefore(t, Len(t), 0) = editorRowsToString(t) /\ BytesAfter(t, Len(t), 0) = <<>>
  BY <1>2, PointBelow
<1> HIDE DEF none, all
<1>7. OnText(t, Len(s) + 1, 0)
  BY <1>2 DEF OnText
<1> QED
  BY <1>2, <1>3, <1>4, <1>5, <1>6, <1>7 DEF TypesNewline

\* Deleting in a line.
LEMMA DeletedInLine ==
    ASSUME NEW s, NEW r, NEW k, OnText(s, r, k), r < Len(s), k > 0, NEW line, line = s[r + 1],
           NEW t, t = [s EXCEPT ![r + 1] = SubSeq(line, 1, k - 1)
                                             \o SubSeq(line, k + 1, Len(line))]
    PROVE  /\ TakesByte(BytesBefore(s, r, k), BytesAfter(s, r, k),
                        BytesBefore(t, r, k - 1), BytesAfter(t, r, k - 1))
           /\ OnText(t, r, k - 1)
<1>1. s \in Seq(Line) /\ r \in 0..Len(s) - 1 /\ k \in 0..Len(s[r + 1]) /\ k \in Nat
  BY DEF OnText
<1>2. PICK p \in Seq(Line), x \in Line, y \in Line, q \in Seq(Line) :
          CutOf(s, r, k, p, x, y, q)
  BY <1>1, CutAt, ZenonT(30)
<1>3. /\ s = p \o <<x \o y>> \o q /\ Len(p) = r /\ Len(x) = k
      /\ p = SubSeq(s, 1, r) /\ q = SubSeq(s, r + 2, Len(s))
      /\ x = SubSeq(line, 1, k) /\ y = SubSeq(line, k + 1, Len(line))
  BY <1>2 DEF CutOf
<1> DEFINE w == SubSeq(line, 1, k - 1)
           e == line[k]
           one == <<e>>
           new == w \o y
           P == editorRowsToString(p)
           Q == editorRowsToString(q)
<1>4. /\ line \in Seq(Char) /\ k \in 1..Len(line) /\ k - 1 \in Nat
      /\ w \in Line /\ Len(w) = k - 1 /\ e \in Char
  <2>1. line \in Seq(Char) /\ k \in 1..Len(line) /\ k - 1 \in 0..Len(line)
    BY <1>1 DEF Line
  <2>2. w \in Seq(Char) /\ Len(w) = k - 1 /\ e \in Char
    BY <2>1
  <2> QED
    BY <2>1, <2>2 DEF Line
<1>5. x = w \o one
  <2>1. 1 \in 1..Len(line) /\ k \in 1..Len(line)
    BY <1>4
  <2>2. SubSeq(line, 1, k) = SubSeq(line, 1, k - 1) \o <<line[k]>>
    BY <1>4, <2>1, SubSeqRecursiveSecond, ZenonT(30)
  <2> QED
    BY <1>3, <2>2
<1>6. new \in Line
  <2> HIDE DEF w
  <2> QED
    BY <1>4, ConcatProperties, ZenonT(30) DEF Line
<1>7. t = p \o <<new>> \o q
  <2>1. t = [s EXCEPT ![r + 1] = new]
    BY <1>3, ZenonT(30)
  <2> HIDE DEF new
  <2>2. [s EXCEPT ![r + 1] = new] = SubSeq(s, 1, r) \o <<new>> \o SubSeq(s, r + 2, Len(s))
    BY <1>1, <1>6, ElementReplaced, ZenonT(30)
  <2> QED
    BY <1>3, <2>1, <2>2
<1> HIDE DEF w
<1>8. PointBetween(t, p, w, y, q) /\ OnText(t, Len(p), Len(w))
  BY <1>4, <1>7, PointInLine, CutOnText, ZenonT(30)
<1>9. PointBetween(s, p, x, y, q)
  BY <1>3, PointInLine, ZenonT(30)
<1>10. P \in Bytes /\ w \in Bytes /\ one \in Bytes /\ P \o w \in Bytes
  <2>1. P \in Bytes /\ w \in Bytes
    BY <1>4, WrittenBytes, BytesJoined, ZenonT(30)
  <2>2. one \in Line
    BY <1>4 DEF Line
  <2> QED
    BY <2>1, <2>2, BytesJoined, ZenonT(30)
<1> HIDE DEF e
<1>11. P \o x = (P \o w) \o one
  <2> HIDE DEF P, one
  <2>1. (P \o w) \o one = P \o (w \o one)
    BY <1>10, BytesGrouped, SMTT(30)
  <2> QED
    BY <1>5, <2>1
<1> DEFINE a == (y \o <<NL>>) \o Q
<1>12. TakesByte((P \o w) \o one, a, P \o w, a)
  <2>1. P \o w \in Bytes /\ e \in Char \cup {NL}
    BY <1>4, <1>10 DEF e
  <2> HIDE DEF P, a
  <2> QED
    BY <2>1, LastTaken, ZenonT(30)
<1>13. /\ BytesBefore(s, r, k) = (P \o w) \o one /\ BytesAfter(s, r, k) = a
  BY <1>3, <1>9, <1>11 DEF PointBetween
<1>14. /\ BytesBefore(t, r, k - 1) = P \o w /\ BytesAfter(t, r, k - 1) = a
  BY <1>3, <1>4, <1>8 DEF PointBetween
<1>15. OnText(t, r, k - 1)
  BY <1>3, <1>4, <1>8
<1> QED
  BY <1>12, <1>13, <1>14, <1>15, ZenonT(30)

\* Deleting at the beginning of a line.
LEMMA JoinedLines ==
    ASSUME NEW s, NEW r, NEW k, OnText(s, r, k), r < Len(s), r > 0, k = 0,
           NEW t, t = SubSeq(s, 1, r - 1) \o <<s[r] \o s[r + 1]>> \o SubSeq(s, r + 2, Len(s))
    PROVE  /\ TakesByte(BytesBefore(s, r, k), BytesAfter(s, r, k),
                        BytesBefore(t, r - 1, Len(s[r])), BytesAfter(t, r - 1, Len(s[r])))
           /\ OnText(t, r - 1, Len(s[r]))
<1> DEFINE u == s[r]
           v == s[r + 1]
           p == SubSeq(s, 1, r - 1)
           pu == p \o <<u>>
           q == SubSeq(s, r + 2, Len(s))
           none == <<>>
           P == editorRowsToString(p)
           Q == editorRowsToString(q)
           end == <<NL>>
           a == (v \o end) \o Q
<1>1. /\ s \in Seq(Line) /\ r \in 1..Len(s) /\ r \in 0..Len(s) - 1 /\ r + 1 \in 1..Len(s)
      /\ u \in Line /\ v \in Line /\ none \in Line /\ Len(none) = 0
  BY DEF OnText, Line
<1>2. p \in Seq(Line) /\ Len(p) = r - 1 /\ q \in Seq(Line)
  BY <1>1
<1>3. pu = SubSeq(s, 1, r)
  <2>1. 1 \in 1..Len(s) /\ r \in 1..Len(s)
    BY <1>1
  <2>2. SubSeq(s, 1, r) = SubSeq(s, 1, r - 1) \o <<s[r]>>
    BY <1>1, <2>1, SubSeqRecursiveSecond, ZenonT(30)
  <2> QED
    BY <2>2
<1>4. /\ pu \in Seq(Line) /\ Len(pu) = r /\ P \in Bytes
      /\ editorRowsToString(pu) = (P \o u) \o end
  <2> HIDE DEF p, u
  <2>1. /\ p \o <<u>> \in Seq(Line) /\ Len(p \o <<u>>) = Len(p) + 1
        /\ editorRowsToString(p) \in Bytes
        /\ editorRowsToString(p \o <<u>>) = (editorRowsToString(p) \o u) \o <<NL>>
    BY <1>1, <1>2, OneLineMore, ZenonT(30)
  <2>2. (r - 1) + 1 = r
    BY <1>1
  <2> QED
    BY <1>2, <2>1, <2>2
<1>5. s = pu \o <<none \o v>> \o q
  <2>1. none \o v = v
    BY <1>1, ConcatEmptySeq DEF Line
  <2>2. s \in Seq(Line) /\ r \in 0..Len(s) - 1 /\ v \in Line
    BY <1>1
  <2>3. [s EXCEPT ![r + 1] = v] = SubSeq(s, 1, r) \o <<v>> \o SubSeq(s, r + 2, Len(s))
    <3> HIDE DEF v
    <3> QED
      BY <2>2, ElementReplaced, ZenonT(30)
  <2>4. [s EXCEPT ![r + 1] = v] = s
    BY <1>1
  <2> QED
    BY <1>3, <2>1, <2>3, <2>4
<1> HIDE DEF u, v, p, pu, q, none
<1>6. PointBetween(s, pu, none, v, q)
  BY <1>1, <1>2, <1>4, <1>5, PointInLine, ZenonT(30)
<1>7. t = p \o <<u \o v>> \o q
  BY DEF p, u, v, q
<1>8. PointBetween(t, p, u, v, q) /\ OnText(t, Len(p), Len(u))
  BY <1>1, <1>2, <1>7, PointInLine, CutOnText, ZenonT(30)
<1>9. P \o u \in Bytes
  BY <1>1, <1>4, BytesJoined, ZenonT(30)
<1>10. ((P \o u) \o end) \o none = (P \o u) \o end
  <2>1. editorRowsToString(pu) \in Seq(Char \cup {NL})
    BY <1>4, WrittenBytes DEF Bytes
  <2>2. editorRowsToString(pu) \o <<>> = editorRowsToString(pu)
    BY <2>1, ConcatEmptySeq
  <2> QED
    BY <1>4, <2>2 DEF none
<1>11. TakesByte((P \o u) \o end, a, P \o u, a)
  <2>1. NL \in Char \cup {NL}
    OBVIOUS
  <2> HIDE DEF P, a
  <2> QED
    BY <1>9, <2>1, LastTaken, ZenonT(30)
<1> HIDE DEF P, end
<1>12. BytesBefore(s, r, k) = (P \o u) \o end /\ BytesAfter(s, r, k) = a
  BY <1>1, <1>4, <1>6, <1>10 DEF PointBetween, end
<1>13. BytesBefore(t, r - 1, Len(u)) = P \o u /\ BytesAfter(t, r - 1, Len(u)) = a
  BY <1>2, <1>8 DEF PointBetween, P, end
<1>14. OnText(t, r - 1, Len(u))
  BY <1>2, <1>8
<1> QED
  BY <1>11, <1>12, <1>13, <1>14, ZenonT(30) DEF u

\* The instance of ProgramFile in TextEditor writes the same bytes.
LEMMA SameBytes ==
    ASSUME NEW s
    PROVE  Plain!editorRowsToString(s) = editorRowsToString(s)
BY DEF Plain!editorRowsToString, editorRowsToString

\* What Text calls a step, of the bytes before and after the point.
LEMMA PointStep ==
    ASSUME NEW b, b = BytesBefore(TextOf(rows), filerow, filecol),
           NEW a, a = BytesAfter(TextOf(rows), filerow, filecol),
           NEW d, d = BytesBefore(TextOf(rows'), filerow', filecol'),
           NEW e, e = BytesAfter(TextOf(rows'), filerow', filecol'),
           \/ TypesChar(b, a, d, e)
           \/ TypesNewline(b, a, d, e)
           \/ TakesByte(b, a, d, e)
           \/ d \o e = b \o a
    PROVE  Plain!Point!Next
<1> DEFINE line == Plain!LineAt(filerow)
           column == IF filecol > Len(line) THEN Len(line) ELSE filecol
           above == Plain!editorRowsToString(SubSeq(TextOf(rows), 1, filerow))
           all == Plain!editorRowsToString(TextOf(rows))
           before == above \o SubSeq(line, 1, column)
           after == SubSeq(all, Len(above) + 1 + column, Len(all))
<1>1. before = b /\ after = a
  BY SameBytes DEF BytesBefore, BytesAfter, LineIn, InLine, Plain!LineAt
<1>2. before' = d /\ after' = e
  BY SameBytes DEF BytesBefore, BytesAfter, LineIn, InLine, Plain!LineAt
<1>3. CASE TypesChar(b, a, d, e)
  <2>1. PICK c \in Char :
          \/ a # <<>> /\ d = b \o <<c>> /\ e = a
          \/ /\ a = <<>> /\ e = <<NL>>
             /\ \E n \in 0..MaxCols : d = b \o [i \in 1..n |-> Space] \o <<c>>
    BY <1>3 DEF TypesChar
  <2>2. Plain!Point!Insert(c) \/ Plain!Point!InsertAtEnd(c)
    BY <1>1, <1>2, <2>1 DEF Plain!Point!Insert, Plain!Point!InsertAtEnd
  <2> QED
    BY <2>2 DEF Plain!Point!Next
<1>4. CASE TypesNewline(b, a, d, e)
  <2>1. Plain!Point!Newline
    BY <1>1, <1>2, <1>4 DEF TypesNewline, Plain!Point!Newline
  <2> QED
    BY <2>1 DEF Plain!Point!Next
<1>5. CASE TakesByte(b, a, d, e)
  <2>1. Plain!Point!Backspace
    BY <1>1, <1>2, <1>5 DEF TakesByte, Plain!Point!Backspace
  <2> QED
    BY <2>1 DEF Plain!Point!Next
<1>6. CASE d \o e = b \o a
  <2>1. Plain!Point!MovePoint
    BY <1>1, <1>2, <1>6 DEF Plain!Point!MovePoint
  <2> QED
    BY <2>1 DEF Plain!Point!Next
<1> QED
  BY <1>3, <1>4, <1>5, <1>6

\* A cursor that the window shows is on the text.
LEMMA ShownOnText ==
    Inv /\ CursorInWindow => OnText(TextOf(rows), filerow, filecol)
<1> SUFFICES ASSUME Inv, CursorInWindow PROVE OnText(TextOf(rows), filerow, filecol)
  OBVIOUS
<1>1. /\ TextOf(rows) \in Seq(Line) /\ Len(TextOf(rows)) = Len(rows) /\ rows \in Seq(GoodRow)
      /\ \A i \in 1..Len(rows) : TextOf(rows)[i] = rows[i].chars
  BY LinesOfRows
<1>2. /\ filerow \in 0..Len(rows) /\ filecol \in Nat
      /\ filerow < Len(rows) => filecol <= rows[filerow + 1].size
  BY ShownCursor
<1>3. ASSUME filerow < Len(rows) PROVE filecol <= Len(TextOf(rows)[filerow + 1])
  <2>1. filerow + 1 \in 1..Len(rows) /\ rows[filerow + 1] \in GoodRow
    BY <1>1, <1>2, <1>3
  <2>2. Len(rows[filerow + 1].chars) = rows[filerow + 1].size
    BY <2>1, GoodRowChars
  <2> QED
    BY <1>1, <1>2, <1>3, <2>1, <2>2
<1> QED
  BY <1>1, <1>2, <1>3 DEF OnText

\* An operation on lines is one on the bytes before and after the cursor.
LEMMA BytesOfStep ==
    ASSUME NEW s, s = TextOf(rows), NEW r, r = filerow, NEW k, k = filecol,
           NEW t, t = TextOf(rows'), NEW m, m = filerow', NEW n, n = filecol',
           OnText(s, r, k), OnText(t, m, n), Plain!Next
    PROVE  LET b == BytesBefore(s, r, k)
               a == BytesAfter(s, r, k)
               d == BytesBefore(t, m, n)
               e == BytesAfter(t, m, n)
           IN  TypesChar(b, a, d, e) \/ TypesNewline(b, a, d, e) \/ TakesByte(b, a, d, e)
                 \/ d \o e = b \o a
<1> DEFINE b == BytesBefore(s, r, k)
           a == BytesAfter(s, r, k)
           d == BytesBefore(t, m, n)
           e == BytesAfter(t, m, n)
<1>1. /\ s \in Seq(Line) /\ Len(s) \in Nat /\ r \in 0..Len(s) /\ k \in Nat
      /\ MaxCols \in Nat
  BY EditorAssumption DEF OnText
<1>2. ASSUME NEW c \in Char, Plain!Insert(c) PROVE TypesChar(b, a, d, e)
  <2>1. m = r /\ n = k + 1 /\ k < MaxCols
    BY <1>2 DEF Plain!Insert
  <2>2. CASE r = Len(s)
    <3>1. t = [Append(s, <<>>) EXCEPT ![Len(s) + 1] = Plain!Spliced(@, k, c)]
      BY <1>2, <2>2 DEF Plain!Insert
    <3>2. Append(s, <<>>)[Len(s) + 1] = <<>>
      BY <1>1
    <3>3. t = [Append(s, <<>>) EXCEPT ![Len(s) + 1] = Plain!Spliced(<<>>, k, c)]
      BY <3>1, <3>2, ZenonT(30)
    <3>4. k \in 0..MaxCols
      BY <1>1, <2>1
    <3> QED
      BY <1>1, <2>1, <2>2, <3>3, <3>4, TypedBelow, ZenonT(30)
  <2>3. CASE r < Len(s)
    <3>1. t = [s EXCEPT ![r + 1] = Plain!Spliced(s[r + 1], k, c)]
      BY <1>1, <1>2, <2>3 DEF Plain!Insert
    <3> QED
      BY <2>1, <2>3, <3>1, TypedInLine, ZenonT(30)
  <2> QED
    BY <1>1, <2>2, <2>3
<1>3. ASSUME Plain!Newline PROVE TypesNewline(b, a, d, e)
  <2>1. m = r + 1 /\ n = 0
    BY <1>3 DEF Plain!Newline
  <2>2. CASE Plain!NewlineBelow
    <3>1. r = Len(s) /\ t = Append(s, <<>>)
      BY <2>2 DEF Plain!NewlineBelow
    <3> QED
      BY <1>1, <2>1, <3>1, SplitBelow, ZenonT(30)
  <2>3. CASE Plain!NewlineInText
    <3>1. r < Len(s) /\ t = SubSeq(s, 1, r) \o Plain!SplitAt(s[r + 1], k)
                                            \o SubSeq(s, r + 2, Len(s))
      BY <2>3 DEF Plain!NewlineInText
    <3> QED
      BY <2>1, <3>1, SplitInLine, ZenonT(30)
  <2> QED
    BY <1>3, <2>2, <2>3 DEF Plain!Newline
<1>4. ASSUME Plain!Join PROVE TakesByte(b, a, d, e)
  <2>1. /\ r < Len(s) /\ r > 0 /\ k = 0 /\ m = r - 1 /\ n = Len(s[r])
        /\ t = SubSeq(s, 1, r - 1) \o <<s[r] \o s[r + 1]>> \o SubSeq(s, r + 2, Len(s))
    BY <1>4 DEF Plain!Join
  <2> QED
    BY <2>1, JoinedLines, ZenonT(30)
<1>5. ASSUME Plain!Delete PROVE TakesByte(b, a, d, e)
  <2> DEFINE line == s[r + 1]
  <2>1. /\ r < Len(s) /\ k > 0 /\ m = r /\ n = k - 1
        /\ t = [s EXCEPT ![r + 1] = SubSeq(line, 1, k - 1) \o SubSeq(line, k + 1, Len(line))]
    BY <1>5 DEF Plain!Delete
  <2> QED
    BY <2>1, DeletedInLine, ZenonT(30)
<1>6. ASSUME TextOf(rows') = TextOf(rows) PROVE d \o e = b \o a
  <2>1. t = s
    BY <1>6
  <2>2. b \o a = editorRowsToString(s) /\ d \o e = editorRowsToString(s)
    BY <2>1, PointWhole, ZenonT(30)
  <2> QED
    BY <2>2
<1>7. Plain!Left \/ Plain!Right \/ Plain!Up \/ Plain!Down \/ Plain!Stay \/ Plain!Place
        => TextOf(rows') = TextOf(rows)
  BY DEF Plain!Left, Plain!Right, Plain!Up, Plain!Down, Plain!Stay, Plain!Place, Plain!Goto
<1> HIDE DEF b, a, d, e
<1>8. TypesChar(b, a, d, e) \/ TypesNewline(b, a, d, e) \/ TakesByte(b, a, d, e)
        \/ d \o e = b \o a
  BY <1>2, <1>3, <1>4, <1>5, <1>6, <1>7 DEF Plain!Next
<1> QED
  BY <1>8 DEF b, a, d, e

\* The bytes before and after a cursor at the beginning of the text.
LEMMA InitPoint == Init => Plain!Point!Init
<1> SUFFICES ASSUME Init PROVE Plain!Point!Init
  OBVIOUS
<1>1. /\ TextOf(rows) \in Seq(Line) /\ filerow = 0 /\ filecol = 0
  BY InitPlain DEF Plain!Init
<1> DEFINE s == TextOf(rows)
<1>2. OnText(s, 0, 0)
  <2>1. Inv /\ CursorInWindow
    BY InitInv, InitPlain
  <2> QED
    BY <1>1, <2>1, ShownOnText
<1> DEFINE all == editorRowsToString(s)
           none == <<>>
<1>3. BytesBefore(s, 0, 0) = <<>> /\ BytesAfter(s, 0, 0) \in Seq(Char \cup {NL})
  <2>1. s \in Seq(Line)
    BY <1>1
  <2> HIDE DEF s
  <2>2. SubSeq(s, 1, 0) = none /\ SubSeq(LineIn(s, 0), 1, 0) = none
    BY SubSeqEmpty
  <2>3. InLine(LineIn(s, 0), 0) = 0
    BY <1>2 DEF LineIn, InLine, OnText, Line
  <2>4. editorRowsToString(none) = none /\ none \o none = none /\ Len(none) = 0
    BY EmptyTextHasNoBytes, ConcatEmptySeq
  <2>5. all \in Seq(Char \cup {NL})
    BY <2>1, WrittenBytes DEF Bytes
  <2> HIDE DEF none
  <2>6. BytesBefore(s, 0, 0) = none
    BY <2>2, <2>3, <2>4, ZenonT(30) DEF BytesBefore
  <2>7. BytesAfter(s, 0, 0) = SubSeq(all, 0 + 1 + 0, Len(all))
    BY <2>2, <2>3, <2>4, ZenonT(30) DEF BytesAfter
  <2> HIDE DEF all
  <2>8. SubSeq(all, 0 + 1 + 0, Len(all)) = all
    BY <2>5, SubSeqFull
  <2> QED
    BY <2>5, <2>6, <2>7, <2>8 DEF none
<1> DEFINE line == Plain!LineAt(filerow)
           column == IF filecol > Len(line) THEN Len(line) ELSE filecol
           above == Plain!editorRowsToString(SubSeq(TextOf(rows), 1, filerow))
           bytes == Plain!editorRowsToString(TextOf(rows))
           before == above \o SubSeq(line, 1, column)
           after == SubSeq(bytes, Len(above) + 1 + column, Len(bytes))
<1>4. before = BytesBefore(s, 0, 0) /\ after = BytesAfter(s, 0, 0)
  BY <1>1, SameBytes DEF BytesBefore, BytesAfter, LineIn, InLine, Plain!LineAt
<1> QED
  BY <1>3, <1>4 DEF Plain!Point!Init

\* A key puts or takes one byte at the point and nothing else changes: through the window
\* and its offsets, through rows that are split, joined and padded, the editor is Text.
THEOREM TextIsImplemented == InWindowSpec => ImplementsText
<1>1. Init => Inv /\ CursorInWindow /\ Plain!Point!Init
  BY InitInv, InitPlain, InitPoint
<1>2. Inv /\ CursorInWindow /\ [Next /\ CursorInWindow']_vars => Inv' /\ CursorInWindow'
  BY ShownInvariant
<1>3. (Inv /\ CursorInWindow => OnText(TextOf(rows), filerow, filecol))'
  BY ShownOnText, PTL
<1>4. Inv /\ Inv' /\ CursorInWindow /\ CursorInWindow' /\ [Next /\ CursorInWindow']_vars
        => [Plain!Point!Next]_(Plain!Point!text)
  <2> SUFFICES ASSUME Inv, Inv', CursorInWindow, CursorInWindow', Next \/ UNCHANGED vars
               PROVE  Plain!Point!Next \/ UNCHANGED Plain!Point!text
    OBVIOUS
  <2>1. Plain!Next \/ UNCHANGED Plain!editor
    <3>1. UNCHANGED vars => UNCHANGED Plain!editor
      BY DEF vars, Plain!editor, filerow, filecol
    <3> QED
      BY <3>1, StepPlain
  <2>2. CASE UNCHANGED Plain!editor
    BY <2>2 DEF Plain!editor, Plain!Point!text, Plain!LineAt
  <2>3. CASE Plain!Next
    <3>1. PICK s, r, k, t, m, n : /\ s = TextOf(rows) /\ r = filerow /\ k = filecol
                                  /\ t = TextOf(rows') /\ m = filerow' /\ n = filecol'
      OBVIOUS
    <3>2. OnText(s, r, k)
      BY <3>1, ShownOnText
    <3>3. OnText(t, m, n)
      BY <1>3, <3>1
    <3> DEFINE b == BytesBefore(s, r, k)
               a == BytesAfter(s, r, k)
               d == BytesBefore(t, m, n)
               e == BytesAfter(t, m, n)
    <3>4. TypesChar(b, a, d, e) \/ TypesNewline(b, a, d, e) \/ TakesByte(b, a, d, e)
            \/ d \o e = b \o a
      BY <2>3, <3>1, <3>2, <3>3, BytesOfStep, ZenonT(30)
    <3>5. /\ b = BytesBefore(TextOf(rows), filerow, filecol)
          /\ a = BytesAfter(TextOf(rows), filerow, filecol)
          /\ d = BytesBefore(TextOf(rows'), filerow', filecol')
          /\ e = BytesAfter(TextOf(rows'), filerow', filecol')
      BY <3>1
    <3> HIDE DEF b, a, d, e
    <3>6. Plain!Point!Next
      BY <3>4, <3>5, PointStep, ZenonT(30)
    <3> QED
      BY <3>6
  <2> QED
    BY <2>1, <2>2, <2>3
<1> QED
  BY <1>1, <1>2, <1>4, PTL DEF InWindowSpec, ImplementsText, Plain!ImplementsText, Plain!Point!Spec
=============================================================================
