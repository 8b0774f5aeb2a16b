------------------------- MODULE ProgramFileProofs -------------------------
(***************************************************************************)
(* What the two loops of ProgramFile return, for every text and every      *)
(* file.  A loop is a recursive function on the numbers of its steps; its  *)
(* proofs go by induction on them (LeastNumber).                           *)
(***************************************************************************)
EXTENDS ProgramFile, SequenceTheorems, LeastNumber, TLAPS

-----------------------------------------------------------------------------
\* The steps of the loop of editorRowsToString(), each of them bytes.
LEMMA RowsToStringSteps ==
    ASSUME NEW lines \in Seq(Line)
    PROVE  \E buf \in [0..Len(lines) -> Bytes] :
             /\ \A j \in 0..Len(lines) :
                   buf[j] = IF j = 0 THEN <<>> ELSE buf[j - 1] \o lines[j] \o <<NL>>
             /\ editorRowsToString(lines) = buf[Len(lines)]
<1> DEFINE N == Len(lines)
           step == [p \in Bytes \X (1..N) |-> p[1] \o lines[p[2]] \o <<NL>>]
           IsLoop(h) ==
             h = [j \in 0..N |-> IF j = 0 THEN <<>> ELSE h[j - 1] \o lines[j] \o <<NL>>]
           buf == CHOOSE h : IsLoop(h)
<1>1. N \in Nat
  OBVIOUS
<1>2. ASSUME NEW b \in Bytes, NEW j \in 1..N
      PROVE  b \o lines[j] \o <<NL>> \in Bytes
  <2>1. lines[j] \in Bytes
    BY DEF Line, Bytes
  <2>2. <<NL>> \in Bytes
    BY DEF Bytes
  <2> QED
    BY <2>1, <2>2, ConcatProperties DEF Bytes
<1>3. <<>> \in Bytes
  BY DEF Bytes
<1>4. /\ step \in [Bytes \X (1..N) -> Bytes]
      /\ \A b \in Bytes, j \in 1..N : step[<<b, j>>] = b \o lines[j] \o <<NL>>
  BY <1>2
<1> HIDE DEF step, N
<1>5. PICK f \in [0..N -> Bytes] :
          \A n \in 0..N : f[n] = IF n = 0 THEN <<>> ELSE step[<<f[n - 1], n>>]
  <2>1. step \in Steps(Bytes, N)
    BY <1>4 DEF Steps
  <2>2. Runs(Bytes, N, <<>>, step) # {}
    BY <1>1, <1>3, <2>1, LoopRuns
  <2> QED
    BY <2>2 DEF Runs
<1>6. ASSUME NEW n \in 0..N
      PROVE  f[n] = IF n = 0 THEN <<>> ELSE f[n - 1] \o lines[n] \o <<NL>>
  <2>1. CASE n = 0
    BY <1>5, <2>1
  <2>2. CASE n \in 1..N
    <3>1. f[n - 1] \in Bytes /\ n # 0
      BY <1>1, <1>5, <2>2
    <3>2. step[<<f[n - 1], n>>] = f[n - 1] \o lines[n] \o <<NL>>
      BY <1>4, <2>2, <3>1
    <3>3. f[n] = step[<<f[n - 1], n>>]
      BY <1>5, <3>1
    <3> QED
      BY <3>1, <3>2, <3>3
  <2>3. n = 0 \/ n \in 1..N
    BY <1>1
  <2> QED
    BY <2>1, <2>2, <2>3
<1>7. IsLoop(f)
  BY <1>5, <1>6
<1>8. IsLoop(buf)
  <2> HIDE DEF IsLoop
  <2> QED
    BY <1>7
<1> HIDE DEF buf
<1>9. \A j \in 0..N : buf[j] = IF j = 0 THEN <<>> ELSE buf[j - 1] \o lines[j] \o <<NL>>
  BY <1>8
<1>10. ASSUME NEW j \in 0..N
       PROVE  buf[j] \in Bytes
  <2> DEFINE T == {k \in 0..N : buf[k] \in Bytes}
  <2>1. 0 \in T
    BY <1>1, <1>3, <1>9
  <2>2. ASSUME NEW n \in 0..N - 1, n \in T
        PROVE  n + 1 \in T
    <3>1. n + 1 \in 1..N /\ n + 1 \in 0..N /\ n + 1 # 0 /\ (n + 1) - 1 = n
      BY <1>1
    <3>2. buf[n + 1] = buf[n] \o lines[n + 1] \o <<NL>>
      BY <1>9, <3>1
    <3>3. buf[n] \in Bytes
      BY <2>2
    <3>4. buf[n] \o lines[n + 1] \o <<NL>> \in Bytes
      BY <1>2, <3>1, <3>3
    <3> QED
      BY <3>1, <3>2, <3>4
  <2> HIDE DEF T
  <2>3. j \in T
    BY <1>1, <2>1, <2>2, BoundedInduction
  <2> QED
    BY <2>3 DEF T
<1>11. buf \in [0..N -> Bytes]
  BY <1>8, <1>10
<1>12. editorRowsToString(lines) = buf[N]
  BY DEF editorRowsToString, buf, N
<1> QED
  BY <1>9, <1>11, <1>12 DEF N

\* A text without rows is an empty file.
LEMMA EmptyTextHasNoBytes ==
    editorRowsToString(<<>>) = <<>> /\ IsPrefix(<<>>, <<>>)
<1> DEFINE none == <<>>
<1>1. none \in Seq(Line) /\ Len(none) = 0 /\ none = <<>>
  OBVIOUS
<1> HIDE DEF none
<1>2. PICK buf \in [0..Len(none) -> Bytes] :
         /\ \A j \in 0..Len(none) :
               buf[j] = IF j = 0 THEN <<>> ELSE buf[j - 1] \o none[j] \o <<NL>>
         /\ editorRowsToString(none) = buf[Len(none)]
  BY <1>1, RowsToStringSteps
<1>3. editorRowsToString(none) = <<>>
  BY <1>1, <1>2
<1>4. IsPrefix(<<>>, <<>>)
  BY DEF IsPrefix
<1> QED
  BY <1>1, <1>3, <1>4
-----------------------------------------------------------------------------
\* The bytes fgets() has gathered make a line as soon as its end is cut off.
LEMMA StripEolType ==
    ASSUME NEW line \in Line, NEW byte \in Char \cup {NL}
    PROVE  /\ StripEol(Append(line, byte)) \in Line
           /\ StripEol(line) \in Line
<1> DEFINE more == Append(line, byte)
<1>1. /\ more \in Bytes /\ Len(more) = Len(line) + 1
      /\ \A i \in 1..Len(line) : more[i] = line[i]
      /\ more[Len(line) + 1] = byte
  <2>1. line \in Bytes
    BY DEF Line, Bytes
  <2> QED
    BY <2>1, AppendProperties DEF Bytes
<1>2. Front(more) \in Line
  <2>1. \A i \in 1..Len(line) : more[i] \in Char
    BY <1>1 DEF Line
  <2> QED
    BY <1>1, <2>1, SubSeqProperties DEF Front, Line
<1> HIDE DEF more
<1>3. ASSUME byte = NL
      PROVE  StripEol(more) \in Line
  <2>1. more # <<>> /\ Last(more) = NL
    BY <1>1, <1>3 DEF Last, Line
  <2> QED
    BY <1>2, <2>1 DEF StripEol
<1>4. ASSUME byte \in Char
      PROVE  StripEol(more) \in Line
  <2>1. more \in Line
    BY <1>4, AppendProperties DEF Line, more
  <2> QED
    BY <1>2, <2>1 DEF StripEol
<1>5. StripEol(line) \in Line
  <2>1. Front(line) \in Line
    BY SubSeqProperties DEF Front, Line
  <2> QED
    BY <2>1 DEF StripEol
<1> QED
  BY <1>3, <1>4, <1>5 DEF more

\* The state of the loop of editorOpen(): the rows so far, and the bytes read
\* since.
Reads == [rows : Seq(Line), line : Line]

\* One byte more read: rows and a line again.
LEMMA FgetsType ==
    ASSUME NEW read \in Reads, NEW byte \in Char \cup {NL}
    PROVE  fgets(read, byte) \in Reads
<1> DEFINE line == Append(read.line, byte)
<1>1. read.rows \in Seq(Line) /\ read.line \in Line
  BY DEF Reads
<1>2. CASE byte = NL \/ LineFull(line)
  <2>1. Append(read.rows, StripEol(line)) \in Seq(Line)
    BY <1>1, StripEolType, AppendProperties
  <2>2. <<>> \in Line
    BY DEF Line
  <2> QED
    BY <1>2, <2>1, <2>2 DEF fgets, Reads
<1>3. CASE ~ (byte = NL \/ LineFull(line))
  <2>1. line \in Line
    BY <1>1, <1>3, AppendProperties DEF Line
  <2>2. fgets(read, byte) = [read EXCEPT !.line = line]
    BY <1>3 DEF fgets
  <2> QED
    BY <2>1, <2>2 DEF Reads
<1> QED
  BY <1>2, <1>3

\* The loop of editorOpen() has a state after each byte.
LEMMA OpenLinesSteps ==
    ASSUME NEW bytes \in Bytes
    PROVE  \E read \in [0..Len(bytes) -> Reads] :
             /\ \A n \in 0..Len(bytes) :
                   read[n] = IF n = 0 THEN [rows |-> <<>>, line |-> <<>>]
                                      ELSE fgets(read[n - 1], bytes[n])
             /\ editorOpenLines(bytes) =
                   IF read[Len(bytes)].line = <<>> THEN read[Len(bytes)].rows
                   ELSE Append(read[Len(bytes)].rows, StripEol(read[Len(bytes)].line))
<1> DEFINE N == Len(bytes)
           s0 == [rows |-> <<>>, line |-> <<>>]
           step == [p \in Reads \X (1..N) |-> fgets(p[1], bytes[p[2]])]
           IsLoop(h) == h = [n \in 0..N |-> IF n = 0 THEN s0 ELSE fgets(h[n - 1], bytes[n])]
           read == CHOOSE h : IsLoop(h)
<1>1. N \in Nat /\ \A n \in 1..N : bytes[n] \in Char \cup {NL}
  BY DEF Bytes
<1>2. s0 \in Reads
  BY DEF Reads, Line
<1>3. \A r \in Reads, n \in 1..N : fgets(r, bytes[n]) \in Reads
  BY <1>1, FgetsType
<1>4. /\ step \in Steps(Reads, N)
      /\ \A r \in Reads, n \in 1..N : step[<<r, n>>] = fgets(r, bytes[n])
  BY <1>3 DEF Steps
<1> HIDE DEF step, N, s0
<1>5. PICK f \in [0..N -> Reads] :
          \A n \in 0..N : f[n] = IF n = 0 THEN s0 ELSE step[<<f[n - 1], n>>]
  <2>1. Runs(Reads, N, s0, step) # {}
    BY <1>1, <1>2, <1>4, LoopRuns
  <2> QED
    BY <2>1 DEF Runs
<1>6. ASSUME NEW n \in 0..N
      PROVE  f[n] = IF n = 0 THEN s0 ELSE fgets(f[n - 1], bytes[n])
  <2>1. CASE n = 0
    BY <1>5, <2>1
  <2>2. CASE n \in 1..N
    <3>1. f[n - 1] \in Reads /\ n # 0
      BY <1>1, <1>5, <2>2
    <3>2. step[<<f[n - 1], n>>] = fgets(f[n - 1], bytes[n])
      BY <1>4, <2>2, <3>1
    <3>3. f[n] = step[<<f[n - 1], n>>]
      BY <1>5, <3>1
    <3> QED
      BY <3>1, <3>2, <3>3
  <2>3. n = 0 \/ n \in 1..N
    BY <1>1
  <2> QED
    BY <2>1, <2>2, <2>3
<1>7. IsLoop(f)
  BY <1>5, <1>6
<1>8. IsLoop(read)
  <2> HIDE DEF IsLoop
  <2> QED
    BY <1>7
<1> HIDE DEF read
<1>9. \A n \in 0..N : read[n] = IF n = 0 THEN s0 ELSE fgets(read[n - 1], bytes[n])
  BY <1>8
<1>10. \A n \in 0..N : read[n] \in Reads
  <2> DEFINE T == {k \in 0..N : read[k] \in Reads}
  <2>1. 0 \in T
    BY <1>1, <1>2, <1>9
  <2>2. ASSUME NEW n \in 0..N - 1, n \in T
        PROVE  n + 1 \in T
    <3>1. n + 1 \in 1..N /\ n + 1 \in 0..N /\ n + 1 # 0 /\ (n + 1) - 1 = n
      BY <1>1
    <3>2. read[n + 1] = fgets(read[n], bytes[n + 1])
      BY <1>9, <3>1
    <3>3. read[n] \in Reads
      BY <2>2
    <3> QED
      BY <1>3, <3>1, <3>2, <3>3
  <2> HIDE DEF T
  <2>3. \A n \in 0..N : n \in T
    BY <1>1, <2>1, <2>2, BoundedInduction
  <2> QED
    BY <2>3 DEF T
<1>11. editorOpenLines(bytes) =
          IF read[N].line = <<>> THEN read[N].rows
                                 ELSE Append(read[N].rows, StripEol(read[N].line))
  BY DEF editorOpenLines, read, N, s0
<1>12. read \in [0..N -> Reads]
  BY <1>8, <1>10
<1> QED
  BY <1>9, <1>11, <1>12 DEF N, s0

\* Whatever bytes a file holds, editorOpen() makes lines of them.
THEOREM OpenLinesType ==
    ASSUME NEW bytes \in Bytes
    PROVE  editorOpenLines(bytes) \in Seq(Line)
<1>1. PICK end \in Reads :
          editorOpenLines(bytes) =
              IF end.line = <<>> THEN end.rows ELSE Append(end.rows, StripEol(end.line))
  <2>1. PICK read \in [0..Len(bytes) -> Reads] :
          editorOpenLines(bytes) =
              IF read[Len(bytes)].line = <<>> THEN read[Len(bytes)].rows
              ELSE Append(read[Len(bytes)].rows, StripEol(read[Len(bytes)].line))
    BY OpenLinesSteps
  <2>2. read[Len(bytes)] \in Reads
    BY DEF Bytes
  <2> QED
    BY <2>1, <2>2
<1>2. end.rows \in Seq(Line) /\ StripEol(end.line) \in Line
  BY <1>1, StripEolType DEF Reads
<1>3. Append(end.rows, StripEol(end.line)) \in Seq(Line)
  BY <1>2, AppendProperties
<1> QED
  BY <1>1, <1>2, <1>3

\* Only an empty file makes an empty text: no byte is read without a trace.
LEMMA OpenLinesEmpty ==
    ASSUME NEW bytes \in Bytes, editorOpenLines(bytes) = <<>>
    PROVE  bytes = <<>>
<1> DEFINE N == Len(bytes)
<1>1. PICK read \in [0..N -> Reads] :
          /\ \A n \in 0..N : read[n] = IF n = 0 THEN [rows |-> <<>>, line |-> <<>>]
                                                 ELSE fgets(read[n - 1], bytes[n])
          /\ editorOpenLines(bytes) =
                IF read[N].line = <<>> THEN read[N].rows
                                       ELSE Append(read[N].rows, StripEol(read[N].line))
  BY OpenLinesSteps
<1> HIDE DEF N
<1>2. ASSUME NEW s, NEW S, s \in Seq(S), NEW x \in S
      PROVE  Append(s, x) # <<>>
  <2>1. Len(Append(s, x)) = Len(s) + 1 /\ Len(s) \in Nat
    BY <1>2, AppendProperties
  <2> QED
    BY <2>1
<1>3. ASSUME N # 0 PROVE FALSE
  <2>1. N - 1 \in 0..N /\ N \in 1..N /\ N \in 0..N
    BY <1>3 DEF Bytes, N
  <2> DEFINE before == read[N - 1]
             line == Append(before.line, bytes[N])
  <2>2. before \in Reads /\ read[N] \in Reads /\ bytes[N] \in Char \cup {NL}
    <3>1. bytes[N] \in Char \cup {NL}
      BY <2>1 DEF Bytes, N
    <3> QED
      BY <1>1, <2>1, <3>1
  <2>3. read[N] = fgets(before, bytes[N])
    BY <1>1, <1>3, <2>1
  <2>4. before.rows \in Seq(Line) /\ StripEol(line) \in Line /\ before.line \in Seq(Char \cup {NL})
    <3>1. before.rows \in Seq(Line) /\ before.line \in Line
      BY <2>2 DEF Reads
    <3>2. StripEol(line) \in Line
      BY <2>2, <3>1, StripEolType
    <3> QED
      BY <3>1, <3>2 DEF Line
  <2>5. line # <<>> /\ Append(before.rows, StripEol(line)) # <<>>
    BY <1>2, <2>2, <2>4
  <2>6. read[N].line # <<>> \/ read[N].rows # <<>>
    BY <2>3, <2>5 DEF fgets
  <2>7. Append(read[N].rows, StripEol(read[N].line)) # <<>>
    BY <1>2, <2>2, StripEolType DEF Reads
  <2> QED
    BY <1>1, <2>6, <2>7
<1> QED
  BY <1>3 DEF Bytes, N

-----------------------------------------------------------------------------
(* What is written is read again.                                          *)

\* The first elements of a sequence, one more of them, and all.
LEMMA Beginning ==
    ASSUME NEW S, NEW s \in Seq(S), NEW k \in 0..Len(s)
    PROVE  /\ SubSeq(s, 1, k) \in Seq(S) /\ Len(SubSeq(s, 1, k)) = k
           /\ \A i \in 1..k : SubSeq(s, 1, k)[i] = s[i]
           /\ k < Len(s) => Append(SubSeq(s, 1, k), s[k + 1]) = SubSeq(s, 1, k + 1)
           /\ SubSeq(s, 1, 0) = <<>> /\ SubSeq(s, 1, Len(s)) = s
<1>0. Len(s) \in Nat /\ k \in Nat
  OBVIOUS
<1>1. ASSUME NEW m \in 0..Len(s)
      PROVE  /\ SubSeq(s, 1, m) \in Seq(S) /\ Len(SubSeq(s, 1, m)) = m
             /\ \A i \in 1..m : SubSeq(s, 1, m)[i] = s[i]
  <2>1. \A i \in 1..m : s[i] \in S
    BY <1>0
  <2> QED
    BY <1>0, <2>1, SubSeqProperties
<1>2. SubSeq(s, 1, 0) = <<>>
  BY SubSeqEmpty
<1>3. SubSeq(s, 1, Len(s)) = s
  <2>1. Len(s) \in 0..Len(s)
    BY <1>0
  <2> QED
    BY <1>1, <2>1, SeqEqual
<1>4. ASSUME k < Len(s)
      PROVE  Append(SubSeq(s, 1, k), s[k + 1]) = SubSeq(s, 1, k + 1)
  <2> DEFINE a == Append(SubSeq(s, 1, k), s[k + 1])
             b == SubSeq(s, 1, k + 1)
  <2>1. k + 1 \in 0..Len(s) /\ s[k + 1] \in S
    BY <1>0, <1>4
  <2>2. SubSeq(s, 1, k) \in Seq(S) /\ Len(SubSeq(s, 1, k)) = k
        /\ \A i \in 1..k : SubSeq(s, 1, k)[i] = s[i]
    BY <1>1
  <2>3. a \in Seq(S) /\ Len(a) = k + 1 /\ (\A i \in 1..k : a[i] = s[i]) /\ a[k + 1] = s[k + 1]
    BY <2>1, <2>2, AppendProperties
  <2>4. b \in Seq(S) /\ Len(b) = k + 1 /\ \A i \in 1..k + 1 : b[i] = s[i]
    BY <1>1, <2>1
  <2> HIDE DEF a, b
  <2>5. \A i \in 1..Len(a) : a[i] = b[i]
    BY <1>0, <2>3, <2>4
  <2>6. a = b
    BY <2>3, <2>4, <2>5, SeqEqual
  <2> QED
    BY <2>6 DEF a, b
<1> QED
  BY <1>1, <1>2, <1>3, <1>4

\* A line that ends in a newline loses it; the beginning of a line is one after its end is
\* cut off.
LEMMA StripEolIs ==
    ASSUME NEW line \in Line
    PROVE  /\ StripEol(Append(line, NL)) = line
           /\ \A k \in 0..Len(line) :
                /\ SubSeq(line, 1, k) \in Line
                /\ IsPrefix(StripEol(SubSeq(line, 1, k)), line)
<1>1. StripEol(Append(line, NL)) = line
  <2> DEFINE more == Append(line, NL)
  <2>1. line \in Bytes /\ NL \in Char \cup {NL} /\ line \in Seq(Char \cup {NL})
    BY DEF Line, Bytes
  <2>2. /\ more \in Seq(Char \cup {NL}) /\ more # <<>> /\ Len(more) = Len(line) + 1
        /\ \A i \in 1..Len(line) : more[i] = line[i]
        /\ more[Len(line) + 1] = NL
    BY <2>1, AppendProperties
  <2> HIDE DEF more
  <2>3. Last(more) = NL /\ Front(more) = SubSeq(more, 1, Len(line))
    <3>1. Len(line) \in Nat
      BY <2>1
    <3>2. Len(more) - 1 = Len(line)
      BY <2>2, <3>1
    <3> QED
      BY <2>2, <3>2 DEF Last, Front
  <2>4. SubSeq(more, 1, Len(line)) = line
    <3> DEFINE f == SubSeq(more, 1, Len(line))
    <3>1. Len(line) \in 0..Len(more) /\ Len(line) \in Nat
      BY <2>1, <2>2
    <3>2. f \in Seq(Char \cup {NL}) /\ Len(f) = Len(line)
          /\ \A i \in 1..Len(line) : f[i] = more[i]
      BY <2>2, <3>1, Beginning
    <3> HIDE DEF f
    <3>3. f = line
      BY <2>1, <2>2, <3>2, SeqEqual
    <3> QED
      BY <3>3 DEF f
  <2>5. StripEol(more) = line
    BY <2>2, <2>3, <2>4 DEF StripEol
  <2> QED
    BY <2>5 DEF more
<1>2. ASSUME NEW k \in 0..Len(line)
      PROVE  SubSeq(line, 1, k) \in Line /\ IsPrefix(StripEol(SubSeq(line, 1, k)), line)
  <2> DEFINE b == SubSeq(line, 1, k)
  <2>1. Len(line) \in Nat /\ k \in Nat
    BY DEF Line
  <2>2. b \in Seq(Char) /\ Len(b) = k /\ \A i \in 1..k : b[i] = line[i]
    BY Beginning DEF Line
  <2>3. ASSUME NEW m \in 0..k PROVE IsPrefix(SubSeq(b, 1, m), line)
    <3> DEFINE f == SubSeq(b, 1, m)
               g == SubSeq(line, 1, m)
    <3>1. m \in 0..Len(b) /\ m \in 0..Len(line) /\ m \in Nat
      BY <2>1, <2>2
    <3>2. f \in Seq(Char) /\ Len(f) = m /\ \A i \in 1..m : f[i] = b[i]
      BY <2>2, <3>1, Beginning
    <3>3. g \in Seq(Char) /\ Len(g) = m /\ \A i \in 1..m : g[i] = line[i]
      BY <3>1, Beginning DEF Line
    <3> HIDE DEF f, g
    <3>4. \A i \in 1..m : b[i] = line[i]
      BY <2>1, <2>2
    <3>5. f = g
      BY <3>2, <3>3, <3>4, SeqEqual
    <3>6. SubSeq(f, 1, Len(f)) = f /\ SubSeq(line, 1, Len(f)) = g
      <4>1. SubSeq(f, 1, Len(f)) = f
        <5>1. Len(f) \in 0..Len(f)
          BY <3>1, <3>2
        <5> QED
          BY <3>2, <5>1, Beginning
      <4> QED
        BY <3>2, <4>1 DEF g
    <3>7. IsPrefix(f, line)
      BY <2>1, <3>1, <3>2, <3>5, <3>6 DEF IsPrefix
    <3> QED
      BY <3>7 DEF f
  <2>4. StripEol(b) = SubSeq(b, 1, k) \/ (k >= 1 /\ StripEol(b) = SubSeq(b, 1, k - 1))
    <3>1. SubSeq(b, 1, k) = b
      <4>1. k \in 0..Len(b)
        BY <2>1, <2>2
      <4> QED
        BY <2>2, <4>1, Beginning
    <3>2. b # <<>> => k >= 1
      <4>1. k = 0 => b = <<>>
        BY Beginning DEF Line
      <4> QED
        BY <2>1, <4>1
    <3> HIDE DEF b
    <3> QED
      BY <2>2, <3>1, <3>2 DEF StripEol, Front
  <2>5. k \in 0..k /\ (k >= 1 => k - 1 \in 0..k)
    BY <2>1
  <2> HIDE DEF b
  <2>6. b \in Line /\ IsPrefix(StripEol(b), line)
    BY <2>2, <2>3, <2>4, <2>5 DEF Line
  <2> QED
    BY <2>6 DEF b
<1> QED
  BY <1>1, <1>2

\* What editorRowsToString() has after each of its rows.
IsWritten(buf, lines) ==
    \A j \in 0..Len(lines) :
        buf[j] = IF j = 0 THEN <<>> ELSE buf[j - 1] \o lines[j] \o <<NL>>

\* A row and a newline are added.
LEMMA WrittenRow ==
    ASSUME NEW lines \in Seq(Line), NEW buf \in [0..Len(lines) -> Bytes], IsWritten(buf, lines),
           NEW j \in 0..Len(lines) - 1
    PROVE  /\ Len(buf[j + 1]) = Len(buf[j]) + Len(lines[j + 1]) + 1
           /\ Len(buf[j + 1]) \in Nat /\ Len(buf[j]) \in Nat /\ Len(lines[j + 1]) \in Nat
           /\ \A i \in 1..Len(buf[j]) : buf[j + 1][i] = buf[j][i]
           /\ \A i \in 1..Len(lines[j + 1]) : buf[j + 1][Len(buf[j]) + i] = lines[j + 1][i]
           /\ buf[j + 1][Len(buf[j + 1])] = NL
<1> DEFINE b == buf[j]
           l == lines[j + 1]
           c == b \o l
           d == c \o <<NL>>
<1>1. /\ Len(lines) \in Nat /\ j \in 0..Len(lines) /\ j + 1 \in 0..Len(lines) /\ j + 1 # 0
      /\ j + 1 - 1 = j /\ j + 1 \in 1..Len(lines)
  OBVIOUS
<1>2. buf[j + 1] = d
  <2>1. PICK q \in 0..Len(lines) : q = j + 1 /\ q # 0 /\ q - 1 = j
    BY <1>1
  <2>2. buf[q] = buf[q - 1] \o lines[q] \o <<NL>>
    BY <2>1 DEF IsWritten
  <2> QED
    BY <2>1, <2>2
<1>3. /\ b \in Seq(Char \cup {NL}) /\ l \in Seq(Char \cup {NL}) /\ <<NL>> \in Seq(Char \cup {NL})
      /\ Len(<<NL>>) = 1 /\ <<NL>>[1] = NL
  <2>1. b \in Bytes
    BY <1>1 DEF IsWritten
  <2>2. l \in Seq(Char)
    BY DEF Line
  <2>3. l \in Seq(Char \cup {NL})
    BY <2>2
  <2> QED
    BY <2>1, <2>3 DEF Bytes
<1> HIDE DEF b, l
<1>4. /\ c \in Seq(Char \cup {NL}) /\ Len(c) = Len(b) + Len(l)
      /\ \A i \in 1..Len(b) + Len(l) : c[i] = IF i <= Len(b) THEN b[i] ELSE l[i - Len(b)]
  BY <1>3, ConcatProperties
<1> HIDE DEF c
<1>5. /\ d \in Seq(Char \cup {NL}) /\ Len(d) = Len(c) + 1
      /\ \A i \in 1..Len(c) + 1 : d[i] = IF i <= Len(c) THEN c[i] ELSE <<NL>>[i - Len(c)]
  BY <1>3, <1>4, ConcatProperties
<1> HIDE DEF d
<1>6. Len(b) \in Nat /\ Len(l) \in Nat /\ Len(d) \in Nat /\ Len(c) \in Nat
  BY <1>3, <1>4, <1>5
<1>7. \A i \in 1..Len(b) : d[i] = b[i]
  BY <1>4, <1>5, <1>6
<1>8. \A i \in 1..Len(l) : d[Len(b) + i] = l[i]
  <2> TAKE i \in 1..Len(l)
  <2>1. Len(b) + i \in 1..Len(b) + Len(l) /\ ~ (Len(b) + i <= Len(b)) /\ Len(b) + i - Len(b) = i
        /\ Len(b) + i \in 1..Len(c) + 1 /\ Len(b) + i <= Len(c)
    BY <1>4, <1>6
  <2> QED
    BY <1>4, <1>5, <2>1
<1>9. d[Len(d)] = NL
  <2>1. Len(d) \in 1..Len(c) + 1 /\ ~ (Len(d) <= Len(c)) /\ Len(d) - Len(c) = 1
    BY <1>5, <1>6
  <2> QED
    BY <1>3, <1>5, <2>1
<1> QED
  BY <1>2, <1>4, <1>5, <1>6, <1>7, <1>8, <1>9 DEF b, l

\* What is written stays where it is.
LEMMA WrittenStays ==
    ASSUME NEW lines \in Seq(Line), NEW buf \in [0..Len(lines) -> Bytes], IsWritten(buf, lines)
    PROVE  \A j \in 0..Len(lines) :
              /\ Len(buf[j]) \in Nat /\ Len(buf[j]) <= Len(buf[Len(lines)])
              /\ \A i \in 1..Len(buf[j]) : buf[Len(lines)][i] = buf[j][i]
<1> DEFINE N == Len(lines)
           Below(k, m) == /\ Len(buf[k]) <= Len(buf[m])
                          /\ \A i \in 1..Len(buf[k]) : buf[m][i] = buf[k][i]
           T == {m \in 0..N : \A k \in 0..m : Below(k, m)}
<1>1. N \in Nat
  OBVIOUS
<1>2. \A k \in 0..N : Len(buf[k]) \in Nat
  <2> TAKE k \in 0..N
  <2>1. buf[k] \in Bytes
    BY DEF IsWritten
  <2> QED
    BY <2>1 DEF Bytes
<1>3. 0 \in T
  BY <1>1, <1>2
<1>4. ASSUME NEW m \in 0..N - 1, m \in T PROVE m + 1 \in T
  <2>1. m + 1 \in 1..N /\ m + 1 \in 0..N /\ m + 1 - 1 = m /\ m \in 0..N
    BY <1>1
  <2>2. \A i \in 1..Len(buf[m]) : buf[m + 1][i] = buf[m][i]
    BY WrittenRow
  <2>4. Len(buf[m]) <= Len(buf[m + 1]) /\ Len(buf[m]) \in Nat /\ Len(buf[m + 1]) \in Nat
    <3>1. /\ Len(buf[m + 1]) = Len(buf[m]) + Len(lines[m + 1]) + 1 /\ Len(lines[m + 1]) \in Nat
          /\ Len(buf[m]) \in Nat /\ Len(buf[m + 1]) \in Nat
      BY WrittenRow
    <3> QED
      BY <3>1
  <2>3. ASSUME NEW k \in 0..m + 1 PROVE Below(k, m + 1)
    <3>1. CASE k = m + 1
      BY <1>2, <2>1, <3>1
    <3>2. CASE k \in 0..m
      <4>1. Below(k, m) /\ k \in 0..N
        BY <1>1, <1>4, <3>2
      <4>2. Len(buf[k]) \in Nat /\ Len(buf[m]) \in Nat
        BY <1>2, <2>1, <4>1
      <4>3. Len(buf[k]) <= Len(buf[m + 1])
        <5>1. Len(buf[k]) <= Len(buf[m])
          BY <4>1
        <5> QED
          BY <2>4, <4>2, <5>1
      <4>4. ASSUME NEW i \in 1..Len(buf[k]) PROVE buf[m + 1][i] = buf[k][i]
        <5>1. i \in 1..Len(buf[m])
          BY <4>1, <4>2
        <5>2. buf[m + 1][i] = buf[m][i] /\ buf[m][i] = buf[k][i]
          BY <2>2, <4>1, <5>1
        <5> QED
          BY <5>2
      <4> QED
        BY <4>3, <4>4
    <3>3. k = m + 1 \/ k \in 0..m
      BY <2>1
    <3> QED
      BY <3>1, <3>2, <3>3
  <2> QED
    BY <2>1, <2>3
<1> HIDE DEF T
<1>5. N \in T
  <2>1. \A n \in 0..N : n \in T
    BY <1>1, <1>3, <1>4, BoundedInduction
  <2> QED
    BY <1>1, <2>1
<1> QED
  BY <1>2, <1>5 DEF T

\* Lines that fgets() takes in one piece.
Fits(lines) == \A i \in DOMAIN lines : Len(lines[i]) < LineMax - 1

\* After n bytes of the file, editorOpen() has j lines and the beginning of the next.
ReadTo(lines, buf, n, r, j) ==
    /\ Len(buf[j]) <= n
    /\ r.rows = SubSeq(lines, 1, j)
    /\ j = Len(lines) => n = Len(buf[j]) /\ r.line = <<>>
    /\ j < Len(lines) => /\ n - Len(buf[j]) <= Len(lines[j + 1])
                         /\ r.line = SubSeq(lines[j + 1], 1, n - Len(buf[j]))

\* One byte more.
LEMMA ReadNext ==
    ASSUME NEW lines \in Seq(Line), Fits(lines), NEW buf \in [0..Len(lines) -> Bytes],
           IsWritten(buf, lines), NEW n \in Nat, n < Len(buf[Len(lines)]), NEW r \in Reads,
           NEW j \in 0..Len(lines), ReadTo(lines, buf, n, r, j)
    PROVE  \E k \in 0..Len(lines) :
              ReadTo(lines, buf, n + 1, fgets(r, buf[Len(lines)][n + 1]), k)
<1>1. Len(lines) \in Nat /\ j \in Nat /\ j < Len(lines) /\ j + 1 \in 1..Len(lines)
      /\ j + 1 \in 0..Len(lines) /\ j + 1 - 1 = j
  BY DEF ReadTo
<1>0. PICK byte : byte = buf[Len(lines)][n + 1]
  OBVIOUS
<1>2. PICK l \in Line, len \in Nat, at \in Nat :
         /\ l = lines[j + 1] /\ Len(l) = len /\ Len(buf[j]) = at
         /\ Len(buf[j + 1]) = at + len + 1
         /\ \A i \in 1..len : buf[j + 1][at + i] = l[i]
         /\ buf[j + 1][at + len + 1] = NL
  <2>1. lines[j + 1] \in Line /\ j \in 0..Len(lines) - 1
    BY <1>1
  <2>2. /\ Len(buf[j + 1]) = Len(buf[j]) + Len(lines[j + 1]) + 1
        /\ Len(buf[j]) \in Nat /\ Len(lines[j + 1]) \in Nat
        /\ \A i \in 1..Len(lines[j + 1]) : buf[j + 1][Len(buf[j]) + i] = lines[j + 1][i]
        /\ buf[j + 1][Len(buf[j + 1])] = NL
    BY <2>1, WrittenRow
  <2> QED
    BY <2>1, <2>2
<1>3. PICK k \in 0..len :
         n = at + k /\ n - at = k /\ r.rows = SubSeq(lines, 1, j) /\ r.line = SubSeq(l, 1, k)
  <2>1. at <= n /\ n - at <= len /\ r.rows = SubSeq(lines, 1, j)
        /\ r.line = SubSeq(l, 1, n - at)
    <3>1. l = lines[j + 1] /\ Len(l) = len /\ Len(buf[j]) = at
      BY <1>2
    <3> QED
      BY <1>1, <3>1 DEF ReadTo
  <2>2. n - at \in 0..len /\ n = at + (n - at)
    BY <2>1
  <2> QED
    BY <2>1, <2>2
<1>11. n = at + k /\ n - at = k /\ k \in Nat /\ Len(l) = len /\ k \in 0..len /\ Len(buf[j]) = at
       /\ l = lines[j + 1] /\ Len(buf[j + 1]) = at + len + 1
  BY <1>2, <1>3
<1>4. byte = buf[j + 1][n + 1]
  <2>1. n + 1 \in 1..Len(buf[j + 1])
    BY <1>11
  <2> QED
    BY <1>0, <1>1, <2>1, WrittenStays
<1>5. len < LineMax - 1 /\ LineMax \in Nat
  BY <1>1, <1>11, FileAssumption DEF Fits
<1>6. /\ r.line \in Seq(Char) /\ Len(r.line) = k
      /\ k < len => Append(r.line, l[k + 1]) = SubSeq(l, 1, k + 1)
      /\ SubSeq(l, 1, 0) = <<>> /\ SubSeq(l, 1, len) = l
  <2>1. l \in Seq(Char) /\ k \in 0..Len(l)
    BY <1>11 DEF Line
  <2> QED
    BY <1>3, <1>11, <2>1, Beginning
<1>7. CASE k < len
  <2>1. byte = l[k + 1] /\ byte \in Char /\ byte # NL
    <3>1. k + 1 \in 1..len /\ at + (k + 1) = n + 1
      BY <1>11, <1>7
    <3>2. byte = l[k + 1]
      BY <1>2, <1>4, <3>1
    <3>3. l[k + 1] \in Char
      <4>1. l \in Seq(Char) /\ k + 1 \in 1..Len(l)
        BY <1>11, <3>1 DEF Line
      <4> QED
        BY <4>1
    <3> QED
      BY <3>2, <3>3, FileAssumption
  <2>2. PICK more : /\ more = Append(r.line, byte) /\ more = SubSeq(l, 1, k + 1)
                    /\ Len(more) = k + 1
    <3>1. Len(Append(r.line, byte)) = Len(r.line) + 1
      BY <1>6, <2>1, AppendProperties
    <3> QED
      BY <1>6, <1>7, <2>1, <3>1
  <2>3. ~LineFull(more)
    <3>1. Len(more) = k + 1
      BY <2>2
    <3> QED
      BY <1>5, <1>7, <1>11, <3>1 DEF LineFull
  <2>4. fgets(r, byte) = [r EXCEPT !.line = more]
    BY <2>1, <2>2, <2>3 DEF fgets
  <2>5. fgets(r, byte).rows = r.rows /\ fgets(r, byte).line = more
    BY <2>4 DEF Reads
  <2>6. n + 1 - at = k + 1 /\ at <= n + 1 /\ k + 1 <= len
    BY <1>7, <1>11
  <2>7. ReadTo(lines, buf, n + 1, fgets(r, byte), j)
    BY <1>1, <1>3, <1>11, <2>2, <2>5, <2>6 DEF ReadTo
  <2> QED
    BY <1>0, <2>7
<1>8. CASE k = len
  <2>1. byte = NL
    <3>1. n + 1 = at + len + 1
      BY <1>8, <1>11
    <3> QED
      BY <1>2, <1>4, <3>1
  <2>2. r.line = l
    BY <1>3, <1>6, <1>8
  <2>3. StripEol(Append(r.line, byte)) = l
    BY <2>1, <2>2, StripEolIs
  <2>4. fgets(r, byte) = [rows |-> Append(r.rows, l), line |-> <<>>]
    BY <2>1, <2>3 DEF fgets
  <2>5. Append(r.rows, l) = SubSeq(lines, 1, j + 1)
    <3>1. j \in 0..Len(lines) /\ j < Len(lines)
      BY <1>1
    <3> QED
      BY <1>3, <1>11, <3>1, Beginning
  <2>6. Len(buf[j + 1]) = n + 1 /\ n + 1 - Len(buf[j + 1]) = 0
    BY <1>8, <1>11
  <2>7. j + 1 < Len(lines) =>
          Len(lines[j + 1 + 1]) \in Nat /\ SubSeq(lines[j + 1 + 1], 1, 0) = <<>>
    <3> SUFFICES ASSUME j + 1 < Len(lines)
                 PROVE  Len(lines[j + 1 + 1]) \in Nat /\ SubSeq(lines[j + 1 + 1], 1, 0) = <<>>
      OBVIOUS
    <3>1. lines[j + 1 + 1] \in Line
      BY <1>1
    <3> QED
      BY <3>1, SubSeqEmpty DEF Line
  <2>8. ReadTo(lines, buf, n + 1, fgets(r, byte), j + 1)
    BY <1>1, <2>4, <2>5, <2>6, <2>7 DEF ReadTo
  <2> QED
    BY <1>0, <1>1, <2>8
<1>9. k < len \/ k = len
  BY <1>11
<1> QED
  BY <1>7, <1>8, <1>9

\* What is written are bytes.
LEMMA WrittenBytes ==
    ASSUME NEW lines \in Seq(Line)
    PROVE  editorRowsToString(lines) \in Bytes
<1>1. PICK buf \in [0..Len(lines) -> Bytes] : editorRowsToString(lines) = buf[Len(lines)]
  BY RowsToStringSteps
<1>2. Len(lines) \in 0..Len(lines)
  OBVIOUS
<1> QED
  BY <1>1, <1>2

\* What is read of the first bytes of a text that was written.
LEMMA ReadsBack ==
    ASSUME NEW lines \in Seq(Line), Fits(lines), NEW size \in 0..Len(editorRowsToString(lines)),
           NEW bytes \in Bytes, Len(bytes) = size,
           \A i \in 1..size : bytes[i] = editorRowsToString(lines)[i]
    PROVE  \E buf \in [0..Len(lines) -> Bytes], r \in Reads, j \in 0..Len(lines) :
              /\ IsWritten(buf, lines)
              /\ editorRowsToString(lines) = buf[Len(lines)]
              /\ editorOpenLines(bytes) =
                    IF r.line = <<>> THEN r.rows ELSE Append(r.rows, StripEol(r.line))
              /\ ReadTo(lines, buf, size, r, j)
<1>1. PICK buf \in [0..Len(lines) -> Bytes] :
        /\ \A j \in 0..Len(lines) :
              buf[j] = IF j = 0 THEN <<>> ELSE buf[j - 1] \o lines[j] \o <<NL>>
        /\ editorRowsToString(lines) = buf[Len(lines)]
  BY RowsToStringSteps
<1>2. IsWritten(buf, lines)
  BY <1>1 DEF IsWritten
<1>3. PICK read \in [0..Len(bytes) -> Reads] :
        /\ \A n \in 0..Len(bytes) :
              read[n] = IF n = 0 THEN [rows |-> <<>>, line |-> <<>>]
                                 ELSE fgets(read[n - 1], bytes[n])
        /\ editorOpenLines(bytes) =
              IF read[Len(bytes)].line = <<>> THEN read[Len(bytes)].rows
              ELSE Append(read[Len(bytes)].rows, StripEol(read[Len(bytes)].line))
  BY OpenLinesSteps
<1>4. size \in Nat /\ Len(buf[Len(lines)]) \in Nat /\ size <= Len(buf[Len(lines)])
      /\ Len(lines) \in Nat
  <2>1. Len(lines) \in Nat /\ Len(lines) \in 0..Len(lines)
    OBVIOUS
  <2>2. Len(buf[Len(lines)]) \in Nat
    BY <1>2, <2>1, WrittenStays
  <2> QED
    BY <1>1, <2>1, <2>2
<1> DEFINE T == {n \in 0..size : \E j \in 0..Len(lines) : ReadTo(lines, buf, n, read[n], j)}
<1>5. 0 \in T
  <2>1. 0 \in 0..Len(bytes) /\ 0 \in 0..size /\ 0 \in 0..Len(lines)
    BY <1>4
  <2>2. read[0].rows = <<>> /\ read[0].line = <<>>
    BY <1>3, <2>1
  <2>3. Len(buf[0]) = 0
    <3>1. buf[0] = <<>>
      BY <1>2, <2>1 DEF IsWritten
    <3> QED
      BY <3>1
  <2>4. SubSeq(lines, 1, 0) = <<>>
    BY SubSeqEmpty
  <2>5. 0 < Len(lines) =>
          Len(lines[0 + 1]) \in Nat /\ SubSeq(lines[0 + 1], 1, 0) = <<>>
    <3> SUFFICES ASSUME 0 < Len(lines)
                 PROVE  Len(lines[0 + 1]) \in Nat /\ SubSeq(lines[0 + 1], 1, 0) = <<>>
      OBVIOUS
    <3>1. lines[0 + 1] \in Line
      BY <1>4
    <3> QED
      BY <3>1, SubSeqEmpty DEF Line
  <2>6. 0 - Len(buf[0]) = 0 /\ Len(buf[0]) <= 0
    BY <2>3
  <2>7. ReadTo(lines, buf, 0, read[0], 0)
    BY <2>2, <2>3, <2>4, <2>5, <2>6 DEF ReadTo
  <2> QED
    BY <2>1, <2>7
<1>6. ASSUME NEW n \in 0..size - 1, n \in T PROVE n + 1 \in T
  <2>1. n \in Nat /\ n \in 0..Len(bytes) /\ n + 1 \in 0..size /\ n + 1 \in 1..size
        /\ n < Len(buf[Len(lines)])
    BY <1>4
  <2>2. PICK j \in 0..Len(lines) : ReadTo(lines, buf, n, read[n], j)
    BY <1>6
  <2>3. read[n] \in Reads
    BY <2>1
  <2>4. \E k \in 0..Len(lines) :
           ReadTo(lines, buf, n + 1, fgets(read[n], buf[Len(lines)][n + 1]), k)
    BY <1>2, <2>1, <2>2, <2>3, ReadNext
  <2>5. read[n + 1] = fgets(read[n], buf[Len(lines)][n + 1])
    <3>1. PICK q \in 0..Len(bytes) : q = n + 1 /\ q # 0 /\ q - 1 = n
      BY <1>4, <2>1
    <3>2. read[q] = fgets(read[q - 1], bytes[q])
      BY <1>3, <3>1
    <3>3. bytes[n + 1] = buf[Len(lines)][n + 1]
      BY <1>1, <2>1
    <3> QED
      BY <3>1, <3>2, <3>3
  <2> QED
    BY <2>1, <2>4, <2>5
<1> HIDE DEF T
<1>7. size \in T
  <2>1. \A n \in 0..size : n \in T
    BY <1>4, <1>5, <1>6, BoundedInduction
  <2> QED
    BY <1>4, <2>1
<1>8. PICK j \in 0..Len(lines) : ReadTo(lines, buf, size, read[size], j)
  BY <1>7 DEF T
<1>9. read[size] \in Reads
  BY <1>4
<1> QED
  BY <1>1, <1>2, <1>3, <1>8, <1>9

\* Lines that fit the buffer are read as they were written.
THEOREM TextReopens ==
    ASSUME NEW lines \in Seq(Line), Fits(lines)
    PROVE  editorOpenLines(editorRowsToString(lines)) = lines
<1> DEFINE bytes == editorRowsToString(lines)
<1>1. bytes \in Bytes /\ Len(bytes) \in Nat
  <2>1. bytes \in Bytes
    BY WrittenBytes
  <2> QED
    BY <2>1 DEF Bytes
<1> HIDE DEF bytes
<1>2. PICK buf \in [0..Len(lines) -> Bytes], r \in Reads, j \in 0..Len(lines) :
        /\ IsWritten(buf, lines)
        /\ bytes = buf[Len(lines)]
        /\ editorOpenLines(bytes) =
              IF r.line = <<>> THEN r.rows ELSE Append(r.rows, StripEol(r.line))
        /\ ReadTo(lines, buf, Len(bytes), r, j)
  <2>1. Len(bytes) \in 0..Len(bytes)
    BY <1>1
  <2> QED
    BY <1>1, <2>1, ReadsBack DEF bytes
<1>3. j = Len(lines)
  <2> SUFFICES ASSUME j < Len(lines) PROVE FALSE
    OBVIOUS
  <2>1. j \in 0..Len(lines) - 1 /\ j + 1 \in 0..Len(lines)
    OBVIOUS
  <2>2. /\ Len(buf[j + 1]) = Len(buf[j]) + Len(lines[j + 1]) + 1
        /\ Len(buf[j]) \in Nat /\ Len(lines[j + 1]) \in Nat /\ Len(buf[j + 1]) \in Nat
    BY <1>2, <2>1, WrittenRow
  <2>3. Len(buf[j + 1]) <= Len(bytes)
    BY <1>2, <2>1, WrittenStays
  <2>4. Len(bytes) - Len(buf[j]) <= Len(lines[j + 1])
    BY <1>2 DEF ReadTo
  <2> QED
    BY <1>1, <2>2, <2>3, <2>4
<1>4. r.line = <<>> /\ r.rows = SubSeq(lines, 1, Len(lines))
  BY <1>2, <1>3 DEF ReadTo
<1>5. SubSeq(lines, 1, Len(lines)) = lines
  <2>1. Len(lines) \in 0..Len(lines)
    OBVIOUS
  <2> QED
    BY <2>1, Beginning
<1> QED
  BY <1>2, <1>4, <1>5 DEF bytes

\* The first bytes of what was written are read as the first lines and the beginning of the
\* next.
THEOREM BeginningReopens ==
    ASSUME NEW lines \in Seq(Line), Fits(lines),
           NEW n \in 0..Len(editorRowsToString(lines)),
           NEW again, again = editorOpenLines(SubSeq(editorRowsToString(lines), 1, n))
    PROVE  /\ again \in Seq(Line)
           /\ \A i \in DOMAIN again :
                /\ i \in DOMAIN lines
                /\ IsPrefix(again[i], lines[i])
                /\ i < Len(again) => again[i] = lines[i]
<1> DEFINE bytes == SubSeq(editorRowsToString(lines), 1, n)
<1>1. /\ bytes \in Bytes /\ Len(bytes) = n
      /\ \A i \in 1..n : bytes[i] = editorRowsToString(lines)[i]
  <2>1. editorRowsToString(lines) \in Bytes
    BY WrittenBytes
  <2> QED
    BY <2>1, Beginning DEF Bytes
<1> HIDE DEF bytes
<1>2. PICK buf \in [0..Len(lines) -> Bytes], r \in Reads, j \in 0..Len(lines) :
        /\ IsWritten(buf, lines)
        /\ editorOpenLines(bytes) =
              IF r.line = <<>> THEN r.rows ELSE Append(r.rows, StripEol(r.line))
        /\ ReadTo(lines, buf, n, r, j)
  BY <1>1, ReadsBack
<1>3. /\ r.rows = SubSeq(lines, 1, j) /\ r.rows \in Seq(Line) /\ Len(r.rows) = j
      /\ \A i \in 1..j : r.rows[i] = lines[i]
  <2>1. r.rows = SubSeq(lines, 1, j)
    BY <1>2 DEF ReadTo
  <2> QED
    BY <2>1, Beginning
<1>4. j \in Nat /\ Len(lines) \in Nat /\ DOMAIN lines = 1..Len(lines) /\ j <= Len(lines)
  OBVIOUS
<1>5. \A l \in Line : IsPrefix(l, l)
  <2> TAKE l \in Line
  <2>1. Len(l) \in Nat /\ Len(l) <= Len(l)
    BY DEF Line
  <2> QED
    BY <2>1 DEF IsPrefix
<1>6. CASE r.line = <<>>
  <2>1. again = r.rows
    BY <1>2, <1>6 DEF bytes
  <2>2. ASSUME NEW i \in 1..j
        PROVE  i \in DOMAIN lines /\ again[i] = lines[i] /\ IsPrefix(lines[i], lines[i])
    <3>1. i \in 1..Len(lines)
      BY <1>4
    <3> QED
      BY <1>3, <1>4, <1>5, <2>1, <3>1
  <2>3. DOMAIN again = 1..j
    BY <1>3, <2>1
  <2> QED
    BY <1>3, <2>1, <2>2, <2>3
<1>7. CASE r.line # <<>>
  <2> DEFINE l == lines[j + 1]
             last == StripEol(r.line)
  <2>1. again = Append(r.rows, last)
    BY <1>2, <1>7 DEF bytes
  <2>2. PICK k \in Nat : /\ j < Len(lines) /\ k <= Len(l) /\ r.line = SubSeq(l, 1, k)
    <3>1. j < Len(lines)
      <4>1. j # Len(lines)
        BY <1>2, <1>7 DEF ReadTo
      <4>2. j \in Nat /\ Len(lines) \in Nat /\ j <= Len(lines)
        BY <1>4
      <4> QED
        BY <4>1, <4>2
    <3>2. Len(buf[j]) \in Nat
      BY <1>2, WrittenStays
    <3>3. Len(buf[j]) <= n /\ n - Len(buf[j]) <= Len(l) /\ r.line = SubSeq(l, 1, n - Len(buf[j]))
      BY <1>2, <3>1 DEF ReadTo
    <3>4. n \in Nat
      <4>1. editorRowsToString(lines) \in Bytes
        BY WrittenBytes
      <4> QED
        BY <4>1 DEF Bytes
    <3>5. n - Len(buf[j]) \in Nat
      BY <3>2, <3>3, <3>4
    <3> QED
      BY <3>1, <3>3, <3>5
  <2>3. j + 1 \in 1..Len(lines) /\ l \in Line /\ k \in 0..Len(l)
    <3>1. j + 1 \in 1..Len(lines)
      BY <1>4, <2>2
    <3>2. l \in Line
      BY <3>1
    <3> QED
      BY <2>2, <3>1, <3>2 DEF Line
  <2>4. IsPrefix(last, l) /\ r.line \in Line
    BY <2>2, <2>3, StripEolIs
  <2>5. last \in Line
    <3>1. NL \in Char \cup {NL}
      OBVIOUS
    <3> QED
      BY <2>4, <3>1, StripEolType
  <2> HIDE DEF last
  <2>6. /\ again \in Seq(Line) /\ Len(again) = j + 1
        /\ \A i \in 1..j : again[i] = r.rows[i]
        /\ again[j + 1] = last
    <3>1. r.rows \in Seq(Line) /\ Len(r.rows) = j
      BY <1>3
    <3>2. PICK rs \in Seq(Line) : rs = r.rows
      BY <3>1
    <3>3. /\ Append(rs, last) \in Seq(Line) /\ Len(Append(rs, last)) = Len(rs) + 1
          /\ \A i \in 1..Len(rs) : Append(rs, last)[i] = rs[i]
          /\ Append(rs, last)[Len(rs) + 1] = last
      BY <2>5, AppendProperties
    <3> QED
      BY <2>1, <3>1, <3>2, <3>3
  <2>7. ASSUME NEW i \in 1..j
        PROVE  i \in DOMAIN lines /\ again[i] = lines[i] /\ IsPrefix(lines[i], lines[i])
    <3>1. i \in 1..Len(lines)
      BY <1>4
    <3> QED
      BY <1>3, <1>4, <1>5, <2>6, <3>1
  <2>8. DOMAIN again = 1..j + 1
    BY <2>6
  <2>9. ASSUME NEW i \in 1..j + 1
        PROVE  /\ i \in DOMAIN lines
               /\ IsPrefix(again[i], lines[i])
               /\ i < Len(again) => again[i] = lines[i]
    <3>1. CASE i \in 1..j
      BY <2>7, <3>1
    <3>2. CASE i = j + 1
      BY <1>4, <2>3, <2>4, <2>6, <3>2
    <3>3. i \in 1..j \/ i = j + 1
      BY <1>4
    <3> QED
      BY <3>1, <3>2, <3>3
  <2> QED
    BY <2>6, <2>8, <2>9
<1> QED
  BY <1>6, <1>7

-----------------------------------------------------------------------------
(* The bytes of a text in parts.                                           *)

\* One line more is its characters and a newline more.
LEMMA WrittenAppend ==
    ASSUME NEW s \in Seq(Line), NEW l \in Line
    PROVE  editorRowsToString(Append(s, l)) = editorRowsToString(s) \o l \o <<NL>>
<1> DEFINE t == Append(s, l)
           N == Len(s)
<1>1. /\ N \in Nat /\ t \in Seq(Line) /\ Len(t) = N + 1 /\ t[N + 1] = l
      /\ \A i \in 1..N : t[i] = s[i]
  OBVIOUS
<1> HIDE DEF t
<1>2. PICK buf \in [0..N -> Bytes] :
         /\ \A j \in 0..N : buf[j] = IF j = 0 THEN <<>> ELSE buf[j - 1] \o s[j] \o <<NL>>
         /\ editorRowsToString(s) = buf[N]
  BY RowsToStringSteps
<1>3. PICK more \in [0..Len(t) -> Bytes] :
         /\ \A j \in 0..Len(t) :
               more[j] = IF j = 0 THEN <<>> ELSE more[j - 1] \o t[j] \o <<NL>>
         /\ editorRowsToString(t) = more[Len(t)]
  <2>1. t \in Seq(Line)
    BY <1>1
  <2> QED
    BY <2>1, RowsToStringSteps, ZenonT(30)
<1> DEFINE T == {n \in 0..N : more[n] = buf[n]}
<1>4. 0 \in T
  <2>1. 0 \in 0..N /\ 0 \in 0..Len(t)
    BY <1>1
  <2>2. buf[0] = <<>> /\ more[0] = <<>>
    BY <1>2, <1>3, <2>1
  <2> QED
    BY <2>1, <2>2
<1>5. ASSUME NEW n \in 0..N - 1, n \in T PROVE n + 1 \in T
  <2>1. n + 1 \in 0..N /\ n + 1 \in 0..Len(t) /\ n + 1 \in 1..N /\ n + 1 # 0 /\ (n + 1) - 1 = n
    BY <1>1
  <2>2. buf[n + 1] = buf[n] \o s[n + 1] \o <<NL>>
    BY <1>2, <2>1
  <2>3. more[n + 1] = more[n] \o t[n + 1] \o <<NL>>
    BY <1>3, <2>1
  <2>4. more[n] = buf[n] /\ t[n + 1] = s[n + 1]
    BY <1>1, <1>5, <2>1
  <2> QED
    BY <2>1, <2>2, <2>3, <2>4
<1>6. \A n \in 0..N : n \in T
  <2> HIDE DEF T
  <2> QED
    BY <1>1, <1>4, <1>5, BoundedInduction
<1>7. more[N] = buf[N]
  BY <1>1, <1>6
<1>8. more[N + 1] = more[N] \o t[N + 1] \o <<NL>>
  <2>1. N + 1 \in 0..Len(t) /\ N + 1 # 0 /\ (N + 1) - 1 = N
    BY <1>1
  <2> QED
    BY <1>3, <2>1
<1> QED
  BY <1>1, <1>2, <1>3, <1>7, <1>8 DEF t

\* A text of one line.
LEMMA WrittenOne ==
    ASSUME NEW l \in Line
    PROVE  editorRowsToString(<<l>>) = l \o <<NL>>
<1> DEFINE none == <<>>
<1>1. none \in Seq(Line) /\ Append(none, l) = <<l>>
  OBVIOUS
<1>2. none \o l = l
  BY DEF Line
<1>3. editorRowsToString(none) = none
  BY EmptyTextHasNoBytes
<1> HIDE DEF none
<1>4. editorRowsToString(Append(none, l)) = editorRowsToString(none) \o l \o <<NL>>
  BY <1>1, WrittenAppend, ZenonT(30)
<1> QED
  BY <1>1, <1>2, <1>3, <1>4

\* The bytes of some lines and then some others.
LEMMA WrittenConcat ==
    ASSUME NEW s \in Seq(Line), NEW t \in Seq(Line)
    PROVE  editorRowsToString(s \o t) = editorRowsToString(s) \o editorRowsToString(t)
<1> DEFINE N == Len(t)
           B == Char \cup {NL}
           first(n) == SubSeq(t, 1, n)
           T == {n \in 0..N : editorRowsToString(s \o first(n)) =
                                editorRowsToString(s) \o editorRowsToString(first(n))}
<1>1. N \in Nat
  OBVIOUS
<1>2. 0 \in T
  <2>1. first(0) = <<>>
    BY Beginning, <1>1
  <2>2. s \o <<>> = s
    BY ConcatEmptySeq
  <2>3. editorRowsToString(s) \o <<>> = editorRowsToString(s)
    <3>1. editorRowsToString(s) \in Seq(B)
      BY WrittenBytes DEF Bytes
    <3> QED
      BY <3>1, ConcatEmptySeq
  <2>4. editorRowsToString(s \o first(0)) =
          editorRowsToString(s) \o editorRowsToString(first(0))
    <3> HIDE DEF first
    <3> QED
      BY <2>1, <2>2, <2>3, EmptyTextHasNoBytes, ZenonT(30)
  <2> QED
    BY <1>1, <2>4
<1>3. ASSUME NEW n \in 0..N - 1, n \in T PROVE n + 1 \in T
  <2> DEFINE u == first(n)
             l == t[n + 1]
             su == s \o u
  <2>1. n \in 0..N /\ n < N /\ n + 1 \in 0..N /\ l \in Line
    BY <1>1
  <2>2. u \in Seq(Line) /\ Append(u, l) = first(n + 1)
    BY <2>1, Beginning
  <2>3. editorRowsToString(su) = editorRowsToString(s) \o editorRowsToString(u)
    BY <1>3
  <2> HIDE DEF u, l
  <2>4. su \in Seq(Line) /\ s \o Append(u, l) = Append(su, l)
    <3>1. su \in Seq(Line)
      BY <2>2
    <3>2. Append(u, l) = u \o <<l>> /\ Append(su, l) = su \o <<l>>
      BY <2>1, <2>2, <3>1, AppendIsConcat
    <3>3. <<l>> \in Seq(Line)
      BY <2>1
    <3>4. (s \o u) \o <<l>> = s \o (u \o <<l>>)
      <4> DEFINE one == <<l>>
      <4>1. one \in Seq(Line)
        BY <3>3
      <4> HIDE DEF one
      <4>2. (s \o u) \o one = s \o (u \o one)
        BY <2>2, <4>1, ConcatAssociative, SMTT(30)
      <4> QED
        BY <4>2 DEF one
    <3> QED
      BY <3>1, <3>2, <3>4
  <2> HIDE DEF su
  <2>5. editorRowsToString(Append(su, l)) = editorRowsToString(su) \o l \o <<NL>>
    BY <2>1, <2>4, WrittenAppend, ZenonT(30)
  <2>6. editorRowsToString(Append(u, l)) = editorRowsToString(u) \o l \o <<NL>>
    BY <2>1, <2>2, WrittenAppend, ZenonT(30)
  <2> DEFINE bs == editorRowsToString(s)
             bu == editorRowsToString(u)
             end == <<NL>>
  <2>7. bs \in Seq(B) /\ bu \in Seq(B) /\ l \in Seq(B) /\ end \in Seq(B)
    <3>1. bs \in Seq(B) /\ bu \in Seq(B)
      BY <2>2, WrittenBytes DEF Bytes
    <3>2. l \in Seq(B) /\ end \in Seq(B)
      BY <2>1 DEF Line
    <3> QED
      BY <3>1, <3>2
  <2> HIDE DEF bs, bu, end, B
  <2>8. (bs \o bu) \o l \o end = bs \o (bu \o l \o end)
    <3> DEFINE ul == bu \o l
    <3>1. (bs \o bu) \o l = bs \o ul
      BY <2>7, ConcatAssociative, SMTT(30)
    <3>2. ul \in Seq(B)
      BY <2>7, ConcatProperties, ZenonT(30)
    <3> HIDE DEF ul
    <3>3. (bs \o ul) \o end = bs \o (ul \o end)
      BY <2>7, <3>2, ConcatAssociative, SMTT(30)
    <3> QED
      BY <3>1, <3>3 DEF ul
  <2>9. editorRowsToString(s \o Append(u, l)) =
          editorRowsToString(s) \o editorRowsToString(Append(u, l))
    BY <2>3, <2>4, <2>5, <2>6, <2>8 DEF bs, bu, end
  <2> QED
    BY <2>1, <2>2, <2>9
<1>4. \A n \in 0..N : n \in T
  <2> HIDE DEF T
  <2> QED
    BY <1>1, <1>2, <1>3, BoundedInduction
<1>5. first(N) = t /\ N \in T
  BY <1>1, <1>4, Beginning
<1> QED
  BY <1>5

\* Two sequences joined, cut where they meet.
LEMMA CutConcat ==
    ASSUME NEW S, NEW a \in Seq(S), NEW b \in Seq(S)
    PROVE  /\ SubSeq(a \o b, 1, Len(a)) = a
           /\ SubSeq(a \o b, Len(a) + 1, Len(a \o b)) = b
<1> DEFINE ab == a \o b
<1>1. /\ ab \in Seq(S) /\ Len(ab) = Len(a) + Len(b) /\ Len(a) \in Nat /\ Len(b) \in Nat
      /\ \A i \in 1..Len(a) + Len(b) : ab[i] = IF i <= Len(a) THEN a[i] ELSE b[i - Len(a)]
  OBVIOUS
<1> HIDE DEF ab
<1>2. SubSeq(ab, 1, Len(a)) = a
  <2> DEFINE c == SubSeq(ab, 1, Len(a))
  <2>1. c \in Seq(S) /\ Len(c) = Len(a) /\ \A i \in 1..Len(a) : c[i] = ab[i]
    BY <1>1
  <2> HIDE DEF c
  <2>2. \A i \in 1..Len(a) : c[i] = a[i]
    BY <1>1, <2>1
  <2>3. c = a
    BY <2>1, <2>2, SeqEqual
  <2> QED
    BY <2>3 DEF c
<1>3. SubSeq(ab, Len(a) + 1, Len(ab)) = b
  <2> DEFINE c == SubSeq(ab, Len(a) + 1, Len(ab))
  <2>1. c \in Seq(S) /\ Len(c) = Len(b) /\ \A i \in 1..Len(b) : c[i] = ab[Len(a) + i]
    BY <1>1
  <2> HIDE DEF c
  <2>2. ASSUME NEW i \in 1..Len(b) PROVE c[i] = b[i]
    <3>1. /\ Len(a) + i \in 1..Len(a) + Len(b) /\ ~ (Len(a) + i <= Len(a))
          /\ (Len(a) + i) - Len(a) = i
      BY <1>1
    <3>2. ab[Len(a) + i] = b[(Len(a) + i) - Len(a)]
      BY <1>1, <3>1
    <3> QED
      BY <2>1, <3>1, <3>2
  <2>3. c = b
    BY <2>1, <2>2, SeqEqual
  <2> QED
    BY <2>3 DEF c
<1> QED
  BY <1>2, <1>3 DEF ab

\* Lines are bytes, and so are joined bytes.
LEMMA BytesJoined ==
    /\ Line \subseteq Bytes /\ <<NL>> \in Bytes /\ <<>> \in Bytes
    /\ \A a, b \in Bytes : a \o b \in Bytes
<1>1. \A l \in Line : l \in Bytes
  BY DEF Line, Bytes
<1>2. <<NL>> \in Bytes /\ <<>> \in Bytes
  BY DEF Bytes
<1>3. \A a, b \in Bytes : a \o b \in Bytes
  BY ConcatProperties, Zenon DEF Bytes
<1> QED
  BY <1>1, <1>2, <1>3

\* How many bytes there are.
LEMMA BytesLen ==
    ASSUME NEW a \in Bytes, NEW b \in Bytes
    PROVE  Len(a) \in Nat /\ Len(b) \in Nat /\ Len(a \o b) = Len(a) + Len(b)
BY ConcatProperties, LenProperties, SMTT(30) DEF Bytes

\* Joined bytes, however they are grouped.
LEMMA BytesGrouped ==
    ASSUME NEW a \in Bytes, NEW b \in Bytes, NEW c \in Bytes
    PROVE  (a \o b) \o c = a \o (b \o c)
BY ConcatAssociative, SMTT(30) DEF Bytes

\* The lines are two parts and between them a line that is itself cut in two.
IsCut(lines, p, x, y, q) ==
    /\ lines \in Seq(Line) /\ Len(p) \in Nat /\ Len(p) < Len(lines)
    /\ lines[Len(p) + 1] = x \o y
    /\ SubSeq(lines, 1, Len(p)) = p
    /\ SubSeq(x \o y, 1, Len(x)) = x
    /\ Len(x) \in Nat /\ Len(x) <= Len(x \o y)
    /\ SubSeq(lines, Len(p) + 2, Len(lines)) = q

\* So is every text around a line that is cut in two.
LEMMA LineCut ==
    ASSUME NEW p \in Seq(Line), NEW q \in Seq(Line), NEW x \in Line, NEW y \in Line,
           NEW lines, lines = p \o <<x \o y>> \o q
    PROVE  IsCut(lines, p, x, y, q)
<1> DEFINE xy == x \o y
           one == <<xy>>
           pl == p \o one
           lq == one \o q
<1>1. /\ xy \in Line /\ Len(x) \in Nat /\ Len(x) <= Len(xy)
      /\ SubSeq(xy, 1, Len(x)) = x
  <2>1. xy \in Seq(Char) /\ Len(x) \in Nat /\ Len(x) <= Len(xy)
    BY DEF Line
  <2>2. SubSeq(x \o y, 1, Len(x)) = x
    BY CutConcat, SMTT(30) DEF Line
  <2> QED
    BY <2>1, <2>2 DEF Line
<1> HIDE DEF xy
<1>2. one \in Seq(Line) /\ Len(one) = 1 /\ one[1] = xy
  BY <1>1
<1> HIDE DEF one
<1>3. /\ pl \in Seq(Line) /\ Len(pl) = Len(p) + 1 /\ pl[Len(p) + 1] = xy
      /\ lq \in Seq(Line) /\ Len(p) \in Nat /\ Len(q) \in Nat
  <2>1. lq \in Seq(Line)
    BY <1>2, ConcatProperties, ZenonT(30)
  <2>2. /\ pl \in Seq(Line) /\ Len(pl) = Len(p) + Len(one)
        /\ \A i \in 1..Len(p) + Len(one) : pl[i] = IF i <= Len(p) THEN p[i] ELSE one[i - Len(p)]
    BY <1>2, ConcatProperties, ZenonT(30)
  <2>3. /\ Len(p) \in Nat /\ Len(q) \in Nat /\ Len(p) + 1 \in 1..Len(p) + Len(one)
        /\ ~ (Len(p) + 1 <= Len(p)) /\ (Len(p) + 1) - Len(p) = 1
    BY <1>2
  <2> HIDE DEF pl, lq
  <2>4. pl[Len(p) + 1] = one[(Len(p) + 1) - Len(p)]
    BY <2>2, <2>3
  <2> QED
    BY <1>2, <2>1, <2>2, <2>3, <2>4
<1>4. pl \o q = p \o lq
  BY <1>2, ConcatAssociative, SMTT(30)
<1> HIDE DEF pl, lq
<1>5. lines = pl \o q /\ lines = p \o lq
  BY <1>4 DEF pl, one, xy
<1>6. /\ pl \o q \in Seq(Line) /\ Len(pl \o q) = Len(p) + 1 + Len(q)
      /\ (pl \o q)[Len(p) + 1] = xy
  <2> DEFINE all == pl \o q
  <2>1. /\ all \in Seq(Line) /\ Len(all) = Len(pl) + Len(q)
        /\ \A i \in 1..Len(pl) + Len(q) : all[i] = IF i <= Len(pl) THEN pl[i] ELSE q[i - Len(pl)]
    BY <1>3, ConcatProperties, ZenonT(30)
  <2>2. Len(p) + 1 \in 1..Len(pl) + Len(q) /\ Len(p) + 1 <= Len(pl)
    BY <1>3
  <2> HIDE DEF all
  <2>3. all[Len(p) + 1] = pl[Len(p) + 1]
    BY <2>1, <2>2
  <2>4. all \in Seq(Line) /\ Len(all) = Len(p) + 1 + Len(q) /\ all[Len(p) + 1] = xy
    BY <1>3, <2>1, <2>3
  <2> QED
    BY <2>4 DEF all
<1>7. SubSeq(p \o lq, 1, Len(p)) = p
  BY <1>3, CutConcat, SMTT(30)
<1>8. SubSeq(pl \o q, Len(pl) + 1, Len(pl \o q)) = q
  BY <1>3, CutConcat, SMTT(30)
<1>9. Len(pl) + 1 = Len(p) + 2
  BY <1>3
<1>10. /\ lines \in Seq(Line) /\ Len(lines) = Len(p) + 1 + Len(q) /\ lines[Len(p) + 1] = xy
       /\ SubSeq(lines, 1, Len(p)) = p /\ SubSeq(lines, Len(p) + 2, Len(lines)) = q
  BY <1>5, <1>6, <1>7, <1>8, <1>9
<1> QED
  BY <1>1, <1>3, <1>10 DEF xy, IsCut
=============================================================================
