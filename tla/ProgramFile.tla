---------------------------- MODULE ProgramFile ----------------------------
(***************************************************************************)
(* The program as the editor keeps it (a sequence of lines) and as the     *)
(* file system keeps it (a sequence of bytes): editorRowsToString() turns  *)
(* the first into the second, the fgets() loop of editorOpen() the second  *)
(* into the first.                                                         *)
(***************************************************************************)
EXTENDS Integers, Sequences, SequencesExt

CONSTANTS Char,      \* the characters a line may hold
          Space,     \* the padding character
          NL, CR,    \* the bytes '\n' and '\r'
          LineMax,   \* sizeof(line) in editorOpen(): 1024
          Template   \* the lines of editorTemplate

ASSUME FileAssumption ==
    /\ {Space, CR} \subseteq Char  \* a '\r' in a line is a character like another
    /\ NL \notin Char
    /\ LineMax \in Nat /\ LineMax >= 3
    /\ Template \in Seq(Seq(Char)) /\ Template # <<>>

Line == Seq(Char)
Bytes == Seq(Char \cup {NL})

\* Every row is followed by a newline, the last one too.
editorRowsToString(lines) ==
    LET buf[j \in 0..Len(lines)] ==
            IF j = 0 THEN <<>> ELSE buf[j - 1] \o lines[j] \o <<NL>>
    IN  buf[Len(lines)]

\* The end of a line read by fgets(): one '\n' or '\r' is cut off.
StripEol(line) ==
    IF line # <<>> /\ Last(line) \in {NL, CR} THEN Front(line) ELSE line

\* fgets() stops after a newline or when its buffer has room for the null
\* term only; the line it returns becomes a row.
LineFull_Early(line) == Len(line) = LineMax - 2

LineFull(line) == Len(line) = LineMax - 1

fgets(read, byte) ==
    LET line == Append(read.line, byte)
    IN  IF byte = NL \/ LineFull(line)
        THEN [rows |-> Append(read.rows, StripEol(line)), line |-> <<>>]
        ELSE [read EXCEPT !.line = line]

editorOpenLines(bytes) ==
    LET read[n \in 0..Len(bytes)] ==
            IF n = 0 THEN [rows |-> <<>>, line |-> <<>>]
                     ELSE fgets(read[n - 1], bytes[n])
        end == read[Len(bytes)]
    IN  IF end.line = <<>> THEN end.rows ELSE Append(end.rows, StripEol(end.line))
=============================================================================
