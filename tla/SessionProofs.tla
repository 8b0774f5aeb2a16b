--------------------------- MODULE SessionProofs ---------------------------
(***************************************************************************)
(* Proofs about Session for all texts, programs, files, frame rates and     *)
(* queues of any length: what is kept twice agrees, the program that plays  *)
(* is the text that is shown, and one that does not compile is not saved by *)
(* itself, although the process may be killed anywhere.                     *)
(***************************************************************************)
EXTENDS Session, ProgramFileProofs

\* The types, one by one; the sets of TypeOK say the same.
Typed ==
    /\ mode \in {"reset", "load", "poll", "frame", "left", "edit", "exited"}
    /\ queue \in Seq(Event) /\ Len(queue) <= MaxQueue
    /\ rows \in Seq(Line)
    /\ dirty \in BOOLEAN /\ err \in BOOLEAN /\ luaerr \in BOOLEAN
    /\ epoch \in BOOLEAN /\ edited \in BOOLEAN /\ rateSet \in BOOLEAN
    /\ disk \in Bytes \cup {Missing} /\ program \in Bytes \cup {Missing}
    /\ opened \in Bytes \cup {Missing}
    /\ fps \in Nat \ {0} /\ framerate \in Nat \ {0}
    /\ mode = "load" => program = Missing

\* A program that plays was given to a Lua state, which compiled it; until the save it
\* is the text of the editor.
Playing ==
    InPlay \/ mode = "left" =>
        program \in Bytes \ Broken /\ program = editorRowsToString(rows)

\* The invariant that every step preserves.
Inv == Typed /\ Playing /\ ErrorIffFailed /\ RateOfMode

\* Every step preserves it.  The bytes of the text and of its beginnings, and the
\* lines of a file, have their types; the rest of a step sets what it must together.
LEMMA SessionInvariant == Spec => []Inv
<1>1. ASSUME rows \in Seq(Line)
      PROVE  /\ editorRowsToString(rows) \in Bytes
             /\ \A n \in 0..Len(editorRowsToString(rows)) :
                   SubSeq(editorRowsToString(rows), 1, n) \in Bytes
  <2>1. editorRowsToString(rows) \in Bytes
    BY <1>1, RowsToStringSteps
  <2> QED
    BY <2>1 DEF Bytes
<1>2. \A f \in Bytes \cup {Missing} : LinesOf(f) \in Seq(Line)
  BY OpenLinesType, FileAssumption DEF LinesOf, Line
<1>3. Init => Inv
  <2> SUFFICES ASSUME Init PROVE Inv
    OBVIOUS
  <2>1. disk \in Bytes \cup {Missing} /\ rows \in Seq(Line)
    BY <1>2, SessionAssumption DEF Init
  <2>2. queue \in Seq(Event) /\ Len(queue) <= MaxQueue
    BY SessionAssumption DEF Init
  <2>3. dirty \in BOOLEAN /\ err \in BOOLEAN /\ luaerr \in BOOLEAN
        /\ epoch \in BOOLEAN /\ edited \in BOOLEAN /\ rateSet \in BOOLEAN
    BY DEF Init
  <2>4. opened \in Bytes \cup {Missing}
    BY <2>1 DEF Init
  <2> QED
    BY <2>1, <2>2, <2>3, <2>4
    DEF Init, Inv, Typed, Playing, ErrorIffFailed, RateOfMode, InPlay, DefaultFps
<1>4. Inv /\ [Next]_vars => Inv'
  <2> SUFFICES ASSUME Inv, [Next]_vars PROVE Inv'
    OBVIOUS
  <2>1. /\ editorRowsToString(rows) \in Bytes
        /\ \A n \in 0..Len(editorRowsToString(rows)) :
              SubSeq(editorRowsToString(rows), 1, n) \in Bytes
    BY <1>1 DEF Inv, Typed
  <2>2. ASSUME queue # <<>>
        PROVE  /\ Head(queue) \in Event /\ Tail(queue) \in Seq(Event)
               /\ Len(Tail(queue)) <= MaxQueue
    BY <2>2, HeadTailProperties, SessionAssumption DEF Inv, Typed
  <2>3. ASSUME NEW e \in Event, Arrive(e) PROVE Inv'
    <3>1. queue' \in Seq(Event) /\ Len(queue') <= MaxQueue
      BY <2>3, AppendProperties, SessionAssumption DEF Inv, Typed, Arrive
    <3> QED
      BY <2>3, <3>1
      DEF Arrive, history, Inv, Typed, Playing, ErrorIffFailed, RateOfMode, InPlay
  <2>4. CASE resetProgram
    BY <2>4
    DEF resetProgram, Inv, Typed, Playing, ErrorIffFailed, RateOfMode, InPlay
  <2>5. CASE loadProgram
    <3>1. CASE LoadFails
      <4>1. fps' \in Nat \ {0} /\ rateSet' \in BOOLEAN
        BY <3>1, SessionAssumption DEF LoadFails, Inv, Typed
      <4>2. /\ program' \in Bytes /\ mode' = "edit" /\ framerate' = EDITOR_FPS
            /\ err' = TRUE /\ luaerr' = TRUE
            /\ UNCHANGED <<queue, rows, dirty, disk, epoch, opened, edited>>
        BY <2>1, <3>1, Zenon DEF LoadFails, programError, EnterEditor
      <4> QED
        BY <4>1, <4>2
        DEF EDITOR_FPS, Inv, Typed, Playing, ErrorIffFailed, RateOfMode, InPlay
    <3>2. CASE LoadSucceeds
      BY <2>1, <3>2, SessionAssumption
      DEF LoadSucceeds, Inv, Typed, Playing, ErrorIffFailed, RateOfMode, InPlay
    <3> QED
      BY <2>5, <3>1, <3>2 DEF loadProgram
  <2>6. CASE processSdlEvents
    <3>1. CASE PollEvent
      BY <2>2, <3>1
      DEF PollEvent, history, Inv, Typed, Playing, ErrorIffFailed, RateOfMode, InPlay
    <3>2. CASE PollEnds
      BY <3>2
      DEF PollEnds, history, Inv, Typed, Playing, ErrorIffFailed, RateOfMode, InPlay
    <3>3. CASE FrameDrawn
      BY <3>3, SessionAssumption
      DEF FrameDrawn, MaySetFps, Inv, Typed, Playing, ErrorIffFailed, RateOfMode, InPlay
    <3>4. CASE FrameFails
      BY <3>4, SessionAssumption
      DEF FrameFails, MaySetFps, programError,
          Inv, Typed, Playing, ErrorIffFailed, RateOfMode, InPlay
    <3> QED
      BY <2>6, <3>1, <3>2, <3>3, <3>4 DEF processSdlEvents
  <2>7. ASSUME editorSave
        PROVE  disk' \in Bytes \cup {Missing} /\ dirty' \in BOOLEAN
    <3> DEFINE buf == editorRowsToString(rows)
    <3>1. \/ disk' = buf /\ dirty' = FALSE
          \/ (\E n \in 0..Len(buf) - 1 : disk' = SubSeq(buf, 1, n)) /\ dirty' = FALSE
          \/ UNCHANGED <<disk, dirty>>
      BY <2>7, Zenon DEF editorSave
    <3>2. \A n \in 0..Len(buf) - 1 : n \in 0..Len(buf)
      BY <2>1 DEF Bytes
    <3>3. buf \in Bytes /\ \A n \in 0..Len(buf) - 1 : SubSeq(buf, 1, n) \in Bytes
      BY <2>1, <3>2
    <3> QED
      BY <3>1, <3>3 DEF Inv, Typed
  <2>8. CASE LeavePlay
    <3>1. disk' \in Bytes \cup {Missing} /\ dirty' \in BOOLEAN
      BY <2>7, <2>8 DEF LeavePlay, Inv, Typed
    <3> QED
      BY <2>8, <3>1
      DEF LeavePlay, EnterEditor, EDITOR_FPS, history,
          Inv, Typed, Playing, ErrorIffFailed, RateOfMode, InPlay
  <2>9. CASE editorEvents
    <3>1. CASE EditorEscape \/ EditorExit \/ EditorIgnores
      <4>1. /\ mode' \in {"reset", "exited", "edit"} /\ mode = "edit"
            /\ queue # <<>> /\ queue' = Tail(queue)
            /\ UNCHANGED <<rows, dirty, disk, err, luaerr, program, epoch, fps,
                           framerate, opened, edited, rateSet>>
        BY <3>1 DEF EditorEscape, EditorExit, EditorIgnores, NextEvent, history
      <4> QED
        BY <2>2, <4>1 DEF Inv, Typed, Playing, ErrorIffFailed, RateOfMode, InPlay
    <3>2. CASE EditorSaveClick
      <4>1. disk' \in Bytes \cup {Missing} /\ dirty' \in BOOLEAN
        BY <2>7, <3>2 DEF EditorSaveClick
      <4> QED
        BY <2>2, <3>2, <4>1
        DEF EditorSaveClick, NextEvent, history,
            Inv, Typed, Playing, ErrorIffFailed, RateOfMode, InPlay
    <3>3. CASE EditorEdit
      <4>1. rows' \in Seq(Line)
        BY <3>3, SessionAssumption DEF EditorEdit
      <4> QED
        BY <2>2, <3>3, <4>1
        DEF EditorEdit, NextEvent,
            Inv, Typed, Playing, ErrorIffFailed, RateOfMode, InPlay
    <3> QED
      BY <2>9, <3>1, <3>2, <3>3 DEF editorEvents
  <2>10. CASE Killed
    <3>1. disk' \in Bytes \cup {Missing}
      BY <2>1, <2>10 DEF Killed, Inv, Typed
    <3> QED
      BY <2>10, <3>1
      DEF Killed, history, Inv, Typed, Playing, ErrorIffFailed, RateOfMode, InPlay
  <2>11. CASE Restart
    <3>1. rows' \in Seq(Line) /\ queue' \in Seq(Event) /\ Len(queue') <= MaxQueue
      BY <1>2, <2>11, SessionAssumption DEF Restart, Inv, Typed
    <3>2. /\ dirty' \in BOOLEAN /\ err' \in BOOLEAN /\ luaerr' \in BOOLEAN
          /\ epoch' \in BOOLEAN /\ edited' \in BOOLEAN /\ rateSet' \in BOOLEAN
      BY <2>11 DEF Restart
    <3> QED
      BY <2>11, <3>1, <3>2
      DEF Restart, DefaultFps,
          Inv, Typed, Playing, ErrorIffFailed, RateOfMode, InPlay
  <2>12. CASE UNCHANGED vars
    BY <2>12 DEF vars, Inv, Typed, Playing, ErrorIffFailed, RateOfMode, InPlay
  <2> QED
    BY <2>3, <2>4, <2>5, <2>6, <2>8, <2>9, <2>10, <2>11, <2>12 DEF Next
<1> QED
  BY <1>3, <1>4, PTL DEF Spec

\* What the main loop keeps in two places agrees with its mode: the program, the error
\* and the frame rate.
THEOREM ModeStaysConsistent == Spec => []ModeConsistent
<1>1. Inv => ModeConsistent
  BY DEF Inv, Typed, Playing, ModeConsistent, TypeOK, InPlay
<1> QED
  BY <1>1, SessionInvariant, PTL

\* The program that is played is the text that is shown, in whatever order events,
\* errors, saves and edits come.
THEOREM PlayedTextStaysShown == Spec => []PlayedTextIsShown
<1>1. Inv => PlayedTextIsShown
  BY DEF Inv, Playing, PlayedTextIsShown
<1> QED
  BY <1>1, SessionInvariant, PTL

\* A text that does not compile is never saved whole by the main loop.
THEOREM BrokenStaysUnsaved == Spec => BrokenNeverAutosaved
<1> DEFINE A == disk' # disk /\ disk' = editorRowsToString(rows) /\ disk' \in Broken =>
                    mode = "edit" /\ Head(queue) = "save"
<1>1. Inv /\ [Next]_vars => [A]_vars
  <2> SUFFICES ASSUME Inv, Next, disk' # disk, disk' = editorRowsToString(rows),
                      disk' \in Broken
               PROVE  mode = "edit" /\ Head(queue) = "save"
    OBVIOUS
  <2>1. mode # "left"
    BY DEF Inv, Playing
  <2>2. LeavePlay \/ EditorSaveClick \/ Killed
    BY DEF Next, Arrive, resetProgram, loadProgram, LoadFails, LoadSucceeds,
           processSdlEvents, PollEvent, PollEnds, FrameDrawn, FrameFails, editorEvents,
           EditorEscape, EditorExit, EditorEdit, EditorIgnores, Restart
  <2> QED
    BY <2>1, <2>2 DEF LeavePlay, EditorSaveClick, NextEvent, Killed, Saving
<1>2. Spec => [][A]_vars
  BY <1>1, SessionInvariant, PTL DEF Spec
<1> QED
  BY <1>2 DEF BrokenNeverAutosaved

\* A text without changes is in the file, or its beginning is.
CleanIsSaved ==
    mode # "exited" /\ ~dirty =>
        disk # Missing /\ IsPrefix(disk, editorRowsToString(rows))

\* A part of a text, from its first byte, is a beginning of it.
LEMMA PartsArePrefixes ==
    ASSUME NEW t \in Bytes, NEW n \in 0..Len(t)
    PROVE  IsPrefix(SubSeq(t, 1, n), t) /\ IsPrefix(t, t)
<1>1. /\ SubSeq(t, 1, n) \in Bytes /\ Len(SubSeq(t, 1, n)) = n
      /\ \A i \in 1..n : SubSeq(t, 1, n)[i] = t[i]
  BY SubSeqProperties DEF Bytes
<1>2. SubSeq(SubSeq(t, 1, n), 1, n) = SubSeq(t, 1, n)
  BY <1>1, SubSeqProperties DEF Bytes
<1> QED
  BY <1>1, <1>2 DEF IsPrefix, Bytes

\* What editorSave() leaves is the text or its beginning, when it says that it is saved.
LEMMA SaveKeepsText ==
    ASSUME Inv, editorSave
    PROVE  \/ ~dirty' /\ disk' # Missing /\ IsPrefix(disk', editorRowsToString(rows))
           \/ UNCHANGED <<disk, dirty>>
<1> DEFINE buf == editorRowsToString(rows)
<1>1. buf \in Bytes
  BY RowsToStringSteps DEF Inv, Typed
<1>2. \/ disk' = buf /\ dirty' = FALSE
      \/ (\E n \in 0..Len(buf) - 1 : disk' = SubSeq(buf, 1, n)) /\ dirty' = FALSE
      \/ UNCHANGED <<disk, dirty>>
  BY Zenon DEF editorSave
<1>3. \A n \in 0..Len(buf) - 1 : n \in 0..Len(buf)
  BY <1>1 DEF Bytes
<1>4. \A n \in 0..Len(buf) : SubSeq(buf, 1, n) \in Bytes
  BY <1>1 DEF Bytes
<1>5. 0 \in 0..Len(buf)
  BY <1>1 DEF Bytes
<1> QED
  BY <1>1, <1>2, <1>3, <1>4, <1>5, PartsArePrefixes, SessionAssumption

\* The flag "dirty" is never off while the file holds another text.
LEMMA CleanStaysSaved == Spec => []CleanIsSaved
<1>1. \A f \in Bytes \cup {Missing} : LinesOf(f) = <<>> => f = <<>>
  BY OpenLinesEmpty, FileAssumption, SessionAssumption DEF LinesOf
<1>2. editorRowsToString(<<>>) = <<>> /\ IsPrefix(<<>>, <<>>)
  BY EmptyTextHasNoBytes
<1>3. Missing # <<>>
  <2>1. <<>> \in Bytes
    BY DEF Bytes
  <2> QED
    BY <2>1, SessionAssumption
<1>4. ASSUME Typed, rows = LinesOf(disk), dirty = (LinesOf(disk) # <<>>)
      PROVE  CleanIsSaved
  <2>1. ~dirty => disk = <<>> /\ rows = <<>>
    BY <1>1, <1>4 DEF Typed
  <2> QED
    BY <1>2, <1>3, <2>1 DEF CleanIsSaved
<1>5. Init /\ Inv => CleanIsSaved
  BY <1>4 DEF Init, Inv
<1>6. Inv /\ Inv' /\ CleanIsSaved /\ [Next]_vars => CleanIsSaved'
  <2> SUFFICES ASSUME Inv, Inv', CleanIsSaved, [Next]_vars PROVE CleanIsSaved'
    OBVIOUS
  <2>1. CASE LeavePlay
    <3>1. UNCHANGED rows /\ mode # "exited"
      BY <2>1 DEF LeavePlay
    <3>2. editorSave \/ UNCHANGED <<disk, dirty>>
      BY <2>1 DEF LeavePlay
    <3> QED
      BY <3>1, <3>2, SaveKeepsText DEF CleanIsSaved
  <2>2. CASE EditorSaveClick
    <3>1. UNCHANGED rows /\ mode # "exited" /\ editorSave
      BY <2>2 DEF EditorSaveClick, NextEvent
    <3> QED
      BY <3>1, SaveKeepsText DEF CleanIsSaved
  <2>3. CASE EditorEdit \/ Killed
    BY <2>3 DEF EditorEdit, Killed, CleanIsSaved
  <2>4. CASE Restart
    <3>1. Typed' /\ rows' = LinesOf(disk') /\ dirty' = (LinesOf(disk') # <<>>)
      BY <2>4 DEF Restart, Inv
    <3>2. ~dirty' => disk' = <<>> /\ rows' = <<>>
      BY <1>1, <3>1 DEF Typed
    <3> QED
      BY <1>2, <1>3, <3>2 DEF CleanIsSaved
  <2>5. CASE UNCHANGED <<rows, dirty, disk>> /\ mode # "exited"
    BY <2>5 DEF CleanIsSaved
  <2>6. CASE UNCHANGED vars
    BY <2>6 DEF vars, CleanIsSaved
  <2>7. \/ LeavePlay \/ EditorSaveClick \/ EditorEdit \/ Killed \/ Restart
        \/ UNCHANGED <<rows, dirty, disk>> /\ mode # "exited"
        \/ UNCHANGED vars
    BY DEF Next, Arrive, resetProgram, loadProgram, LoadFails, LoadSucceeds,
           processSdlEvents, PollEvent, PollEnds, FrameDrawn, FrameFails, editorEvents,
           EditorEscape, EditorExit, EditorIgnores, NextEvent
  <2> QED
    BY <2>1, <2>2, <2>3, <2>4, <2>5, <2>6, <2>7
<1> QED
  BY <1>5, <1>6, SessionInvariant, PTL DEF Spec

\* After play mode the file holds the program that ran or its beginning, whether the
\* save succeeds, ends short, or ends with the process.
THEOREM PlayedStaysSaved == Spec => PlayedIsSaved
<1> DEFINE A == mode = "left" /\ (~dirty' \/ disk' # disk) => IsPrefix(disk', program)
<1>1. Inv /\ CleanIsSaved /\ [Next]_vars => [A]_vars
  <2> SUFFICES ASSUME Inv, CleanIsSaved, Next, mode = "left", ~dirty' \/ disk' # disk
               PROVE  IsPrefix(disk', program)
    OBVIOUS
  <2>1. program = editorRowsToString(rows) /\ editorRowsToString(rows) \in Bytes
    BY RowsToStringSteps DEF Inv, Typed, Playing
  <2>2. CASE UNCHANGED <<disk, dirty>>
    BY <2>1, <2>2 DEF CleanIsSaved
  <2>3. CASE LeavePlay
    BY <2>1, <2>2, <2>3, SaveKeepsText DEF LeavePlay
  <2>4. CASE Killed
    BY <2>1, <2>2, <2>4, PartsArePrefixes DEF Killed
  <2>5. LeavePlay \/ Killed \/ UNCHANGED <<disk, dirty>>
    BY DEF Next, Arrive, resetProgram, loadProgram, LoadFails, LoadSucceeds,
           processSdlEvents, PollEvent, PollEnds, FrameDrawn, FrameFails, editorEvents,
           EditorEscape, EditorExit, EditorSaveClick, EditorEdit, EditorIgnores,
           NextEvent, Restart
  <2> QED
    BY <2>2, <2>3, <2>4, <2>5
<1>2. Spec => [][A]_vars
  BY <1>1, SessionInvariant, CleanStaysSaved, PTL DEF Spec
<1> QED
  BY <1>2 DEF PlayedIsSaved
=============================================================================
