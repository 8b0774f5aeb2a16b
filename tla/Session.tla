------------------------------ MODULE Session ------------------------------
(***************************************************************************)
(* The main loop of load81.c around the editor: a program is loaded into a *)
(* fresh Lua state and played until ESC or an error, the text is saved,    *)
(* the editor runs until ESC, and so on; a window that is closed or the    *)
(* power-off button ends the process, which may be started again; it may   *)
(* also be killed.                                                         *)
(*                                                                         *)
(* Play mode and the editor take their events from the same SDL queue.     *)
(* What an edit does is the subject of Editor: here it is any change from  *)
(* one text of Docs to another.  What the program does is unknown: its     *)
(* main chunk, setup() and draw() may fail, call setFPS() or do neither.   *)
(***************************************************************************)
EXTENDS ProgramFile

CONSTANTS
    Missing,       \* the content of a file that does not exist
    Docs,          \* the texts an edit may lead to
    Broken,        \* the programs, as bytes, that do not compile
    Files,         \* what the file may hold before load81 first runs
    SaveOutcomes,  \* how a save may end: "ok", "open_failed", "short_write"
    Rates,         \* the frame rates a program may set
    MaxQueue       \* bound: events waiting in the SDL queue

EDITOR_FPS == 30
DefaultFps == 30  \* initConfig()
FPS_UPPER_LIMIT == 200  \* of SDL_gfx: setFPSBinding() does not see a higher rate refused

\* "up" is a key or a mouse button released; "edit" any key that changes the
\* text; "save" and "power" are clicks on the two icons of the editor.
Event == {"esc", "quit", "up", "edit", "save", "power"}

ASSUME SessionAssumption ==
    /\ Missing \notin Bytes
    /\ Docs \subseteq Seq(Line)
    /\ Files \subseteq Bytes \cup {Missing}
    /\ Rates \subseteq Nat \ {0} /\ \A rate \in Rates : rate <= FPS_UPPER_LIMIT
    /\ MaxQueue \in Nat

VARIABLES
    mode,       \* where main() is
    queue,      \* the SDL event queue
    rows,       \* the text of the editor, as lines
    dirty,      \* E.dirty # 0
    disk,       \* the bytes of the file
    err,        \* E.err # NULL
    luaerr,     \* l81.luaerr
    program,    \* the bytes the Lua state was given, or Missing
    epoch,      \* l81.epoch # 0
    fps,        \* l81.fps
    framerate,  \* the rate of the frame-rate manager
    opened,     \* history: the file when this process opened it
    edited,     \* history: an edit was made since
    rateSet     \* history: this program called setFPS()

history == <<opened, edited, rateSet>>
vars == <<mode, queue, rows, dirty, disk, err, luaerr, program, epoch, fps,
          framerate, opened, edited, rateSet>>

InPlay == mode \in {"poll", "frame"}

-----------------------------------------------------------------------------
(* main() up to its loop: initConfig(), initEditor() and editorOpen().     *)

LinesOf(f) == IF f = Missing THEN Template ELSE editorOpenLines(f)

Init ==
    /\ disk \in Files
    /\ mode = "reset"
    /\ queue = <<>>
    /\ rows = LinesOf(disk)
    /\ dirty = (LinesOf(disk) # <<>>)
    /\ err = FALSE /\ luaerr = FALSE
    /\ program = Missing
    /\ epoch = FALSE
    /\ fps = DefaultFps /\ framerate = DefaultFps
    /\ opened = disk /\ edited = FALSE /\ rateSet = FALSE

\* load81 is started again with what the file holds.
Restart ==
    /\ mode = "exited"
    /\ mode' = "reset"
    /\ queue' = <<>>
    /\ rows' = LinesOf(disk)
    /\ dirty' = (LinesOf(disk) # <<>>)
    /\ err' = FALSE /\ luaerr' = FALSE
    /\ program' = Missing
    /\ epoch' = FALSE
    /\ fps' = DefaultFps /\ framerate' = DefaultFps
    /\ opened' = disk /\ edited' = FALSE /\ rateSet' = FALSE
    /\ UNCHANGED disk

\* The user acts, whatever the process is doing.
Arrive(e) ==
    /\ mode # "exited"
    /\ Len(queue) < MaxQueue
    /\ queue' = Append(queue, e)
    /\ UNCHANGED <<mode, rows, dirty, disk, err, luaerr, program, epoch, fps,
                   framerate, history>>

-----------------------------------------------------------------------------
(* Loading.                                                                *)

\* Everything of the old program goes with its Lua state; fps stays.
resetProgram ==
    /\ mode = "reset"
    /\ mode' = "load"
    /\ program' = Missing
    /\ epoch' = FALSE
    /\ rateSet' = FALSE
    /\ UNCHANGED <<queue, rows, dirty, disk, err, luaerr, fps, framerate,
                   opened, edited>>

\* A piece of the program that runs may call setFPS(), which takes effect at
\* once.
MaySetFps ==
    \/ UNCHANGED <<fps, framerate, rateSet>>
    \/ \E rate \in Rates : fps' = rate /\ framerate' = rate /\ rateSet' = TRUE

programError == err' = TRUE /\ luaerr' = TRUE

\* editorRun() sets its own frame rate first.
EnterEditor == mode' = "edit" /\ framerate' = EDITOR_FPS

\* What failed to load is saved too: main() saves outside its if.
LoadFails_Saved ==
    /\ mode = "load"
    /\ program' = editorRowsToString(rows)
    /\ programError
    /\ mode' = "left"
    /\ UNCHANGED <<queue, rows, dirty, disk, epoch, fps, framerate, history>>

LoadFails ==
    /\ mode = "load"
    /\ program' = editorRowsToString(rows)
    /\ programError
    /\ \/ program' \in Broken /\ UNCHANGED <<fps, rateSet>>
       \/ /\ program' \notin Broken
          /\ \/ UNCHANGED <<fps, rateSet>>
             \/ \E rate \in Rates : fps' = rate /\ rateSet' = TRUE
    /\ EnterEditor
    /\ UNCHANGED <<queue, rows, dirty, disk, epoch, opened, edited>>

\* The error of the last run stays on the screen.
LoadSucceeds_KeepsError ==
    /\ mode = "load"
    /\ program' = editorRowsToString(rows)
    /\ program' \notin Broken
    /\ luaerr' = FALSE
    /\ framerate' = fps
    /\ mode' = "poll"
    /\ UNCHANGED <<queue, rows, dirty, disk, err, epoch, fps, history>>

\* The file is loaded, not the text of the editor.
LoadSucceeds_File ==
    /\ mode = "load"
    /\ program' = disk
    /\ program' \notin Broken
    /\ err' = FALSE /\ luaerr' = FALSE
    /\ framerate' = fps
    /\ mode' = "poll"
    /\ UNCHANGED <<queue, rows, dirty, disk, epoch, fps, history>>

\* The main chunk ran to its end; main() sets the frame rate for play mode.
LoadSucceeds ==
    /\ mode = "load"
    /\ program' = editorRowsToString(rows)
    /\ program' \notin Broken
    /\ err' = FALSE /\ luaerr' = FALSE
    /\ \/ UNCHANGED <<fps, rateSet>>
       \/ \E rate \in Rates : fps' = rate /\ rateSet' = TRUE
    /\ framerate' = fps'
    /\ mode' = "poll"
    /\ UNCHANGED <<queue, rows, dirty, disk, epoch, opened, edited>>

loadProgram == LoadFails \/ LoadSucceeds

-----------------------------------------------------------------------------
(* Playing: processSdlEvents().                                            *)

\* The rest of the queue is thrown away with an event of the program.
PollEvent_Flush ==
    /\ mode = "poll" /\ queue # <<>>
    /\ \/ Head(queue) = "esc" /\ mode' = "left" /\ queue' = Tail(queue)
       \/ Head(queue) = "quit" /\ mode' = "exited" /\ queue' = Tail(queue)
       \/ Head(queue) \notin {"esc", "quit"} /\ mode' = "frame" /\ queue' = <<>>
    /\ UNCHANGED <<rows, dirty, disk, err, luaerr, program, epoch, fps,
                   framerate, history>>

\* One turn of its polling loop.  Any event but ESC and QUIT goes to the Lua
\* program.  A release that comes next is left for the next frame, if the
\* window system has handed it over by then: the peek does not ask for more.
PollEvent ==
    /\ mode = "poll" /\ queue # <<>>
    /\ queue' = Tail(queue)
    /\ \/ Head(queue) = "esc" /\ mode' = "left"
       \/ Head(queue) = "quit" /\ mode' = "exited"
       \/ /\ Head(queue) \notin {"esc", "quit"}
          /\ \/ mode' = "poll"
             \/ Tail(queue) # <<>> /\ Head(Tail(queue)) = "up" /\ mode' = "frame"
    /\ UNCHANGED <<rows, dirty, disk, err, luaerr, program, epoch, fps,
                   framerate, history>>

PollEnds ==
    /\ mode = "poll" /\ queue = <<>>
    /\ mode' = "frame"
    /\ UNCHANGED <<queue, rows, dirty, disk, err, luaerr, program, epoch, fps,
                   framerate, history>>

\* setup(), the first time, and draw(): all is well.
FrameDrawn ==
    /\ mode = "frame"
    /\ mode' = "poll"
    /\ epoch' = TRUE
    /\ MaySetFps
    /\ UNCHANGED <<queue, rows, dirty, disk, err, luaerr, program, opened, edited>>

\* An error in setup() ends play mode before draw(), with epoch still 0; one
\* in draw() after it.
FrameFails ==
    /\ mode = "frame"
    /\ mode' = "left"
    /\ programError
    /\ \/ ~epoch /\ UNCHANGED epoch
       \/ epoch' = TRUE
    /\ MaySetFps
    /\ UNCHANGED <<queue, rows, dirty, disk, program, opened, edited>>

processSdlEvents == PollEvent \/ PollEnds \/ FrameDrawn \/ FrameFails

-----------------------------------------------------------------------------
(* Saving.                                                                 *)

editorSave ==
    LET buf == editorRowsToString(rows)
    IN  \/ "ok" \in SaveOutcomes /\ disk' = buf /\ dirty' = FALSE
        \/ /\ "short_write" \in SaveOutcomes
           /\ \E n \in 0..Len(buf) - 1 : disk' = SubSeq(buf, 1, n)
           /\ dirty' = FALSE
        \/ "open_failed" \in SaveOutcomes /\ UNCHANGED <<disk, dirty>>

\* main() after play mode: a modified text is saved, then the editor runs.
LeavePlay ==
    /\ mode = "left"
    /\ \/ dirty /\ editorSave
       \/ ~dirty /\ UNCHANGED <<disk, dirty>>
    /\ EnterEditor
    /\ UNCHANGED <<queue, rows, err, luaerr, program, epoch, fps, history>>

-----------------------------------------------------------------------------
(* Editing: one turn of the polling loop of editorEvents().                *)

NextEvent(e) ==
    /\ mode = "edit"
    /\ queue # <<>> /\ Head(queue) = e
    /\ queue' = Tail(queue)

EditorEscape ==
    /\ NextEvent("esc")
    /\ mode' = "reset"
    /\ UNCHANGED <<rows, dirty, disk, err, luaerr, program, epoch, fps,
                   framerate, history>>

\* exit(0) on SDL_QUIT, exit(1) on the power-off button: nothing is saved.
EditorExit ==
    /\ NextEvent("quit") \/ NextEvent("power")
    /\ mode' = "exited"
    /\ UNCHANGED <<rows, dirty, disk, err, luaerr, program, epoch, fps,
                   framerate, history>>

EditorSaveClick ==
    /\ NextEvent("save")
    /\ editorSave
    /\ UNCHANGED <<mode, rows, err, luaerr, program, epoch, fps, framerate, history>>

\* An edit that forgets the flag.
EditorEdit_Clean ==
    /\ NextEvent("edit")
    /\ rows' \in Docs
    /\ edited' = TRUE
    /\ UNCHANGED <<mode, dirty, disk, err, luaerr, program, epoch, fps,
                   framerate, opened, rateSet>>

EditorEdit ==
    /\ NextEvent("edit")
    /\ rows' \in Docs
    /\ dirty' = TRUE
    /\ edited' = TRUE
    /\ UNCHANGED <<mode, disk, err, luaerr, program, epoch, fps, framerate,
                   opened, rateSet>>

EditorIgnores ==
    /\ NextEvent("up")
    /\ UNCHANGED <<mode, rows, dirty, disk, err, luaerr, program, epoch, fps,
                   framerate, history>>

editorEvents ==
    EditorEscape \/ EditorExit \/ EditorSaveClick \/ EditorEdit \/ EditorIgnores

-----------------------------------------------------------------------------
(* The end of the process at any time.                                     *)

Saving ==
    \/ mode = "left" /\ dirty
    \/ mode = "edit" /\ queue # <<>> /\ Head(queue) = "save"

\* The process is killed.  In the middle of a save fopen() has emptied the file, and
\* a part of the text, or all of it, has reached the disk.
Killed ==
    /\ mode # "exited"
    /\ mode' = "exited"
    /\ \/ UNCHANGED disk
       \/ /\ Saving
          /\ LET buf == editorRowsToString(rows)
             IN  \E n \in 0..Len(buf) : disk' = SubSeq(buf, 1, n)
    /\ UNCHANGED <<queue, rows, dirty, err, luaerr, program, epoch, fps, framerate, history>>

-----------------------------------------------------------------------------
Next ==
    \/ \E e \in Event : Arrive(e)
    \/ resetProgram \/ loadProgram
    \/ processSdlEvents
    \/ LeavePlay
    \/ editorEvents
    \/ Killed \/ Restart

Spec == Init /\ [][Next]_vars

\* The process runs as long as it is not stopped, and the functions of the
\* program return.
Fairness ==
    /\ WF_vars(resetProgram \/ loadProgram)
    /\ WF_vars(processSdlEvents)
    /\ WF_vars(LeavePlay)
    /\ WF_vars(editorEvents)

FairSpec == Spec /\ Fairness
-----------------------------------------------------------------------------
(* Properties.                                                             *)

\* The variables have their types, and there is a program exactly where one runs.
TypeOK ==
    /\ mode \in {"reset", "load", "poll", "frame", "left", "edit", "exited"}
    /\ queue \in Seq(Event) /\ Len(queue) <= MaxQueue
    /\ rows \in Seq(Line)
    /\ {dirty, err, luaerr, epoch, edited, rateSet} \subseteq BOOLEAN
    /\ {disk, program, opened} \subseteq Bytes \cup {Missing}
    /\ {fps, framerate} \subseteq Nat \ {0}
    /\ mode = "load" => program = Missing
    /\ InPlay => program \in Bytes

\* The program that is played is the text of the editor, saved or not: no event
\* that is waiting when the mode changes, and no failed load, lets the two part.
PlayedTextIsShown ==
    InPlay \/ mode = "left" => program = editorRowsToString(rows)

\* The editor shows an error exactly when the last program failed, and a program
\* is played without one: luaerr of load81.c and err of editor.c, set and
\* cleared in different places, agree.
ErrorIffFailed == (err <=> luaerr) /\ (InPlay => ~err)

\* Each mode runs at its own frame rate, whatever setFPS() was called with in
\* the other: a program that fails while it loads or draws does not leave its
\* rate to the editor, nor the editor's to the next program.
RateOfMode ==
    /\ InPlay => framerate = fps
    /\ mode = "edit" => framerate = EDITOR_FPS

\* What the main loop keeps in two places belongs to the mode that runs: the program, the
\* error and the frame rate (load81.c:111-119, 419-433, 545-560).
ModeConsistent == TypeOK /\ ErrorIffFailed /\ RateOfMode

\* A text that does not compile reaches the file whole only by a click on the save
\* icon: the save after play mode never writes it.
BrokenNeverAutosaved ==
    [][disk' # disk /\ disk' = editorRowsToString(rows) /\ disk' \in Broken =>
            mode = "edit" /\ Head(queue) = "save"]_vars

\* What the save after play mode leaves, when it ends, ends short or is cut off with the
\* process, is the program that ran or its beginning, and nothing of an older one.
PlayedIsSaved ==
    [][mode = "left" /\ (~dirty' \/ disk' # disk) => IsPrefix(disk', program)]_vars

\* "To switch between program and editor mode press the ESC key" (README): a
\* program whose functions return is left for the editor, or ended, and the
\* editor is left for another load, or ended, once ESC has been pressed.
EscSwitchesMode ==
    /\ InPlay /\ (\E i \in DOMAIN queue : queue[i] = "esc")
            ~> mode \in {"edit", "exited"}
    /\ mode = "edit" /\ (\E i \in DOMAIN queue : queue[i] = "esc")
            ~> mode \in {"load", "exited"}

\* "For default it's set to 30 frames per second" (README): a program that does
\* not call setFPS() plays at that rate.
DefaultRate == InPlay /\ ~rateSet => framerate = 30

\* "File modified but not saved" (editor.h): the save after play mode does not
\* change a file whose text nobody edited.
UneditedNotWritten ==
    mode = "left" /\ dirty /\ ~edited => disk = editorRowsToString(rows)
=============================================================================
