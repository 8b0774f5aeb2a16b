# A specification of Load81

Load81 is a Lua programming environment for children: one window that is
either an editor with the text of a program or that program playing, and ESC
goes from one to the other. This directory holds TLA+ modules translated from
the C source, TLC configurations that check them on small instances, and
proofs for TLAPS. Paths below are relative to the repository.

## The system

Everything runs in one thread. What interleaves is the program and the world:
the event queue of SDL fills while the process is doing something else, two
modes read it in turn, the Lua program fails where it likes, the file system
refuses or takes half of a write, and the user clicks anywhere. Most of the code
is Lua 5.1, which the repository carries and builds. It interleaves too: the
collector runs between any two operations of the program, coroutines share one
C stack, and functions written in C call the program back.

| part | source | state | operations |
|---|---|---|---|
| Rows of the text | `editor.c` 128-321 | `E.row`, `E.numrows`, `E.dirty` | insert and delete a row, a character; split, join |
| Cursor and window | `editor.c` 232-321, 483-568, 731-749 | `E.cx`, `E.cy`, `E.rowoff`, `E.coloff` | typing and arrows move or scroll; a click puts the cursor on a cell |
| Program file | `editor.c` 162-186, 338-382 | the file; `E.dirty` | open, save, text for the Lua interpreter |
| Error in the editor | `editor.c` 699-719 | `E.err`, `E.errline`, colours of a row | set, clear |
| Syntax highlighter | `editor.c` 20-124 | `hl` of a row | recolour a row |
| Keys of the editor | `editor.c` 462-481, 570-697 | `E.key[32]` | press, release, repeat; a frame turns them into operations |
| Main loop | `load81.c` 412-431, 538-559, `editor.c` 725-729 | the mode, `l81.luaerr`, `l81.L` | reset, load, play, save, edit |
| Play mode events | `load81.c` 252-394 | `l81.epoch`, tables `keyboard` and `mouse` | poll, setup(), draw() |
| Frame rate | `load81.c` 197-203, 551, `editor.c` 727 | `l81.fps`, the frame-rate manager | `setFPS()`, a mode begins |
| Sprites | `framebuffer.c` 129-209 | Lua table `sprites` | load, blit, collect |
| Drawing, font | `framebuffer.c`, `bitfont.h` | pixels | |
| Options | `load81.c` 492-536 | `l81.width`, `l81.height`, `l81.filename` | parse |
| Lua compiler | `lparser.c`, `lcode.c`, `lopcodes.h`, `ldebug.c` | a `FuncState` per function | parse, generate, patch jumps, verify |
| Lua virtual machine | `lvm.c`, `ldo.c`, `lfunc.c`, `ltm.c`, `lbaselib.c` | stack, frames, open upvalues | the 38 instructions, call, return, throw |
| Lua tables | `ltable.c`, `ltablib.c` | array part, nodes | get, set, rehash, next, length; insert, remove, sort |
| Lua coroutines and errors | `ldo.c`, `lbaselib.c` | `nCcalls`, `status`, `errfunc` of each thread | create, resume, yield, status, pcall, xpcall |
| Lua garbage collector | `lgc.c`, `lstring.c`, `lfunc.c` | colours, lists, phases | mark, barriers, sweep, finalize, close |
| Rest of Lua | `lstrlib.c`, `liolib.c`, `loslib.c`, `loadlib.c`, `lua.c`, ... | | |
| Native Client front end, Pandora package | `contrib/` | | |

How they interact: `main()` opens the file in the editor, then for ever resets
the Lua state, loads the text of the editor (not the file) into it, plays until
ESC or an error, saves a modified text, and runs the editor until ESC. An error
of the program goes to the editor as a message and a row to colour. Both modes
call `SDL_PollEvent()` on the same queue and set the same frame-rate manager. Inside
Lua the parser drives the generator token by token, the machine runs what they
leave without testing it, every store calls a barrier of the collector, and the
C functions of the library go back to the machine through `luaD_call()`. The
files of Lua are under `src/lua/src/`.

What is hard here, and what makes each part correct:

- **Offsets.** The place of the cursor in the text is `rowoff+cy`,
  `coloff+cx`. Every operation moves the cursor or, at the border, scrolls.
  Correct: what happens to the text is what would happen without a window, and
  the cursor is visible afterwards.
- **Parts of a row.** `size`, `chars` and `hl` are set one after the other, by
  operations that call each other. Correct: their lengths agree when the row
  is drawn.
- **Files.** A line ends in LF, CR LF, CR or the end of the file; a buffer of
  1024 bytes cuts long lines; a save may fail or write a part. Correct: saved
  and opened again a text is the same; "nothing to save" is true.
- **Modes.** Events arrive in the mode before the one that handles them.
  Whether the last run failed, and at what rate to draw, is kept in several
  variables. Correct: the text that is shown, played and saved is one; an error
  is shown exactly after a run that failed; ESC gets its turn.
- **Keys.** Releases are lost when the mode changes, presses when a table is
  full or when press and release come in one batch.
- **Code.** The machine tests no register and no jump, and the compiler has no
  tree: it changes its mind about instructions it has written. Correct: what it
  leaves passes the verifier, and the program does what its text says.
- **Unwinding.** An error or a yield leaves frames, captured variables, calls
  from C and handlers half way. Correct: all counts fit each other afterwards.
- **Nodes.** A new key moves old ones, the collector kills keys under a
  traversal, and a comparison function answers what it likes. Correct: a table
  is a map.
- **Colours.** A store behind the collector's back frees an object in use much
  later. Correct: nothing reachable is freed, and garbage goes.

`PROJECT.json` lists the hazards one by one, with the line of each and the
properties about it.

## The modules

| module | models | role |
|---|---|---|
| `Window` | `initEditor()`, the tests of `editorMouseClicked()` | geometry in pixels, no state |
| `ProgramFile` | `editorRowsToString()`, the `fgets()` loop of `editorOpen()` | text to bytes and back, no state |
| `Editor` | `editor.c` but for keys and drawing | the state machine of the editor |
| `TextEditor` | the same operations without offsets | what `Editor` promises |
| `Text` | the bytes before and after the point | what `TextEditor` promises |
| `InWindow` | `Editor` restricted to steps that keep the cursor visible | refinement mapping `Editor` to `TextEditor` |
| `Session` | `main()`, play mode, `editorRun()` | the main loop around the editor |
| `Input` | the event queue, `keyboard.pressed`, `E.key` | what becomes of a key that is pressed |
| `LuaOpcodes` | `lopcodes.h`, `lobject.c` | instructions, values, constant folding; no state |
| `LuaCompiler` | `lparser.c`, `lcode.c` | tokens to prototypes, no state |
| `LuaVerify` | `luaG_checkcode()` | what code must satisfy, no state |
| `LuaVM` | `luaV_execute()` and what it calls | the state machine of the interpreter |
| `LuaSyntax` | the grammar of the manual | syntax trees to tokens |
| `LuaMeaning` | section 2 of the manual | what compiler and machine promise together |
| `LuaTable` | `ltable.c` | algorithms on one table, no state |
| `TableLibrary` | `ltablib.c`, `lua_next()`, assignments | a program and its table |
| `LuaMap` | a map with traversals | what `TableLibrary` promises |
| `LuaCoroutine` | threads, `luaD_call()`, `luaD_throw()`, `coroutine.*`, `pcall()` | frames of all threads and the one C stack |
| `Coroutines` | statuses and the values passed | what `LuaCoroutine` promises |
| `LuaGC` | `lgc.c`, barriers, `lua_close()` | the collector and a program |
| `MCEditor`, `MCInWindow`, `MCSession`, `MCInput`, `MCLuaVM`, `MCTable`, `MCCoroutine`, `MCLuaGC` | | instances for TLC |
| `LeastNumber`, `ProgramFileProofs`, `EditorProofs`, `SessionProofs`, `InputProofs`, `CoroutineProofs`, `LuaGCProofs`, `TableProofs` | | lemmas and theorems |

`LuaVM` extends `LuaCompiler` and `LuaVerify`, and `LuaMeaning` extends both
`LuaVM` and `LuaSyntax`. The other parts of Lua are composed by abstraction: the
machine has tables that are maps (`TableLibrary` implements `LuaMap`), a heap
that keeps what is reachable (`LuaGC`, `NoDangling`), and one thread
(`LuaCoroutine` has the others, with functions reduced to what they call).

### Editor

State: `rows` is `E.row` (a record per row with `size`, `chars`, `hl`, kept
apart on purpose: that they agree is a property, not an assumption), `cx`, `cy`,
`rowoff`, `coloff`, `err`, `errline` as in the code, `dirty` as a Boolean (the
code counts, and only asks whether the count is 0), `disk` the bytes of the file
or `Missing`, and `status`. The history variable `torn` says that the last save
wrote a part of the file and was taken for a save (`editor.c` 377). Row `i` of the code is `rows[i + 1]`.

One action per operation: `editorInsertChar`, `editorInsertNewline`,
`DelCharJoin` and `DelCharInRow` (the two halves of `editorDelChar()`), the four
arrows and `MoveNowhere` (an arrow that cannot move still runs the end of
`editorMoveCursor()`, which pulls the cursor back into its row), `ClickPowerOff`,
`ClickSave` (with `editorSave`), `ClickText`, `editorSetError`,
`editorClearError`. Early returns that change nothing are stuttering steps.

Where the code would index memory left of a row or of the array of rows the
behaviour of C is undefined; the model stops in `status = "fault"`. The
properties are about the states before. `"exited"` is `exit()`. Because both
end the process, the runs of `Editor` do not check for deadlock.

Colours are abstracted to two classes, the colour of an error and any other.
`editorUpdateSyntax` therefore says that each cell of a row gets a colour that
is not the error's. What is left out is the scanner, with one consequence a
reader should know: for a string that ends in a backslash `editor.c` 59 writes a
byte past `hl`, which the model does not show.

Bounds, all in guards: `MaxRows`, `MaxCols` for the size of the text,
`MaxScroll` for how far a join may push the window away, and one column left
of the text for moving left.

### TextEditor, Text and InWindow

`TextEditor` has a sequence of lines and the row and column of the cursor;
`Text` has two byte strings. `ImplementsText` maps the cursor to the point
between the two: the lines before its row and the part of its row before it.
`ImplementsTextEditor` maps row and column to `rowoff+cy` and `coloff+cx`. It is
checked under `InWindowSpec`, whose steps end with a visible cursor: outside of
it the code is wrong (see the findings), and `CursorLostOnlyBy` says precisely
by which steps it gets there.

### Session

`mode` is where `main()` is: `reset` and `load` (a new Lua state, then the
program), `poll` and `frame` (the two halves of `processSdlEvents()`), `left`
(play mode is over, the save is next), `edit`, and `exited`. Each turn of a
polling loop is a step, and `Arrive` may put an event in the queue before any
step. `PollEvent` has both outcomes of the peek for a release, because
`SDL_PeepEvents()` sees only what has been pumped. An edit is any change to one
of `Docs`: its details are the subject of `Editor`. `opened`, `edited` and
`rateSet` are history variables. `Killed` ends the process at any time. Inside a
save (`Saving`), where `fopen()` has emptied the file and `fclose()` has not yet
come, it leaves any beginning of the text in the file, nothing and all of it
included. `Restart` starts the process again with the file it left.

`processSdlEvents()` runs `setup()` once and `draw()` each frame; the program is
unknown code, so each may fail, call `setFPS()`, both or neither. Programs in
`Broken` do not compile; any other may still fail while its main chunk runs.

### Input

`Session` knows that a mode handles an event; `Input` knows what is left of it.
`queue` is the queue of SDL, `pressed` the table `keyboard.pressed` of the Lua
program, `slots` the array `E.key`. `mode` has the two halves of a frame of play
mode (`poll` and `draw`) and `edit`; what `main()` does between them touches
none of this, except that `resetProgram()` makes new tables (`EditEscape`).
`held`, the keys that are down, belongs to the world.

`PlayEvent` is a turn of the loop of `processSdlEvents()`, poll and peek in one
step. Nothing is lost by that: an event that arrives between the two is behind
what the peek looks at. `EditDown`, `EditUp` and `EditEscape` are the cases of
`editorEvents()`, `EditFrame` the scan of the array when the queue is empty.
`EditFrame` lets each slot act by `pressed_or_repeated()` and counts it; the
operation itself is an action of `Editor`. `FastCounter` is the counter from
which a key repeats in each frame, where the model stops counting.

`due`, `drained` and `lost` are history: which keys went down in this frame and
must be noticed, whether the last peek saw an empty queue, and which keys of the
array had their release taken by play mode.

### LuaOpcodes, LuaCompiler and LuaVerify

The parser of Lua has no tree: each rule of the grammar reads tokens, fills an
`expdesc` and writes instructions, some of them wrong until a later rule patches
them. The modules keep that: one operator per function of `lparser.c` and
`lcode.c`, on a record that is the `FuncState` (`fs`), the `LexState` (`s`) or the
`expdesc` (`e`), under the names of the source. The functions of `lparser.c` are
mutually recursive and reached through `Invoke`; `f_` is the body of `f`. A list
of jumps is the set of their positions, where the code threads it through the
jumps. `fs.bad` says that an `lua_assert()` failed. `luaG_checkcode` is the
verifier of `ldebug.c`, which Lua runs on loaded bytecode only: here it says what
the machine counts on.

Constants give the limits of the source small values: `MAXSTACK`,
`LUAI_MAXVARS`, `LUAI_MAXUPVALUES`, `LFIELDS_PER_FLUSH`, and `MAXINDEXRK`, after
which a constant needs a register. Left out: the scanner (a chunk is a sequence
of tokens), line numbers, the test for a call whose arguments begin a line.
Numbers are integers; `HUGE` is an infinity.

### LuaVM, LuaSyntax and LuaMeaning

`L` is the `lua_State`: `stack`, `top`, the frames `ci` with the size of their
array, `openupval`, `upvals`, `closures`, `tables`, `nCcalls`, and `errorJmp` with
what a protected call puts back. There is an action for each instruction (the six
arithmetic ones share `OP_ARITH`), one for a call of a C function
(`LibraryCall`), and `Returning` and `Throw` for `luaD_poscall()` and
`luaD_throw()`. Where `luaV_execute()` calls itself (a metamethod, a protected
call), the frame of the callee keeps in `cont` what C does when the call returns.
The frame array is modelled with its quirk: it doubles from 8, so that the first
overflow comes at 16384 frames and not at `LUAI_MAXCALLS`, and an error caught in
the last frame does not give the extra frames back, which makes the next overflow
an "error in error handling". `BASIC_CI_SIZE = 4` and `LUAI_MAXCALLS = 8` reach
both.

Of the library there are the functions the chunks use: `print`, `error`,
`assert`, `pcall`, `setmetatable`, `getmetatable`, `rawget`, `rawset`, `rawequal`,
`type`, `select`, `unpack`, `ipairs` and its iterator. A table is a map with
`flags` for the cache of `fasttm()`. Not in it: hooks, environments, coroutines
(`LuaCoroutine`), the collector (`LuaGC`), `next` (`TableLibrary`), the growth of
the value stack, and positions in messages.

`LuaSyntax` prints trees as tokens, with the parentheses the manual needs and no
more. `LuaMeaning` runs the same trees by recursion, with a store in place of
registers and upvalues. `RunsAsWritten` says that when a chunk ends, what it
printed and how it ended is what `Meaning` says.

`MCLuaVM` makes 1331 chunks: every logical expression of three operands as a
value and as a condition; double assignments with every pair of targets and
values (`check_conflict()`); every loop with each body and each way to leave it;
lists of every kind at the limit of `OP_SETLIST`; nine metamethods (`__index`,
`__newindex`, `__call`, `__add`, `__concat`, `__eq`, `__lt`, `__le`, `__unm`) with
each pair of four operands (a table with them, one without, a number, a string of
digits); eight functions (`assert`, `getmetatable`, `setmetatable`, `rawget`,
`rawequal`, `type`, `select`, `unpack`) with each pair of seven arguments (two tables,
two numbers, two strings, nil); recursion to the last frame, errors that cross captured variables, methods that
come late, wrong types; and nine chunks that the grammar or a limit refuses.

### LuaTable, LuaMap and TableLibrary

`LuaTable` is `ltable.c` node by node: `mainposition()`, chains, `getfreepos()`,
the move of a colliding node, `rehash()` with `computesizes()`, `luaH_next()`,
`luaH_getn()` with its unbound search. The hashes are those of the source: for a
number the two words of its IEEE format added up, so that the small integers
collide as they do in a real table. `TableLibrary` is a program with one table:
`lua_rawset`, a constructor (`SetList`), `lua_next`, `tinsert`, `tremove`, `sort`
with one step per comparison (`auxsort`), and the collector (`removeentry`), which
may turn a key without a value into a dead key between any two steps. `map` is what
`luaH_get()` finds for each key; `ImplementsMap` says that it changes only as
`LuaMap` allows and that a traversal meets every field that stays once.

The loops of `ltable.c` are written so that they can be reasoned about: a chain is a
function from the distance to the node (`Chain`), a search takes the least distance
or index that fits, and the loops of `resize()`, `OP_SETLIST`, `insert()`, `remove()` and of
the bisection are recursive functions of their turn. `resize()` puts the old entries back
with `luaH_set()`, which could call `rehash()` again; `luaH_set_Room` gives the dead end
`NoRoom` in that place, and the proofs show that no table gets there.


A comparison function answers by `<`, or anything at each call. The second kind
may keep `sort()` busy for ever, so the number of comparisons is bounded
(`MaxAsked`), and that `sort()` ends is asked for `<` only (at most n² of them).
`MaxLength` bounds the sequences that `insert()`, `remove()` and `sort()` work on; it is at least
two less than `MAX_INT`, so that no index of theirs overflows. `sort()` notes which values
were nil when it began (`holes`, history): with `<` it raises an error when it meets
one, and `SortSorts` is about sequences without.
`MAXBITS = 3`, `MAX_INT = 7` and five values make the array part, the hash part
and the search for the length reach their limits. Left out: `concat()`, `maxn()`,
`foreachi()`, NaN as a key, a comparison function that changes the table, memory
failure inside a resize.

### LuaCoroutine and Coroutines

`th` has for each thread its `status`, its frames, the values above its base,
`nCcalls`, `baseCcalls` and whether `errfunc` is set. `cstack` is the one C stack:
a call of `luaV_execute()`, a protected call, the handler of an `xpcall()` and a
`lua_resume()` are entries, with what `luaD_pcall()` restores. A program does
anything: `Call`, `CallMetamethod`, `luaB_pcall` (with `xpcall`), `luaB_cocreate`,
`auxresume` (with `wrap`), `lua_yield`, `Return`, `luaB_error`; `luaG_errormsg` and
`luaD_throw` take an error to the handler and to the protected call.

`luaD_call()` raises an overflow only when `nCcalls` is exactly `LUAI_MAXCCALLS`
and refuses at an eighth more; a coroutine that begins at the limit may use that
eighth too. `CallsCounted` states the bound the code keeps, not the one its name
suggests. Bounds: two coroutines (symmetric), `LUAI_MAXCCALLS = 3` with two calls
more, three frames a thread, lists of no and of two values. Left out: hooks,
`lua_cpcall()`, handlers that are no functions.

### LuaGC

An address holds one object of one of nine kinds, with at most two references;
`Programs` says which kinds may be where, so that four objects make a coroutine
with a closure and its upvalue, userdata as keys and as values of weak tables,
strings, and prototypes that get their constants one by one. The steps of the
program are the ways a reference is stored or found: `SetTable` with
`luaC_barrierback()`, `SetField` and `SetUpval` with `luaC_barrierf()`, `SetSlot`
without a barrier, `Intern` and `Closure`, which find dead strings and upvalues
again, and `CloseUpvals`. The steps of the collector are those of `singlestep()`:
`markroot`, `propagatemark` of one gray object, `atomic`, `sweep` of one object,
`Finalize`; `luaC_fullgc` and `lua_close` come at any time. A finalizer is Lua and does
what a program does: after `GCTM` the steps of the program are enabled, in a cycle, in
the one of `luaC_fullgc()` and, until the state is closed, in `lua_close()`, so that a
finalizer may keep its userdata, store it, or make another one. Lists are sets, so the
collector takes objects in every order; how much a step does and when one is due
(`luaC_step()`, the threshold) is left out for the same reason, and so are tables
weak in both and the shrinking of buffers. `called`, `garbage` and `atclose` (the userdata there were when
`lua_close()` was called) are history.

Once `lua_close()` has begun, the collector takes no step: `lua_close` empties the
lists it works from, and the properties about colours and garbage claim
nothing from there on. In the code a finalizer can still run it, with
`collectgarbage()` or by allocating as much memory again (`lgc.c` 463), with userdata
queued and whitened in whatever phase the collector had stopped; what comes of that
depends on the order of `rootgc`, which is a set here. `NoDangling` and `FinalizedOnce`
are therefore about closing with finalizers that do everything but that.

One thing the model showed has no run: `iscleared(gval(n), 0)` is asked of tables
weak in keys, too (`lgc.c` 365), so that a finalized userdata which the program
kept is dropped as a value of such a table, whose values the manual calls strong.
`Cleared` does the same.

## The runs

The invariants that begin with the type of the state join what only makes sense
together: `ModeConsistent` is `TypeOK`, `ErrorIffFailed` and `RateOfMode`;
`SlotsConsistent` is `TypeOK` and `NoKeyTwice`; `StackConsistent` is `TypeOK` and
`OpenUpvals`; `NodesConsistent` is `TypeOK`, `EveryFieldFound` and `ChainsEnd`;
`FramesConsistent` is `TypeOK`, `AssertionsHold`, `CallsHaveFrames` and
`HandlerOfCall`; `ListsConsistent` is `TypeOK` and `OneList`.

| run | module | checks | bounds |
|---|---|---|---|
| `cursor` | `MCEditor` | `TypeOK`, `RowsConsistent`, `CursorRowInText`, `CursorLostOnlyBy` | a window of 2 by 2 cells, 3 rows of up to 4 characters, one character, a click in each of the four cells and one in the strip below the last row |
| `inwindow` | `MCInWindow` | `ImplementsTextEditor`, `ImplementsText` | the same window, two characters, 3 rows of 3 |
| `save` | `MCEditor` | `CleanMeansSaved`, `ShortSaveKeepsBeginning`, `SavedTextReopens` | 2 rows of 2, a buffer of 4 bytes; every outcome of a save, short writes of every length; clicks on the icons; errors on row 0 and row -1 |
| `session` | `MCSession` | `ModeConsistent`, `PlayedTextIsShown`, `BrokenNeverAutosaved`, `PlayedIsSaved`, `EscSwitchesMode` | two texts of which one does not compile, three files, two events waiting; every outcome of a save |
| `input` | `MCInput` | `SlotsConsistent`, `StuckOnlyIfLost`, `PressedMeansHeld`, `FastPressNoticed`, `PressActs` | three keys (symmetric) and ESC, an array of two slots, two events waiting |
| `luavm` | `MCLuaVM` | `StackConsistent`, `CodeAccepted`, `AssertionsHold`, `FlagsTrue`, `RunsAsWritten` | 1331 chunks; 30 registers, 8 frames, 7 calls from C |
| `table` | `MCTable` | `NodesConsistent`, `LengthIsBoundary`, `SortSorts`, `SortIsShallow`, `ImplementsMap` | five fields of three types, sequences of five; every list of five values out of three sorted, one of four with any answers |
| `coroutine` | `MCCoroutine` | `CallsCounted`, `FramesConsistent`, `ImplementsCoroutines` | two coroutines, three frames each, three calls from C and two more |
| `luagc` | `MCLuaGC` | `ListsConsistent`, `NoDangling`, `NoBlackToWhite`, `GarbageCollected`, `FinalizedOnce` | four objects in five programs, two values on the stack |

A window of two columns and rows is enough for the cursor to be at a border, in
the only cell that is none, and away from the border after scrolling: the code
compares `cx` and `cy` only with 0 and with the last column or row. Rows of 4
characters reach two columns past the window, where the code that scrolls after
a join distinguishes one column from more. Three rows leave one out of the
window above or below. The buffer of 4 bytes is full exactly when a row of two characters and
its newline have been read, the longest rows run `save` can type. Two events in
the queue give every order of an event and the ESC behind or before it. Three
keys fill an array of two slots and leave one without; the delay before a key
repeats is 1 in place of 8, since no property says when repetition starts.

In `luavm` a chunk is deterministic, so what matters is that the families cross
what the generator distinguishes: kinds of `expdesc`, jumps taken or not, values
wanted or not, open or counted results. In `table` five keys fill a hash part of
four and force a rehash with the collector between. In `coroutine` a third frame
is a call inside a call inside a coroutine, and two coroutines resume each other
through the whole C stack. In `luagc` four objects are the longest chain
of different kinds: coroutine, function, upvalue, string; two userdata are a finalizer and what it makes.

### What the code gets wrong

Each of these runs checks one property taken from a comment, `README.md` or the
manual, and TLC finds it violated.

| run | property | what happens |
|---|---|---|
| `stale_error` | `NoErrorNoHighlight` | a row stays red after the error is gone (`editor.c` 705, 713) |
| `stuck_key` | `CurrentlyPressed` | a key held while ESC is pressed and released after it repeats when the editor comes back (`editor.c` 609) |
| `late_status` | `DeadWhenFinished` | a coroutine that finished with more results than fit in the frame of `resume()` is called suspended, and resuming it calls one of the results (`lbaselib.c` 532); in real code a body that ends in `return unpack(t)` with 7999 values |

More are in the models without a run of their own:

- Joining a row to a long one computes the scrolling with the wrong sign
  (`editor.c` 308), and the window starts left of the text (`ColoffNotNegative` in
  `Editor` says it does not); a click on a row that ends left of the scrolled window
  puts the cursor left of it (`editor.c` 508, `CursorColNotNegative`); a click in the
  pixels below the last full row (`editor.c` 496) puts it on a row that is not
  shown. These are the three steps `CursorLostOnlyBy` allows.
- A write that ends short counts as a save (`editor.c` 377): `CleanMeansSaved`
  excepts it (`torn`) and `ShortSaveKeepsBeginning` says what is left of the text.
- `lua_close()` queues userdata once (`lstate.c` 197). One that a finalizer makes
  meanwhile, with `newproxy()`, is freed without its own finalizer being called; the manual
  says of `lua_close()` that it destroys all objects "calling the corresponding
  garbage-collection metamethods, if any". `CloseFinalizesAll` in `LuaGC` says so and is
  false: make a userdata, close, let its finalizer make another. `FinalizedOnce`
  promises a turn to those that were there when `lua_close()` was called.
- A file that was only opened is modified by the first ESC, because reading it
  sets `dirty` (`editor.c` 344; `UneditedNotWritten` in `Session`).
- The frame rate of one program is inherited by the next (`load81.c` 401;
  `DefaultRate` in `Session`).
- An error without a line number is set on row -1 (`load81.c` 116): run `save`
  gets to `SetErrorOutOfRows`.

### Fairness

Only `Session` has liveness. `FairSpec` asks weak fairness of the steps of the
process: loading, the polling loop and the frame, leaving play mode, the polling
loop of the editor. The process is one thread that never waits for anything, so
the only thing that stops it is a Lua function that does not return: fairness of
`processSdlEvents` and of `loadProgram` assumes that the functions of the program
return. Nothing in the code makes them. There is no fairness for `Arrive`,
`Killed` and `Restart`: the user owes nothing. Of the modules of Lua none has a fairness: what
ends there ends after a number of steps that the safety properties bound (the
sweep that leaves no garbage, the n² comparisons of `sort()`), or is the
program's to end.

The runs of `Editor` and of `LuaGC` do not check for deadlock, because their
processes end: `exit()`, a fault, a closed state. All others do.

## The proofs

All theorems hold for every value of the constants that satisfies the
assumptions: `WindowAssumption` (the window has room for one cell),
`FileAssumption` (the line end is no character of a line, the buffer holds at
least two bytes and a null term, the template has a line), `EditorAssumption`
and `SessionAssumption` (types of the inputs, a missing file is no bytes, rates up to
200: above them `SDL_setFramerate()` refuses, and `load81.c` 201 does not look),
`InputAssumption` (ESC is no other key, the array has a slot, the period of
repetitions is at least 2), `CoroutineAssumption` (the main thread is no
coroutine, the limits are positive), `GCAssumption` (the main thread, no value
and a number are three things that are no address, and there are finitely many
addresses), `TableAssumption` (the largest array part has sizes that are ints),
`KeyAssumption` (a key has a hash, which is a natural number and otherwise anything; no key
is nil, none is what is left of a dead one, and the integers a sequence may
have are keys) and `ProgramAssumption` (types of the inputs; the values a program
with `<` has are integers). `LeastNumber` has the least and greatest elements of
sets of numbers, which the searches of an array rest on, and what follows from them:
induction up to a bound (`BoundedInduction`), and that a loop written as a recursive
function has a run whose values have a type (`LoopRuns`). The editor, the reading of
files and the marking of the collector are instances of it.

- `OpenLinesType` (`ProgramFileProofs`): what `editorOpen()` makes of any bytes
  is a sequence of lines. The loop is a recursive function, and the loop of
  `editorRowsToString()` is an instance of the same lemma (`LoopRuns`).
- `TypeCorrect`, `RowsStayConsistent`, `CursorRowStaysInText` (`EditorProofs`):
  the three invariants of run `cursor`. None is inductive alone. A step indexes
  `rows` by the row of the cursor, so its type needs `rowoff+cy` to be in the
  text; it cuts and copies by `size`, so the next `chars` have a type only if
  `size` is their length; and the cursor stays in the text only because each
  operation that removes a row moves it up. `Inv` joins the three: rows whose
  parts agree (`GoodRow`), `rowoff` and `cy` natural, their sum at most `numrows`.
  `cx` and `coloff` are integers only: the code does let them become negative.
  There is a lemma for each operation on a row (`RowInsertCharGood`, ...), one for
  each on the rows (`RowsSplitGood`, ...), one per action (`InsertCharInv`, ...).
- `CleanStaysSaved` (`EditorProofs`): `CleanMeansSaved` of run `save`. Each edit
  sets `dirty`, an error colours a row and leaves its characters (`ErrorKeepsText`),
  and a text that was just opened is clean only if the file is empty, because
  only an empty file makes an empty text (`OpenLinesEmpty`).
- `SavedTextStaysReadable`, `ShortSaveStaysReadable` (`EditorProofs`): the other two
  invariants of run `save`, for texts and buffers of any size. They rest on what the
  two loops do to each other, `TextReopens` and `BeginningReopens`
  (`ProgramFileProofs`), proved by induction on the bytes read. After n bytes the
  reader has the first j lines and a beginning of the next (`ReadTo`), and one byte
  more keeps that (`ReadNext`): it belongs to line j+1, or it is the newline after
  it. This is where the buffer matters: after a line of `LineMax` - 1 characters the
  newline would be read as a line of its own. A file cut short ends inside of a line, of which a beginning without its
  last `\r` is left (`StripEolIs`). `ShortSaveKeepsBeginning` is not inductive: a
  file whose flag is off has to hold a beginning of the bytes of the text
  (`CleanHasBeginning`), which an edit puts off and a save that ends anywhere makes true
  again.
- `ModeStaysConsistent`, `PlayedTextStaysShown` (`SessionProofs`): the invariants
  of run `session`, for texts, programs, rates and queues of any size. `Inv` adds
  to the types what is true of the program between its loading and the save:
  it compiled, and it is the text of the editor (`Playing`). The second half is
  `PlayedTextIsShown`; with the first, `BrokenStaysUnsaved` follows: the save
  after play mode finds a text that compiled, killed or not.
- `PlayedStaysSaved`: the action property `PlayedIsSaved`. It needs more than the
  step: when `dirty` is off nothing is written, so the file must hold a beginning
  of the text whenever `dirty` is off (`CleanIsSaved`), from the same lemma.
- `SlotsStayConsistent`, `StuckKeysAreLost`, `PressedStaysHeld`,
  `FastPressStaysNoticed`, `PressesAct` (`InputProofs`): the invariants of run
  `input`, for an array and a queue of any size and any delay. What they need is
  the order of the queue: a press in it is of a key that is held or whose release
  is behind it (`DownThenUp`); otherwise the step that takes the press would put a
  released key in the array. The frame of play mode goes on only while a press is
  next, or the queue had been empty (`PeekSaysDown`), which is why a release in
  the same frame never hides a press; and a key that is due in the editor has a
  slot whose counter is 1 (`DueHasSlot`), which acts (`FirstActs`).
- `CallsStayCounted`, `TypesStayCorrect` (`CoroutineProofs`): `CallsCounted` of run
  `coroutine`, and its types. The count of the running thread is not inductive: an
  error or a yield goes back to a thread that was left long before. `Inv` has the
  count of every thread that waits for a resume (`Waiting`): it is the place of its
  last call on the C stack, so no thread is there twice and a step of the running
  one changes no other. A resume is refused or takes a thread that is off the
  stack (`IdleIsOff`), and where an error lands is found because only a resume
  changes the thread (`SameThreadAbove`). The types rest on the frames: each call
  leaves those below it alone (`Follows`), otherwise `luaD_pcall()` could restore more
  frames than there are. Three lemmas say what the C stack does (`Stays`,
  `Pushed`, `Cut`), and each action is one of them (`lua_resumeKeeps`, ...).
- `FramesStayConsistent` (`CoroutineProofs`): `FramesConsistent` of the same run, with the
  same types. `FrameInv` says of every call on the C stack, not
  only of the last, what frame it goes on in (`CallInv`): while calls are above it
  its frame is one of Lua, so that a return or an error finds it. The handler of a thread
  is the one of the protected call that its errors go to (`Rules`, `HandlerInv`); when
  that call is gone the one below it must rule with the handler that was saved, so the
  invariant is about every call that could come to the top. `OffInv` is about
  coroutines off the stack: a finished one has no frames, and no handler is left in
  a coroutine that yields.
- `CoroutinesAreImplemented` (`CoroutineProofs`): the refinement `ImplementsCoroutines` of
  that run, under `ListsFit`: the lists that are passed fit in the frame of
  `resume()`. When one does not, the theorem is false: that is the finding of
  `late_status`. The stack of who resumed whom (`Active`) is a recursive function over
  the C stack; `RunsActive` is what it gives, so that a call or a return that is no
  resume leaves it as it is. `StatusOf` says what `coroutine.status()` tells of each
  thread: a suspended coroutine has its function on its stack or yielded, a finished one
  has nothing left (`Begun` of `ValueInv`), and who waits for a resume has at most
  the values it asked for (`Asked`). There is a lemma for each action (`...Mapped`):
  `auxresume`, `lua_yield`, the end of a coroutine and an error that ends one are the steps
  of `Coroutines`, all others stutter.
- `ListsStayConsistent`, `NothingDangles`, `BlackStaysClear`, `GarbageIsCollected`,
  `FinalizersRunOnce` (`LuaGCProofs`): the five invariants of run `luagc`, for any
  number of addresses, any programs and any order of their steps. None is inductive;
  all follow from `GCInv` (`CollectorInvariant`), whose ten parts need each other.
  `AliveInv`: what is not dead refers only to what is not dead; dead is what has
  the other white, so this covers the sweep, in which dead and freed objects
  are still referred to by dead ones. `SweepInv`: what the sweep has passed
  has the current white, so that at its end nothing else is left, and the next
  mark phase begins from white. `ColorInv`: objects without a barrier (weak tables,
  threads, open upvalues) are never black. `MarkInv`: while the collector
  marks, a marked object is queued, or its references are marked, or the atomic step
  will look at it again (`Late`: `grayagain`, weak tables, open upvalues,
  userdata that wait); nothing marked is garbage; and an object that is gray is in
  exactly one list or of a kind that is not queued (`Listed`). `UdInv`: a
  userdata is in `rootgc` or waits, and every dead one has its bit set. `CloseInv`: what was
  there when `lua_close()` was called has its bit, so that it waits or was finalized, and a
  userdata made since does not matter.
  `GarbageInv`: what was garbage stays unmarked, and is dead when marking ends. `ShapeInv`
  and the types say what addresses hold. Marking is proved once for every set of
  objects (`MarkObjectsGood`), `propagateall()` as a loop that ends because every
  round turns an object (`PropagateAllGood`), and the atomic step from both
  (`AtomicMarks`). Then every part has a lemma for each kind of step, and one that joins
  them (`ShapeKept`, `ColorKept`, `AliveKept`, `UdKept`, `SweepKept`, `MarkKept`,
  `GarbageKept`, `CloseKept`). TLC found `GCInv` to hold on the instance of run `luagc`, all 562747
  states, before it was proved. Without the barrier in `SetTable` the step of
  `SetTableMark` has no proof, and without the second visit of `remarkupvals()` none
  of `RemarkedGood`: these are the places the algorithm lives at.
  `FinalizersRunOnce` is about the userdata that are there when `lua_close()` is called;
  that those made later are finalized, too, is false (`CloseFinalizesAll`).
- `CursorKept`: the action property `CursorLostOnlyBy`, in a window of any size.
  From a visible cursor, each operation leads to a visible one or is one of the
  three that `LosesCursor` names (lemmas `...Shown`).

- `TextEditorIsImplemented` (`EditorProofs`): the refinement `ImplementsTextEditor` of
  run `inwindow`. For each operation on a row there is a lemma on what becomes of
  its characters (`RowInsertCharText`, ...), for each on the rows one on what becomes
  of the text (`InsertRowText`, `RowsSplitText`, `RowsJoinedText`, ...), so that the
  colours, the sizes and the order in which C moves them are gone from there on
  (`LinesOfRows`). Then each action has its step of `TextEditor` (lemmas `...Plain`);
  that the window scrolled or not makes no difference to the row and the column it
  shows (`PutCursorPlain`). The invariant is `Inv` and `CursorInWindow`: a cursor
  out of the window may lie past the end of its row, and a deletion then does not
  do what the user sees. `Place` of `TextEditor` is where a click can leave the cursor.
- `TextIsImplemented` (`EditorProofs`): the refinement `ImplementsText` of run `inwindow`,
  from the one above. `WrittenConcat` (`ProgramFileProofs`) says that the bytes of some
  lines and then some others are the bytes of both, by induction on the lines; so a
  text that is cut at a column of a line (`CutAt`) is the bytes before the point and those
  after it (`PointInLine`, `PointBelow`). Each operation of `TextEditor` is then the
  change of one part (`TypedInLine`, `TypedBelow`, `SplitInLine`, `SplitBelow`,
  `DeletedInLine`, `JoinedLines`), and a move changes no byte (`PointWhole`).
- `TableConsistent`, `Length`, `Shallow`, `Sorts` and `TableIsMap` (`TableProofs`): the four
  invariants of run `table` and its refinement `ImplementsMap`, for every set of keys with
  any hashes, any values, programs and bounds. They follow from one inductive
  invariant, `IInv` (`Invariant`), of four parts.
  `Sound` is about the nodes. That every field is found is not inductive: `newkey()` moves a
  node to where the chain has it, and what it moved, and what dies, must go on leading to
  the rest. `Shape` therefore speaks of dead keys too (`Owner` is the key a node was
  taken for): each node that was ever used is reached from the main position of its
  owner, and in that position is a node at home (`FromHome`); no two nodes have
  the same next one; nodes never used are in no chain; and there is a rank that falls along
  `next` (`Ranked`), so that chains end. Chains are reasoned about as a relation first
  (`Behind...`, `Moved...`, the two ways `newkey()` links a node), then tables
  (`PlaceSound`, `CollectedSound`). The rest of `Sound` is the free pointer, above which
  no node is free, and that the array and the hash part have no key in common.
  `ResizeSpec` shows that the loops of `resize()` lose nothing and never run out of room,
  because `rehash()` counts enough of it (`SizesAre`, `RehashSpec`): a step by step count of
  the keys put back against the free nodes (`HasRoom`).
  `GetnSpec` is the length: the bisection keeps a value on its left and none on its
  right, and the doubling and the linear search end because a table has finitely
  many entries (`SomeIntegerUnset`).
  `Walking` is the traversal: the fields that were met are those up to the entry it stands
  on (`Walked`), whatever is cleared, changed or killed meanwhile (`AssignedOrder`,
  `CollectedOrder`, `FindIndexLive`). A new field could move them, and ends the promise.
  `Calling` is `sort()`. With any comparison function the intervals are inside of the
  sequence, and one that is d calls deep has at most n / 2^d values (`SortState`,
  `Fits`). With `<`, any two values are in order or together in an interval still to be
  sorted (`InOrder`), these intervals have nothing in common (`AllApart`), what the loop
  knows of its pivot keeps its indices inside (`Known`), and a budget of the square of each
  length pays for the comparisons (`IsCheap`). There is a lemma for each comparison on
  sequences of numbers (`SortFirst` to `SortSplit`) and one for each on the table
  (`...GoesOn`).
  The refinement maps `lua_rawset` to `Assign`, `SetList` to `List`, `tinsert` to `Insert`,
  `tremove` to `Remove`, a step of `auxsort` to `Exchange` or to nothing, `luaB_pairs` to
  `StartWalk`, `lua_next` to `Meet` or `EndWalk`, and a pass of the collector and the beginning and
  end of `sort()` to nothing (lemmas `Map...`).

Model-checked only: the compiler, the machine and the meaning of programs (`luavm`: the
parser, the code generator and the interpreter of `LuaMeaning` are mutually recursive,
written with recursive operators, which the prover does not take, and that a program runs
as written is an induction over its text); and `EscSwitchesMode`, because liveness
is out of the prover's reach.

## What is not modelled

Drawing, the font and the sprites (pixels and a cache without interleaving);
reading a pixel outside of the window returns bytes that were never set
(`load81.c` 231). The parsing of the command line, and windows smaller than their
margins (`load81.c` 519). The scanner of the highlighter, and in which order the
text and the keys of one batch act. Programs that replace their `keyboard` or
`mouse` table (`load81.c` 287).

Of Lua: the scanner, the string library with its pattern matching, `io`, `os`,
`package`, `debug` with hooks, `string.dump()` and the loading of bytecode, the
growth of the value stack, floating point, and the stand-alone `lua.c` and `luac.c`,
which Load81 does not run. The API of `lapi.c` is modelled where another part
goes through it. The Native Client and Pandora ports are glue without state.

Cases the definitions leave out, none of which a run reaches:

- `LuaCompiler`: `enterlevel()` and its "too many syntax levels" (`lparser.c` 276), and the
  limit of "variables in assignment" by `LUAI_MAXCCALLS` (`lparser.c` 941).
- `LuaVM`: `print()` shows values as the original `tostring()` does, without a call of the
  global one, hence without `__tostring` (`lbaselib.c` 34-43); an overflow of calls from C
  has no second limit for error handlers (`ldo.c` 374; `LuaCoroutine` has it).
- `LuaTable`: "table overflow" (`ltable.c` 281), and slices of an array past 2^`MAXBITS`, which
  `numusearray()` does not count (`ltable.c` 227).
- `TableLibrary`: `insert()` of nil, at a position below 1, or past the end of the sequence,
  which makes the array grow (`ltablib.c` 100).
- `Session`: frame rates above 200, which `SDL_setFramerate()` refuses while `l81.fps` keeps
  them (`load81.c` 201): the rate of the mode before stays.

`PROJECT.json` names the six hazards that no property covers, with the reason. Three of them
are losses the code has and nothing in the repository denies: a text that is lost when the
process ends inside of a save (`editor.c` 372), a press that draw() does not see because its
release came after the peek (`load81.c` 372), and a key pressed and released in one batch of
the editor (`editor.c` 627). The properties next to them hold because they except these
cases, and say so.

## Plan

Done, in this order: `Window`, `ProgramFile`, `Editor`, `TextEditor`, `Text`,
`InWindow`, `Session`, `ProgramFileProofs`, `EditorProofs`, `Input`, `LuaGC`,
`LuaOpcodes`, `LuaCompiler`, `LuaVerify`, `LuaVM` with `LuaSyntax` and
`LuaMeaning`, `LuaTable` with `LuaMap` and `TableLibrary`, `LuaCoroutine` with
`Coroutines`, the proofs about `Session`, `Input`, `LuaCoroutine`, `LuaGC` and
`TableLibrary`.

1. The order of a batch in `Input`: text is inserted while events are polled
   (`editor.c` 601), keys act after it and in the order of their slots
   (`editor.c` 643). Abstractly a queue of operations in the order of the events;
   expected to fail within a batch and to hold across batches.
2. `Syntax`: the scanner over classes of characters, against a reference that
   colours by position; the step over a last backslash (`editor.c` 59).
3. The matcher of `lstrlib.c` against a reference that enumerates matches.
