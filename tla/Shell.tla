--------------------------------- MODULE Shell ---------------------------------
(* The main loop and the line editor of user/shell.c on the screen of Vga.        *)
(*                                                                                *)
(* The shell reaches the screen by system calls, each of which runs with          *)
(* interrupts off; between two of them the mouse may move the pointer and the     *)
(* kernel may write a message of its own.  todo holds the calls that the shell    *)
(* is about to make: what it decides on is fixed when a key has been read, from   *)
(* its own variables only.                                                        *)
EXTENDS Vga, FiniteSets

CONSTANTS
  SIZE,            \* size of the line buffer, 128, with its terminator
  HIST_MAX,        \* lines kept in the history, 8
  Letters,         \* characters that can be typed
  PROMPT,          \* what is written before a line is read
  OutChars,        \* characters that commands write
  Spots,           \* cells, as <<row, column>>, to which the mouse goes
  MESSAGE,         \* what the kernel writes of its own accord
  MaxEvents        \* bound: keys, characters of commands, reports of the mouse and
                   \* messages in a behaviour

\* An edit line that starts anywhere in a row fits on the screen.
ASSUME LineAssumption ==
  /\ SIZE \in Nat \ {0} /\ HIST_MAX \in Nat \ {0}
  /\ (WIDTH - 1 + SIZE - 1) \div WIDTH < HEIGHT

\* What is written are characters, what is typed into the line moves the cursor by one,
\* and the mouse stays on the screen.
ASSUME CharacterAssumption ==
  /\ Letters \subseteq STRING \ {"\n", "\r", "bs", "\t"}
  /\ OutChars \subseteq STRING /\ PROMPT \in Seq(STRING) /\ MESSAGE \in Seq(STRING)
  /\ Spots \subseteq Rows \X Columns

VARIABLES
  scr,         \* the screen
  plain,       \* history: the screen had the pointer never been drawn
  at,          \* where the shell is: "prompt", "mouse", "key" or "run"
  todo,        \* system calls it is about to make
  ed,          \* local variables of readline
  history, hist_pos,
  mouse,       \* position and left button as the driver knows them
  disturbed,   \* a message has been written since the prompt
  events       \* number of keys, characters, reports and messages so far

shell_vars == <<scr, plain, at, todo, ed, history, hist_pos, mouse, disturbed, events>>

NewLine ==
  [buf |-> <<>>, pos |-> 0, disp_len |-> 0, start_row |-> 0, start_col |-> 0,
   prev_lbtn |-> FALSE, press |-> <<0, 0>>, longest |-> 0]

\* The kernel has written some lines before the shell starts.
ShellInit ==
  /\ \E n \in Rows : scr = vga_write(vga_init, [i \in 1 .. n |-> "\n"])
  /\ plain = scr
  /\ at = "prompt" /\ todo = <<>> /\ ed = NewLine
  /\ history = <<>> /\ hist_pos = 0
  /\ mouse = [row |-> 0, col |-> 0, btn |-> FALSE]
  /\ disturbed = FALSE
  /\ events = 0

--------------------------------------------------------------------------------
(* System calls. *)

Put(c)           == [call |-> "putchar", c |-> c]
Write(str)       == [call |-> "write", str |-> str]
SetCursor(p)     == [call |-> "set_cursor", row |-> p[1], col |-> p[2]]
Clear            == [call |-> "clear"]
Protect          == [call |-> "protect"]
GetCursor        == [call |-> "get_cursor"]

syscall_dispatcher(s, c) ==
  CASE c.call = "putchar"    -> putchar_core(s, c.c)
    [] c.call = "write"      -> vga_write(s, c.str)
    [] c.call = "set_cursor" -> vga_set_cursor(s, c.row, c.col)
    [] c.call = "clear"      -> vga_clear(s)
    [] c.call = "protect"    -> vga_protect_before_cursor(s)
    [] c.call = "get_cursor" -> s

\* The next call.  get_cursor is the first thing readline does: the line starts there.
Call ==
  /\ todo # <<>>
  /\ scr' = syscall_dispatcher(scr, Head(todo))
  /\ plain' = syscall_dispatcher(plain, Head(todo))
  /\ todo' = Tail(todo)
  /\ ed' = IF Head(todo).call = "get_cursor"
           THEN [NewLine EXCEPT !.start_row = scr.cursor_row, !.start_col = scr.cursor_col]
           ELSE ed
  /\ UNCHANGED <<at, history, hist_pos, mouse, disturbed, events>>

--------------------------------------------------------------------------------
(* Editing.  Each operator gives calls, or the editor's variables. *)

LinePlace(e, pos) ==
  <<e.start_row + (e.start_col + pos) \div WIDTH, (e.start_col + pos) % WIDTH>>

line_set_cursor(e) == <<SetCursor(LinePlace(e, e.pos))>>

\* How many rows a line of that length reaches below the screen.
Missing(e, len) == Max({0, LinePlace(e, len)[1] - (HEIGHT - 1)})

ensure_edit_space(n) ==
  [i \in 1 .. 2 * n |-> IF i % 2 = 1 THEN SetCursor(<<HEIGHT - 1, 0>>) ELSE Put("\n")]

\* Mutant of line_redraw: what the line was longer before stays on the screen.
line_redrawResidue(e) ==
  <<SetCursor(<<e.start_row, e.start_col>>)>>
    \o [i \in 1 .. Len(e.buf) |-> Put(e.buf[i])]
    \o line_set_cursor(e)

line_redraw(e) ==
  <<SetCursor(<<e.start_row, e.start_col>>)>>
    \o [i \in 1 .. Len(e.buf) |-> Put(e.buf[i])]
    \o [i \in 1 .. Max({0, e.disp_len - Len(e.buf)}) |-> Put(Blank)]
    \o line_set_cursor(e)

\* The line becomes buf with the cursor at pos, after room has been made for len
\* characters.
Show(buf, pos, len) ==
  LET n == Missing(ed, len)
      e == [ed EXCEPT !.buf = buf, !.pos = pos, !.start_row = @ - n]
  IN  /\ todo' = ensure_edit_space(n) \o line_redraw(e)
      /\ ed' = [e EXCEPT !.disp_len = Len(buf), !.longest = Max({@, Len(buf)})]

--------------------------------------------------------------------------------
(* The shell. *)

Idle(where) == at = where /\ todo = <<>>

\* The prompt, the boundary, and the start of readline.
Prompt ==
  /\ Idle("prompt")
  /\ todo' = <<Write(PROMPT), Protect, GetCursor>>
  /\ at' = "mouse" /\ disturbed' = FALSE
  /\ UNCHANGED <<scr, plain, ed, history, hist_pos, mouse, events>>

\* The first half of a turn of readline: a button pressed and released at one
\* place of the edit line puts the cursor there.
Clicked == ~ mouse.btn /\ ed.prev_lbtn /\ ed.press = <<mouse.row, mouse.col>>
InLine == mouse.row \in ed.start_row .. LinePlace(ed, Len(ed.buf))[1]
ClickOffset ==
  Max({0, Min({Len(ed.buf), (mouse.row - ed.start_row) * WIDTH + mouse.col - ed.start_col})})

PollMouse ==
  /\ Idle("mouse")
  /\ LET e == [ed EXCEPT !.prev_lbtn = mouse.btn,
                         !.press = IF mouse.btn /\ ~ ed.prev_lbtn
                                   THEN <<mouse.row, mouse.col>> ELSE @,
                         !.pos = IF Clicked /\ InLine THEN ClickOffset ELSE @]
     IN  /\ ed' = e
         /\ todo' = IF Clicked /\ InLine THEN line_set_cursor(e) ELSE <<>>
  /\ at' = "key"
  /\ UNCHANGED <<scr, plain, history, hist_pos, mouse, disturbed, events>>

\* No key: another turn after a yield.  Without a change of the mouse it would
\* change nothing.
NoKey ==
  /\ Idle("key")
  /\ ed.prev_lbtn # mouse.btn
  /\ at' = "mouse"
  /\ UNCHANGED <<scr, plain, todo, ed, history, hist_pos, mouse, disturbed, events>>

\* The second half of a turn, with a key.
Key ==
  /\ Idle("key")
  /\ events < MaxEvents /\ events' = events + 1
  /\ UNCHANGED <<scr, plain, mouse, disturbed>>

Insert(c) ==
  /\ Key
  /\ Len(ed.buf) < SIZE - 1
  /\ Show(InsertAt(ed.buf, ed.pos + 1, c), ed.pos + 1, Len(ed.buf) + 1)
  /\ at' = "mouse"
  /\ UNCHANGED <<history, hist_pos>>

Backspace ==
  /\ Key
  /\ ed.pos > 0
  /\ Show(RemoveAt(ed.buf, ed.pos), ed.pos - 1, Len(ed.buf) - 1)
  /\ at' = "mouse"
  /\ UNCHANGED <<history, hist_pos>>

Left ==
  /\ Key
  /\ ed.pos > 0
  /\ ed' = [ed EXCEPT !.pos = @ - 1]
  /\ todo' = line_set_cursor(ed') /\ at' = "mouse"
  /\ UNCHANGED <<history, hist_pos>>

Right ==
  /\ Key
  /\ ed.pos < Len(ed.buf)
  /\ ed' = [ed EXCEPT !.pos = @ + 1]
  /\ todo' = line_set_cursor(ed') /\ at' = "mouse"
  /\ UNCHANGED <<history, hist_pos>>

\* Entry i of the history counted from the newest; room is made for the longest line.
hist_apply(i) ==
  LET line == history[Len(history) - i + 1]
  IN  Show(line, Len(line), SIZE - 1)

Up ==
  /\ Key
  /\ hist_pos < Len(history)
  /\ hist_pos' = hist_pos + 1
  /\ hist_apply(hist_pos')
  /\ at' = "mouse"
  /\ UNCHANGED history

Down ==
  /\ Key
  /\ hist_pos > 0
  /\ hist_pos' = hist_pos - 1
  /\ IF hist_pos' = 0 THEN Show(<<>>, 0, 0) ELSE hist_apply(hist_pos')
  /\ at' = "mouse"
  /\ UNCHANGED history

hist_add(line) ==
  IF line = <<>> \/ (history # <<>> /\ Last(history) = line)
  THEN history
  ELSE Append(IF Len(history) < HIST_MAX THEN history ELSE Tail(history), line)

Enter ==
  /\ Key
  /\ todo' = <<Put("\n")>>
  /\ history' = hist_add(ed.buf)
  /\ hist_pos' = 0
  /\ at' = "run"
  /\ UNCHANGED ed

\* execute: whatever a command writes.
Output ==
  /\ Idle("run")
  /\ events < MaxEvents /\ events' = events + 1
  /\ \/ \E c \in OutChars : todo' = <<Put(c)>>
     \/ todo' = <<Clear>>
  /\ UNCHANGED <<scr, plain, at, ed, history, hist_pos, mouse, disturbed>>

CommandDone ==
  /\ Idle("run")
  /\ at' = "prompt"
  /\ UNCHANGED <<scr, plain, todo, ed, history, hist_pos, mouse, disturbed, events>>

--------------------------------------------------------------------------------
(* What happens between the system calls. *)

\* A report of the mouse, from the interrupt or from a poll: mouse_feed_byte and
\* usb_process_report end in pointer_draw.
MouseReport ==
  /\ events < MaxEvents /\ events' = events + 1
  /\ \E p \in Spots, b \in BOOLEAN :
        /\ mouse' = [row |-> p[1], col |-> p[2], btn |-> b]
        /\ scr' = pointer_draw(scr, p[1], p[2])
  /\ UNCHANGED <<plain, at, todo, ed, history, hist_pos, disturbed>>

\* A message of a driver or of the task management.
KernelMessage ==
  /\ events < MaxEvents /\ events' = events + 1
  /\ scr' = vga_write(scr, MESSAGE)
  /\ plain' = vga_write(plain, MESSAGE)
  /\ disturbed' = TRUE
  /\ UNCHANGED <<at, todo, ed, history, hist_pos, mouse>>

ShellNext ==
  \/ Call \/ Prompt \/ PollMouse \/ NoKey
  \/ \E c \in Letters : Insert(c)
  \/ Backspace \/ Left \/ Right \/ Up \/ Down \/ Enter
  \/ Output \/ CommandDone
  \/ MouseReport \/ KernelMessage

ShellSpec == ShellInit /\ [][ShellNext]_shell_vars

--------------------------------------------------------------------------------
(* Properties. *)

\* The cursor is on the screen, the editor's positions are in the line, the history
\* is no longer than its array.
PlacesOK ==
  /\ scr.cursor_row \in Rows /\ scr.cursor_col \in Columns
  /\ scr.protected_row \in Rows /\ scr.protected_col \in Columns
  /\ ed.pos \in 0 .. Len(ed.buf) /\ Len(ed.buf) < SIZE
  /\ ed.start_row \in Rows
  /\ Len(history) <= HIST_MAX /\ hist_pos \in 0 .. Len(history)

\* Whenever the shell waits for a key the screen shows the line that would be
\* executed, from where it was started, with nothing left over of what was longer,
\* and the cursor is at the character where the next key acts, however often the
\* screen has scrolled, the history was used or a click moved the cursor.
LineShown ==
  /\ PlacesOK
  /\ (at \in {"mouse", "key"} /\ todo = <<>> /\ ~ disturbed) =>
       LET first == At(ed.start_row, ed.start_col)
       IN  /\ At(scr.cursor_row, scr.cursor_col) = first + ed.pos
           /\ \A i \in 1 .. Len(ed.buf) : Text(scr)[first + i - 1] = ed.buf[i]
           /\ \A i \in Len(ed.buf) + 1 .. ed.longest : Text(scr)[first + i - 1] = Blank

\* The pointer leaves no trace: without it the screen is the one on which it was
\* never drawn, wherever it was when text was written, scrolled or cleared.
PointerLeavesNoTrace ==
  /\ Text(scr) = plain.cells
  /\ <<scr.cursor_row, scr.cursor_col>> = <<plain.cursor_row, plain.cursor_col>>
  /\ Boundary(scr) = Boundary(plain)

\* Protected text is changed by nothing but clearing and scrolling, which moves the
\* boundary along with the text it protects.
ProtectedTextKept ==
  [][(scr.protection_enabled /\ scr'.protection_enabled
        /\ ~ (todo # <<>> /\ Head(todo) = Protect /\ todo' = Tail(todo))) =>
       \E k \in 0 .. HEIGHT :
          /\ scr'.protected_row = Max({0, scr.protected_row - k})
          /\ scr'.protected_col = scr.protected_col
          /\ \A i \in 0 .. Boundary(scr') - 1 :
                i + k * WIDTH < Boundary(scr) => Text(scr')[i] = Text(scr)[i + k * WIDTH]]_shell_vars

================================================================================
