---------------------------------- MODULE Vga ----------------------------------
(* The text screen of driver/vga.c and the mouse pointer that driver/mouse.c      *)
(* draws into the same video memory.                                              *)
(*                                                                                *)
(* The static variables of both files and the video memory are one record, and    *)
(* every function of theirs that runs with interrupts off from beginning to end   *)
(* is an operator from records to records: a step of the system applies one.      *)
(* A cell holds its character only, since attributes decide nothing.              *)
EXTENDS Integers, Sequences, SequencesExt

CONSTANTS
  WIDTH, HEIGHT,  \* VGA_WIDTH and VGA_HEIGHT: 80 and 25
  TAB             \* distance of tab stops: 4

ASSUME ScreenAssumption ==
  WIDTH \in Nat \ {0} /\ HEIGHT \in Nat \ {0} /\ TAB \in Nat \ {0}

Rows == 0 .. HEIGHT - 1
Columns == 0 .. WIDTH - 1
Cells == 0 .. WIDTH * HEIGHT - 1
Blank == " "
Glyph == "glyph"      \* pointer_glyph, no character that is ever typed or written

At(row, col) == row * WIDTH + col

--------------------------------------------------------------------------------
(* The pointer. *)

mouse_pointer_erase(s) ==
  IF s.pointer_active
  THEN [s EXCEPT !.cells[At(s.pointer_row, s.pointer_col)] = s.pointer_under,
                 !.pointer_active = FALSE]
  ELSE s

\* Restores the old position, then keeps what is below the new one.
pointer_draw(s, row, col) ==
  IF s.pointer_active /\ s.pointer_row = row /\ s.pointer_col = col
  THEN s
  ELSE LET e == mouse_pointer_erase(s)
       IN  [e EXCEPT !.pointer_row = row, !.pointer_col = col,
                     !.pointer_under = e.cells[At(row, col)],
                     !.cells[At(row, col)] = Glyph,
                     !.pointer_active = TRUE]

--------------------------------------------------------------------------------
(* The screen. *)

is_position_protected(s, row, col) ==
  /\ s.protection_enabled
  /\ row < s.protected_row \/ (row = s.protected_row /\ col < s.protected_col)

\* Mutant of Scroll: the boundary stays where it is.
ScrollLeavesBoundary(s) ==
  IF s.cursor_row < HEIGHT
  THEN s
  ELSE [s EXCEPT !.cells = [i \in Cells |-> IF i + WIDTH \in Cells THEN s.cells[i + WIDTH]
                                                                    ELSE Blank],
                 !.cursor_row = HEIGHT - 1]

\* The whole screen goes up by a row, the boundary with it.
Scroll(s) ==
  IF s.cursor_row < HEIGHT
  THEN s
  ELSE [s EXCEPT !.cells = [i \in Cells |-> IF i + WIDTH \in Cells THEN s.cells[i + WIDTH]
                                                                    ELSE Blank],
                 !.protected_row = IF @ > 0 THEN @ - 1 ELSE @,
                 !.cursor_row = HEIGHT - 1]

PutNewline(s) ==
  IF is_position_protected(s, s.cursor_row + 1, 0)
  THEN s
  ELSE Scroll([s EXCEPT !.cursor_row = @ + 1, !.cursor_col = 0])

PutReturn(s) ==
  IF is_position_protected(s, s.cursor_row, 0) THEN s ELSE [s EXCEPT !.cursor_col = 0]

\* Where a backspace goes: to the left, or to the last character that is not blank
\* of the row above.
BackspaceTarget(s) ==
  IF s.cursor_col > 0
  THEN <<s.cursor_row, s.cursor_col - 1>>
  ELSE LET used == {c \in Columns : s.cells[At(s.cursor_row - 1, c)] # Blank}
       IN  <<s.cursor_row - 1, IF used = {} THEN 0 ELSE Max(used)>>

PutBackspace(s) ==
  IF s.cursor_col = 0 /\ s.cursor_row = 0
  THEN s
  ELSE LET t == BackspaceTarget(s)
       IN  IF is_position_protected(s, t[1], t[2])
           THEN s
           ELSE [s EXCEPT !.cursor_row = t[1], !.cursor_col = t[2],
                          !.cells[At(t[1], t[2])] = Blank]

\* Behind the last cell of the screen the cursor stays where it is.
Advance(s) ==
  IF s.cursor_col < WIDTH - 1
  THEN [s EXCEPT !.cursor_col = @ + 1]
  ELSE IF s.cursor_row < HEIGHT - 1
       THEN [s EXCEPT !.cursor_row = @ + 1, !.cursor_col = 0]
       ELSE s

PutPlain(s, c) ==
  IF is_position_protected(s, s.cursor_row, s.cursor_col)
  THEN s
  ELSE Advance([s EXCEPT !.cells[At(s.cursor_row, s.cursor_col)] = c])

\* Blanks as far as the next tab stop: the screen after each of them.
TabSteps(s) ==
  LET after[i \in 0 .. TAB - (s.cursor_col % TAB)] ==
        IF i = 0 THEN s ELSE PutPlain(after[i - 1], Blank)
  IN  after

putchar_core(s, c) ==
  LET e == mouse_pointer_erase(s)
  IN  CASE c = "\n" -> PutNewline(e)
        [] c = "\r" -> PutReturn(e)
        [] c = "bs" -> PutBackspace(e)
        [] c = "\t" -> TabSteps(e)[TAB - (e.cursor_col % TAB)]
        [] OTHER    -> PutPlain(e, c)

\* A string is written under one lock: the screen after each of its characters.
WriteSteps(s, str) ==
  LET after[i \in 0 .. Len(str)] ==
        IF i = 0 THEN s ELSE putchar_core(after[i - 1], str[i])
  IN  after

vga_write(s, str) == WriteSteps(s, str)[Len(str)]

\* Mutant of vga_clear: the pointer is not taken away first.
vga_clearUnderPointer(s) ==
  [s EXCEPT !.cells = [i \in Cells |-> Blank], !.cursor_row = 0, !.cursor_col = 0,
            !.protection_enabled = FALSE]

vga_clear(s) ==
  [mouse_pointer_erase(s) EXCEPT !.cells = [i \in Cells |-> Blank],
                                 !.cursor_row = 0, !.cursor_col = 0,
                                 !.protection_enabled = FALSE]

vga_set_cursor(s, row, col) ==
  LET r == Max({0, Min({row, HEIGHT - 1})})
      c == Max({0, Min({col, WIDTH - 1})})
  IN  IF is_position_protected(s, r, c)
      THEN s
      ELSE [s EXCEPT !.cursor_row = r, !.cursor_col = c]

vga_protect_before_cursor(s) ==
  [s EXCEPT !.protected_row = s.cursor_row, !.protected_col = s.cursor_col,
            !.protection_enabled = TRUE]

\* After vga_init; the pointer is drawn by the first movement.
vga_init ==
  [cells |-> [i \in Cells |-> Blank], cursor_row |-> 0, cursor_col |-> 0,
   protection_enabled |-> FALSE, protected_row |-> 0, protected_col |-> 0,
   pointer_active |-> FALSE, pointer_row |-> 0, pointer_col |-> 0, pointer_under |-> Blank]

--------------------------------------------------------------------------------
(* What a reader of the screen takes for text: the cells without the pointer. *)
Text(s) == mouse_pointer_erase(s).cells

\* The cells before the boundary of the protected region.
Boundary(s) == IF s.protection_enabled THEN At(s.protected_row, s.protected_col) ELSE 0
================================================================================
