------------------------------ MODULE Console ------------------------------
(***************************************************************************)
(* The text console behind SYSCALL_PRINT and SYSCALL_CLEAR (src/syscall.c) *)
(* and the pixels Graphics_PutChar writes (src/graphics.c): a cursor in    *)
(* pixels that advances by a character cell, wraps at the right edge and   *)
(* clears the screen at the bottom.                                        *)
(*                                                                         *)
(* One step is one character of a string; the kernel prints a whole string *)
(* with interrupts off, and strings follow one another, so any sequence of *)
(* characters is a possible behaviour.  Graphics_Print, which other code   *)
(* calls with coordinates of its own, is not part of the console.          *)
(***************************************************************************)
EXTENDS Integers

CONSTANTS
  Widths, Heights,   \* resolutions the firmware may report; 0 if it reports none
  Word               \* 2^32: the cursor and the limits are uint32_t

CellWidth == 8
CellHeight == 16
Margin == 10

(* A screen takes at least the margin and one cell in each direction, and  *)
(* the sums of the code stay below 2^32.                                   *)
ASSUME ScreenAssumption ==
  /\ Word \in Nat
  /\ \A w \in Widths : w \in Nat /\ (w = 0 \/ w >= Margin + CellWidth) /\ w + CellWidth < Word
  /\ \A h \in Heights : h \in Nat /\ (h = 0 \/ h >= Margin + CellHeight) /\ h + CellHeight < Word
  /\ Word > 808

VARIABLES
  screen_width, screen_height,
  console_x, console_y,
  drawn      \* history: top left corner of the last character drawn, or <<>>

vars == <<screen_width, screen_height, console_x, console_y, drawn>>

(* The handler's fallback when Graphics_GetDimensions reports nothing. *)
width  == IF screen_width = 0 THEN 800 ELSE screen_width
height == IF screen_height = 0 THEN 600 ELSE screen_height

Minus(a, b) == (a - b) % Word

Init ==
  /\ screen_width \in Widths /\ screen_height \in Heights
  /\ console_x = Margin /\ console_y = Margin
  /\ drawn = <<>>

(* The line after one that ended at y, and a variant that never wraps. *)
NextLine_NoWrap(y) == y

NextLine(y) == IF y >= Minus(height, CellHeight) THEN Margin ELSE y

Newline ==
  /\ console_x' = Margin
  /\ console_y' = NextLine(console_y + CellHeight)
  /\ UNCHANGED <<screen_width, screen_height, drawn>>

CarriageReturn ==
  /\ console_x' = Margin
  /\ console_y' = NextLine(console_y)
  /\ UNCHANGED <<screen_width, screen_height, drawn>>

(* No further cell fits behind x; the variant forgets the cell's width. *)
AtRightEdge_NoCell(x) == x >= width

AtRightEdge(x) == x >= Minus(width, CellWidth)

PutChar ==
  /\ drawn' = <<console_x, console_y>>
  /\ IF AtRightEdge(console_x + CellWidth)
       THEN console_x' = Margin /\ console_y' = NextLine(console_y + CellHeight)
       ELSE console_x' = console_x + CellWidth /\ console_y' = NextLine(console_y)
  /\ UNCHANGED <<screen_width, screen_height>>

SYSCALL_CLEAR ==
  /\ console_x' = Margin /\ console_y' = Margin
  /\ UNCHANGED <<screen_width, screen_height, drawn>>

Next == Newline \/ CarriageReturn \/ PutChar \/ SYSCALL_CLEAR

Spec == Init /\ [][Next]_vars

-----------------------------------------------------------------------------
TypeOK ==
  /\ screen_width \in Widths /\ screen_height \in Heights
  /\ console_x \in 0 .. (Word - 1) /\ console_y \in 0 .. (Word - 1)
  /\ drawn \in {<<>>} \cup (Nat \X Nat)

(* No character that SYSCALL_PRINT draws lies outside the frame buffer     *)
(* (syscall.c:157-169, graphics.c:24-35, which checks nothing): its whole  *)
(* cell is on the screen, after any mix of characters, new lines and       *)
(* clears.                                                                 *)
DrawnOnScreen ==
  drawn # <<>> => /\ drawn[1] + CellWidth <= width
                  /\ drawn[2] + CellHeight <= height
=============================================================================
