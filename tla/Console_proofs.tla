--------------------------- MODULE Console_proofs ---------------------------
(***************************************************************************)
(* Proofs about Console for every resolution that ScreenAssumption allows. *)
(***************************************************************************)
EXTENDS Console, TLAPS

(* The inductive invariant: the cursor is at a margin, which every screen  *)
(* has room for, or before the edge that makes it wrap.                    *)
CursorFits ==
  /\ console_x \in Nat /\ (console_x = Margin \/ console_x < width - CellWidth)
  /\ console_y \in Nat /\ (console_y = Margin \/ console_y < height - CellHeight)

Inv == TypeOK /\ DrawnOnScreen /\ CursorFits

(* The limits of the code, computed in uint32_t, do not wrap below zero. *)
LEMMA Limits ==
  ASSUME TypeOK
  PROVE  /\ width \in Nat /\ height \in Nat /\ Word \in Nat
         /\ width >= Margin + CellWidth /\ height >= Margin + CellHeight
         /\ width + CellWidth < Word /\ height + CellHeight < Word
         /\ Minus(width, CellWidth) = width - CellWidth
         /\ Minus(height, CellHeight) = height - CellHeight
<1>1. /\ width \in Nat /\ height \in Nat /\ Word \in Nat
      /\ width >= Margin + CellWidth /\ height >= Margin + CellHeight
      /\ width + CellWidth < Word /\ height + CellHeight < Word
  BY ScreenAssumption DEF TypeOK, width, height, Margin, CellWidth, CellHeight
<1>2. \A a \in Nat, w \in Nat : a < w => a % w = a
  OBVIOUS
<1>3. Minus(width, CellWidth) = width - CellWidth
  <2>1. width - CellWidth \in Nat /\ width - CellWidth < Word
    BY <1>1 DEF Margin, CellWidth
  <2>2. QED
    BY <1>1, <1>2, <2>1 DEF Minus
<1>4. Minus(height, CellHeight) = height - CellHeight
  <2>1. height - CellHeight \in Nat /\ height - CellHeight < Word
    BY <1>1 DEF Margin, CellHeight
  <2>2. QED
    BY <1>1, <1>2, <2>1 DEF Minus
<1>5. QED
  BY <1>1, <1>3, <1>4

(* A line position that NextLine answers leaves room for a line. *)
LEMMA NextLineFits ==
  ASSUME TypeOK, NEW y \in Nat
  PROVE  /\ NextLine(y) \in 0 .. (Word - 1)
         /\ NextLine(y) = Margin \/ NextLine(y) < height - CellHeight
  BY Limits DEF NextLine, Margin, CellHeight, CellWidth

LEMMA InitInv == Init => Inv
<1> SUFFICES ASSUME Init PROVE Inv
  OBVIOUS
<1>1. TypeOK
  BY ScreenAssumption DEF Init, TypeOK, Margin
<1>2. CursorFits
  BY DEF Init, CursorFits, Margin
<1>3. QED
  BY <1>1, <1>2 DEF Init, Inv, DrawnOnScreen

LEMMA StepInv == Inv /\ [Next]_vars => Inv'
<1> SUFFICES ASSUME Inv, [Next]_vars PROVE Inv'
  OBVIOUS
<1>0. UNCHANGED vars \/ Next
  OBVIOUS
<1>1. UNCHANGED <<screen_width, screen_height>> /\ width' = width /\ height' = height
  BY <1>0 DEF Next, Newline, CarriageReturn, PutChar, SYSCALL_CLEAR, vars, width, height
<1>2. Margin \in 0 .. (Word - 1)
  BY ScreenAssumption DEF Margin
<1>3. CASE UNCHANGED vars
  BY <1>1, <1>3 DEF Inv, TypeOK, DrawnOnScreen, CursorFits, vars
<1>4. CASE Newline \/ CarriageReturn \/ SYSCALL_CLEAR
  <2>1. /\ console_x' = Margin /\ drawn' = drawn
        /\ console_y' \in 0 .. (Word - 1)
        /\ console_y' = Margin \/ console_y' < height - CellHeight
    <3>1. console_y \in Nat /\ console_y + CellHeight \in Nat
      BY DEF Inv, CursorFits, CellHeight
    <3>2. QED
      BY <1>2, <1>4, <3>1, NextLineFits DEF Newline, CarriageReturn, SYSCALL_CLEAR, Inv
  <2>2. QED
    BY <1>1, <1>2, <2>1 DEF Inv, TypeOK, DrawnOnScreen, CursorFits
<1>5. CASE PutChar
  <2>1. console_x \in Nat /\ console_y \in Nat /\ console_x + CellWidth \in Nat /\ console_y + CellHeight \in Nat
    BY DEF Inv, CursorFits, CellWidth, CellHeight
  <2>2. /\ console_y' \in 0 .. (Word - 1)
        /\ console_y' = Margin \/ console_y' < height - CellHeight
    BY <1>5, <2>1, NextLineFits DEF PutChar, Inv
  <2>3. /\ console_x' \in 0 .. (Word - 1)
        /\ console_x' = Margin \/ console_x' < width - CellWidth
    BY <1>2, <1>5, <2>1, Limits DEF PutChar, AtRightEdge, Inv, CellWidth, CellHeight, Margin
  <2>4. drawn' = <<console_x, console_y>> /\ DrawnOnScreen'
    BY <1>1, <1>5, <2>1, Limits
       DEF PutChar, Inv, DrawnOnScreen, CursorFits, Margin, CellWidth, CellHeight
  <2>5. QED
    BY <1>1, <2>1, <2>2, <2>3, <2>4 DEF Inv, TypeOK, CursorFits
<1>6. QED
  BY <1>0, <1>3, <1>4, <1>5 DEF Next

-----------------------------------------------------------------------------
(* The cursor stays in range of its type (syscall.c:124-125, 136-173). *)
THEOREM TypeCorrect == Spec => []TypeOK
<1>1. Inv => TypeOK
  BY DEF Inv
<1>2. QED
  BY InitInv, StepInv, <1>1, PTL DEF Spec

(* No character that SYSCALL_PRINT draws lies off the screen, whatever the *)
(* resolution (syscall.c:157-169, graphics.c:24-35).                       *)
THEOREM AlwaysOnScreen == Spec => []DrawnOnScreen
<1>1. Inv => DrawnOnScreen
  BY DEF Inv
<1>2. QED
  BY InitInv, StepInv, <1>1, PTL DEF Spec
=============================================================================
