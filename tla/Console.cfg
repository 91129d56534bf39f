CONSTANTS
  Widths <- MCWidths
  Heights <- MCHeights
  Word = 1024
SPECIFICATION Spec
INVARIANTS TypeOK DrawnOnScreen
