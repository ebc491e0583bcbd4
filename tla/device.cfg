SPECIFICATION Spec
CONSTANTS
  Contacts = {f1, f2, f3}
  MaxSlots = 2
  Free = Free
  MaxFaults = 2
  Buttons = {left}
  Keys = {shift, a}
  Modifiers = {shift}
SYMMETRY Symmetry
INVARIANTS
  TypeOK
  PadSound
  ResetReleases
  OneFingerClicks

