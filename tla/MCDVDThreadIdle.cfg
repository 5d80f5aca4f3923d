CONSTANTS
  Discs = {d1}
  NoDisc = NoDisc
  None = None
  Ops = {"SetDisc", "Save", "Load"}
  MaxReads = 2
SPECIFICATION Spec
INVARIANT IdleInBody
