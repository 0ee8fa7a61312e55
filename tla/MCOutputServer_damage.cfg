CONSTANTS
  d1 = d1
  d2 = d2
  h1 = h1
  h2 = h2
  Handles <- MCHandles
  Glyphs <- MCGlyphs
  Blank = "blank"
  Cursors <- MCCursors
  TopRows <- MCTopRows
  DevRows <- MCRows
  DevCaps <- MCCaps

  Devs = {d1}
  InitialDevs = {d1}
  LateDevs = {}
  DevCols <- MCCols
  Rects <- MCWideRects
  AllocFailures = FALSE
INVARIANT MemorySafe
SPECIFICATION Spec
