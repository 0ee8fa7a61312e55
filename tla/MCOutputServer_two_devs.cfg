CONSTANTS
  d1 = d1
  d2 = d2
  h1 = h1
  h2 = h2
  Handles <- MCHandles
  Glyphs <- MCGlyphs
  Blank = "blank"
  Cursors <- MCCursors
  TopRows <- MCTopRows
  DevRows <- MCRows
  DevCaps <- MCCaps

  Devs = {d1, d2}
  InitialDevs = {d1, d2}
  LateDevs = {}
  DevCols <- MCCols
  Rects <- MCRects
  AllocFailures = FALSE
INVARIANT CleanCellsShown
SPECIFICATION Spec
