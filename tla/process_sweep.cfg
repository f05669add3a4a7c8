SPECIFICATION Spec
CONSTANTS
  Word = 127
  Kilo = 2
  MaxDigits = 4
  p1 = p1
  p2 = p2
  w1 = w1
  w2 = w2
  None = None
  Procs = {p1, p2}
  Runs <- MCRuns
  Pressed = {p1}
  Signals = {"INT", "TERM"}
  Workers = {w1, w2}
  Faults = {"config", "disk", "remote", "telegram", "session", "stray", "takeout", "hang", "kill"}
  Dialogs <- MCDialogs
  NameChars <- MCNameChars
  MaxName = 5
  MaxId = 21
INVARIANT SweptAreStale
