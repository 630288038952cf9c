SPECIFICATION Spec
CONSTANTS
  Vpage = {a, b, c, d}
  Frame = {f1, f2, f3}
  Value = {x, y}
  Unknown = Unknown
  Nothing = Nothing
  SetsVaddr = FALSE
INVARIANT VictimPresent
