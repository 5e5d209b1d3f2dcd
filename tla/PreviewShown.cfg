SPECIFICATION Spec
CONSTANTS
  a1 = a1
  a2 = a2
  k1 = k1
  f1 = f1
  w1 = w1
  w2 = w2
  None = None
  Action = {a1, a2}
  Key = {k1}
  World = {w1, w2}
  Files = {f1}
  KeyOf <- OneKey
  FilesOf <- OneFile
  Compared = {k1}
  MaxChanges = 1
  MaxFaults = 0
INVARIANTS
  WritesWhatWasShown
\* The actions are all settled in the end; nothing is asked for again.
CHECK_DEADLOCK FALSE
