SPECIFICATION OpsSpec
CONSTANTS
  w1 = w1
  w2 = w2
  Writers = {w1, w2}
  Readers = {r1}
  Users = {u1, u2}
  IntoDir = {u1}
  Garbage = garbage
  Old = old
  NoFile = nofile
  Size <- MCSize
  StringMax = 2
  MayFail = {"mkstemp", "write", "short", "close", "rename"}
INVARIANTS TypeOK ReadsWhole CopyFaithful LocksExclude
PROPERTY ReplacesAtomically
CHECK_DEADLOCK FALSE
