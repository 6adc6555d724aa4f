CONSTANTS
  a = a
  b = b
  v1 = v1
  v2 = v2
  Files = {a, b}
  Versions = {v1, v2}
  Absent = Absent
  Broken = Broken
  Refers <- CrossReferences
  Backends = {hashing, openrouter}
  NoVector = NoVector
INIT Init
NEXT Next
INVARIANTS TypeOK OwnedByFile NoStaleEdges FullPassReflectsTree IncrementalReflectsTree
