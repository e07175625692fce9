SPECIFICATION Spec
CONSTANTS
  w1 = w1
  w2 = w2
  w3 = w3
  Absent = Absent
  Workers <- WorkersThree
  MaxStops = 3
  MaxRemovals = 1
INVARIANTS
  VersionBacked
  SeededWhole
  SeededOnce
  OneSeeder
PROPERTIES
  WorkersComeUp
