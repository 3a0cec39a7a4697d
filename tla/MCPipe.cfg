CONSTANTS
  Readers = {r1, r2, r3}
  Watchers = {w1, w2}
  MaxWrites = 4
SPECIFICATION Spec
SYMMETRY ReaderSymmetry
INVARIANTS
  NothingLeftBehind
  NoReaderStranded
  NoWatcherStranded
