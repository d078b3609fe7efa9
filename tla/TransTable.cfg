CONSTANTS
  Jobs = {j1, j2}
  Keys = {0, 1, 2}
  Sizes = {2, 4}
  Payloads = {a}
  Depths = {0, 20}
  EpochMod = 256
  EpochSteps = {1, 19}
  NoData = NoData
  NoOp = NoOp
  MaxStores = 2
  MaxEpochs = 1
SYMMETRY JobSymmetry
SPECIFICATION Spec
INVARIANTS
  LoadIsTruthful
  OldEntriesYield
PROPERTIES
  GrowKeepsEntries
  ShrinkKeepsHeaviest
