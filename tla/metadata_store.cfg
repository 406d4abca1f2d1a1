SPECIFICATION FairSpec
CONSTANTS
  BlockSize = 2
  Sizes <- SmallSizes
  MaxBytes = 8
INVARIANTS
  TypeOK
  ReadsBack
  NeverFails
PROPERTIES
  StoreSpec
  LoopsEnd
CHECK_DEADLOCK FALSE
