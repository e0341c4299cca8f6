\* Blocks of two slots (one element each), a third block allocated under way: every
\* path between blocks, every wrap of a block.
SPECIFICATION Spec
CONSTANTS
  NULL = 0
  Vals = {1, 2}
  MAX_BLOCK_SIZE = 2
  MaxSizes = {1}
  MaxBlocks = 3
INVARIANTS
  TypeOK
  NoSlotRace
  SlotLifetimes
  BlockAssertions
  IndInv
PROPERTY
  FifoSpec
ACTION_CONSTRAINT
  EnqueueInOrder
