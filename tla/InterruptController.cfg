SPECIFICATION Spec
CONSTANTS
  UINT8_MAX = 5
  Vec <- MCVec
  Priority = {0, 1, 2}
  Garbage = {0, 4}
INVARIANTS TypeOK TableMatchesHeap CheckHeap PeekIsTop HeapButOne
PROPERTY QueueSpec
