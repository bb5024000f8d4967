SPECIFICATION Spec
CONSTANTS
  Items = {i1, i2, i3, i4}
  Readers = {r1}
  EveryStatus = EveryStatus
  Filters = {EveryStatus, "FAILED"}
  Asked = {1, 3}
  max_page_size = 2
  MaxChanges = 2
SYMMETRY InterchangeableItems
INVARIANTS
  TypeOK
  LostIsExplained
  TwiceIsExplained
