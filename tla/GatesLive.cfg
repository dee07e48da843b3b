SPECIFICATION FairSpec
CONSTANTS
  c1 = c1
  c2 = c2
  c3 = c3
  plain = plain
  wrong = wrong
  Calls = {c1, c2}
  Contents = {plain, wrong}
  Bad = {wrong}
  Nobody = Nobody
  Fence = Fence
  Blank = Blank
  drafts = drafts
  delivery = delivery
  linked = linked
  Paths = {drafts, delivery, linked}
  DraftPath = drafts
  DeliveryPath = delivery
  FileAt <- MCFileAt
  MaxRollbacks = 1
CHECK_DEADLOCK FALSE
PROPERTIES
  EveryCallSettles
