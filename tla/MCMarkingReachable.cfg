CONSTANTS
  Threads = {t1}
  a = a
  b = b
  Objects <- AllObjects
  Class = class
  Null = null
  s1 = s1
  s2 = s2
  Slots <- TwoSlots
  Frames <- OneFrame
  SegSize = 1
  NoAttr = no_attr
  NoSegment = no_segment
  Wild = wild
SPECIFICATION Spec
INVARIANT
  RestOfHeapScanned
CHECK_DEADLOCK FALSE
