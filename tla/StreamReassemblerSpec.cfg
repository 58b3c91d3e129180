\* A stream of 9 bytes through a window of 6: excerpts fall before, across and
\* beyond the window, and holes of every shape arise inside it.  int holds every
\* index of the stream.
CONSTANTS
  Round = 8
  Word = 64
  IntRange = 64
  Capacity = 6
  StreamLen = 9
  MaxExcerpt = 4
SPECIFICATION Spec
INVARIANTS TreeOK EndedIffComplete WithinCapacity
PROPERTIES Implements Delivered
CHECK_DEADLOCK FALSE
