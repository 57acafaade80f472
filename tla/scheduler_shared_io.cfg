\* Two threads call accept on one listener.
SPECIFICATION Spec
CONSTANTS
  v1 = v1
  v2 = v2
  v3 = v3
  readable = readable
  VThreads = {v1, v2}
  Workers = {w1}
  NoVThread = none
  Channels = {readable}
  NoChannel = none
  Uses <- MCUsesTwo
  Joins = {}
  Sleepers = {}
  Parkers = {}
  Period = 2
  MaxBatch = 1
  MaxSleep = 1
  MaxNow = 0
PROPERTIES ParkedUntilReady
CHECK_DEADLOCK FALSE
