\* One follower and two builds beside three appends and any deletions.
SPECIFICATION ReadersSpec
CONSTANTS
  Namespaces = {"default", "acme"}
  MaxId = 3
  Follower = {f1}
  Last = 1
  Builder = {b1, b2}
  Absent = Absent
  Empty = Empty
INVARIANTS
  PrintedOnce
  PacketHolds
PROPERTIES
  PacketStays
  
CHECK_DEADLOCK FALSE
