SPECIFICATION FairSpec
CONSTANTS
  Readers = {"shell"}
  Shifts = {"left"}
  PS2_BUFFER_SIZE = 3
  FIFO = 2
  BURST = 2
  COMMANDS = 2
  SERIALS = 3
INVARIANTS
  MouseAligned
  KeysFaithful
PROPERTY KeyDelivered
