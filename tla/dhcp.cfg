\* Any order of packets, timers, cable and clicks; passes of up to a second.
SPECIFICATION FairSpec
CONSTANTS
  MaxTries = 6
  Patience = 2
  MaxRefusals = 1
  Toggles = TRUE
INVARIANTS TypeOK NoStaleLease FallbackStays GoneIsNotShown
PROPERTY AddressComes
