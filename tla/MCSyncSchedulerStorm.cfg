\* Long poll, stopped and started again.
CONSTANTS
  LongPoll = TRUE
  MaxStarts = 2
  MaxManual = 0
  MaxEvents = 0
  MaxFaults = 1
SPECIFICATION Spec
INVARIANT NoPullStorm
