\* The default configuration, long poll, started and stopped once; one syncOnce
\* besides the loops.
CONSTANTS
  LongPoll = TRUE
  MaxStarts = 1
  MaxManual = 1
  MaxEvents = 2
  MaxFaults = 3
SPECIFICATION FairSpec
INVARIANT TypeOK
PROPERTIES BackoffGates WaitingPushResumes EventsPushed
