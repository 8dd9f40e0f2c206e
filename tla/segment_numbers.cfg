SPECIFICATION RecSpec
CONSTANTS MaxBytes = 3
          CheckEvery = 2
          MaxSessions = 1
          MaxStamps = 2
          MaxIndex = 2
          MaxJobs = 1
          MaxUntold = 0
INVARIANT SegmentsNumberedOnce
