SPECIFICATION RecSpec
CONSTANTS MaxBytes = 1
          CheckEvery = 2
          MaxSessions = 2
          MaxStamps = 2
          MaxIndex = 2
          MaxJobs = 2
          MaxUntold = 1
INVARIANTS LiveFileKept Accounted 
