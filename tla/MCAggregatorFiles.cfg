SPECIFICATION Spec
CONSTANTS
  MaxStep = 3
  Readers = {r1}
  MaxFaults = 1
  Preempts = FALSE
CONSTRAINT ReadersOpenBeforeFaults
INVARIANTS HeldFilesStay CrashSafe  NoLeak
PROPERTIES SeesAll
