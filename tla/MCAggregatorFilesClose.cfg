\* Others run between the two loads of a closing transaction.
SPECIFICATION Spec
CONSTANTS
  MaxStep = 2
  Readers = {r1}
  MaxFaults = 0
  Preempts = TRUE
INVARIANT HeldFilesStay
