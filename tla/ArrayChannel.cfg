CONSTANTS
  Sender = {s1, s2}
  Receiver = {r1, r2}
  Starts <- MCStarts
  Cap = 2
  MaxSends = 3
SPECIFICATION Spec
SYMMETRY Symmetry
INVARIANTS FIFO DisconnectedMeansDrained RegisteredOnce NobodyStuck FreedLast
