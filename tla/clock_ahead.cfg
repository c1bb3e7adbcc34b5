SPECIFICATION ApiSpec
CONSTANTS
  null = null
  m1 = m1  m2 = m2  w1 = w1  w2 = w2
  Message = {m1, m2}
  Worker = {w1, w2}
  MaxSkew = 1
  NonceTtl = 2
  Offset <- Offsets
  Lag = 1
  MaxClock = 4
SYMMETRY Symmetry
INVARIANT AcceptedOnce
CHECK_DEADLOCK FALSE
