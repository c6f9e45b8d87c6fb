SPECIFICATION Spec
CONSTANTS
  Ticks = {loop, request}
  SignalStart = 1
  SignalEnd = 6
  Cooldown = 2
  MarketClose = 6
  LastMinute = 7
SYMMETRY TickSymmetry
INVARIANT RampSound
INVARIANT BookSound
CHECK_DEADLOCK FALSE
