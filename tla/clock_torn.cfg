SPECIFICATION Spec
CONSTANTS
  SecPerMin = 11
  MinPerHour = 2
  HoursPerDay = 2
  Delay = 2
  HandlerSeconds = 1
  Noise = {255}
  Starts <- MCStarts
INVARIANT ErrorWithinASecond
