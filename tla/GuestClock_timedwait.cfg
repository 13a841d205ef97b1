SPECIFICATION Spec
CONSTANTS
  MaxHost = 8
  Threads = {t1}
  Durations = {5}
PROPERTY
  TimedWaitUsesGuestTime
