CONSTANTS
  e1 = e1
  e2 = e2
  e3 = e3
  p1 = p1
  p2 = p2
  NoEvent = NoEvent
  Events = {e1, e2}
  Described = {}
  Runners = {p1, p2}
  BatchSize = 2
  MaxRetries <- MCMaxRetries
SPECIFICATION FairSpec
PROPERTY EventuallyHandled
