CONSTANTS
  h = h
  j = j
  x = x
  y = y
  z = z
  Clients = {h, j}
  Joiners = {j}
  IPV6 = {j}
  Codes = {x}
  HostIds = {x, y, z}
  FirstIds <- MCFirstIds
  NUMBER_OF_TRIES = 2
  MaxEvents = 3
  None = None
SPECIFICATION Spec
INVARIANTS ReadyMeansTried AnswersTheRequest
PROPERTIES HelloSettles AnswerArrives
CHECK_DEADLOCK FALSE
