CONSTANTS
  NoId = NoId
  Ask = ask
  Photo = photo
  Rule = rule
  Say = say
  Output = output
  Images = {photo}
  CallIds = {c1, c2}
  Pieces = {ask, photo, rule, say, output}
  MaxTurns = 4
  MaxTools = 2
  Turns <- AllTurns
  Requests <- AllRequests
SPECIFICATION Spec
INVARIANTS StopSequencesAccepted
CHECK_DEADLOCK FALSE
