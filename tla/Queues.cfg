CONSTANTS
  sender = p
  receiver = c
  Values = {v1, v2}
  Null = Null
  SIZE = 4
  Word = 8
  Users = {p, c, t}
  Producer = p
  Consumer = c
  QueueSize = 2
SPECIFICATION LiveSpec
INVARIANTS
  NoSlotShared
  AnswersSafe
PROPERTIES
  ElementsDelivered
  RoomUsed
  CallsReturn
  ChannelIsFifo
