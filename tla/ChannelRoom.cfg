CONSTANTS
  sender = sender
  receiver = receiver
  Values = {v1}
  Null = Null
  SIZE = 4
  Word = 8
SPECIFICATION Spec
INVARIANTS
  AvailableIsRoom
