SPECIFICATION Spec
CONSTANTS
  c1 = c1
  c2 = c2
  h1 = h1
  h2 = h2
  Callers <- MCCallers
  Chats <- MCChats
  NoChat = NoChat
  GlobalGap = 1
  ChatGap = 3
  RepeatGap = 2
  KeyTtl = 4
  PauseExtra = 1
  Pauses = {2, 3}
  MinNap = 1
  MaxNap = 1
  Patience = 2
  MaxTime = 4
SYMMETRY Symmetry
INVARIANTS
  KeysRemember
PROPERTIES
  GrantsAreSpaced
  PausesAreKept
