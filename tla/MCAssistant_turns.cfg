CONSTANTS
  Chats = {c1, c2}
  Users = {u1}
  Conns = {k1, k2}
  MaxTurn = 2
  MaxConcurrent = 2
  MaxPerUser = 1
  Faults = {"crash", "slow"}
  NoTurn = NoTurn
  NoChat = NoChat
  NoUser = NoUser
SPECIFICATION Spec
SYMMETRY Symmetry
INVARIANT TypeOK
INVARIANT OneGenerating
INVARIANT SequenceUnique
PROPERTY TerminalIsFinal
