CONSTANTS
  Chats = {c1}
  Users = {u1}
  Conns = {k1}
  MaxTurn = 3
  MaxConcurrent = 1
  MaxPerUser = 1
  Faults = {"crash", "slow"}
  NoTurn = NoTurn
  NoChat = NoChat
  NoUser = NoUser
SPECIFICATION FairSpec
 
PROPERTY TurnEnds
