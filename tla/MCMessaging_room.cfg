SPECIFICATION Spec
CONSTANTS
  Users = {u1, u2}
  Events = {e1}
  Messages = {m1}
  Todos = {d1}
  Channels = {"email", "todo"}
  Critical = {e1}
  Processes = {p1, p2}
  Load <- RoomLoad
  MaxEpisode = 2
  Kinds = {"direct", "group"}
  Moderators = {u1}
  Options = {o1, o2}
  MaxFiles = 2
  Operations = {"send", "edit", "delete", "glass", "vote", "close", "preferences", "archive", "read", "open", "reconcile"}
  NoUser = NoUser
  NoTarget = NoTarget
  NoRow = NoRow
SYMMETRY Symmetry
INVARIANTS StatusAgrees BlobsMatch AnnouncedToMembers
CHECK_DEADLOCK FALSE
