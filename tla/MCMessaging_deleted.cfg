SPECIFICATION Spec
CONSTANTS
  Users = {u1, u2}
  Events = {e1}
  Messages = {m1}
  Todos = {d1}
  Channels = {"email", "todo"}
  Critical = {e1}
  Processes = {p1, p2}
  Load <- DeleteLoad
  MaxEpisode = 2
  Kinds = {"group"}
  Moderators = {u1}
  Options = {o1, o2}
  MaxFiles = 0
  Operations = {"send", "edit", "delete", "glass"}
  NoUser = NoUser
  NoTarget = NoTarget
  NoRow = NoRow
SYMMETRY Symmetry
INVARIANT DeletedIsUnreadable
CHECK_DEADLOCK FALSE
