SPECIFICATION ChatSpec
CONSTANTS
  Requests = {r1, r2}
  UsesTools = {r1}
  Chats = {c1, c2}
  Assignments <- AnyChat
  NoSession = NoSession
INVARIANTS FreshSessionsStayOpen
\* in a run of its own: ExtraSessionsAreCleanedUp
CHECK_DEADLOCK FALSE
