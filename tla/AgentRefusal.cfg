SPECIFICATION FairChatSpec
CONSTANTS
  Requests = {r1, r2}
  UsesTools = {r1}
  Chats = {c1}
  Assignments <- AnyChat
  NoSession = NoSession
PROPERTIES RefusalIsReported
CHECK_DEADLOCK FALSE
