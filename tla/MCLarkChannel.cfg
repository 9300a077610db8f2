SPECIFICATION FairSpec
CONSTANTS
  e1 = e1
  e2 = e2
  e3 = e3
  e4 = e4
  e5 = e5
  e6 = e6
  e7 = e7
  c1 = c1
  c2 = c2
  u1 = u1
  u2 = u2
  m1 = m1
  m2 = m2
  m3 = m3
  m4 = m4
  m5 = m5
  m6 = m6
  NoMsg = NoMsg
  Events <- MCEvents
  Chats <- MCChats
  Users <- MCUsers
  Msgs <- MCMsgs
  Event <- Lane
  DMs = {c2}
  AllowedUsers = {}
  GroupPolicy = "open"
  ChatLockMax = 1
CONSTRAINT FourDeliveries
INVARIANTS
  OneInChat
  RequestOrder
  HandledOnce
  ReplyStaysInSession
PROPERTIES
  EveryEventEnds
