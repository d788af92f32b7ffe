\* Two applications, two website messages, a task that is started and stopped.
CONSTANTS
  a = a
  b = b
  shop = shop
  ask = ask
  stop = stop
  NoKey = NoKey
  Apps = {a, b}
  Chats = {shop, stop}
  Kind <- KindMC
  MaxTurns = 2
  Attempts = 1
  MaxFeed = 2
  MaxFaults = 2
SPECIFICATION FairSpec
INVARIANTS
  OrdersTold
  AnsweredInOrder
  UploadedOnce
PROPERTIES
  WebsiteAnswered
