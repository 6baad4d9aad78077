CONSTANTS
  Peer = {p1, p2, p3}
  NumSlots = 2
  Expire = 2
  Period = 2
  TickMod = 7
  MaxStall = 1
  MaxTicks = 9
  QueueLen = 2
  Producer = {t1, t2}
  MaxEvents = 4
  EventTicks = 2
  NoPeer = NoPeer
SPECIFICATION MCSpec
INVARIANTS SentToLiving CountersLead EventsAccounted
PROPERTIES SubscriberKept EventsServed
