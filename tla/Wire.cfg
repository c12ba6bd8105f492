SPECIFICATION Spec
CONSTANTS
  Links <- MCLinks
  LinkAt <- MCLinkAt
  Cuts = {1, 5}
  MaxSent = 2
INVARIANT
  EverythingRead
PROPERTY
  Delivery
CHECK_DEADLOCK FALSE
