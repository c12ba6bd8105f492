SPECIFICATION Spec
CONSTANTS
  Links <- MonitorLinks
  LinkAt <- MCLinkAt
  Cuts = {1, 5}
  MaxSent = 2
PROPERTY
  Delivery
CHECK_DEADLOCK FALSE
