SPECIFICATION Spec
CONSTANTS
  Cookies = {1, 2}
  MaxInFlight = 4
INVARIANTS NothingRefused StatesAgree NobodyStuck
CHECK_DEADLOCK FALSE
