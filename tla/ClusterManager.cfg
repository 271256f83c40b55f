SPECIFICATION Spec
CONSTANTS
  Peers = {"a", "b"}
  Faulty = {"b"}
  Relays = {"r"}
  Interval = 1
  Timeout = 7
  RpcTimeout = 2
  Slack = 1
  GivenStatuses = {"online"}
  GivenAges = {0, 1}
  MaxChanges = 2
INVARIANTS AnsweringPeersStay
PROPERTIES SilentPeersGoOffline
CHECK_DEADLOCK FALSE
