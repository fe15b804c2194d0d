SPECIFICATION FairSpec
CONSTANTS
  WifiTimeout = 2
  MqttTimeout = 1
  BackoffInit = 1
  BackoffMax = 4
  Wrap = 8
  PollGap = 1
  MaxBlock = 2
  MaxFails = 4
INVARIANTS NoStateOverstays BackoffLaw
PROPERTIES NoTimeoutFiresEarly AttemptsSpaced KeepsTrying Settles
