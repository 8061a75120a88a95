SPECIFICATION Spec
CONSTANTS
  Half = 8
  Key = Key
  NoKey = NoKey
  MaxMsgs = 10
  MaxRepeats = 2
  MaxFlight = 3
INVARIANTS KeysAgree PassedOnce RefusedOnlyAtWrap
CHECK_DEADLOCK FALSE
