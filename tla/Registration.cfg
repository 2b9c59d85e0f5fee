CONSTANTS
  NoTag = NoTag
  NoHost = NoHost
  None = None
  PlatformHost = host
  DeviceHost = host
  Right = Right
  Wrong = Wrong
  d1 = d1
  d2 = d2
  c1 = c1
  k1 = k1
  Dev = {d1, d2}
  Channel = {c1}
  Call = {k1}
  Owner <- MCOwner
  Passwords <- MCPasswords
  Secret = Right
  OnError = {d1}
  MaxTx = 2
  MaxFaults = 2
  MaxMessages = 1
  MaxEvents = 2
SPECIFICATION FairSpec
CONSTRAINT Bounded
INVARIANTS
  TypeOK
  RegistrationAgrees
  RegisteredHasAddress
  StreamAtOwner
PROPERTIES
  Registers
CHECK_DEADLOCK FALSE
