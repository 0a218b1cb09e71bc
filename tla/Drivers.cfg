SPECIFICATION FairSpec
CONSTANTS
  Procs = {p1, p2}
  Wrappers <- MCWrappers
  DriverNames = {"redis", "nsq", "rocketmq", "mqtt", "rabbitmq"}
  FileModes <- MCFileModes
  Sections <- MCSections
  MaxCalls = 2
  MaxClients = 2
CHECK_DEADLOCK FALSE
INVARIANT NothingIsLost
 
INVARIANT OwnMode
INVARIANT DeclaredIsInPlace
INVARIANT DeadLettersKept
 
PROPERTY ShutdownReturns
