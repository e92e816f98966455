SPECIFICATION ColdSpec
CONSTANTS
  K = 3
  MaxSymbols = 5
  MaxFrames = 2
  None = None
  Taken = Taken
  BlockId = {a, b}
  s1 = s1  s2 = s2
  Session = {s1, s2}
  MaxTurn = 2
  MaxIds <- MCMaxIds
  MaxRestarts = 1
CHECK_DEADLOCK FALSE
INVARIANTS
  FirstDecodeExact
  RegistryLogs
  GatewayFollows
PROPERTIES
  TurnsSettle
