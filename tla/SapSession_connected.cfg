SPECIFICATION Spec
CONSTANTS
  a = a
  u1 = u1
  u2 = u2
  NoUrl = NoUrl
  ServiceNames = {a}
  Urls = {u1, u2}
  Name = a
  MaxHops = 2
  MaxTrace = 2
  IdRange = 3
  MaxChanges = 1
  MaxCommands = 1
  RegisteredSets <- MCRegisteredSets
  Catalogs <- MCCatalogs
INVARIANTS
  ConnectedMeansLoggedOn
CHECK_DEADLOCK FALSE
