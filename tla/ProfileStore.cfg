SPECIFICATION Spec
CONSTANTS
  dev = dev
  t1 = t1
  t2 = t2
  en = en
  de = de
  u1 = u1
  u2 = u2
  blank = blank
  Blank = blank
  None = None
  Main = Main
  Async = Async
  cli = cli
  Names = {dev}
  Targets = {t1, t2}
  Languages = {en, de}
  Users = {u1, u2, blank}
  Clis = {cli}
  Forms <- MCForms
  MaxCommands = 4
  MaxFaults = 2
INVARIANTS
  PlaintextByConsent
  CredentialsBelong
PROPERTIES
  PasswordsStayReachable
CHECK_DEADLOCK FALSE
