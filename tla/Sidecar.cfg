\* Two bootstraps, of either account, and an `ob` that dies or wedges once.
SPECIFICATION Spec
CONSTANTS
  a = a
  b = b
  None = None
  Accounts = {a, b}
  StaleAfter = 3
  Retries = 2
  MaxBootstraps = 2
  MaxFailures = 1
PROPERTIES EventuallySyncs StallIsNoticed
CHECK_DEADLOCK FALSE
