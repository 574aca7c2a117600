SPECIFICATION AiSettingsSpec
CONSTANTS
  Providers = {p, q}
  NoProvider = NoProvider
  Admins = {o}
  Callers = {k}
  MaxWrites = 1
INVARIANTS NoMixedCall
CHECK_DEADLOCK FALSE
