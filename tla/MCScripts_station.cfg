SPECIFICATION Spec
CONSTANTS
  None = None
  staging = staging
  production = production
  TOKEN = TOKEN
  SSH = SSH
  DSN = DSN
  LEVEL = LEVEL
  PORT = PORT
  Targets = {staging, production}
  Deploy = staging
  Keys = {TOKEN, SSH, DSN}
  Rules <- SecretRules
  Names = {LEVEL, PORT, DSN}
  Platform = {PORT}
  Filtered = {SSH}
  Environments = {staging}
  Providers = {"proton", "yaml", "auto"}
  Syncs = {y1}
  Loads <- StationLoads
  Ssh = SSH
  Script <- ScriptOf
  MaxPair = 4
INVARIANTS SyncIsWhole  PublishedIsVaults
PROPERTY ChangesAreServed
CHECK_DEADLOCK FALSE
