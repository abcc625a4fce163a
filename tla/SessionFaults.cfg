\* Two invocations at a time, everything may fail.
SPECIFICATION FairSpec
CONSTANTS
  Proc = {p1, p2}
  MaxGen = 2
  Commands = {"run", "status", "login", "logout"}
  Choices = {"none"}
  EnvTokens = {FALSE}
  Preference = "keyring"
  Invalidate = TRUE
  Faults = {"keyring", "late", "save", "answer", "crash"}
INVARIANTS
  NewTokenRecordedBeforeUse
PROPERTIES
  EveryRunFinishes
  ImplementsCustody
