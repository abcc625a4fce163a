\* One invocation at a time, every command, nothing fails, nothing survives an exit.
SPECIFICATION Spec
CONSTANTS
  Proc = {p1}
  MaxGen = 5
  Commands = {"run", "git", "status", "login", "logout", "switch"}
  Choices = {"none", "insecure", "file", "keyring", "env"}
  EnvTokens = {TRUE, FALSE}
  Preference = "keyring"
  Invalidate = TRUE
  Faults = {}
INVARIANTS
  SessionRenewable
  NoneMeansNowhere
PROPERTIES
  LogoutLeavesNothing
