\* Two invocations at a time, a keyring that works, hosts.toml saves that may fail.
SPECIFICATION Spec
CONSTANTS
  Proc = {p1, p2}
  MaxGen = 3
  Commands = {"run", "git", "login", "switch"}
  Choices = {"none"}
  EnvTokens = {FALSE}
  Preference = "keyring"
  Invalidate = TRUE
  Faults = {"save"}
INVARIANTS
  SessionRenewable
  FileOnlyIfChosen
