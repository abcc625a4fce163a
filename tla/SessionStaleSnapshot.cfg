\* Expected violation: a snapshot loaded before a renewal and saved after it.
SPECIFICATION Spec
CONSTANTS
  Proc = {p1, p2}
  MaxGen = 2
  Commands = {"run", "login", "switch"}
  Choices = {"none"}
  EnvTokens = {FALSE}
  Preference = "file"
  Invalidate = TRUE
  Faults = {}
INVARIANT
  SessionRenewable
