\* Two accounts on one host, one of them stored with --insecure-storage.
SPECIFICATION Spec
CONSTANTS
  Host = {1}
  User = {1, 2}
  Accounts <- TwoAccounts
  Proc = {p1}
  Commands = {"run", "login", "logout", "switch"}
  Choices = {"none", "insecure"}
  EnvTokens = {FALSE}
  Faults = {}
INVARIANTS
  SearchComplete
