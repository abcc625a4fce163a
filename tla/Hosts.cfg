\* Two commands at a time on two hosts, any of them killed or failing to save
\* anywhere.  Two processes save at a time, beside the file and one that it
\* replaced, which the disk or a reader still holds.
SPECIFICATION HostsFileSpec
CONSTANTS
  Host = {1, 2}
  User = {1, 2}
  Accounts <- ThreeAccounts
  Proc = {p1, p2}
  Commands = {"run", "login", "logout", "switch"}
  Choices = {"none"}
  EnvTokens = {FALSE}
  Faults = {"save", "crash"}
  Writer = {w1, w2}
  Pid = {id1, id2}
  Inode = {i1, i2, i3, i4}
  Nothing = Nothing
  Doc = {d1, d2}
  Absent = Absent
SYMMETRY Alike
INVARIANTS
  DiskIntegral
  AlwaysResolvable
  NoTornRead
  NeverExposed
PROPERTIES
  LoginTakesEffect
  OthersUntouched
  ImplementsAtomicFile
