\* Two branches and two changes; three files, two of them of one name, three
\* asset ids and one upload that lands late; a listener that waits three steps;
\* five items, three at a time;
\* two labels and an assignee; two drafts and two branches to write for.
SPECIFICATION FairPorcelainSpec
CONSTANTS
  Change = {c1, c2}
  Branch = {main, topic}
  linux_fjo = linux_fjo
  mac_fjo = mac_fjo
  notes_md = notes_md
  File <- MCFile
  Name = {"fjo", "notes.md"}
  BaseName <- MCBaseName
  AssetId = {i1, i2, i3}
  Gone = Gone
  Strays = 1
  Timeout = 3
  MaxReads = 2
  Backlog = 2
  Length = 5
  Width = 3
  Label = {l1, l2}
  Person = {p1}
  Prose = {a, b}
  Heads = {main, topic}
  RemoteNames <- MCNames
  Place <- MCPlace
  Known = {"code", "other"}
  Foreign = {"github"}
  Slugs = {"me/fork", "them/proj"}
  Active = "other"
  Upstream = "upstream"
  Origin = "forgejo"
  Given <- MCGiven
  ByHand <- MCByHand
INVARIANTS
  OneAssetPerName
  OkMeansDone
  ReplyHeard
  ReportsTheFirst
  RerunSafe
  SameServer
  OneServer
  ChoiceKept
  OptOutStops
  WiringResumes
PROPERTIES
  WorkKept
  WaitEnds
  OthersKept
\* A command ends.
CHECK_DEADLOCK FALSE
