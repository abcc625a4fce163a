CONSTANTS
  linux_fjo = linux_fjo
  mac_fjo = mac_fjo
  notes_md = notes_md
  File <- MCFile
  Name = {"fjo", "notes.md"}
  BaseName <- MCBaseName
  AssetId = {i1, i2, i3}
  Gone = Gone
  Strays = 1
SPECIFICATION ReleasesSpec
INVARIANT NoTwins
CHECK_DEADLOCK FALSE
