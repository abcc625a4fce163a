------------------------------ MODULE Releases ------------------------------
(***************************************************************************)
(* `fjo release create, upload, delete, delete-asset and download` on one  *)
(* tag: one request at a time, each of which may fail before or after the  *)
(* server did what it asks, and the next command that meets what a failed  *)
(* one left behind.  An upload that was given up on may reach the server   *)
(* at any time later; the other requests are carried out at once or never. *)
(*                                                                         *)
(* A file is an argument, a path.  Its asset is called by its base name,   *)
(* so two files may want one name.  A command that fails up to its first   *)
(* request (a path that cannot be read, no such release or a second one)   *)
(* has done nothing and is no step.                                        *)
(***************************************************************************)
EXTENDS FiniteSets, Naturals

CONSTANTS
  File, Name, BaseName,
  AssetId,  \* of an upload of a file and of the asset that it makes
  Gone,
  Strays    \* bound: uploads given up on that may yet be carried out

ASSUME ReleasesAssumption ==
  BaseName \in [File -> Name] /\ Strays \in Nat /\ Gone \notin Name \union AssetId

VARIABLES
  released,  \* is there a release of the tag
  assets,    \* what is attached to it
  strays,    \* the uploads that may yet be carried out
  folder,    \* the assets downloaded, in whole or in part
  rel,       \* the running command
  doubtful   \* history: the names a command gave to two files, or a stray took

releaseVars == <<released, assets, strays, folder, rel, doubtful>>
serverVars == <<released, assets, strays, doubtful>>

Asset == [id : AssetId, name : Name]
ReleaseCommand ==
  [op : {"create", "upload", "download", "none"},
   files : SUBSET File, rename : Name \union {Gone}, names : SUBSET Name,
   clobber : BOOLEAN, skip : BOOLEAN,
   listing : SUBSET Asset, todo : SUBSET File, wanted : SUBSET Asset,
   now : File \union Asset \union {Gone},
   sent : [File -> AssetId \union {Gone}],
   step : {"next", "send", "write", "report", "idle"}]
NoRelease ==
  [op |-> "none", files |-> {}, rename |-> Gone, names |-> {}, clobber |-> FALSE, skip |-> FALSE,
   listing |-> {}, todo |-> {}, wanted |-> {}, now |-> Gone, sent |-> [f \in File |-> Gone],
   step |-> "idle"]

ReleasesTypeOK ==
  /\ released \in BOOLEAN
  /\ assets \subseteq Asset
  /\ strays \subseteq Asset
  /\ folder \in [Name -> {"absent", "part", "whole"}]
  /\ rel \in ReleaseCommand
  /\ doubtful \subseteq Name

ReleasesInit ==
  /\ released = FALSE /\ assets = {} /\ strays = {}
  /\ folder = [n \in Name |-> "absent"]
  /\ rel = NoRelease /\ doubtful = {}

-----------------------------------------------------------------------------
Named(n, set) == {a \in set : a.name = n}
Running(op, step) == rel.op \in op /\ rel.step = step
Uploading == {"create", "upload"}

AssetName(f) == IF rel.rename = Gone THEN BaseName[f] ELSE rel.rename

(* Nothing compares the names of a command's files with each other. *)
Alike(f) == \E g \in rel.files \ {f} : AssetName(g) = AssetName(f)

\* Mutant: what fails is passed over.
PassedOver ==
  IF rel.todo = {} THEN NoRelease
  ELSE [rel EXCEPT !.todo = @ \ {CHOOSE f \in @ : TRUE}, !.step = "next"]

(* The first error is returned; no further file is begun.                  *)
AfterFailure == NoRelease

Fails == rel' = AfterFailure
Ended == rel' = NoRelease

(* A refusal, a lost request, an interrupt: what was done so far stays.    *)
Abandon == rel.step \in {"next", "send", "write"} /\ Fails /\ UNCHANGED <<serverVars, folder>>

(* The server did what was asked, and the answer was lost.                 *)
Proceeds(next) == rel' = next \/ Fails

(* The server makes one release of a tag. *)
Create(files) ==
  /\ rel = NoRelease /\ ~released
  /\ released' = TRUE
  /\ \/ rel' = [NoRelease EXCEPT !.op = "create", !.files = files, !.todo = files, !.step = "next"]
     \/ Ended
  /\ UNCHANGED <<assets, strays, doubtful, folder>>

\* Mutant: upload gives upload_one no assets to look at.
ListedNone(set) == {}

(* What upload_one is told of the release. *)
Listed(set) == set

(* release_by_tag is the first request of the others. *)
Upload(files, rename, clobber) ==
  /\ rel = NoRelease /\ released
  /\ files # {} /\ (rename # Gone => \A f, g \in files : f = g /\ BaseName[f] # rename)
  /\ rel' = [NoRelease EXCEPT !.op = "upload", !.files = files, !.todo = files, !.rename = rename,
                              !.clobber = clobber, !.listing = Listed(assets), !.step = "next"]
  /\ UNCHANGED <<serverVars, folder>>

(* The names are those the patterns match; with no asset it ends at once.  *)
Download(names, clobber, skip) ==
  /\ rel = NoRelease /\ released /\ ~(clobber /\ skip)
  /\ names # {} /\ \A n \in names : Named(n, assets) # {}
  /\ rel' = [NoRelease EXCEPT !.op = "download", !.names = names, !.clobber = clobber,
                              !.skip = skip, !.wanted = {a \in assets : a.name \in names},
                              !.step = "next"]
  /\ UNCHANGED <<serverVars, folder>>

(* delete-asset and delete, the user having agreed. *)
DeleteAsset(n) ==
  /\ rel = NoRelease
  /\ \E a \in Named(n, assets) : assets' = assets \ {a}
  /\ UNCHANGED <<released, strays, doubtful, folder, rel>>

(* What comes for a release that is gone finds none. *)
Delete ==
  /\ rel = NoRelease /\ released
  /\ released' = FALSE /\ assets' = {} /\ strays' = {} /\ doubtful' = {}
  /\ UNCHANGED <<folder, rel>>

(* upload_one: under --clobber an old asset goes first. *)
DeleteOld(f) ==
  /\ Running({"upload"}, "next") /\ f \in rel.todo /\ rel.clobber
  /\ \E old \in Named(AssetName(f), rel.listing) : old \in assets /\ assets' = assets \ {old}
  /\ Proceeds([rel EXCEPT !.now = f, !.step = "send"])
  /\ UNCHANGED <<released, strays, doubtful, folder>>

(* Without --clobber a name that is listed is refused. *)
MaySend(f) ==
  /\ \/ Running(Uploading, "next") /\ f \in rel.todo /\ Named(AssetName(f), rel.listing) = {}
     \/ Running(Uploading, "send") /\ rel.now = f
  /\ released

(* What the command has yet to look up in the listing. *)
Pending == {a \in rel.listing : \E g \in rel.todo : AssetName(g) = a.name}

(* An id comes again, if it does, when nothing refers to it any more. *)
NewIds == {id \in AssetId : \A a \in assets \union strays \union Pending : a.id # id}
NewAsset(f) == [id |-> CHOOSE id \in NewIds : TRUE, name |-> AssetName(f)]

Send(f) ==
  /\ MaySend(f) /\ NewIds # {}
  /\ assets' = assets \union {NewAsset(f)}
  /\ doubtful' = IF Alike(f) THEN doubtful \union {AssetName(f)} ELSE doubtful
  /\ Proceeds([rel EXCEPT !.todo = @ \ {f}, !.sent[f] = NewAsset(f).id, !.now = Gone, !.step = "next"])
  /\ UNCHANGED <<released, strays, folder>>

(* The upload is given up on and on its way all the same. *)
Stray(f) ==
  /\ MaySend(f) /\ NewIds # {} /\ Cardinality(strays) < Strays
  /\ strays' = strays \union {NewAsset(f)}
  /\ Fails
  /\ UNCHANGED <<released, assets, doubtful, folder>>

Land ==
  /\ \E stray \in strays :
       /\ strays' = strays \ {stray} /\ assets' = assets \union {stray}
       /\ doubtful' = doubtful \union {stray.name}
  /\ UNCHANGED <<released, folder, rel>>

\* download: a file that exists is skipped, overwritten or an error
Skip(a) ==
  /\ Running({"download"}, "next") /\ a \in rel.wanted
  /\ rel.skip /\ folder[a.name] # "absent"
  /\ rel' = [rel EXCEPT !.wanted = @ \ {a}]
  /\ UNCHANGED <<serverVars, folder>>

(* The URL says the name; the file is emptied, and grows. *)
Open(a) ==
  /\ Running({"download"}, "next") /\ a \in rel.wanted
  /\ rel.clobber \/ folder[a.name] = "absent"
  /\ Named(a.name, assets) # {}
  /\ folder' = [folder EXCEPT ![a.name] = "part"]
  /\ rel' = [rel EXCEPT !.now = a, !.step = "write"]
  /\ UNCHANGED serverVars

WriteStream ==
  /\ rel.step = "write"
  /\ folder' = [folder EXCEPT ![rel.now.name] = "whole"]
  /\ rel' = [rel EXCEPT !.wanted = @ \ {rel.now}, !.now = Gone, !.step = "next"]
  /\ UNCHANGED serverVars

AllDone ==
  /\ Running({"create", "upload", "download"}, "next") /\ rel.todo = {} /\ rel.wanted = {}
  /\ rel' = [rel EXCEPT !.step = "report"]
  /\ UNCHANGED <<serverVars, folder>>

Report == rel.step = "report" /\ Ended /\ UNCHANGED <<serverVars, folder>>

ReleasesNext ==
  \/ \E files \in SUBSET File :
       \/ Create(files)
       \/ \E rename \in Name \union {Gone}, clobber \in BOOLEAN : Upload(files, rename, clobber)
  \/ \E names \in SUBSET Name, clobber, skip \in BOOLEAN : Download(names, clobber, skip)
  \/ \E n \in Name : DeleteAsset(n)
  \/ \E f \in File : DeleteOld(f) \/ Send(f) \/ Stray(f)
  \/ \E a \in rel.wanted : Skip(a) \/ Open(a)
  \/ Delete \/ Land \/ WriteStream \/ AllDone \/ Report \/ Abandon

ReleasesSpec == ReleasesInit /\ [][ReleasesNext]_releaseVars

-----------------------------------------------------------------------------
(* release.rs 675-676: "Forgejo happily accepts two assets with the same   *)
(* name, and a release with two `fjo-x86_64.tar.gz` files is worse than a  *)
(* failed upload": no release has two assets of one name.  The code does   *)
(* not keep this: see OneAssetPerName for what it keeps.                   *)
NoTwins == \A a, b \in assets : a.name = b.name => a = b

(* release.rs 665-682: whatever fails and however often a command is run   *)
(* again, two assets of one name are there only where one command uploaded *)
(* two files of that name, or where an upload that was given up on reached *)
(* the server after all.                                                   *)
OneAssetPerName ==
  \A a, b \in assets : a.name = b.name /\ a.name \notin doubtful => a = b

(* release.rs 372-377, 425-428, 623-633, 770-860: a command that succeeds  *)
(* has every file attached under its name, as it uploaded it, a file whose *)
(* name another has included; or every asset that matched downloaded, in   *)
(* whole unless --skip-existing passed over what a failed run had left.    *)
OkMeansDone ==
  rel.step = "report" =>
    /\ \A f \in rel.files : \E a \in Named(AssetName(f), assets) : a.id = rel.sent[f]
    /\ \A n \in rel.names : folder[n] = "whole" \/ (rel.skip /\ folder[n] = "part")
=============================================================================
