--------------------------- MODULE CommandsProofs ---------------------------
(***************************************************************************)
(* Proofs about FanOut, for every listing and every width, about Releases, *)
(* for every set of files, about Edits, for every set of labels and people *)
(* and about Drafts, for every set of texts and branches.                  *)
(***************************************************************************)
EXTENDS Porcelain, FiniteSetTheorems, TLAPS

(* The requests that were made are those whose result was taken and at     *)
(* most Width more, of which any may be answered.                          *)
Window == taken <= started /\ started <= taken + Width
TakenMeansOk == \A i \in Item : i <= taken => answer[i] = "ok"
Requested == \A i \in Item : answer[i] # "none" \/ i \in marked => i <= started
OkMeansMarked == \A i \in Item : answer[i] = "ok" => i \in marked
NextFails ==
  /\ outcome.end = "failed" => outcome.item = taken + 1 /\ outcome.item \in Item
                               /\ answer[outcome.item] = "failed"
  /\ outcome.end = "ok" => taken = Length

FanOutInv ==
  FanOutTypeOK /\ Window /\ TakenMeansOk /\ Requested /\ OkMeansMarked /\ NextFails

LEMMA FanOutStarts == FanOutInit => FanOutInv
  BY FanOutAssumption DEF FanOutInit, FanOutInv, FanOutTypeOK, Window, TakenMeansOk, Requested,
                          OkMeansMarked, NextFails, Item, Outstanding

LEMMA FanOutKeeps == FanOutInv /\ [FanOutNext]_fanVars => FanOutInv'
<1> SUFFICES ASSUME FanOutInv, [FanOutNext]_fanVars PROVE FanOutInv'
  OBVIOUS
<1> USE FanOutAssumption
    DEF FanOutInv, FanOutTypeOK, Window, TakenMeansOk, Requested, OkMeansMarked, NextFails, Item
<1>1. CASE Request
  BY <1>1 DEF Request, Room, Outstanding
<1>2. ASSUME NEW i \in Item, Mark(i) PROVE FanOutInv'
  BY <1>2 DEF Mark
<1>3. ASSUME NEW i \in Item, Answered(i) PROVE FanOutInv'
  BY <1>3 DEF Answered, Outstanding
<1>4. ASSUME NEW i \in Item, Refused(i) PROVE FanOutInv'
  BY <1>4 DEF Refused, Outstanding
<1>5. ASSUME NEW i \in Item, Take(i) PROVE FanOutInv'
  <2>1. CASE answer[i] = "ok"
    BY <1>5, <2>1 DEF Take, Turn, Outstanding
  <2>2. CASE answer[i] # "ok"
    BY <1>5, <2>2 DEF Take, Turn, Outstanding
  <2> QED
    BY <2>1, <2>2
<1>6. CASE Collected
  BY <1>6 DEF Collected, Outstanding
<1>7. CASE UNCHANGED fanVars
  BY <1>7 DEF fanVars
<1> QED
  BY <1>1, <1>2, <1>3, <1>4, <1>5, <1>6, <1>7 DEF FanOutNext, FanOutProgress, FanOutAnswers

LEMMA FanOutInvariance == FanOutSpec => []FanOutInv
  BY FanOutStarts, FanOutKeeps, PTL DEF FanOutSpec

(* Whatever the order of the answers, success means that every item is     *)
(* done, a failure is that of the first item that failed, and behind it at *)
(* most Width - 1 items were requested.                                    *)
THEOREM FirstFailure == FanOutSpec => []ReportsTheFirst
<1>1. ASSUME FanOutInv PROVE ReportsTheFirst
  <2>1. ASSUME outcome.end = "ok" PROVE marked = Item
    <3>1. ASSUME NEW i \in Item PROVE i \in marked
      BY <1>1, <2>1, FanOutAssumption DEF FanOutInv, NextFails, TakenMeansOk, OkMeansMarked, Item
    <3> QED
      BY <1>1, <3>1 DEF FanOutInv, FanOutTypeOK
  <2>2. ASSUME outcome.end = "failed"
        PROVE  /\ answer[outcome.item] = "failed"
               /\ \A i \in Item : i < outcome.item => answer[i] = "ok"
    BY <1>1, <2>2, FanOutAssumption DEF FanOutInv, FanOutTypeOK, NextFails, TakenMeansOk, Item
  <2>3. ASSUME outcome.end = "failed", NEW i \in marked PROVE i < outcome.item + Width
    BY <1>1, <2>3, FanOutAssumption DEF FanOutInv, FanOutTypeOK, Window, Requested, NextFails, Item
  <2> QED
    BY <2>1, <2>2, <2>3 DEF ReportsTheFirst
<1> QED
  BY FanOutInvariance, <1>1, PTL

-----------------------------------------------------------------------------
(* A release that is not there has nothing attached and expects nothing.   *)
Unreleased == ~released => assets = {} /\ strays = {}

(* A command has files, or it has names that it downloads. *)
Sorts ==
  /\ rel.todo \subseteq rel.files
  /\ rel.op \in Uploading => rel.names = {}
  /\ rel.op = "download" => rel.files = {}

(* A name that is yet to be uploaded is attached as the listing says, the  *)
(* listing of a release just created being empty, until its turn comes.    *)
Seen ==
  rel.op \in Uploading /\ rel.step \in {"next", "send"} =>
    \A f \in rel.todo :
      AssetName(f) \notin doubtful /\ (rel.step = "send" => AssetName(f) # AssetName(rel.now)) =>
        Named(AssetName(f), assets) = Named(AssetName(f), rel.listing)

Cleared ==
  rel.step = "send" =>
    /\ rel.op \in Uploading /\ rel.now \in rel.todo
    /\ AssetName(rel.now) \notin doubtful => Named(AssetName(rel.now), assets) = {}

(* What was uploaded is there, and is not what --clobber may yet delete.   *)
Uploaded(f) == \E a \in Named(AssetName(f), assets) \ Pending : a.id = rel.sent[f]

UploadedSoFar ==
  rel.op \in Uploading /\ rel.step \in {"next", "send", "report"} =>
    \A f \in rel.files \ rel.todo : Uploaded(f)

Writing == rel.step = "write" => rel.op = "download" /\ rel.now \in rel.wanted

Downloaded(n) == folder[n] = "whole" \/ (rel.skip /\ folder[n] = "part")

DownloadedSoFar ==
  rel.op = "download" /\ rel.step \in {"next", "write", "report"} =>
    \A n \in rel.names : Named(n, rel.wanted) # {} \/ Downloaded(n)

Reporting ==
  rel.step = "report" => /\ rel.todo = {} /\ rel.wanted = {}
                         /\ rel.op \in Uploading \union {"download"}

CommandInv ==
  /\ rel \in ReleaseCommand
  /\ Sorts /\ Seen /\ Cleared /\ UploadedSoFar /\ Writing /\ DownloadedSoFar /\ Reporting

ReleasesInv == ReleasesTypeOK /\ OneAssetPerName /\ Unreleased /\ CommandInv

LEMMA NoReleaseTyped == NoRelease \in ReleaseCommand
  BY DEF NoRelease, ReleaseCommand

(* A command that is over promises nothing any more. *)
LEMMA IsOver == ASSUME rel' = NoRelease PROVE CommandInv'
<1>1. rel' \in ReleaseCommand
  BY NoReleaseTyped
<1>2. /\ rel'.op = "none" /\ rel'.step = "idle" /\ rel'.todo = {} /\ rel'.files = {}
  BY DEF NoRelease
<1> QED
  BY <1>1, <1>2 DEF CommandInv, Sorts, Seen, Cleared, UploadedSoFar, Writing, DownloadedSoFar,
                    Reporting, Uploading

LEMMA ReleasesStarts == ReleasesInit => ReleasesInv
<1> SUFFICES ASSUME ReleasesInit PROVE ReleasesInv
  OBVIOUS
<1>1. rel \in ReleaseCommand /\ rel.op = "none" /\ rel.step = "idle" /\ rel.todo = {} /\ rel.files = {}
  BY NoReleaseTyped DEF ReleasesInit, NoRelease
<1>2. CommandInv
  BY <1>1 DEF CommandInv, Sorts, Seen, Cleared, UploadedSoFar, Writing, DownloadedSoFar,
              Reporting, Uploading
<1> QED
  BY <1>1, <1>2 DEF ReleasesInit, ReleasesInv, ReleasesTypeOK, OneAssetPerName, Unreleased

(* A name is uploaded when nothing is attached under it, or it is doubtful. *)
LEMMA NameIsFree ==
  ASSUME ReleasesInv, NEW f \in File, MaySend(f)
  PROVE  /\ f \in rel.todo /\ rel.op \in Uploading /\ rel.step \in {"next", "send"} /\ released
         /\ rel.step = "send" => f = rel.now
         /\ AssetName(f) \in Name
         /\ AssetName(f) \notin doubtful => Named(AssetName(f), assets) = {}
<1>1. AssetName(f) \in Name
  BY ReleasesAssumption DEF AssetName, ReleasesInv, ReleasesTypeOK, ReleaseCommand
<1>2. CASE Running(Uploading, "next") /\ f \in rel.todo /\ Named(AssetName(f), rel.listing) = {} /\ released
  BY <1>1, <1>2 DEF Running, ReleasesInv, CommandInv, Seen
<1>3. CASE Running(Uploading, "send") /\ rel.now = f /\ released
  BY <1>1, <1>3 DEF Running, ReleasesInv, CommandInv, Cleared
<1> QED
  BY <1>2, <1>3 DEF MaySend

LEMMA NewAssetIs ==
  ASSUME NEW f \in File, AssetName(f) \in Name, NewIds # {}
  PROVE  /\ NewAsset(f) \in Asset /\ NewAsset(f).name = AssetName(f)
         /\ NewAsset(f).id \in NewIds /\ NewAsset(f).id \in AssetId
         /\ NewAsset(f) \notin Pending
<1>1. (CHOOSE id \in NewIds : TRUE) \in NewIds
  OBVIOUS
<1>2. NewAsset(f).id \in NewIds /\ NewAsset(f).name = AssetName(f)
  BY <1>1 DEF NewAsset
<1>3. NewAsset(f).id \in AssetId /\ NewAsset(f) \in Asset
  BY <1>1, <1>2 DEF NewIds, NewAsset, Asset
<1>4. NewAsset(f) \notin Pending
  BY <1>2 DEF NewIds
<1> QED
  BY <1>2, <1>3, <1>4

LEMMA SendKeeps == ASSUME ReleasesInv, NEW f \in File, Send(f) PROVE ReleasesInv'
<1> DEFINE new == NewAsset(f)
<1>1. /\ f \in rel.todo /\ rel.op \in Uploading /\ rel.step \in {"next", "send"} /\ released
      /\ rel.step = "send" => f = rel.now
      /\ AssetName(f) \in Name
      /\ AssetName(f) \notin doubtful => Named(AssetName(f), assets) = {}
  BY NameIsFree DEF Send
<1>2. /\ new \in Asset /\ new.name = AssetName(f) /\ new.id \in AssetId /\ new \notin Pending
  BY <1>1, NewAssetIs DEF Send
<1>3. /\ assets' = assets \union {new} /\ doubtful \subseteq doubtful' /\ doubtful' \subseteq Name
      /\ Alike(f) => AssetName(f) \in doubtful'
      /\ released' = released /\ strays' = strays /\ folder' = folder
  BY <1>1 DEF Send, ReleasesInv, ReleasesTypeOK
<1> HIDE DEF new
<1>4. \A n : n # AssetName(f) => Named(n, assets') = Named(n, assets)
  BY <1>2, <1>3 DEF Named
<1>5. OneAssetPerName' /\ Unreleased'
  <2>1. ASSUME NEW a \in assets', NEW b \in assets', a.name = b.name, a.name \notin doubtful' PROVE a = b
    BY <1>1, <1>2, <1>3, <2>1 DEF ReleasesInv, OneAssetPerName, Named
  <2> QED
    BY <1>1, <1>3, <2>1 DEF OneAssetPerName, Unreleased
<1>6. CommandInv'
  <2>1. CASE rel' = NoRelease
    BY <2>1, IsOver
  <2>2. CASE rel' = [rel EXCEPT !.todo = @ \ {f}, !.sent[f] = NewAsset(f).id, !.now = Gone, !.step = "next"]
    <3>1. /\ rel' \in ReleaseCommand
          /\ rel'.op = rel.op /\ rel'.files = rel.files /\ rel'.rename = rel.rename
          /\ rel'.names = rel.names /\ rel'.listing = rel.listing
          /\ rel'.todo = rel.todo \ {f} /\ rel'.step = "next"
          /\ rel'.sent[f] = new.id /\ \A g \in File \ {f} : rel'.sent[g] = rel.sent[g]
      BY <1>2, <2>2 DEF new, ReleasesInv, ReleasesTypeOK, ReleaseCommand
    <3>2. rel.files \subseteq File /\ rel.todo \subseteq rel.files
      BY DEF ReleasesInv, ReleasesTypeOK, ReleaseCommand, CommandInv, Sorts
    <3>3. \A g : AssetName(g)' = AssetName(g)
      BY <3>1 DEF AssetName
    <3>4. Pending' \subseteq Pending
      BY <3>1, <3>3 DEF Pending
    <3>5. Seen'
      <4>1. ASSUME NEW g \in rel.todo \ {f}, AssetName(g) \notin doubtful'
            PROVE  Named(AssetName(g), assets') = Named(AssetName(g), rel.listing)
        <5>1. AssetName(g) # AssetName(f)
          BY <1>1, <1>3, <3>2, <4>1 DEF Alike
        <5> QED
          BY <1>1, <1>3, <1>4, <4>1, <5>1 DEF ReleasesInv, CommandInv, Seen
      <4> QED
        BY <3>1, <3>3, <4>1 DEF Seen
    <3>6. UploadedSoFar'
      <4>1. ASSUME NEW g \in rel.files \ (rel.todo \ {f})
            PROVE  \E a \in assets' : a.name = AssetName(g) /\ a \notin Pending /\ a.id = rel'.sent[g]
        <5>1. CASE g = f
          BY <1>2, <1>3, <3>1, <5>1
        <5>2. CASE g # f
          <6>1. Uploaded(g)
            BY <1>1, <4>1, <5>2 DEF ReleasesInv, CommandInv, UploadedSoFar
          <6> QED
            BY <1>3, <3>1, <3>2, <4>1, <5>2, <6>1 DEF Uploaded, Named
        <5> QED
          BY <5>1, <5>2
      <4>2. ASSUME NEW g \in rel'.files \ rel'.todo PROVE Uploaded(g)'
        BY <3>1, <3>3, <3>4, <4>1 DEF Uploaded, Named
      <4> QED
        BY <4>2 DEF UploadedSoFar
    <3> QED
      BY <1>1, <3>1, <3>2, <3>5, <3>6
         DEF ReleasesInv, CommandInv, Sorts, Cleared, Writing, DownloadedSoFar, Reporting, Uploading
  <2> QED
    BY <2>1, <2>2 DEF Send, Proceeds, Fails, AfterFailure
<1> QED
  BY <1>2, <1>3, <1>5, <1>6 DEF ReleasesInv, ReleasesTypeOK, CommandInv

LEMMA DeleteOldKeeps == ASSUME ReleasesInv, NEW f \in File, DeleteOld(f) PROVE ReleasesInv'
<1>1. PICK old \in Named(AssetName(f), rel.listing) : old \in assets /\ assets' = assets \ {old}
  BY DEF DeleteOld
<1>2. /\ rel.op = "upload" /\ rel.step = "next" /\ f \in rel.todo
      /\ released' = released /\ strays' = strays /\ folder' = folder /\ doubtful' = doubtful
  BY DEF DeleteOld, Running
<1>3. /\ old.name = AssetName(f) /\ old \in Pending
      /\ \A n : n # AssetName(f) => Named(n, assets') = Named(n, assets)
  BY <1>1, <1>2 DEF Named, Pending
<1>4. AssetName(f) \notin doubtful => Named(AssetName(f), assets') = {}
  BY <1>1, <1>3 DEF Named, ReleasesInv, OneAssetPerName
<1>5. CommandInv'
  <2>1. CASE rel' = NoRelease
    BY <2>1, IsOver
  <2>2. CASE rel' = [rel EXCEPT !.now = f, !.step = "send"]
    <3>1. /\ rel' \in ReleaseCommand
          /\ rel'.op = rel.op /\ rel'.files = rel.files /\ rel'.rename = rel.rename
          /\ rel'.names = rel.names /\ rel'.listing = rel.listing /\ rel'.sent = rel.sent
          /\ rel'.todo = rel.todo /\ rel'.step = "send" /\ rel'.now = f
      BY <2>2 DEF ReleasesInv, ReleasesTypeOK, ReleaseCommand
    <3>2. \A g : AssetName(g)' = AssetName(g)
      BY <3>1 DEF AssetName
    <3>3. Pending' = Pending
      BY <3>1, <3>2 DEF Pending
    <3>4. Seen'
      BY <1>2, <1>3, <3>1, <3>2 DEF ReleasesInv, CommandInv, Seen
    <3>5. ASSUME NEW g \in rel'.files \ rel'.todo PROVE Uploaded(g)'
      <4>1. Uploaded(g)
        BY <1>2, <3>1, <3>5 DEF ReleasesInv, CommandInv, UploadedSoFar, Uploading
      <4> QED
        BY <1>1, <1>3, <3>1, <3>2, <3>3, <4>1 DEF Uploaded, Named
    <3>6. Cleared'
      BY <1>2, <1>4, <3>1, <3>2 DEF Cleared, Uploading
    <3> QED
      BY <1>2, <3>1, <3>4, <3>5, <3>6
         DEF ReleasesInv, CommandInv, Sorts, UploadedSoFar, Writing, DownloadedSoFar, Reporting, Uploading
  <2> QED
    BY <2>1, <2>2 DEF DeleteOld, Proceeds, Fails, AfterFailure
<1> QED
  BY <1>1, <1>2, <1>5 DEF ReleasesInv, ReleasesTypeOK, CommandInv, OneAssetPerName, Unreleased

(* What a stray takes the name of is doubtful; the rest is as it was.      *)
LEMMA LandKeeps == ASSUME ReleasesInv, Land PROVE ReleasesInv'
<1>1. PICK stray \in strays : /\ strays' = strays \ {stray} /\ assets' = assets \union {stray}
                              /\ doubtful' = doubtful \union {stray.name}
  BY DEF Land
<1>2. stray \in Asset /\ stray.name \in Name /\ released
      /\ released' = released /\ folder' = folder /\ rel' = rel
  BY DEF Land, ReleasesInv, ReleasesTypeOK, Unreleased, Asset
<1>3. \A n : n \notin doubtful' => Named(n, assets') = Named(n, assets)
  BY <1>1 DEF Named
<1>4. (\A g : AssetName(g)' = AssetName(g)) /\ Pending' = Pending
  BY <1>2 DEF AssetName, Pending
<1>5. OneAssetPerName'
  BY <1>1 DEF ReleasesInv, OneAssetPerName
<1>6. Seen' /\ Cleared'
  BY <1>1, <1>2, <1>3, <1>4 DEF ReleasesInv, CommandInv, Seen, Cleared
<1>7. UploadedSoFar'
  <2>1. ASSUME NEW g, Uploaded(g) PROVE Uploaded(g)'
    BY <1>1, <1>2, <1>4, <2>1 DEF Uploaded, Named
  <2> QED
    BY <1>2, <2>1 DEF ReleasesInv, CommandInv, UploadedSoFar
<1>8. CommandInv'
  BY <1>2, <1>6, <1>7 DEF ReleasesInv, CommandInv, Sorts, Writing, DownloadedSoFar, Downloaded, Reporting
<1> QED
  BY <1>1, <1>2, <1>5, <1>8 DEF ReleasesInv, ReleasesTypeOK, Unreleased

(* The steps of a download, for an asset that is wanted. *)
LEMMA DownloadKeeps ==
  ASSUME ReleasesInv, (\E a \in rel.wanted : Skip(a) \/ Open(a)) \/ WriteStream
  PROVE  ReleasesInv'
<1>1. /\ released' = released /\ assets' = assets /\ strays' = strays /\ doubtful' = doubtful
      /\ rel.op = "download"
  BY DEF Skip, Open, WriteStream, serverVars, Running, ReleasesInv, CommandInv, Writing
<1>2. rel.wanted \subseteq Asset /\ (\A a \in Asset : a.name \in Name)
      /\ folder \in [Name -> {"absent", "part", "whole"}]
  BY DEF ReleasesInv, ReleasesTypeOK, ReleaseCommand, Asset
<1>3. ASSUME NEW a \in rel.wanted, Skip(a) PROVE CommandInv' /\ folder' = folder
  <2>1. /\ rel' \in ReleaseCommand
        /\ rel' = [rel EXCEPT !.wanted = @ \ {a}] /\ rel.step = "next"
        /\ rel.skip /\ folder[a.name] \in {"part", "whole"} /\ folder' = folder
    BY <1>2, <1>3 DEF Skip, Running, ReleasesInv, ReleasesTypeOK, ReleaseCommand
  <2>2. /\ rel'.op = rel.op /\ rel'.files = rel.files /\ rel'.todo = rel.todo /\ rel'.names = rel.names
        /\ rel'.skip = rel.skip /\ rel'.step = "next" /\ rel'.wanted = rel.wanted \ {a}
    BY <2>1 DEF ReleasesInv, ReleasesTypeOK, ReleaseCommand
  <2>3. DownloadedSoFar'
    BY <1>1, <2>1, <2>2 DEF ReleasesInv, CommandInv, DownloadedSoFar, Downloaded, Named
  <2> QED
    BY <1>1, <2>1, <2>2, <2>3 DEF ReleasesInv, CommandInv, Sorts, Seen, Cleared, UploadedSoFar,
                                  Writing, Reporting, Uploading
<1>4. ASSUME NEW a \in rel.wanted, Open(a)
      PROVE  CommandInv' /\ folder' \in [Name -> {"absent", "part", "whole"}]
  <2>1. /\ rel' \in ReleaseCommand
        /\ rel' = [rel EXCEPT !.now = a, !.step = "write"] /\ rel.step = "next"
        /\ folder' = [folder EXCEPT ![a.name] = "part"]
    BY <1>2, <1>4 DEF Open, Running, ReleasesInv, ReleasesTypeOK, ReleaseCommand
  <2>2. /\ rel'.op = rel.op /\ rel'.files = rel.files /\ rel'.todo = rel.todo /\ rel'.names = rel.names
        /\ rel'.skip = rel.skip /\ rel'.step = "write" /\ rel'.wanted = rel.wanted /\ rel'.now = a
    BY <2>1 DEF ReleasesInv, ReleasesTypeOK, ReleaseCommand
  <2>3. DownloadedSoFar'
    BY <1>1, <1>2, <2>1, <2>2 DEF ReleasesInv, CommandInv, DownloadedSoFar, Downloaded, Named
  <2> QED
    BY <1>1, <1>2, <2>1, <2>2, <2>3 DEF ReleasesInv, CommandInv, Sorts, Seen, Cleared, UploadedSoFar,
                                        Writing, Reporting, Uploading
<1>5. ASSUME WriteStream PROVE CommandInv' /\ folder' \in [Name -> {"absent", "part", "whole"}]
  <2> DEFINE a == rel.now
  <2>1. a \in rel.wanted /\ a \in Asset /\ a.name \in Name
    BY <1>2, <1>5 DEF WriteStream, ReleasesInv, CommandInv, Writing
  <2>2. /\ rel' \in ReleaseCommand
        /\ rel' = [rel EXCEPT !.wanted = @ \ {a}, !.now = Gone, !.step = "next"] /\ rel.step = "write"
        /\ folder' = [folder EXCEPT ![a.name] = "whole"]
    BY <1>5 DEF WriteStream, ReleasesInv, ReleasesTypeOK, ReleaseCommand
  <2>3. /\ rel'.op = rel.op /\ rel'.files = rel.files /\ rel'.todo = rel.todo /\ rel'.names = rel.names
        /\ rel'.skip = rel.skip /\ rel'.step = "next" /\ rel'.wanted = rel.wanted \ {a}
    BY <2>2 DEF ReleasesInv, ReleasesTypeOK, ReleaseCommand
  <2>4. rel.names \subseteq Name
    BY DEF ReleasesInv, ReleasesTypeOK, ReleaseCommand
  <2> HIDE DEF a
  <2>5. DownloadedSoFar'
    BY <1>1, <1>2, <2>1, <2>2, <2>3, <2>4 DEF ReleasesInv, CommandInv, DownloadedSoFar, Downloaded, Named
  <2> QED
    BY <1>1, <1>2, <2>1, <2>2, <2>3, <2>5 DEF ReleasesInv, CommandInv, Sorts, Seen, Cleared,
                                              UploadedSoFar, Writing, Reporting, Uploading
<1> QED
  BY <1>1, <1>2, <1>3, <1>4, <1>5
     DEF ReleasesInv, ReleasesTypeOK, CommandInv, OneAssetPerName, Unreleased

(* A command that begins: a release just created has nothing attached.     *)
LEMMA CreateKeeps == ASSUME ReleasesInv, NEW files \in SUBSET File, Create(files) PROVE ReleasesInv'
<1>1. /\ assets = {} /\ assets' = {} /\ strays = {} /\ strays' = {}
      /\ doubtful' = doubtful /\ folder' = folder /\ released'
  BY DEF Create, ReleasesInv, Unreleased
<1>2. CASE rel' = [NoRelease EXCEPT !.op = "create", !.files = files, !.todo = files, !.step = "next"]
  <2>1. /\ rel' \in ReleaseCommand
        /\ rel'.op = "create" /\ rel'.files = files /\ rel'.todo = files /\ rel'.names = {}
        /\ rel'.listing = {} /\ rel'.step = "next"
    BY <1>2, NoReleaseTyped DEF NoRelease, ReleaseCommand
  <2>2. CommandInv'
    BY <1>1, <2>1 DEF CommandInv, Sorts, Seen, Cleared, UploadedSoFar, Writing, DownloadedSoFar,
                      Reporting, Uploading, Named
  <2> QED
    BY <1>1, <2>1, <2>2 DEF ReleasesInv, ReleasesTypeOK, OneAssetPerName, Unreleased
<1>3. CASE rel' = NoRelease
  BY <1>1, <1>3, IsOver, NoReleaseTyped DEF ReleasesInv, ReleasesTypeOK, OneAssetPerName, Unreleased
<1> QED
  BY <1>2, <1>3 DEF Create, Ended

LEMMA UploadKeeps ==
  ASSUME ReleasesInv, NEW files \in SUBSET File, NEW rename \in Name \union {Gone},
         NEW clobber \in BOOLEAN, Upload(files, rename, clobber)
  PROVE  ReleasesInv'
<1>1. /\ rel' \in ReleaseCommand
      /\ rel'.op = "upload" /\ rel'.files = files /\ rel'.todo = files /\ rel'.names = {}
      /\ rel'.listing = assets /\ rel'.step = "next"
  BY NoReleaseTyped DEF Upload, Listed, NoRelease, ReleaseCommand, ReleasesInv, ReleasesTypeOK
<1>2. CommandInv'
  BY <1>1 DEF Upload, serverVars, CommandInv, Sorts, Seen, Cleared, UploadedSoFar, Writing,
              DownloadedSoFar, Reporting, Uploading
<1> QED
  BY <1>1, <1>2 DEF Upload, serverVars, ReleasesInv, ReleasesTypeOK, OneAssetPerName, Unreleased

LEMMA DownloadBegins ==
  ASSUME ReleasesInv, NEW names \in SUBSET Name, NEW clobber \in BOOLEAN, NEW skip \in BOOLEAN,
         Download(names, clobber, skip)
  PROVE  ReleasesInv'
<1>1. /\ rel' \in ReleaseCommand
      /\ rel'.op = "download" /\ rel'.files = {} /\ rel'.todo = {} /\ rel'.names = names
      /\ rel'.wanted = {a \in assets : a.name \in names} /\ rel'.step = "next"
  BY NoReleaseTyped DEF Download, NoRelease, ReleaseCommand, ReleasesInv, ReleasesTypeOK
<1>2. \A n \in names : Named(n, rel'.wanted) # {}
  BY <1>1 DEF Download, Named
<1>3. CommandInv'
  BY <1>1, <1>2 DEF CommandInv, Sorts, Seen, Cleared, UploadedSoFar, Writing, DownloadedSoFar,
                    Reporting, Uploading
<1> QED
  BY <1>1, <1>3 DEF Download, serverVars, ReleasesInv, ReleasesTypeOK, OneAssetPerName, Unreleased

LEMMA ReleasesKeeps == ReleasesInv /\ [ReleasesNext]_releaseVars => ReleasesInv'
<1> SUFFICES ASSUME ReleasesInv, [ReleasesNext]_releaseVars PROVE ReleasesInv'
  OBVIOUS
<1>1. ASSUME NEW files \in SUBSET File, Create(files) PROVE ReleasesInv'
  BY <1>1, CreateKeeps
<1>2. ASSUME NEW files \in SUBSET File, NEW rename \in Name \union {Gone}, NEW clobber \in BOOLEAN,
             Upload(files, rename, clobber)
      PROVE  ReleasesInv'
  BY <1>2, UploadKeeps
<1>3. ASSUME NEW names \in SUBSET Name, NEW clobber \in BOOLEAN, NEW skip \in BOOLEAN,
             Download(names, clobber, skip)
      PROVE  ReleasesInv'
  BY <1>3, DownloadBegins
<1>4. ASSUME NEW n \in Name, DeleteAsset(n) PROVE ReleasesInv'
  BY <1>4, IsOver DEF DeleteAsset, ReleasesInv, ReleasesTypeOK, OneAssetPerName, Unreleased, Named
<1>5. CASE Delete
  BY <1>5, IsOver DEF Delete, ReleasesInv, ReleasesTypeOK, OneAssetPerName, Unreleased
<1>6. ASSUME NEW f \in File, DeleteOld(f) PROVE ReleasesInv'
  BY <1>6, DeleteOldKeeps
<1>7. ASSUME NEW f \in File, Send(f) PROVE ReleasesInv'
  BY <1>7, SendKeeps
<1>8. ASSUME NEW f \in File, Stray(f) PROVE ReleasesInv'
  <2>1. released /\ NewAsset(f) \in Asset /\ rel' = NoRelease
    BY <1>8, NameIsFree, NewAssetIs DEF Stray, Fails, AfterFailure
  <2> QED
    BY <1>8, <2>1, IsOver, NoReleaseTyped DEF Stray, ReleasesInv, ReleasesTypeOK, OneAssetPerName, Unreleased
<1>9. CASE Land
  BY <1>9, LandKeeps
<1>10. CASE (\E a \in rel.wanted : Skip(a) \/ Open(a)) \/ WriteStream
  BY <1>10, DownloadKeeps
<1>11. CASE AllDone
  <2>1. /\ rel' \in ReleaseCommand /\ rel.op \in Uploading \union {"download"}
        /\ rel'.op = rel.op /\ rel'.files = rel.files /\ rel'.rename = rel.rename
        /\ rel'.names = rel.names /\ rel'.listing = rel.listing /\ rel'.sent = rel.sent
        /\ rel'.todo = {} /\ rel.todo = {} /\ rel'.wanted = {} /\ rel.wanted = {}
        /\ rel'.skip = rel.skip /\ rel'.step = "report" /\ rel.step = "next"
    BY <1>11 DEF AllDone, Running, Uploading, ReleasesInv, ReleasesTypeOK, ReleaseCommand
  <2>2. UploadedSoFar'
    <3>1. ASSUME NEW g, Uploaded(g) PROVE Uploaded(g)'
      BY <1>11, <2>1, <3>1 DEF AllDone, serverVars, Uploaded, Named, Pending, AssetName
    <3> QED
      BY <2>1, <3>1 DEF ReleasesInv, CommandInv, UploadedSoFar
  <2>3. (Sorts /\ Seen /\ Cleared /\ Writing /\ DownloadedSoFar /\ Reporting)'
    BY <1>11, <2>1 DEF AllDone, ReleasesInv, CommandInv, Sorts, Seen, Cleared, Writing,
                       DownloadedSoFar, Downloaded, Reporting, Uploading, Named
  <2> QED
    BY <1>11, <2>1, <2>2, <2>3 DEF AllDone, serverVars, ReleasesInv, ReleasesTypeOK, CommandInv,
                                   OneAssetPerName, Unreleased
<1>12. CASE Report \/ Abandon
  BY <1>12, IsOver, NoReleaseTyped DEF Report, Abandon, Fails, AfterFailure, Ended, serverVars,
     ReleasesInv, ReleasesTypeOK, OneAssetPerName, Unreleased
<1>13. CASE UNCHANGED releaseVars
  BY <1>13 DEF releaseVars, ReleasesInv, ReleasesTypeOK, OneAssetPerName, Unreleased, CommandInv,
               Sorts, Seen, Cleared, UploadedSoFar, Uploaded, Pending, AssetName, Writing,
               DownloadedSoFar, Downloaded, Reporting
<1> QED
  BY <1>1, <1>2, <1>3, <1>4, <1>5, <1>6, <1>7, <1>8, <1>9, <1>10, <1>11, <1>12, <1>13 DEF ReleasesNext

LEMMA ReleasesInvariance == ReleasesSpec => []ReleasesInv
  BY ReleasesStarts, ReleasesKeeps, PTL DEF ReleasesSpec

(* Whatever fails and however often it is tried again, two assets of one   *)
(* name come only from a command that was given two files of that name, or *)
(* from an upload that the server carried out after it was given up on.    *)
THEOREM TwinsHaveACause == ReleasesSpec => []OneAssetPerName
<1>1. ReleasesInv => OneAssetPerName
  BY DEF ReleasesInv
<1> QED
  BY ReleasesInvariance, <1>1, PTL

(* A release command that succeeds has done the whole of it, files of one  *)
(* name and late uploads included.                                         *)
THEOREM SuccessMeansDone == ReleasesSpec => []OkMeansDone
<1>1. ASSUME ReleasesInv, rel.step = "report", NEW f \in rel.files
      PROVE  \E a \in Named(AssetName(f), assets) : a.id = rel.sent[f]
  <2>1. rel.op \in Uploading /\ f \in rel.files \ rel.todo
    BY <1>1 DEF ReleasesInv, CommandInv, Reporting, Sorts
  <2> QED
    BY <1>1, <2>1 DEF ReleasesInv, CommandInv, UploadedSoFar, Uploaded
<1>2. ASSUME ReleasesInv, rel.step = "report", NEW n \in rel.names PROVE Downloaded(n)
  <2>1. rel.op = "download" /\ rel.wanted = {}
    BY <1>2 DEF ReleasesInv, CommandInv, Reporting, Sorts
  <2> QED
    BY <1>2, <2>1 DEF ReleasesInv, CommandInv, DownloadedSoFar, Named
<1>3. ReleasesInv => OkMeansDone
  BY <1>1, <1>2 DEF OkMeansDone, Downloaded
<1> QED
  BY ReleasesInvariance, <1>3, PTL

-----------------------------------------------------------------------------
(* What is to be sent as a whole is what was read, but for what others     *)
(* changed since.                                                          *)
ReadIsRecent ==
  edit.op \in {"issue", "pull", "hook"} /\ edit.step \in {"add", "remove", "patch"} =>
    \A field \in {"labels", "people"} :
      Sends(field) => /\ held[field] \ edit.seen[field] \subseteq since[field]
                      /\ edit.seen[field] \ held[field] \subseteq since[field]

TodoAsked == edit.todo \subseteq edit.add.labels \union edit.remove.labels

(* Which commands send names one by one and which send sets. *)
Planned ==
  /\ edit.op \in {"pull", "hook"} => edit.step \notin {"add", "remove"}
  /\ edit.op \in {"topics", "none"} => edit.step \notin {"read", "patch"}
  /\ edit.op = "setTopics" =>
       /\ edit.step = "patch"
       /\ edit.add.labels \union edit.remove.labels = Label
       /\ edit.add.people = {} /\ edit.remove.people = {}

EditsInv == EditsTypeOK /\ ReadIsRecent /\ TodoAsked /\ Planned

LEMMA SetsAre ==
  ASSUME NEW s \in Sets
  PROVE  /\ DOMAIN s = {"labels", "people"}
         /\ s["labels"] = s.labels /\ s["people"] = s.people
         /\ s.labels \subseteq Label /\ s.people \subseteq Person
  BY DEF Sets

LEMMA SetsWith ==
  ASSUME NEW s \in Sets, NEW names \in SUBSET Label, NEW people \in SUBSET Person
  PROVE  /\ [s EXCEPT !.labels = names] \in Sets
         /\ [s EXCEPT !.labels = names].labels = names
         /\ [s EXCEPT !.labels = names].people = s.people
         /\ [s EXCEPT !["labels"] = names] = [s EXCEPT !.labels = names]
         /\ [s EXCEPT !["people"] = people] \in Sets
         /\ [s EXCEPT !["people"] = people].people = people
         /\ [s EXCEPT !["people"] = people].labels = s.labels
  BY DEF Sets

LEMMA OnlyLabels ==
  ASSUME NEW names \in SUBSET Label
  PROVE  /\ [Nothing EXCEPT !.labels = names] \in Sets
         /\ [Nothing EXCEPT !.labels = names].labels = names
         /\ [Nothing EXCEPT !.labels = names].people = {}
  BY DEF Sets, Nothing

LEMMA SetsPut ==
  ASSUME NEW s \in Sets, NEW field \in {"labels", "people"}, NEW name \in Names[field]
  PROVE  /\ [s EXCEPT ![field] = s[field] \union {name}] \in Sets
         /\ [s EXCEPT ![field] = s[field] \ {name}] \in Sets
<1>1. CASE field = "labels"
  <2>1. s.labels \union {name} \in SUBSET Label /\ s.labels \ {name} \in SUBSET Label /\ s[field] = s.labels
    BY <1>1, SetsAre DEF Names
  <2> QED
    BY <1>1, <2>1, SetsWith
<1>2. CASE field = "people"
  <2>1. s.people \union {name} \in SUBSET Person /\ s.people \ {name} \in SUBSET Person /\ s[field] = s.people
    BY <1>2, SetsAre DEF Names
  <2> QED
    BY <1>2, <2>1, SetsWith
<1> QED
  BY <1>1, <1>2

LEMMA EditsStarts == EditsInit => EditsInv
  BY DEF EditsInit, EditsInv, EditsTypeOK, ReadIsRecent, TodoAsked, Planned, NoEdit, Nothing, Sets

(* A command that begins has sent nothing of what it has yet to read.      *)
LEMMA EditBegins ==
  ASSUME EditsInv, NEW op \in {"issue", "pull", "topics", "setTopics", "hook"},
         NEW add \in Sets, NEW remove \in Sets,
         NEW next \in {"read", "add", "remove", "patch"},
         op \in {"pull", "hook"} => next = "read",
         op = "issue" => next = "read" \/ (next = "add" /\ add.people = {} /\ remove.people = {}),
         op = "topics" => next \in {"add", "remove"},
         op = "setTopics" => /\ next = "patch" /\ add.labels \union remove.labels = Label
                             /\ add.people = {} /\ remove.people = {},
         Edit(op, add, remove, next)
  PROVE  EditsInv'
<1>1. /\ edit'.op = op /\ edit'.add = add /\ edit'.remove = remove /\ edit'.step = next
      /\ edit'.todo \subseteq add.labels \union remove.labels
  BY DEF Edit
<1>2. EditsTypeOK'
  BY <1>1 DEF Edit, EditsInv, EditsTypeOK, Sets, Nothing
<1>3. ReadIsRecent'
  BY <1>1 DEF ReadIsRecent, Sends, Asked, Sets
<1> QED
  BY <1>1, <1>2, <1>3 DEF EditsInv, TodoAsked, Planned

LEMMA PatchTyped == ASSUME EditsTypeOK, Patch PROVE held' \in Sets
<1>1. /\ edit.add \in Sets /\ edit.remove \in Sets /\ edit.seen \in Sets /\ held \in Sets
  BY DEF EditsTypeOK
<1>2. Mutate("labels") \subseteq Label /\ Mutate("people") \subseteq Person
  BY <1>1, SetsAre DEF Mutate
<1>3. held' = [field \in {"labels", "people"} |-> IF Sends(field) THEN Mutate(field) ELSE held[field]]
  BY <1>1, SetsAre DEF Patch
<1>4. held' = [labels |-> held'["labels"], people |-> held'["people"]]
  BY <1>3
<1>5. held'["labels"] \subseteq Label /\ held'["people"] \subseteq Person
  BY <1>1, <1>2, <1>3, SetsAre
<1> QED
  BY <1>4, <1>5 DEF Sets

LEMMA EditsKeep == EditsInv /\ [EditsNext]_editVars => EditsInv'
<1> SUFFICES ASSUME EditsInv, [EditsNext]_editVars PROVE EditsInv'
  OBVIOUS
<1> Nothing \in Sets /\ Nothing.people = {}
  BY DEF Nothing, Sets
<1>1. ASSUME NEW add \in Sets, NEW remove \in Sets, EditIssue(add, remove) \/ EditPull(add, remove)
      PROVE  EditsInv'
  BY <1>1, EditBegins DEF EditIssue, EditPull
<1>2. ASSUME NEW names \in SUBSET Label, AddTopics(names) \/ RemoveTopics(names) \/ SetTopics(names)
      PROVE  EditsInv'
  <2> DEFINE some == [Nothing EXCEPT !.labels = names]
             rest == [Nothing EXCEPT !.labels = Label \ names]
  <2>1. some \in Sets /\ some.labels = names /\ some.people = {}
    BY OnlyLabels
  <2>2. rest \in Sets /\ rest.labels = Label \ names /\ rest.people = {}
    BY OnlyLabels, Label \ names \in SUBSET Label
  <2>3. names \union (Label \ names) = Label
    OBVIOUS
  <2> HIDE DEF some, rest
  <2>4. CASE Edit("topics", some, Nothing, "add")
    BY <2>1, <2>4, EditBegins
  <2>5. CASE Edit("topics", Nothing, some, "remove")
    BY <2>1, <2>5, EditBegins
  <2>6. CASE Edit("setTopics", some, rest, "patch")
    <3>1. some.labels \union rest.labels = Label
      BY <2>1, <2>2, <2>3
    <3> QED
      BY <2>1, <2>2, <2>6, <3>1, EditBegins
  <2> QED
    BY <1>2, <2>4, <2>5, <2>6 DEF AddTopics, RemoveTopics, SetTopics, some, rest
<1>3. ASSUME NEW add \in SUBSET Label, NEW remove \in SUBSET Label, EditHook(add, remove)
      PROVE  EditsInv'
  BY <1>3, EditBegins, SetsWith DEF EditHook
<1>4. CASE Read
  <2>1. /\ edit'.op = edit.op /\ edit'.add = edit.add /\ edit'.remove = edit.remove
        /\ edit'.seen = held /\ edit'.todo = edit.todo
        /\ EditsTypeOK'
    BY <1>4 DEF Read, EditsInv, EditsTypeOK
  <2> QED
    BY <1>4, <2>1 DEF Read, EditsInv, EditsTypeOK, ReadIsRecent, TodoAsked, Planned
<1>5. ASSUME edit' = NoEdit, EditsTypeOK' PROVE EditsInv'
  BY <1>5 DEF NoEdit, EditsInv, ReadIsRecent, TodoAsked, Planned
<1>6. CASE AddLabels
  <2>1. held' \in Sets /\ held'.people = held.people
    BY <1>6, SetsWith, SetsAre DEF AddLabels, EditsInv, EditsTypeOK
  <2>2. CASE edit' = NoEdit
    BY <1>6, <2>1, <2>2, <1>5 DEF AddLabels, Goes, EditsInv, EditsTypeOK, NoEdit
  <2>3. CASE edit' = [edit EXCEPT !.step = "remove"]
    <3>1. /\ edit'.op = "issue" /\ edit'.add = edit.add /\ edit'.remove = edit.remove
          /\ edit'.seen = edit.seen /\ edit'.todo = edit.todo /\ edit'.step = "remove"
          /\ EditsTypeOK'
      BY <1>6, <2>1, <2>3 DEF AddLabels, Goes, EditsInv, EditsTypeOK
    <3> QED
      BY <1>6, <2>1, <3>1, SetsAre DEF AddLabels, Goes, Sends, Asked, EditsInv, EditsTypeOK, ReadIsRecent, TodoAsked, Planned
  <2> QED
    BY <1>6, <2>2, <2>3 DEF AddLabels, Goes
<1>7. ASSUME NEW name \in Label, AddTopic(name) \/ RemoveLabel(name) PROVE EditsInv'
  <2>1. held' \in Sets /\ held'.people = held.people
    <3>1. held.labels \union {name} \in SUBSET Label /\ held.labels \ {name} \in SUBSET Label
      BY SetsAre DEF EditsInv, EditsTypeOK
    <3>2. CASE held' = [held EXCEPT !.labels = held.labels \union {name}]
      BY <3>1, <3>2, SetsWith DEF EditsInv, EditsTypeOK
    <3>3. CASE held' = [held EXCEPT !.labels = held.labels \ {name}]
      BY <3>1, <3>3, SetsWith DEF EditsInv, EditsTypeOK
    <3> QED
      BY <1>7, <3>2, <3>3 DEF AddTopic, RemoveLabel
  <2>2. CASE edit' = NoEdit
    BY <1>7, <2>1, <2>2, <1>5 DEF AddTopic, RemoveLabel, Goes, EditsInv, EditsTypeOK, NoEdit
  <2>3. CASE edit' = [edit EXCEPT !.todo = @ \ {name}]
    <3>1. /\ edit'.op = edit.op /\ edit'.add = edit.add /\ edit'.remove = edit.remove
          /\ edit'.seen = edit.seen /\ edit'.todo \subseteq edit.todo /\ edit'.step = edit.step
          /\ EditsTypeOK'
      BY <1>7, <2>1, <2>3 DEF AddTopic, RemoveLabel, Goes, EditsInv, EditsTypeOK
    <3>2. edit.op \notin {"pull", "hook"} /\ since' = since
      BY <1>7 DEF AddTopic, RemoveLabel, Goes, EditsInv, TodoAsked, Planned
    <3> QED
      BY <2>1, <3>1, <3>2, SetsAre DEF Sends, Asked, EditsInv, EditsTypeOK, ReadIsRecent, TodoAsked, Planned
  <2> QED
    BY <1>7, <2>2, <2>3 DEF AddTopic, RemoveLabel, Goes
<1>8. CASE NoMore
  <2>1. CASE edit' = NoEdit
    BY <1>8, <2>1, <1>5 DEF NoMore, EditsInv, EditsTypeOK, NoEdit
  <2>2. CASE edit' = [edit EXCEPT !.step = "patch"] /\ edit.op = "issue"
    <3>1. /\ edit'.op = edit.op /\ edit'.add = edit.add /\ edit'.remove = edit.remove
          /\ edit'.seen = edit.seen /\ edit'.todo = edit.todo /\ edit'.step = "patch"
          /\ EditsTypeOK'
      BY <1>8, <2>2 DEF NoMore, EditsInv, EditsTypeOK
    <3> QED
      BY <1>8, <2>2, <3>1 DEF NoMore, Sends, Asked, EditsInv, ReadIsRecent, TodoAsked, Planned
  <2> QED
    BY <1>8, <2>1, <2>2 DEF NoMore
<1>9. CASE Patch
  <2>1. held' \in Sets
    BY <1>9, PatchTyped DEF EditsInv
  <2>2. edit' = NoEdit /\ since' = since
    BY <1>9 DEF Patch, Goes
  <2> QED
    BY <2>1, <2>2, <1>5 DEF EditsInv, EditsTypeOK, NoEdit
<1>10. CASE Interrupted
  BY <1>10, <1>5 DEF Interrupted, EditsInv, EditsTypeOK, NoEdit
<1>11. CASE Others
  <2>1. PICK field \in {"labels", "people"} : \E name \in Names[field] :
          /\ \/ held' = [held EXCEPT ![field] = @ \union {name}]
             \/ held' = [held EXCEPT ![field] = @ \ {name}]
          /\ since' = [since EXCEPT ![field] = @ \union {name}]
    BY <1>11, SetsAre DEF Others, EditsInv, EditsTypeOK
  <2>2. PICK name \in Names[field] :
          /\ \/ held' = [held EXCEPT ![field] = held[field] \union {name}]
             \/ held' = [held EXCEPT ![field] = held[field] \ {name}]
          /\ since' = [since EXCEPT ![field] = since[field] \union {name}]
    BY <2>1
  <2>3. held' \in Sets /\ since' \in Sets
    <3>1. held \in Sets /\ since \in Sets
      BY DEF EditsInv, EditsTypeOK
    <3>2. /\ [held EXCEPT ![field] = held[field] \union {name}] \in Sets
          /\ [held EXCEPT ![field] = held[field] \ {name}] \in Sets
      BY <3>1, SetsPut
    <3>3. [since EXCEPT ![field] = since[field] \union {name}] \in Sets
      BY <3>1, SetsPut
    <3> QED
      BY <2>2, <3>2, <3>3
  <2>4. edit' = edit
    BY <1>11 DEF Others
  <2>5. ReadIsRecent'
    <3>1. DOMAIN held = {"labels", "people"} /\ DOMAIN since = {"labels", "people"}
      BY SetsAre DEF EditsInv, EditsTypeOK
    <3>2. \A f \in {"labels", "people"} :
            /\ held'[f] \ held[f] \subseteq since'[f] /\ held[f] \ held'[f] \subseteq since'[f]
            /\ since[f] \subseteq since'[f]
      BY <2>2, <3>1
    <3> QED
      BY <2>4, <3>2 DEF EditsInv, ReadIsRecent, Sends, Asked
  <2> QED
    BY <2>3, <2>4, <2>5 DEF EditsInv, EditsTypeOK, TodoAsked, Planned
<1>12. CASE UNCHANGED editVars
  BY <1>12 DEF editVars, EditsInv, EditsTypeOK, ReadIsRecent, TodoAsked, Planned, Sends, Asked
<1> QED
  BY <1>1, <1>2, <1>3, <1>4, <1>6, <1>7, <1>8, <1>9, <1>10, <1>11, <1>12 DEF EditsNext, EditSteps

LEMMA EditsInvariance == EditsSpec => []EditsInv
  BY EditsStarts, EditsKeep, PTL DEF EditsSpec

LEMMA StepsKeepOthers ==
  ASSUME EditsInv, EditSteps, NEW field \in DOMAIN held
  PROVE  Changed(field) \subseteq edit.add[field] \union edit.remove[field] \union Overwritten(field)
<1>1. /\ field \in {"labels", "people"}
      /\ edit.add \in Sets /\ edit.remove \in Sets /\ edit.seen \in Sets /\ held \in Sets
  BY SetsAre DEF EditsInv, EditsTypeOK
<1>2. CASE held' = held
  BY <1>2 DEF Changed
<1>3. CASE AddLabels
  BY <1>1, <1>3, SetsAre DEF AddLabels, Changed, Sets
<1>4. ASSUME NEW name \in Label, AddTopic(name) \/ RemoveLabel(name)
      PROVE  Changed(field) \subseteq edit.add[field] \union edit.remove[field]
  BY <1>1, <1>4, SetsAre DEF AddTopic, RemoveLabel, Changed, EditsInv, TodoAsked, Planned, Sets
<1>5. CASE Patch
  <2>1. held'[field] = IF Sends(field) THEN Mutate(field) ELSE held[field]
    BY <1>5 DEF Patch
  <2>2. CASE ~Sends(field)
    BY <2>1, <2>2 DEF Changed
  <2>3. CASE Sends(field) /\ edit.op = "setTopics"
    <3>1. field = "labels"
      BY <1>1, <2>3, SetsAre DEF Sends, Asked, EditsInv, Planned
    <3>2. held'["labels"] \subseteq Label /\ held["labels"] \subseteq Label
      BY <1>1, <1>5, PatchTyped, SetsAre DEF EditsInv
    <3>3. edit.add["labels"] \union edit.remove["labels"] = Label
      BY <1>1, <2>3, SetsAre DEF EditsInv, Planned
    <3> QED
      BY <3>1, <3>2, <3>3 DEF Changed
  <2>4. CASE Sends(field) /\ edit.op \in {"issue", "pull", "hook"}
    <3>1. /\ held[field] \ edit.seen[field] \subseteq since[field]
          /\ edit.seen[field] \ held[field] \subseteq since[field]
      BY <1>1, <1>5, <2>4 DEF Patch, EditsInv, ReadIsRecent
    <3>2. Overwritten(field) = since[field]
      BY <2>4 DEF Sends, Overwritten
    <3>3. /\ edit.seen[field] \ Mutate(field) \subseteq edit.remove[field]
          /\ Mutate(field) \ edit.seen[field] \subseteq edit.add[field]
      BY <2>4 DEF Mutate
    <3> QED
      BY <2>1, <2>4, <3>1, <3>2, <3>3 DEF Changed
  <2> QED
    BY <1>5, <2>2, <2>3, <2>4 DEF Patch, EditsInv, EditsTypeOK, Planned
<1> QED
  BY <1>2, <1>3, <1>4, <1>5 DEF EditSteps, Read, NoMore, Interrupted

(* No edit undoes what others did, except in a set that only exists as a   *)
(* whole, and there only what they did since the command read it.          *)
THEOREM EditsKeepOthers == EditsSpec => OthersKept
<1>1. EditsInv /\ [EditsNext]_editVars =>
        [EditSteps => \A field \in DOMAIN held :
           Changed(field) \subseteq edit.add[field] \union edit.remove[field] \union Overwritten(field)]_editVars
  BY StepsKeepOthers
<1> QED
  BY EditsInvariance, <1>1, PTL DEF EditsSpec, OthersKept
-----------------------------------------------------------------------------
(* Drafts. *)

(* The request goes out once in a run, after which only what cannot fail   *)
(* the run with advice is left; and a pull request is known by its branch. *)
DraftsInv ==
  /\ DraftsTypeOK
  /\ RerunSafe
  /\ \A p \in pulls : p.topic = p.head
  /\ create # Idle /\ create.step \in {"save", "look", "send"} => ~create.done

LEMMA DraftsStarts == DraftsInit => DraftsInv
  BY DEF DraftsInit, DraftsInv, DraftsTypeOK, RerunSafe, NoAdvice, Flow

LEMMA CreatingAt ==
  ASSUME DraftsInv, NEW next \in {"save", "look", "send", "locate", "close", "review"}, Reached(next)
  PROVE  create \in Creating
  BY DEF DraftsInv, DraftsTypeOK, Reached, Idle

(* A run fails with advice only before its request was taken. *)
LEMMA FailSafe ==
  ASSUME DraftsInv, create \in Creating, create.step \in {"save", "look", "send"}, Fail
  PROVE  /\ create' = Idle /\ ~advice'.done
         /\ advice' \in [text : Prose, done : BOOLEAN] \union {NoAdvice}
<1>1. ~create.done /\ create # Idle
  BY DEF DraftsInv, Creating, Idle, Flow
<1> QED
  BY <1>1 DEF Fail, NoAdvice, Creating

(* What the server takes from a branch it knows is what it has. *)
LEMMA PublishSafe ==
  ASSUME DraftsInv, create \in Creating, Publish
  PROVE  /\ pulls' \subseteq [flow : Flow, head : Heads, topic : Heads] /\ opened' \subseteq Prose
         /\ \A p \in pulls' : p.topic = p.head
         /\ \A p, q \in pulls' : p.flow = q.flow /\ p.head = q.head => p = q
<1>1. Pull \in [flow : Flow, head : Heads, topic : Heads] /\ Pull.topic = Pull.head
  BY DEF Pull, Topic, Creating
<1>2. pulls' \subseteq [flow : Flow, head : Heads, topic : Heads] /\ \A p \in pulls' : p.topic = p.head
  BY <1>1 DEF Publish, DraftsInv, DraftsTypeOK
<1>3. opened' \subseteq Prose
  BY DEF Publish, DraftsInv, DraftsTypeOK, Creating
<1>4. \A p, q \in [flow : Flow, head : Heads, topic : Heads] :
        p.flow = q.flow /\ p.head = q.head /\ p.topic = q.topic => p = q
  OBVIOUS
<1> QED
  BY <1>2, <1>3, <1>4

LEMMA DraftsKeep == DraftsInv /\ [DraftsNext]_draftVars => DraftsInv'
<1> SUFFICES ASSUME DraftsInv, [DraftsNext]_draftVars PROVE DraftsInv'
  OBVIOUS
<1>1. ASSUME NEW flow \in Flow, NEW text \in Prose, NEW branch \in Heads, NEW dry \in BOOLEAN,
             NEW recover \in BOOLEAN, Assemble(flow, text, branch, dry, recover)
      PROVE  DraftsInv'
  <2>1. create' \in Creating /\ ~create'.done
    BY <1>1 DEF Assemble, Creating
  <2> QED
    BY <1>1, <2>1 DEF Assemble, DraftsInv, DraftsTypeOK, RerunSafe
<1>2. ASSUME NEW now \in {"save", "look", "send", "locate", "close", "review"}, Reached(now),
             NEW next \in {"look", "send", "locate", "close", "review"},
             now \in {"save", "look"} \/ next \in {"locate", "close", "review"},
             create' \in {[create EXCEPT !.step = next], [create EXCEPT !.kept = TRUE, !.step = next]},
             saved' \in Prose \union {"none", "torn"}, UNCHANGED <<pulls, opened, advice>>
      PROVE  DraftsInv'
  <2>1. create \in Creating /\ create # Idle
    BY <1>2, CreatingAt DEF Creating, Idle, Flow
  <2>2. create' \in Creating /\ create'.step = next /\ create'.done = create.done
    BY <1>2, <2>1 DEF Creating
  <2>3. next \in {"look", "send"} => ~create'.done
    BY <1>2, <2>1, <2>2 DEF DraftsInv, Reached
  <2> QED
    BY <1>2, <2>2, <2>3 DEF DraftsInv, DraftsTypeOK, RerunSafe
<1>3. ASSUME create \in Creating, create.step \in {"look", "send"}, Fail, UNCHANGED saved,
             Publish \/ UNCHANGED <<pulls, opened>>
      PROVE  DraftsInv'
  <2>1. create' = Idle /\ ~advice'.done /\ advice' \in [text : Prose, done : BOOLEAN] \union {NoAdvice}
    BY <1>3, FailSafe
  <2>2. /\ pulls' \subseteq [flow : Flow, head : Heads, topic : Heads] /\ opened' \subseteq Prose
        /\ \A p \in pulls' : p.topic = p.head
        /\ \A p, q \in pulls' : p.flow = q.flow /\ p.head = q.head => p = q
    BY <1>3, PublishSafe DEF DraftsInv, DraftsTypeOK, RerunSafe
  <2> QED
    BY <1>3, <2>1, <2>2 DEF DraftsInv, DraftsTypeOK, RerunSafe
<1>4. CASE SaveDraft
  <2>1. create \in Creating /\ create.text \in Prose /\ saved \in Prose \union {"none", "torn"}
    BY <1>4, CreatingAt DEF SaveDraft, Creating, DraftsInv, DraftsTypeOK
  <2> QED
    BY <1>2, <1>4, <2>1 DEF SaveDraft
<1>5. CASE LookUp
  <2>1. create \in Creating /\ create.step = "look"
    BY <1>5, CreatingAt DEF LookUp, Reached
  <2>2. CASE Fail
    BY <1>3, <1>5, <2>1, <2>2 DEF LookUp
  <2>3. CASE To(IF create.dry THEN "close" ELSE "send")
    BY <1>2, <1>5, <2>3 DEF LookUp, To, DraftsInv, DraftsTypeOK
  <2> QED
    BY <1>5, <2>2, <2>3 DEF LookUp
<1>6. CASE Accepted
  <2>1. create \in Creating /\ create' \in Creating /\ create'.step \in {"locate", "close"}
    BY <1>6, CreatingAt DEF Accepted, Creating
  <2>2. Publish
    BY <1>6 DEF Accepted
  <2> QED
    BY <1>6, <2>1, <2>2, PublishSafe DEF Accepted, DraftsInv, DraftsTypeOK, RerunSafe
<1>7. CASE Rejected
  <2>1. create \in Creating /\ create.step = "send"
    BY <1>7, CreatingAt DEF Rejected, Reached
  <2> QED
    BY <1>3, <1>7, <2>1 DEF Rejected
<1>8. CASE Locate
  BY <1>2, <1>8 DEF Locate, To, DraftsInv, DraftsTypeOK
<1>9. CASE Close
  BY <1>2, <1>9 DEF Close, To, DraftsInv, DraftsTypeOK
<1>10. CASE Leave
  BY <1>10 DEF Leave, DraftsInv, DraftsTypeOK, RerunSafe
<1>11. CASE UNCHANGED draftVars
  BY <1>11 DEF draftVars, DraftsInv, DraftsTypeOK, RerunSafe
<1> QED
  BY <1>1, <1>4, <1>5, <1>6, <1>7, <1>8, <1>9, <1>10, <1>11 DEF DraftsNext

(* Whoever is told to run `pr create` again with --recover has no pull     *)
(* request yet that the run knew of, and gets one from a branch, not two   *)
(* (create.rs 533-536, agit.rs 24-26).                                     *)
THEOREM RerunsSafe == DraftsSpec => []RerunSafe
<1>1. DraftsInv => RerunSafe
  BY DEF DraftsInv
<1> QED
  BY <1>1, DraftsStarts, DraftsKeep, PTL DEF DraftsSpec

-----------------------------------------------------------------------------
(* WebLogin.  What waits to be read takes its time: the steps that the     *)
(* first connections of a backlog take, counted.                           *)
LEMMA ReadStepsFinite ==
  ASSUME NEW s \in Seq(Connection), NEW n \in Nat
  PROVE  /\ IsFiniteSet(ReadSteps(s, n))
         /\ Cardinality(ReadSteps(s, n)) \in Nat
  <1>1. IsFiniteSet(1..n) /\ IsFiniteSet(1..MaxReads)
    BY FS_Interval, WebLoginAssumption DEF WebLoginAssumption
  <1>2. IsFiniteSet((1..n) \X (1..MaxReads))
    BY <1>1, FS_Product
  <1>3. ReadSteps(s, n) \in SUBSET ((1..n) \X (1..MaxReads))
    BY DEF ReadSteps
  <1> QED BY <1>2, <1>3, FS_Subset, FS_CardinalityType

(* A connection that comes later takes nothing from the ones before it. *)
LEMMA ReadStepsAppend ==
  ASSUME NEW s \in Seq(Connection), NEW c \in Connection, NEW n \in 0..Len(s)
  PROVE  ReadSteps(Append(s, c), n) = ReadSteps(s, n)
  <1>1. \A i \in 1..n : Append(s, c)[i] = s[i]
    OBVIOUS
  <1> QED BY <1>1 DEF ReadSteps

(* Accepting the first leaves what the others take. *)
LEMMA ReadStepsTail ==
  ASSUME NEW s \in Seq(Connection), NEW n \in 1..Len(s)
  PROVE  Cardinality(ReadSteps(s, n))
           = Head(s).takes + Cardinality(ReadSteps(Tail(s), n - 1))
  <1> DEFINE t == Head(s).takes
             here == ReadSteps(Tail(s), n - 1)
             A == {r \in ReadSteps(s, n) : r[1] = 1}
             B == {r \in ReadSteps(s, n) : r[1] # 1}
             f == [k \in 1..t |-> <<1, k>>]
             g == [r \in here |-> <<r[1] + 1, r[2]>>]
  <1>1. s[1] = Head(s) /\ Head(s) \in Connection /\ t \in 0..MaxReads /\ n - 1 \in Nat
    <2>1. n \in Int /\ 1 <= n /\ n <= Len(s) /\ s # <<>>
      OBVIOUS
    <2>2. s[1] = Head(s) /\ s[1] \in Connection
      BY <2>1
    <2>3. \A c \in Connection : c.takes \in 0..MaxReads
      BY DEF Connection
    <2> QED BY <2>1, <2>2, <2>3
  <1>2. Tail(s) \in Seq(Connection) /\ \A i \in 1..(n - 1) : Tail(s)[i] = s[i + 1]
    <2>1. s # <<>> /\ n - 1 <= Len(s) - 1
      OBVIOUS
    <2> QED BY <2>1
  <1>3. IsFiniteSet(1..t) /\ Cardinality(1..t) = t
    <2> HIDE DEF t
    <2>1. t \in Nat
      BY <1>1, WebLoginAssumption DEF WebLoginAssumption
    <2> QED BY <2>1, FS_Interval
  <1>4. A = {<<1, k>> : k \in 1..t}
    BY <1>1, WebLoginAssumption DEF ReadSteps, WebLoginAssumption
  <1>5. f \in Bijection(1..t, A)
    BY <1>4 DEF Bijection, Injection, Surjection, IsInjective
  <1>6. IsFiniteSet(A) /\ Cardinality(A) = t
    BY <1>3, <1>5, FS_Bijection DEF ExistsBijection
  <1>7. \A r \in B : r[1] \in 2..n /\ r[2] \in 1..MaxReads /\ r = <<r[1], r[2]>>
                     /\ <<r[1] - 1, r[2]>> \in here
    BY <1>2 DEF ReadSteps
  <1>8. \A r \in here : r = <<r[1], r[2]>> /\ r[1] \in Nat /\ <<r[1] + 1, r[2]>> \in B
    BY <1>2 DEF ReadSteps
  <1>9. g \in Bijection(here, B)
    <2> HIDE DEF B, here
    <2>1. g \in [here -> B]
      BY <1>8
    <2>2. \A a, b \in here : g[a] = g[b] => a = b
      BY <1>8
    <2>3. \A r \in B : \E a \in here : g[a] = r
      <3> SUFFICES ASSUME NEW r \in B PROVE g[<<r[1] - 1, r[2]>>] = r
        BY <1>7
      <3> QED BY <1>7
    <2> HIDE DEF g
    <2> QED BY <2>1, <2>2, <2>3 DEF Bijection, Injection, Surjection, IsInjective
  <1>10. IsFiniteSet(here) /\ Cardinality(here) \in Nat
    BY <1>1, <1>2, ReadStepsFinite
  <1>11. IsFiniteSet(B) /\ Cardinality(B) = Cardinality(here)
    BY <1>9, <1>10, FS_Bijection DEF ExistsBijection
  <1>12. A \union B = ReadSteps(s, n) /\ A \intersect B = {}
    OBVIOUS
  <1> HIDE DEF A, B, t, here
  <1>13. Cardinality(A \union B) = Cardinality(A) + Cardinality(B) - Cardinality(A \intersect B)
    BY <1>6, <1>11, FS_Union
  <1>14. Cardinality(ReadSteps(s, n)) = t + Cardinality(here) - 0
    BY <1>6, <1>11, <1>12, <1>13, FS_EmptySet
  <1> QED BY <1>1, <1>10, <1>14, WebLoginAssumption DEF here, t, WebLoginAssumption

(* The login's own code waits as connection i: it is the first reply, and  *)
(* what is ahead of it can be read before the deadline.                    *)
Coming(i) ==
  /\ backlog[i].content = "code" /\ reading \notin Reply
  /\ \A j \in 1..(i - 1) : backlog[j].content \notin Reply
  /\ clock + left + Cardinality(ReadSteps(backlog, i - 1)) < Timeout

(* Such a reply waits, is being read, or was heard. *)
Heard ==
  inTime => \/ step = "waiting" /\ \E i \in DOMAIN backlog : Coming(i)
            \/ step = "waiting" /\ reading = "code" /\ left = 0
            \/ step \in {"reply", "redeem", "loggedIn", "exchangeFailed"} /\ params = "code"
            \/ step = "bindFailed"

(* Nothing is left of a connection that is not being read; there is no     *)
(* reply before one is heard; a browser's connection takes no time.        *)
Calm ==
  /\ reading = "none" => left = 0
  /\ step \in {"idle", "pasting", "waiting", "timeout", "bindFailed", "notReply"} => params = "none"
  /\ \A i \in DOMAIN backlog : backlog[i].content \in Reply => backlog[i].takes = 0

WebLoginInv == WebLoginTypeOK /\ Calm /\ Heard

LEMMA WebLoginStarts == WebLoginInit => WebLoginInv
  <1> SUFFICES ASSUME WebLoginInit PROVE WebLoginInv
    OBVIOUS
  <1>1. backlog \in Seq(Connection) /\ Len(backlog) = 0 /\ DOMAIN backlog = {}
    BY DEF WebLoginInit
  <1>2. WebLoginTypeOK
    <2>1. 0 \in 0..(Timeout + MaxReads) /\ 0 \in 0..MaxReads /\ 0 \in 0..Backlog /\ 0 <= Backlog
      BY WebLoginAssumption DEF WebLoginAssumption
    <2> QED BY <1>1, <2>1 DEF WebLoginInit, WebLoginTypeOK
  <1> QED BY <1>1, <1>2 DEF WebLoginInit, WebLoginInv, Calm, Heard

(* Somebody connects: what waited waits as before, and a reply that counts *)
(* as in time is the last.                                                 *)
LEMMA ConnectKeeps == ASSUME WebLoginInv, Connect PROVE WebLoginInv'
  <1>1. PICK c \in Connection :
          /\ c.content \in Reply => c.takes = 0
          /\ backlog' = Append(backlog, c)
          /\ inTime' = \/ inTime
                       \/ /\ c.content = "code" /\ clock + Wait < Timeout
                          /\ reading \notin Reply
                          /\ \A i \in DOMAIN backlog : backlog[i].content \notin Reply
    BY DEF Connect
  <1>2. /\ step = "waiting" /\ step' = step /\ clock' = clock /\ left' = left
        /\ reading' = reading /\ params' = params /\ burst' = burst + 1
        /\ Len(backlog) < Backlog /\ burst < Backlog
    BY DEF Connect
  <1>3. backlog \in Seq(Connection) /\ clock \in Nat /\ left \in Nat
    BY WebLoginAssumption DEF WebLoginInv, WebLoginTypeOK, WebLoginAssumption
  <1>4. /\ backlog' \in Seq(Connection) /\ Len(backlog') = Len(backlog) + 1
        /\ \A i \in 1..Len(backlog) : backlog'[i] = backlog[i]
        /\ backlog'[Len(backlog) + 1] = c
        /\ DOMAIN backlog = 1..Len(backlog) /\ DOMAIN backlog' = 1..(Len(backlog) + 1)
    BY <1>1, <1>3
  <1>5. WebLoginTypeOK'
    <2>1. inTime' \in BOOLEAN
      BY <1>1
    <2> QED BY <1>2, <1>4, <2>1, WebLoginAssumption DEF WebLoginInv, WebLoginTypeOK, WebLoginAssumption
  <1>6. Calm'
    <2>1. \A i \in 1..(Len(backlog) + 1) : i \in 1..Len(backlog) \/ i = Len(backlog) + 1
      BY <1>3
    <2> QED BY <1>1, <1>2, <1>4, <2>1 DEF WebLoginInv, Calm
  <1>7. \A i \in 1..(Len(backlog) + 1) : ReadSteps(backlog', i - 1) = ReadSteps(backlog, i - 1)
    <2> TAKE i \in 1..(Len(backlog) + 1)
    <2>1. i - 1 \in 0..Len(backlog)
      BY <1>3
    <2> QED BY <1>1, <1>3, <2>1, ReadStepsAppend
  <1>8. ASSUME NEW i \in DOMAIN backlog, Coming(i) PROVE Coming(i)'
    BY <1>2, <1>4, <1>7, <1>8 DEF Coming
  <1>9. PICK n : n = Len(backlog) + 1
    OBVIOUS
  <1>10. ASSUME c.content = "code", clock + Wait < Timeout, reading \notin Reply,
                \A i \in DOMAIN backlog : backlog[i].content \notin Reply
         PROVE  Coming(n)'
    <2>1. Cardinality(ReadSteps(backlog, Len(backlog))) \in Nat
      BY <1>3, ReadStepsFinite
    <2>2. clock + left + Cardinality(ReadSteps(backlog, Len(backlog))) < Timeout
      BY <1>3, <1>10, <2>1, WebLoginAssumption DEF Wait, WebLoginAssumption
    <2>3. n - 1 = Len(backlog) /\ n \in 1..(Len(backlog) + 1)
      BY <1>3, <1>9
    <2>4. ReadSteps(backlog', n - 1) = ReadSteps(backlog, Len(backlog))
      BY <1>7, <2>3
    <2>5. backlog'[n].content = "code"
      BY <1>4, <1>9, <1>10
    <2>6. \A j \in 1..(n - 1) : backlog'[j].content \notin Reply
      BY <1>4, <1>10, <2>3
    <2> QED BY <1>2, <1>10, <2>2, <2>4, <2>5, <2>6 DEF Coming
  <1>11. Heard'
    <2> SUFFICES ASSUME inTime' PROVE Heard'
      BY DEF Heard
    <2>1. CASE inTime
      BY <1>2, <1>4, <1>8, <2>1 DEF WebLoginInv, Heard
    <2>2. CASE ~inTime
      <3>1. Coming(n)'
        BY <1>1, <1>10, <2>2
      <3>2. n \in DOMAIN backlog'
        BY <1>3, <1>4, <1>9
      <3> QED BY <1>2, <3>1, <3>2 DEF Heard
    <2> QED BY <2>1, <2>2
  <1> QED BY <1>5, <1>6, <1>11 DEF WebLoginInv

(* The first is accepted: the reply that is to be heard moves up, or it is *)
(* the one accepted, and then it takes no time.                            *)
LEMMA AcceptKeeps == ASSUME WebLoginInv, Accept PROVE WebLoginInv'
  <1>1. /\ step = "waiting" /\ reading = "none" /\ backlog # <<>>
        /\ reading' = Head(backlog).content /\ left' = Head(backlog).takes
        /\ backlog' = Tail(backlog)
        /\ UNCHANGED <<step, clock, params, burst, inTime>>
    BY DEF Accept
  <1>2. backlog \in Seq(Connection) /\ clock \in Nat /\ left = 0
    BY <1>1, WebLoginAssumption DEF WebLoginInv, WebLoginTypeOK, Calm, WebLoginAssumption
  <1>3. /\ Len(backlog) \in Nat \ {0} /\ backlog[1] = Head(backlog)
        /\ Head(backlog) \in Connection
        /\ backlog' \in Seq(Connection) /\ Len(backlog') = Len(backlog) - 1
        /\ \A i \in 1..(Len(backlog) - 1) : backlog'[i] = backlog[i + 1]
        /\ DOMAIN backlog = 1..Len(backlog) /\ DOMAIN backlog' = 1..(Len(backlog) - 1)
    BY <1>1, <1>2
  <1>4. Head(backlog).content \in Content /\ Head(backlog).takes \in 0..MaxReads
    BY <1>3 DEF Connection
  <1>5. WebLoginTypeOK'
    BY <1>1, <1>3, <1>4, WebLoginAssumption DEF WebLoginInv, WebLoginTypeOK, WebLoginAssumption
  <1>6. Calm'
    <2>1. "none" \notin Content
      BY DEF Content
    <2> QED BY <1>1, <1>3, <1>4, <2>1 DEF WebLoginInv, Calm
  <1>7. ASSUME NEW i \in DOMAIN backlog, Coming(i)
        PROVE  (reading' = "code" /\ left' = 0) \/ (i - 1 \in DOMAIN backlog' /\ Coming(i - 1)')
    <2>1. CASE i = 1
      BY <1>1, <1>3, <1>7, <2>1 DEF Coming, Reply, WebLoginInv, Calm
    <2>2. CASE i # 1
      <3>1. i - 1 \in 1..(Len(backlog) - 1) /\ (i - 1) + 1 = i /\ 1 \in 1..(i - 1)
        BY <1>3, <2>2
      <3>2. backlog'[i - 1].content = "code" /\ reading' \notin Reply
        BY <1>1, <1>3, <1>7, <3>1 DEF Coming
      <3>3. ASSUME NEW j \in 1..((i - 1) - 1) PROVE backlog'[j].content \notin Reply
        <4>1. j \in 1..(Len(backlog) - 1) /\ j + 1 \in 1..(i - 1)
          BY <1>3, <3>1
        <4> QED BY <1>3, <1>7, <4>1 DEF Coming
      <3>4. i - 1 \in 1..Len(backlog)
        BY <1>3, <3>1
      <3>5. Cardinality(ReadSteps(backlog, i - 1))
              = Head(backlog).takes + Cardinality(ReadSteps(backlog', (i - 1) - 1))
        BY <1>1, <1>2, <3>4, ReadStepsTail
      <3>6. Cardinality(ReadSteps(backlog', (i - 1) - 1)) \in Nat
        <4>1. (i - 1) - 1 \in Nat
          BY <3>1
        <4> QED BY <1>3, <4>1, ReadStepsFinite
      <3>7. clock' + left' + Cardinality(ReadSteps(backlog', (i - 1) - 1)) < Timeout
        BY <1>1, <1>2, <1>4, <1>7, <3>5, <3>6, WebLoginAssumption DEF Coming, WebLoginAssumption
      <3> QED BY <1>3, <3>1, <3>2, <3>3, <3>7 DEF Coming
    <2> QED BY <2>1, <2>2
  <1>8. Heard'
    <2>1. reading # "code"
      BY <1>1
    <2> QED BY <1>1, <1>7, <2>1 DEF WebLoginInv, Heard
  <1> QED BY <1>5, <1>6, <1>8 DEF WebLoginInv

(* A step of time is one less to wait for the reply. *)
LEMMA PassKeeps == ASSUME WebLoginInv, Pass PROVE WebLoginInv'
  <1>1. /\ step = "waiting" /\ clock < Timeout + MaxReads
        /\ clock' = clock + 1 /\ burst' = 0
        /\ UNCHANGED <<step, backlog, reading, params, inTime>>
        /\ \/ reading # "none" /\ left > 0 /\ left' = left - 1
           \/ reading = "none" /\ backlog = <<>> /\ left' = left
    BY DEF Pass
  <1>2. clock \in Nat /\ left \in 0..MaxReads /\ backlog \in Seq(Connection)
    BY WebLoginAssumption DEF WebLoginInv, WebLoginTypeOK, WebLoginAssumption
  <1>3. WebLoginTypeOK' /\ Calm'
    BY <1>1, <1>2, WebLoginAssumption DEF WebLoginInv, WebLoginTypeOK, Calm, WebLoginAssumption
  <1>4. ASSUME NEW i \in DOMAIN backlog, Coming(i) PROVE Coming(i)'
    <2>1. i \in Nat \ {0} /\ backlog # <<>>
      BY <1>2
    <2>2. left' = left - 1 /\ left > 0
      BY <1>1, <2>1
    <2>3. Cardinality(ReadSteps(backlog, i - 1)) \in Nat
      BY <1>2, <2>1, ReadStepsFinite
    <2>4. clock' + left' + Cardinality(ReadSteps(backlog, i - 1))
            = clock + left + Cardinality(ReadSteps(backlog, i - 1))
      BY <1>1, <1>2, <2>2, <2>3, WebLoginAssumption DEF WebLoginAssumption
    <2> QED BY <1>1, <1>4, <2>4 DEF Coming
  <1>5. Heard'
    <2>1. ~(reading = "code" /\ left = 0)
      BY <1>1, <1>2
    <2> QED BY <1>1, <1>4, <2>1 DEF WebLoginInv, Heard
  <1> QED BY <1>3, <1>5 DEF WebLoginInv

(* Only the reply that was due ends the wait. *)
LEMMA EndOfWaitKeeps == ASSUME WebLoginInv, Handle \/ GiveUp PROVE WebLoginInv'
  <1>1. clock \in Nat /\ left \in 0..MaxReads /\ backlog \in Seq(Connection)
    BY WebLoginAssumption DEF WebLoginInv, WebLoginTypeOK, WebLoginAssumption
  <1>2. CASE Handle
    <2>1. WebLoginTypeOK' /\ Calm'
      BY <1>2 DEF Handle, IsReply, Reply, Content, WebLoginInv, WebLoginTypeOK, Calm
    <2>2. ASSUME NEW i \in DOMAIN backlog, Coming(i) PROVE step' = step /\ Coming(i)'
      BY <1>2, <2>2 DEF Handle, IsReply, Reply, Coming
    <2>3. Heard'
      BY <1>2, <2>2 DEF Handle, IsReply, Reply, WebLoginInv, Heard
    <2> QED BY <2>1, <2>3 DEF WebLoginInv
  <1>3. CASE GiveUp
    <2>1. \A i \in DOMAIN backlog : ~Coming(i)
      <3> SUFFICES ASSUME NEW i \in DOMAIN backlog, Coming(i) PROVE FALSE
        OBVIOUS
      <3>1. i - 1 \in Nat
        BY <1>1
      <3>2. Cardinality(ReadSteps(backlog, i - 1)) \in Nat
        BY <1>1, <3>1, ReadStepsFinite
      <3> QED BY <1>1, <1>3, <3>2, WebLoginAssumption DEF GiveUp, Late, Coming, WebLoginAssumption
    <2>2. ~inTime
      BY <1>3, <2>1 DEF GiveUp, WebLoginInv, Heard
    <2> QED BY <1>3, <2>2 DEF GiveUp, WebLoginInv, WebLoginTypeOK, Calm, Heard, Over
  <1> QED BY <1>2, <1>3

LEMMA WebLoginKeeps == WebLoginInv /\ [WebLoginNext]_loginVars => WebLoginInv'
  <1> SUFFICES ASSUME WebLoginInv, [WebLoginNext]_loginVars PROVE WebLoginInv'
    OBVIOUS
  <1>1. CASE Listen \/ PasteInstead
    BY <1>1 DEF Listen, PasteInstead, WebLoginInv, WebLoginTypeOK, Calm, Heard
  <1>2. CASE Paste
    BY <1>2 DEF Paste, WebLoginInv, WebLoginTypeOK, Calm, Heard, Over
  <1>3. CASE Verify
    BY <1>3 DEF Verify, WebLoginInv, WebLoginTypeOK, Calm, Heard, Over
  <1>4. CASE Redeem
    BY <1>4 DEF Redeem, WebLoginInv, WebLoginTypeOK, Calm, Heard, Over
  <1>5. CASE UNCHANGED loginVars
    <2>1. \A i \in DOMAIN backlog : Coming(i) => Coming(i)'
      BY <1>5 DEF loginVars, Coming
    <2> QED BY <1>5, <2>1 DEF loginVars, WebLoginInv, WebLoginTypeOK, Calm, Heard
  <1>6. CASE BindFailed
    BY <1>6 DEF BindFailed, WebLoginInv, WebLoginTypeOK, Calm, Heard, Over
  <1> QED BY <1>1, <1>2, <1>3, <1>4, <1>5, <1>6, ConnectKeeps, AcceptKeeps, PassKeeps, EndOfWaitKeeps
          DEF WebLoginNext, LoginProgress

(* Whatever else connects: the browser's reply that comes behind no other, *)
(* with time before the deadline to read what is ahead of it, is the one   *)
(* the login goes on with, unless accept fails.                            *)
THEOREM ReplyIsHeard == WebLoginSpec => []ReplyHeard
  <1>1. WebLoginInv => ReplyHeard
    BY DEF WebLoginInv, Calm, Heard, ReplyHeard
  <1> QED BY <1>1, WebLoginStarts, WebLoginKeeps, PTL DEF WebLoginSpec

(* A connection is accepted before the deadline and lasts MaxReads steps   *)
(* at most, however many wait behind it.                                   *)
Punctual ==
  /\ reading # "none" => clock + left < Timeout + MaxReads
  /\ clock <= Timeout \/ clock < Timeout + MaxReads

LEMMA PunctualKeeps == WebLoginTypeOK /\ Punctual /\ [WebLoginNext]_loginVars => Punctual'
  <1> SUFFICES ASSUME WebLoginTypeOK, Punctual, [WebLoginNext]_loginVars PROVE Punctual'
    OBVIOUS
  <1>1. /\ Timeout \in Nat /\ MaxReads \in Nat
        /\ clock \in Nat /\ left \in 0..MaxReads /\ backlog \in Seq(Connection)
    BY WebLoginAssumption DEF WebLoginTypeOK, WebLoginAssumption
  <1>2. CASE Accept
    <2>1. backlog # <<>> /\ left' = Head(backlog).takes /\ clock < Timeout /\ clock' = clock
      BY <1>1, <1>2 DEF Accept, Late
    <2>2. left' \in 0..MaxReads
      <3>1. Head(backlog) \in Connection
        BY <1>1, <2>1
      <3> QED BY <2>1, <3>1 DEF Connection
    <2> QED BY <1>1, <2>1, <2>2 DEF Punctual
  <1>3. CASE Pass
    BY <1>1, <1>3 DEF Pass, Late, Punctual
  <1>4. CASE Handle
    BY <1>4 DEF Handle, Punctual
  <1>5. CASE UNCHANGED <<clock, left, reading>>
    BY <1>5 DEF Punctual
  <1>6. Accept \/ Pass \/ Handle \/ UNCHANGED <<clock, left, reading>>
    BY DEF WebLoginNext, LoginProgress, loginVars, Listen, PasteInstead, BindFailed, Paste, Connect, GiveUp,
           Verify, Redeem
  <1> QED BY <1>2, <1>3, <1>4, <1>5, <1>6

(* callback.rs 95-100: whoever keeps connecting, the wait outlasts its     *)
(* deadline by less than one connection.  So the bound the model sets its  *)
(* clock is never what keeps a connection from being read to its end.      *)
THEOREM WaitIsBounded ==
  WebLoginSpec => [](/\ clock <= Timeout \/ clock < Timeout + MaxReads
                     /\ reading # "none" /\ left > 0 => clock < Timeout + MaxReads)
  <1>1. WebLoginInit => Punctual
    BY WebLoginAssumption DEF WebLoginInit, Punctual, WebLoginAssumption
  <1>2. WebLoginTypeOK /\ Punctual =>
          /\ clock <= Timeout \/ clock < Timeout + MaxReads
          /\ reading # "none" /\ left > 0 => clock < Timeout + MaxReads
    BY WebLoginAssumption DEF WebLoginTypeOK, Punctual, WebLoginAssumption
  <1>3. WebLoginInv => WebLoginTypeOK
    BY DEF WebLoginInv
  <1> QED BY <1>1, <1>2, <1>3, PunctualKeeps, WebLoginStarts, WebLoginKeeps, PTL DEF WebLoginSpec

-----------------------------------------------------------------------------
(* Porcelain lets the families move one at a time, so what was shown of    *)
(* each holds where all are there: of a command of one family, whatever    *)
(* is left of the others.                                                  *)
LEMMA FamilySteps ==
  [PorcelainNext]_porcelainVars =>
    /\ [GitNext]_gitVars /\ [ReleasesNext]_releaseVars /\ [WebLoginNext]_loginVars
    /\ [FanOutNext]_fanVars /\ [EditsNext]_editVars /\ [DraftsNext]_draftVars
    /\ [ContextNext]_contextVars
  BY DEF PorcelainNext, porcelainVars, Git, Release, Login, Fan, Editing, Drafting, Choosing

THEOREM Families ==
  PorcelainSpec => /\ GitSpec /\ ReleasesSpec /\ WebLoginSpec /\ FanOutSpec
                   /\ EditsSpec /\ DraftsSpec /\ ContextSpec
  <1>1. PorcelainInit => /\ GitInit /\ ReleasesInit /\ WebLoginInit /\ FanOutInit
                         /\ EditsInit /\ DraftsInit /\ ContextInit
    BY DEF PorcelainInit
  <1> QED BY <1>1, FamilySteps, PTL DEF PorcelainSpec, GitSpec, ReleasesSpec, WebLoginSpec,
             FanOutSpec, EditsSpec, DraftsSpec, ContextSpec

(* What the run of Porcelain checks of these families, for every instance. *)
COROLLARY PorcelainSafe ==
  PorcelainSpec => /\ []OneAssetPerName /\ []OkMeansDone /\ []ReplyHeard /\ []ReportsTheFirst
                   /\ []RerunSafe /\ OthersKept
  BY Families, TwinsHaveACause, SuccessMeansDone, ReplyIsHeard, FirstFailure, RerunsSafe,
     EditsKeepOthers, PTL
=============================================================================
