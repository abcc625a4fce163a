------------------------------ MODULE Paginate ------------------------------
(***************************************************************************)
(* One walk over a paginated collection: the Paginator of                  *)
(* http/paginate.rs and its two drivers, ItemStream (http/mod.rs), which   *)
(* follows a Link URL verbatim, and `fjo api --paginate`                   *)
(* (api/paginate.rs), which only counts pages.  The server clamps `limit`  *)
(* without saying so; any response may come without its Link or            *)
(* X-Total-Count header; items may be appended while the walk is under way.*)
(***************************************************************************)
EXTENDS Integers, Sequences

CONSTANTS
  MaxPages,     \* MAX_PAGES, 10000 in the code
  MaxItems,     \* bound: how large the collection grows
  ServerMax,    \* the page size the server clamps `limit` to
  DefaultPage,  \* the page size it uses when no `limit` is sent
  Reported,     \* max_response_items as the probe may have understood it
  Requested,    \* page sizes asked for; Unset asks for none
  UserLimits,   \* values of --limit; Unset is no limit
  Drivers,      \* a subset of {"stream", "api"}
  BasePages,    \* the `page` of the first request, 1 if it has none
  Honours,      \* does the server honour ?page: a subset of BOOLEAN
  Strips        \* does a proxy strip both headers always: a subset of BOOLEAN

Unset == -1
Pos == Nat \ {0}

ASSUME PaginateAssumption ==
  /\ MaxPages \in Pos /\ MaxItems \in Nat /\ ServerMax \in Pos /\ DefaultPage \in Pos
  /\ Reported \subseteq Pos
  /\ Requested \subseteq Pos \union {Unset}
  /\ UserLimits \subseteq Nat \union {Unset}
  /\ Drivers \subseteq {"stream", "api"}
  /\ BasePages \subseteq Pos
  /\ Honours \subseteq BOOLEAN
  /\ Strips \subseteq BOOLEAN

VARIABLES
  walk,        \* what was asked for and of whom; never changes
  n,           \* how many items the collection has
  cumulative,  \* Paginator: items received
  first,       \* Paginator: size of the first page, Unset before it
  total,       \* Paginator: the last X-Total-Count seen, or Unset
  pages,       \* Paginator: pages_seen
  next,        \* the page to request; 0 is the request as it was given
  out,         \* the items kept, in order
  status       \* "walking", "failed", "runaway" or a reason to stop
pageVars == <<walk, n, cumulative, first, total, pages, next, out, status>>
paginator == <<cumulative, first, total, pages>>

Reasons == {"linkExhausted", "emptyPage", "userLimit", "totalReached", "shortPage"}

Walks == [driver : {"stream", "api"}, limit : Nat \union {Unset},
          sent : Pos \union {Unset}, base : Pos,
          honours : BOOLEAN, strips : BOOLEAN, n0 : Nat]

PageTypeOK ==
  /\ walk \in Walks
  /\ n \in Nat /\ walk.n0 <= n
  /\ cumulative \in Nat
  /\ first \in Nat \union {Unset}
  /\ total \in Nat \union {Unset}
  /\ pages \in Nat /\ pages <= MaxPages
  /\ next \in Nat
  /\ out \in Seq(Pos)
  /\ status \in {"walking", "failed", "runaway"} \union Reasons

Lesser(a, b) == IF a <= b THEN a ELSE b

-----------------------------------------------------------------------------
(* The request. *)

(* effective_limit: nothing unless the instance said what it honours. *)
EffectiveLimit(requested, known, max) ==
  IF ~known THEN Unset
  ELSE IF requested = Unset THEN max ELSE Lesser(requested, max)

(* The `limit` a walk sends.  One that was typed into the endpoint of      *)
(* `fjo api` is left as it is.                                             *)
Sent(driver, requested, known, max) ==
  IF driver = "api" /\ requested # Unset THEN requested
  ELSE EffectiveLimit(requested, known, max)

PageInit ==
  /\ \E d \in Drivers, l \in UserLimits, r \in Requested, known \in BOOLEAN,
        max \in Reported, b \in BasePages, h \in Honours, s \in Strips, k \in 0..MaxItems :
       walk = [driver |-> d, limit |-> l, sent |-> Sent(d, r, known, max), base |-> b,
               honours |-> h, strips |-> s, n0 |-> k]
  /\ n = walk.n0
  /\ cumulative = 0
  /\ first = Unset
  /\ total = Unset
  /\ pages = 0
  /\ next = 0
  /\ out = <<>>
  /\ status = "walking"

Limited == walk.limit # Unset

-----------------------------------------------------------------------------
(* The server (external). *)

Size == IF walk.sent = Unset THEN DefaultPage ELSE Lesser(walk.sent, ServerMax)

RequestedPage == IF next = 0 THEN walk.base ELSE next
Served == IF walk.honours THEN RequestedPage ELSE 1
Offset == (Served - 1) * Size
Returned == IF n <= Offset THEN 0 ELSE Lesser(Size, n - Offset)

(* The Link header: absent, with a next, or without ("end").  It may offer *)
(* a next page that turns out to be empty, but never hides one.            *)
Links ==
  {"absent"} \union
  (IF walk.strips THEN {}
   ELSE IF n > Offset + Returned THEN {"next"} ELSE {"next", "end"})

TotalCounts == {Unset} \union (IF walk.strips THEN {} ELSE {n})

-----------------------------------------------------------------------------
(* Paginator. *)

\* Mutant: the limit is applied without regard to what is already there.
KeepPerPage(returned) == IF Limited THEN Lesser(returned, walk.limit) ELSE returned

(* Paginator::keep: how much of a page fits under --limit. *)
Keep(returned) ==
  IF ~Limited THEN returned
  ELSE IF walk.limit <= cumulative THEN 0
  ELSE Lesser(returned, walk.limit - cumulative)

\* Mutant: a page shorter than the limit that was asked for is the last.
ShortRequested(link, returned) ==
  link = "absent" /\ walk.sent # Unset /\ returned < walk.sent

(* Rule (c), against the first page as observed before this one. *)
Short(link, returned) == link = "absent" /\ first # Unset /\ returned < first

\* Mutant: the ceiling truncates.
VerdictTruncates(link, returned, known) ==
  IF link = "end" THEN "linkExhausted"
  ELSE IF returned = 0 THEN "emptyPage"
  ELSE IF Limited /\ cumulative + returned >= walk.limit THEN "userLimit"
  ELSE IF known # Unset /\ cumulative + returned >= known THEN "totalReached"
  ELSE IF Short(link, returned) \/ pages + 1 >= MaxPages THEN "shortPage"
  ELSE "walking"

(* Paginator::advance: the six rules, in the order they are tried.  known  *)
(* is the total as of this page.                                           *)
Verdict(link, returned, known) ==
  IF link = "end" THEN "linkExhausted"
  ELSE IF returned = 0 THEN "emptyPage"
  ELSE IF Limited /\ cumulative + returned >= walk.limit THEN "userLimit"
  ELSE IF known # Unset /\ cumulative + returned >= known THEN "totalReached"
  ELSE IF Short(link, returned) THEN "shortPage"
  ELSE IF pages + 1 >= MaxPages THEN "runaway"
  ELSE "walking"

\* Mutant: the page after a lost Link header is counted from the first.
NextPageIntent(link) == IF walk.driver = "stream" /\ link = "next" THEN RequestedPage + 1 ELSE 2

(* Where the driver goes next: the stream follows the Link, which names    *)
(* the page after the one it came with; without one, or in the walk of     *)
(* `fjo api`, the pages seen are counted.                                  *)
NextPage(link) ==
  IF walk.driver = "stream" /\ link = "next" THEN RequestedPage + 1 ELSE pages + 1 + 1

-----------------------------------------------------------------------------
(* What a walk that ends in an error hands over: the stream has yielded    *)
(* its items already, `fjo api` prints nothing.                            *)
AfterError(items) == IF walk.driver = "api" THEN <<>> ELSE items

\* Mutant: the satisfied limit is noticed and the loop goes round.
AlreadySatisfiedIdle ==
  /\ status = "walking"
  /\ walk.driver = "stream" /\ Limited /\ cumulative >= walk.limit
  /\ UNCHANGED pageVars

(* The stream asks for nothing when the limit is already satisfied. *)
AlreadySatisfied ==
  /\ status = "walking"
  /\ walk.driver = "stream" /\ Limited /\ cumulative >= walk.limit
  /\ status' = "userLimit"
  /\ UNCHANGED <<walk, n, paginator, next, out>>

(* One page: requested, answered, trimmed and judged. *)
Fetch ==
  /\ status = "walking"
  /\ ~(walk.driver = "stream" /\ Limited /\ cumulative >= walk.limit)
  /\ \E link \in Links, count \in TotalCounts :
       LET known  == IF count = Unset THEN total ELSE count
           kept   == out \o [i \in 1..Keep(Returned) |-> Offset + i]
       IN  /\ status' = Verdict(link, Returned, known)
           /\ out' = IF status' = "runaway" THEN AfterError(kept) ELSE kept
           /\ total' = known
           /\ next' = NextPage(link)
  /\ cumulative' = cumulative + Returned
  /\ first' = IF first = Unset THEN Returned ELSE first
  /\ pages' = pages + 1
  /\ UNCHANGED <<walk, n>>

(* The request fails, or the page does not decode. *)
FetchFails ==
  /\ status = "walking"
  /\ ~(walk.driver = "stream" /\ Limited /\ cumulative >= walk.limit)
  /\ status' = "failed"
  /\ out' = AfterError(out)
  /\ UNCHANGED <<walk, n, paginator, next>>

(* Someone adds an item at the end of the collection. *)
Grow ==
  /\ status = "walking"
  /\ n < MaxItems
  /\ n' = n + 1
  /\ UNCHANGED <<walk, paginator, next, out, status>>

PageNext == AlreadySatisfied \/ Fetch \/ FetchFails \/ Grow

PageSpec == PageInit /\ [][PageNext]_pageVars

-----------------------------------------------------------------------------
(* Properties. *)

(* paginate.rs 12-21, 313-320: whichever headers are lost on the way, a    *)
(* server that honours ?page has its items delivered in order, none twice, *)
(* and none of those skipped that were there when the walk began.          *)
EachOnce ==
  walk.honours =>
    /\ \A i, j \in 1..Len(out) : i < j => out[i] < out[j]
    /\ \A i \in 1..Len(out) :
         (walk.base - 1) * Size + i <= walk.n0 => out[i] = (walk.base - 1) * Size + i

(* paginate.rs 12-29: a walk that ends well has everything that was there  *)
(* when it began, or as much of it as --limit asked for.                   *)
NothingLost ==
  walk.honours /\ walk.base = 1 /\ status \in Reasons
    => Len(out) >= (IF Limited THEN Lesser(walk.limit, walk.n0) ELSE walk.n0)

(* paginate.rs 283, 326: --limit caps the items of all pages together.     *)
LimitRespected == Limited => Len(out) <= walk.limit

(* paginate.rs 44-57: a server that serves page 1 for ever, without either *)
(* header, is never mistaken for one that is done.                         *)
RunawayIsAnError ==
  ~walk.honours /\ walk.strips /\ ~Limited /\ walk.n0 > 0 => status \notin Reasons
=============================================================================
