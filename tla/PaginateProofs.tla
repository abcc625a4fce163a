--------------------------- MODULE PaginateProofs ---------------------------
(***************************************************************************)
(* Proofs about Paginate, for every page size, limit, collection and order *)
(* of lost headers.  What carries them is how the number of items received *)
(* relates to the boundary of the pages seen: they agree, or a page came   *)
(* short, and then everything that was there at the start has been seen.   *)
(***************************************************************************)
EXTENDS Paginate, SequenceTheorems, TLAPS

(* What one more page adds to the boundary. *)
LEMMA Boundary ==
  ASSUME NEW k \in Nat, NEW s \in Nat
  PROVE  k * s \in Nat /\ (k + 1) * s = k * s + s
  OBVIOUS

(* The request and the page it is answered with. *)
LEMMA PageFacts ==
  ASSUME PageTypeOK
  PROVE  /\ Size \in Pos /\ RequestedPage \in Pos /\ Served \in Pos
         /\ Offset \in Nat /\ Returned \in Nat /\ Returned <= Size
         /\ Returned < Size => n <= Offset + Returned
         /\ Keep(Returned) \in 0..Returned
  <1>1. Size \in Pos
    BY PaginateAssumption DEF PageTypeOK, Walks, Size, Lesser, Pos, Unset, PaginateAssumption
  <1>2. RequestedPage \in Pos /\ Served \in Pos
    BY DEF PageTypeOK, Walks, RequestedPage, Served, Pos
  <1>3. Offset \in Nat
    BY <1>1, <1>2, Boundary DEF Offset, Pos
  <1>4. Returned \in Nat /\ Returned <= Size /\ (Returned < Size => n <= Offset + Returned)
    BY <1>1, <1>3 DEF PageTypeOK, Returned, Lesser, Pos
  <1>5. Keep(Returned) \in 0..Returned
    BY <1>4 DEF PageTypeOK, Walks, Keep, Limited, Lesser, Unset
  <1> QED BY <1>1, <1>2, <1>3, <1>4, <1>5

-----------------------------------------------------------------------------
(* The invariant. *)

Errors == {"failed", "runaway"}

(* The page to ask for is the one after the pages seen. *)
Asked ==
  status = "walking" => pages < MaxPages /\ (walk.base = 1 => RequestedPage = pages + 1)

Lengths ==
  status \notin Errors =>
    Len(out) = IF Limited THEN Lesser(cumulative, walk.limit) ELSE cumulative

Heads ==
  /\ first # Unset => first <= Size /\ (~walk.honours => first <= n)
  /\ total # Unset => total >= walk.n0 /\ ~walk.strips

Reach ==
  walk.honours /\ walk.base = 1 =>
    /\ cumulative <= pages * Size
    /\ cumulative = pages * Size \/ cumulative >= walk.n0

Ordered ==
  walk.honours /\ walk.base = 1 =>
    /\ \A i, j \in 1..Len(out) : i < j => out[i] < out[j]
    /\ \A i \in 1..Len(out) : out[i] <= pages * Size /\ (i <= walk.n0 => out[i] = i)

IInv ==
  /\ PageTypeOK /\ Asked /\ Lengths /\ Heads /\ Reach /\ Ordered
  /\ LimitRespected /\ NothingLost /\ RunawayIsAnError

(* Before the first request. *)
LEMMA InitInvariant == PageInit => IInv
<1> SUFFICES ASSUME PageInit PROVE IInv
  OBVIOUS
<1>1. PageTypeOK
  <2>1. PICK d \in Drivers, l \in UserLimits, r \in Requested, known \in BOOLEAN,
             max \in Reported, b \in BasePages, h \in Honours, s \in Strips, k \in 0..MaxItems :
          walk = [driver |-> d, limit |-> l, sent |-> Sent(d, r, known, max), base |-> b,
                  honours |-> h, strips |-> s, n0 |-> k]
    BY DEF PageInit
  <2>2. Sent(d, r, known, max) \in Pos \union {Unset}
    BY PaginateAssumption DEF PaginateAssumption, Sent, EffectiveLimit, Lesser
  <2>3. walk \in Walks
    BY <2>1, <2>2, PaginateAssumption DEF PaginateAssumption, Walks
  <2> QED
    BY <2>3, PaginateAssumption DEF PaginateAssumption, PageInit, PageTypeOK, Walks, Pos, Reasons
<1>2. Size \in Pos
  BY <1>1, PageFacts
<1>3. Asked
  BY <1>1, PaginateAssumption DEF PaginateAssumption, PageInit, Asked, RequestedPage, Pos
<1>4. Lengths /\ LimitRespected
  BY <1>1 DEF PageInit, Lengths, LimitRespected, Limited, Lesser, PageTypeOK, Walks, Unset
<1>5. Heads /\ Ordered /\ NothingLost /\ RunawayIsAnError
  BY DEF PageInit, Heads, Ordered, NothingLost, RunawayIsAnError, Reasons, Unset
<1>6. Reach
  BY <1>2, Boundary DEF PageInit, Reach, Pos
<1> QED BY <1>1, <1>3, <1>4, <1>5, <1>6 DEF IInv

-----------------------------------------------------------------------------
(* One page.  Where the walk stands after it: received items, boundary and *)
(* kept items, apart from the verdict.                                     *)

(* The collection ends where the page ends, if the page came short. *)
LEMMA ReachKept ==
  ASSUME IInv, walk.honours, walk.base = 1, status = "walking"
  PROVE  /\ Offset = pages * Size
         /\ cumulative + Returned <= (pages + 1) * Size
         /\ \/ cumulative + Returned = (pages + 1) * Size
            \/ cumulative + Returned >= walk.n0
         /\ n <= Offset + Returned => cumulative + Returned >= walk.n0
<1>1. RequestedPage = pages + 1 /\ Served = pages + 1 /\ pages \in Nat
  BY DEF IInv, Asked, Served, PageTypeOK
<1>2. Offset = pages * Size
  BY <1>1 DEF Offset
<1>3. /\ (pages + 1) * Size = pages * Size + Size
      /\ pages * Size \in Nat /\ Size \in Nat
  BY <1>1, PageFacts, Boundary DEF IInv, Pos
<1>4. cumulative \in Nat /\ walk.n0 \in Nat /\ n \in Nat /\ walk.n0 <= n
  BY DEF IInv, PageTypeOK, Walks
<1>5. /\ Returned \in Nat /\ Returned <= Size
      /\ Returned < Size => n <= Offset + Returned
  BY PageFacts DEF IInv
<1>6. /\ cumulative <= pages * Size
      /\ cumulative = pages * Size \/ cumulative >= walk.n0
  BY DEF IInv, Reach
<1> HIDE DEF IInv
<1> DEFINE b == pages * Size
           c == (pages + 1) * Size
<1> HIDE DEF b, c
<1>7. /\ b \in Nat /\ c = b + Size /\ Size \in Nat /\ Offset = b
      /\ cumulative <= b /\ (cumulative = b \/ cumulative >= walk.n0)
  BY <1>2, <1>3, <1>6 DEF b, c
<1>8. /\ cumulative + Returned <= c
      /\ cumulative + Returned = c \/ cumulative + Returned >= walk.n0
      /\ n <= Offset + Returned => cumulative + Returned >= walk.n0
  BY <1>4, <1>5, <1>7
<1> QED BY <1>2, <1>8 DEF c

(* Appending the first k items after position o. *)
Appended(o, k) == out \o [i \in 1..k |-> o + i]

LEMMA AppendedFacts ==
  ASSUME out \in Seq(Pos), NEW o \in Nat, NEW k \in Nat
  PROVE  /\ Appended(o, k) \in Seq(Pos)
         /\ Len(Appended(o, k)) = Len(out) + k
         /\ \A i \in 1..Len(out) : Appended(o, k)[i] = out[i]
         /\ \A i \in 1..Len(out) + k : i > Len(out) => Appended(o, k)[i] = o + (i - Len(out))
<1> DEFINE page == [i \in 1..k |-> o + i]
<1>1. page \in Seq(Pos) /\ Len(page) = k /\ \A i \in 1..k : page[i] = o + i
  BY DEF Pos
<1> HIDE DEF page
<1>2. Appended(o, k) = out \o page
  BY DEF Appended, page
<1>3. Appended(o, k) \in Seq(Pos) /\ Len(Appended(o, k)) = Len(out) + k
  BY <1>1, <1>2, ConcatProperties
<1>4. \A i \in 1..Len(out) : Appended(o, k)[i] = out[i]
  BY <1>1, <1>2
<1>5. ASSUME NEW i \in 1..Len(out) + k, i > Len(out)
      PROVE  Appended(o, k)[i] = o + (i - Len(out))
  <2>1. Len(out) \in Nat /\ i - Len(out) \in 1..k
    BY <1>5
  <2>2. Appended(o, k)[i] = page[i - Len(out)]
    BY <1>1, <1>2, <1>5, <2>1
  <2> QED BY <1>1, <2>1, <2>2
<1> QED BY <1>3, <1>4, <1>5

(* What is kept of a page: the limit counts over all pages, and the order  *)
(* of the collection is the order of delivery.                             *)
LEMMA KeptFacts ==
  ASSUME IInv, status = "walking", NEW kept, kept = Appended(Offset, Keep(Returned))
  PROVE  /\ kept \in Seq(Pos)
         /\ Len(kept) = IF Limited THEN Lesser(cumulative + Returned, walk.limit)
                        ELSE cumulative + Returned
         /\ walk.honours /\ walk.base = 1 =>
              /\ \A i, j \in 1..Len(kept) : i < j => kept[i] < kept[j]
              /\ \A i \in 1..Len(kept) :
                   kept[i] <= (pages + 1) * Size /\ (i <= walk.n0 => kept[i] = i)
<1> DEFINE o == Offset
           k == Keep(Returned)
<1>1. /\ out \in Seq(Pos) /\ o \in Nat /\ k \in Nat /\ k <= Returned /\ Returned \in Nat
      /\ Returned <= Size /\ Size \in Nat /\ pages \in Nat
      /\ cumulative \in Nat /\ walk.n0 \in Nat /\ Len(out) \in Nat
  BY PageFacts DEF IInv, PageTypeOK, Walks, Pos
<1>2. Len(out) = IF Limited THEN Lesser(cumulative, walk.limit) ELSE cumulative
  BY DEF IInv, Lengths, Errors
<1>3. Limited => walk.limit \in Nat
  BY DEF IInv, PageTypeOK, Walks, Limited
<1>4. k = IF ~Limited THEN Returned
          ELSE IF walk.limit <= cumulative THEN 0
          ELSE Lesser(Returned, walk.limit - cumulative)
  BY DEF Keep
<1>5. k > 0 => Len(out) = cumulative
  BY <1>1, <1>2, <1>3, <1>4 DEF Lesser
<1>6. Len(out) + k = IF Limited THEN Lesser(cumulative + Returned, walk.limit)
                     ELSE cumulative + Returned
  BY <1>1, <1>2, <1>3, <1>4 DEF Lesser
<1> HIDE DEF o, k
<1>7. kept = Appended(o, k)
  BY DEF o, k
<1>8. /\ kept \in Seq(Pos) /\ Len(kept) = Len(out) + k
      /\ \A i \in 1..Len(out) : kept[i] = out[i]
      /\ \A i \in 1..Len(out) + k : i > Len(out) => kept[i] = o + (i - Len(out))
  <2>1. out \in Seq(Pos) /\ o \in Nat /\ k \in Nat
    BY <1>1
  <2>2. /\ Appended(o, k) \in Seq(Pos)
        /\ Len(Appended(o, k)) = Len(out) + k
        /\ \A i \in 1..Len(out) : Appended(o, k)[i] = out[i]
        /\ \A i \in 1..Len(out) + k : i > Len(out) => Appended(o, k)[i] = o + (i - Len(out))
    BY <2>1, AppendedFacts
  <2> QED BY <1>7, <2>2
<1>9. ASSUME walk.honours, walk.base = 1
      PROVE  /\ \A i, j \in 1..Len(kept) : i < j => kept[i] < kept[j]
             /\ \A i \in 1..Len(kept) :
                  kept[i] <= (pages + 1) * Size /\ (i <= walk.n0 => kept[i] = i)
  <2> DEFINE b == pages * Size
  <2>1. (pages + 1) * Size = b + Size /\ b \in Nat /\ o = b
    BY <1>1, <1>9, Boundary, ReachKept DEF o
  <2>2. cumulative <= b /\ (cumulative = b \/ cumulative >= walk.n0)
    BY <1>9 DEF IInv, Reach
  <2>3. /\ \A i, j \in 1..Len(out) : i < j => out[i] < out[j]
        /\ \A i \in 1..Len(out) : out[i] <= b /\ (i <= walk.n0 => out[i] = i)
    BY <1>9 DEF IInv, Ordered
  <2>4. \A i \in 1..Len(out) : out[i] \in Nat
    BY <1>1 DEF Pos
  <2> HIDE DEF b
  <2>5. ASSUME NEW i \in 1..Len(kept)
        PROVE  kept[i] <= b + Size /\ (i <= walk.n0 => kept[i] = i)
    <3>1. CASE i <= Len(out)
      BY <1>1, <1>8, <2>1, <2>3, <2>4, <3>1
    <3>2. CASE i > Len(out)
      <4>1. kept[i] = b + (i - Len(out)) /\ i \in Nat /\ i <= Len(out) + k /\ k > 0
        BY <1>1, <1>8, <2>1, <3>2
      <4>2. i <= walk.n0 => Len(out) = b
        BY <1>1, <1>5, <2>1, <2>2, <3>2, <4>1
      <4> QED BY <1>1, <2>1, <4>1, <4>2
    <3> QED BY <1>1, <3>1, <3>2
  <2>6. ASSUME NEW i \in 1..Len(kept), NEW j \in 1..Len(kept), i < j
        PROVE  kept[i] < kept[j]
    <3>1. CASE j <= Len(out)
      BY <1>1, <1>8, <2>3, <2>6, <3>1
    <3>2. CASE j > Len(out)
      <4>1. kept[j] = b + (j - Len(out))
        BY <1>8, <2>1, <3>2
      <4>2. CASE i <= Len(out)
        <5>1. kept[i] <= b /\ kept[i] \in Nat
          BY <1>1, <1>8, <2>3, <2>4, <4>2
        <5> QED BY <1>1, <2>1, <3>2, <4>1, <5>1
      <4>3. CASE i > Len(out)
        <5>1. kept[i] = b + (i - Len(out))
          BY <1>8, <2>1, <4>3
        <5> QED BY <1>1, <2>1, <2>6, <4>1, <5>1
      <4> QED BY <1>1, <4>2, <4>3
    <3> QED BY <1>1, <3>1, <3>2
  <2> QED BY <2>1, <2>5, <2>6
<1> QED BY <1>6, <1>8, <1>9

(* The items kept of an error are those there were, or none. *)
LEMMA FetchInvariant == ASSUME IInv, Fetch PROVE IInv'
<1> DEFINE kept == Appended(Offset, Keep(Returned))
<1>1. /\ status = "walking" /\ walk' = walk /\ n' = n
      /\ cumulative' = cumulative + Returned
      /\ first' = IF first = Unset THEN Returned ELSE first
      /\ pages' = pages + 1
  BY DEF Fetch
<1>2. PICK link \in Links, count \in TotalCounts :
         LET known == IF count = Unset THEN total ELSE count
         IN  /\ status' = Verdict(link, Returned, known)
             /\ out' = IF status' = "runaway" THEN AfterError(kept) ELSE kept
             /\ total' = known
             /\ next' = NextPage(link)
  BY DEF Fetch, Appended
<1>3. /\ Size \in Nat /\ Size > 0 /\ Returned \in Nat /\ Returned <= Size
      /\ Returned < Size => n <= Offset + Returned
      /\ RequestedPage \in Nat /\ RequestedPage > 0 /\ Offset \in Nat
  BY PageFacts DEF IInv, Pos
<1>4. /\ walk \in Walks /\ n \in Nat /\ walk.n0 \in Nat /\ walk.n0 <= n
      /\ cumulative \in Nat /\ pages \in Nat /\ pages < MaxPages /\ MaxPages \in Nat
      /\ first \in Nat \union {Unset} /\ total \in Nat \union {Unset}
      /\ Limited => walk.limit \in Nat
  BY <1>1, PaginateAssumption
     DEF PaginateAssumption, IInv, PageTypeOK, Walks, Asked, Limited, Pos
<1>5. Size' = Size /\ Limited' = Limited
  BY <1>1 DEF Size, Limited
<1>6. /\ kept \in Seq(Pos)
      /\ Len(kept) = IF Limited THEN Lesser(cumulative + Returned, walk.limit)
                     ELSE cumulative + Returned
      /\ walk.honours /\ walk.base = 1 =>
           /\ \A i, j \in 1..Len(kept) : i < j => kept[i] < kept[j]
           /\ \A i \in 1..Len(kept) :
                kept[i] <= (pages + 1) * Size /\ (i <= walk.n0 => kept[i] = i)
  BY <1>1, KeptFacts
<1> HIDE DEF kept
<1>7. count = Unset \/ (count = n /\ ~walk.strips)
  BY DEF TotalCounts
<1>8. /\ total' \in Nat \union {Unset}
      /\ total' # Unset => total' >= walk.n0 /\ ~walk.strips
  BY <1>2, <1>4, <1>7 DEF IInv, Heads
<1>9. /\ out' = kept \/ (status' = "runaway" /\ out' = <<>>)
      /\ out' \in Seq(Pos)
  BY <1>2, <1>6 DEF AfterError
<1>10. /\ status' \in {"walking", "runaway"} \union Reasons
       /\ status' = "walking" => pages' < MaxPages
       /\ next' \in Nat /\ next' # 0
       /\ walk.base = 1 => next' = pages' + 1
  <2>1. status' \in {"walking", "runaway"} \union Reasons
    BY <1>2 DEF Verdict, Reasons
  <2>2. status' = "walking" => pages' < MaxPages
    BY <1>1, <1>2, <1>4 DEF Verdict
  <2>3. walk.base = 1 => RequestedPage = pages + 1
    BY <1>1 DEF IInv, Asked
  <2>4. next' = RequestedPage + 1 \/ next' = pages + 1 + 1
    BY <1>2 DEF NextPage
  <2> QED BY <1>1, <1>3, <1>4, <2>1, <2>2, <2>3, <2>4
<1>11. PageTypeOK' /\ Asked'
  <2>1. PageTypeOK'
    BY <1>1, <1>3, <1>4, <1>8, <1>9, <1>10 DEF PageTypeOK
  <2>2. Asked'
    BY <1>1, <1>10 DEF Asked, RequestedPage
  <2> QED BY <2>1, <2>2
<1>12. Lengths' /\ LimitRespected'
  BY <1>1, <1>4, <1>3, <1>5, <1>6, <1>9 DEF Lengths, LimitRespected, Errors, Lesser
<1>13. Heads'
  <2>1. ~walk.honours => Returned <= n
    BY <1>3, <1>4 DEF Returned, Offset, Served, Lesser
  <2>2. first' # Unset => first' <= Size /\ (~walk.honours => first' <= n)
    BY <1>1, <1>3, <2>1 DEF IInv, Heads
  <2> QED BY <1>1, <1>5, <1>8, <2>2 DEF Heads
<1>14. Reach' /\ Ordered'
  <2>1. Reach'
    BY <1>1, <1>5, ReachKept DEF Reach
  <2>2. Ordered'
    BY <1>1, <1>5, <1>6, <1>9 DEF Ordered
  <2> QED BY <2>1, <2>2
<1>15. NothingLost'
  <2> SUFFICES ASSUME walk.honours, walk.base = 1, status' \in Reasons
               PROVE  Len(kept) >= (IF Limited THEN Lesser(walk.limit, walk.n0) ELSE walk.n0)
    BY <1>1, <1>5, <1>9 DEF NothingLost, Reasons
  <2>1. n <= Offset + Returned => cumulative + Returned >= walk.n0
    BY <1>1, ReachKept
  <2>2. CASE status' = "userLimit"
    BY <1>2, <1>3, <1>4, <1>6, <2>2 DEF Verdict, Lesser, Limited
  <2>3. CASE status' = "totalReached"
    <3>1. total' # Unset /\ cumulative + Returned >= total'
      BY <1>2, <2>3 DEF Verdict
    <3> QED BY <1>3, <1>4, <1>6, <1>8, <3>1 DEF Lesser
  <2>4. CASE status' \in {"linkExhausted", "emptyPage", "shortPage"}
    <3>1. CASE link = "end"
      <4>1. ~(n > Offset + Returned)
        BY <3>1 DEF Links
      <4> QED BY <1>3, <1>4, <1>6, <2>1, <4>1 DEF Lesser
    <3>2. CASE link # "end"
      <4>1. Returned = 0 \/ Short(link, Returned)
        BY <1>2, <2>4, <3>2 DEF Verdict
      <4>2. Returned < Size
        BY <1>3, <1>4, <4>1 DEF Short, IInv, Heads
      <4> QED BY <1>3, <1>4, <1>6, <2>1, <4>2 DEF Lesser
    <3> QED BY <3>1, <3>2
  <2> QED BY <2>2, <2>3, <2>4 DEF Reasons
<1>16. RunawayIsAnError'
  <2> SUFFICES ASSUME ~walk.honours, walk.strips, ~Limited, walk.n0 > 0
               PROVE  status' \notin Reasons
    BY <1>1, <1>5 DEF RunawayIsAnError
  <2>1. link = "absent"
    BY DEF Links
  <2>2. total' = Unset
    BY <1>8
  <2>3. Offset = 0 /\ Returned = Lesser(Size, n)
    BY <1>3, <1>4 DEF Offset, Served, Returned
  <2>4. Returned > 0 /\ (first # Unset => first <= Returned)
    BY <1>3, <1>4, <2>3 DEF IInv, Heads, Lesser
  <2>5. ~Short(link, Returned)
    BY <1>3, <1>4, <2>4 DEF Short
  <2> QED BY <1>2, <2>1, <2>2, <2>4, <2>5 DEF Verdict, Reasons
<1> QED BY <1>11, <1>12, <1>13, <1>14, <1>15, <1>16 DEF IInv

(* The other steps receive nothing. *)
LEMMA OtherInvariant ==
  ASSUME IInv, AlreadySatisfied \/ FetchFails \/ Grow \/ UNCHANGED pageVars
  PROVE  IInv'
<1>1. CASE AlreadySatisfied
  <2>1. /\ status = "walking" /\ Limited /\ cumulative >= walk.limit /\ status' = "userLimit"
        /\ UNCHANGED <<walk, n, cumulative, first, total, pages, next, out>>
    BY <1>1 DEF AlreadySatisfied, paginator
  <2>2. Size' = Size /\ Limited' = Limited
    BY <2>1 DEF Size, Limited
  <2>3. PageTypeOK' /\ Asked' /\ Heads' /\ Reach' /\ Ordered' /\ Lengths' /\ LimitRespected'
    BY <2>1, <2>2
       DEF IInv, PageTypeOK, Asked, Heads, Reach, Ordered, Lengths, LimitRespected, Reasons, Errors
  <2>4. NothingLost'
    <3>1. Len(out) = walk.limit /\ walk.limit \in Nat /\ walk.n0 \in Nat
      BY <2>1 DEF IInv, Lengths, Errors, Lesser, PageTypeOK, Walks, Limited
    <3> QED BY <2>1, <2>2, <3>1 DEF NothingLost, Lesser
  <2>5. RunawayIsAnError'
    BY <2>1, <2>2 DEF RunawayIsAnError
  <2> QED BY <2>3, <2>4, <2>5 DEF IInv
<1>2. CASE FetchFails
  <2>1. /\ status' = "failed" /\ out' \in {out, <<>>}
        /\ UNCHANGED <<walk, n, cumulative, first, total, pages, next>>
    BY <1>2 DEF FetchFails, paginator, AfterError
  <2>2. Size' = Size /\ Limited' = Limited
    BY <2>1 DEF Size, Limited
  <2>3. <<>> \in Seq(Pos) /\ Len(<<>>) = 0
    OBVIOUS
  <2>4. PageTypeOK'
    BY <2>1, <2>3 DEF IInv, PageTypeOK
  <2>5. Asked' /\ Heads' /\ Reach' /\ Lengths' /\ NothingLost' /\ RunawayIsAnError'
    BY <2>1, <2>2
       DEF IInv, Asked, Heads, Reach, Lengths, NothingLost, RunawayIsAnError, Errors, Reasons
  <2>6. Ordered' /\ LimitRespected'
    <3>1. CASE out' = out
      BY <2>1, <2>2, <3>1 DEF IInv, Ordered, LimitRespected
    <3>2. CASE out' = <<>>
      <4>1. LimitRespected'
        BY <2>1, <2>2, <2>3, <3>2 DEF LimitRespected, Limited, IInv, PageTypeOK, Walks
      <4>2. Ordered'
        BY <2>3, <3>2 DEF Ordered
      <4> QED BY <4>1, <4>2
    <3> QED BY <2>1, <3>1, <3>2
  <2> QED BY <2>4, <2>5, <2>6 DEF IInv
<1>3. CASE Grow
  <2>1. /\ status = "walking" /\ n' = n + 1
        /\ UNCHANGED <<walk, cumulative, first, total, pages, next, out, status>>
    BY <1>3 DEF Grow, paginator
  <2>2. Size' = Size /\ Limited' = Limited /\ RequestedPage' = RequestedPage
    BY <2>1 DEF Size, Limited, RequestedPage
  <2>3. PageTypeOK'
    BY <2>1 DEF IInv, PageTypeOK, Walks
  <2>4. Heads'
    BY <2>1, <2>2 DEF IInv, PageTypeOK, Heads
  <2>5. Asked' /\ Reach' /\ Ordered' /\ Lengths' /\ LimitRespected'
        /\ NothingLost' /\ RunawayIsAnError'
    BY <2>1, <2>2 DEF IInv, Asked, Reach, Ordered, Lengths, LimitRespected,
                      NothingLost, RunawayIsAnError, Reasons
  <2> QED BY <2>3, <2>4, <2>5 DEF IInv
<1>4. CASE UNCHANGED pageVars
  <2>1. UNCHANGED <<walk, n, cumulative, first, total, pages, next, out, status>>
    BY <1>4 DEF pageVars
  <2>2. Size' = Size /\ Limited' = Limited /\ RequestedPage' = RequestedPage
    BY <2>1 DEF Size, Limited, RequestedPage
  <2> QED
    BY <2>1, <2>2 DEF IInv, PageTypeOK, Asked, Heads, Reach, Ordered, Lengths, LimitRespected,
                      NothingLost, RunawayIsAnError
<1> QED BY <1>1, <1>2, <1>3, <1>4

(* Every reachable state. *)
LEMMA Invariance == PageSpec => []IInv
<1>1. IInv /\ [PageNext]_pageVars => IInv'
  BY FetchInvariant, OtherInvariant DEF PageNext
<1> QED BY InitInvariant, <1>1, PTL DEF PageSpec

-----------------------------------------------------------------------------
(* Theorems. *)

(* Types are kept, and no walk sees more than MAX_PAGES pages. *)
THEOREM Typing == PageSpec => []PageTypeOK
BY Invariance, PTL DEF IInv

(* --limit caps the items of all pages together (paginate.rs 283, 326). *)
THEOREM Limits == PageSpec => []LimitRespected
BY Invariance, PTL DEF IInv

(* A walk that ends well has everything that was there when it began, or   *)
(* as much of it as --limit asked for (paginate.rs 12-29).                 *)
THEOREM Complete == PageSpec => []NothingLost
BY Invariance, PTL DEF IInv

(* A server that serves its first page for ever, headers stripped, is      *)
(* never mistaken for one that is done (paginate.rs 44-57).                *)
THEOREM Runaway == PageSpec => []RunawayIsAnError
BY Invariance, PTL DEF IInv

(* A walk whose first request names no page, or page 1, delivers the items *)
(* in order, none twice, and none skipped that were there when it began    *)
(* (paginate.rs 12-21, 313-320).  A walk that starts elsewhere may not.    *)
THEOREM Delivery == ASSUME BasePages = {1} PROVE PageSpec => []EachOnce
<1> DEFINE First == walk.base = 1
<1>1. PageSpec => []First
  <2>1. PageInit => First
    BY DEF PageInit
  <2>2. First /\ [PageNext]_pageVars => First'
    BY DEF PageNext, Fetch, FetchFails, AlreadySatisfied, Grow, pageVars
  <2> HIDE DEF First
  <2> QED BY <2>1, <2>2, PTL DEF PageSpec
<1>2. IInv /\ First => EachOnce
  <2> SUFFICES ASSUME IInv, walk.base = 1, walk.honours PROVE EachOnce
    BY DEF EachOnce
  <2>1. Size \in Nat
    BY PageFacts DEF IInv, Pos
  <2>2. (walk.base - 1) * Size = 0
    BY <2>1
  <2> QED BY <2>2 DEF IInv, Ordered, EachOnce
<1> HIDE DEF First
<1> QED BY <1>1, <1>2, Invariance, PTL
=============================================================================
