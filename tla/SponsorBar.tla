------------------------------ MODULE SponsorBar ------------------------------
(***************************************************************************)
(* sponsorbar.js: the bar at the top of every page shows the sponsors a    *)
(* set at a time and rotates through the sets: an interval starts a fade,  *)
(* and the end of the fade, 600 ms later, shows the next set.  Crossing    *)
(* the mobile breakpoint rebuilds the sets at any moment, a running fade   *)
(* included, and restarts the interval but not the fade.                   *)
(***************************************************************************)
EXTENDS Integers, Sequences, FiniteSets

CONSTANTS
  Names,          \* sponsors
  TierRanks,      \* 1 = MainSponsor; the larger, the lower the tier
  Expiries,       \* days an unexpired sponsorship has left
  NarrowSlots, WideSlots,  \* names in one set: 2 and 5
  MaxResizes      \* bound: crossings of the breakpoint

ASSUME SponsorBarAssumption ==
  /\ NarrowSlots \in Nat \ {0} /\ WideSlots \in Nat \ {0}
  /\ TierRanks \subseteq Nat \ {0} /\ Expiries \subseteq Nat /\ MaxResizes \in Nat

VARIABLES
  sponsorData,  \* the unexpired sponsors, sorted
  bannerPages,  \* the sets
  bannerIdx,    \* the set on show, counting from 0
  track,        \* what the bar shows
  slots,        \* lastSlots
  rotating,     \* bannerTid's interval runs
  fadePending,  \* a fade's timeout is pending
  fading,       \* the class is-fading: the names are invisible
  asked,        \* the request for the sponsors is out
  resizes

barVars == <<sponsorData, bannerPages, bannerIdx, track, slots, rotating,
             fadePending, fading, asked, resizes>>

Sponsors == [name : Names, tier : TierRanks, left : Expiries]

\* Array.prototype.slice in steps of size.
ChunkArr(arr, size) ==
  [i \in 1..((Len(arr) + size - 1) \div size) |->
     SubSeq(arr, (i - 1) * size + 1, IF i * size < Len(arr) THEN i * size ELSE Len(arr))]

IsMain(s) == s.tier = 1

\* Array.prototype.filter: what stands at the kept positions, in their order.
Filter(arr, kept) ==
  [k \in 1..Cardinality(kept) |->
     arr[CHOOSE i \in kept : Cardinality({j \in kept : j <= i}) = k]]

\* Faulty variant: the sets are cut across the tiers.
PagesOfAll(data, size) == ChunkArr(data, size)

\* Main sponsors get sets of their own.
PagesOf(data, size) ==
  LET mains == {i \in DOMAIN data : IsMain(data[i])}
  IN  ChunkArr(Filter(data, mains), size) \o ChunkArr(Filter(data, DOMAIN data \ mains), size)

\* sponsorData.sort: by tier, then the longest to go first; equals stay in the
\* order of the answer, which is any.
ShownEarlier(a, b) == a.tier < b.tier \/ (a.tier = b.tier /\ a.left > b.left)
Listings(live) ==
  {s \in [1..Cardinality(live) -> live] :
     \A i, j \in DOMAIN s : i < j => s[i] # s[j] /\ ~ShownEarlier(s[j], s[i])}

BarInit ==
  /\ sponsorData = <<>> /\ bannerPages = <<>> /\ bannerIdx = 0
  /\ track = <<>>
  /\ slots \in {NarrowSlots, WideSlots}
  /\ rotating = FALSE /\ fadePending = FALSE /\ fading = FALSE
  /\ asked = TRUE /\ resizes = 0

\* Faulty variant: a pending fade is cancelled, its class left on.
StartBannerCancelling(data, size) ==
  /\ bannerIdx' = 0
  /\ bannerPages' = IF data = <<>> THEN bannerPages ELSE PagesOf(data, size)
  /\ track' = IF data = <<>> THEN <<>> ELSE bannerPages'[1]
  /\ rotating' = (data # <<>> /\ Len(bannerPages') > 1)
  /\ fadePending' = FALSE
  /\ UNCHANGED fading

\* startBanner: the interval is cleared and armed anew, a pending fade is not.
StartBanner(data, size) ==
  /\ bannerIdx' = 0
  /\ bannerPages' = IF data = <<>> THEN bannerPages ELSE PagesOf(data, size)
  /\ track' = IF data = <<>> THEN <<>> ELSE bannerPages'[1]
  /\ rotating' = (data # <<>> /\ Len(bannerPages') > 1)
  /\ UNCHANGED <<fadePending, fading>>

\* load's answer: those of the list that have not expired.
SponsorsLoaded(live) ==
  /\ asked /\ asked' = FALSE
  /\ sponsorData' \in Listings(live)
  /\ StartBanner(sponsorData', slots)
  /\ UNCHANGED <<slots, resizes>>

SponsorsFailed ==
  /\ asked /\ asked' = FALSE
  /\ UNCHANGED <<sponsorData, bannerPages, bannerIdx, track, slots, rotating,
                 fadePending, fading, resizes>>

\* The window crosses the mobile breakpoint.
Resize ==
  /\ resizes < MaxResizes
  /\ resizes' = resizes + 1
  /\ slots' = IF slots = NarrowSlots THEN WideSlots ELSE NarrowSlots
  /\ StartBanner(sponsorData, slots')
  /\ UNCHANGED <<sponsorData, asked>>

\* The interval fires, a minute after it was armed: any earlier fade is over.
Rotate ==
  /\ rotating /\ ~fadePending
  /\ fading' = TRUE /\ fadePending' = TRUE
  /\ UNCHANGED <<sponsorData, bannerPages, bannerIdx, track, slots, rotating, asked, resizes>>

\* Faulty variant: the position is advanced and wrapped by the wrong length.
FadeOverUnwrapped ==
  /\ fadePending /\ fadePending' = FALSE
  /\ bannerIdx' = IF bannerIdx + 1 > Len(bannerPages) THEN 0 ELSE bannerIdx + 1
  /\ fading' = FALSE
  /\ track' = IF bannerIdx' < Len(bannerPages) THEN bannerPages[bannerIdx' + 1] ELSE track
  /\ UNCHANGED <<sponsorData, bannerPages, slots, rotating, asked, resizes>>

\* Faulty variant: the position is advanced at both ends of the fade.
FadeOverSkipping ==
  /\ fadePending /\ fadePending' = FALSE
  /\ bannerIdx' = (bannerIdx + 2) % Len(bannerPages)
  /\ fading' = FALSE
  /\ track' = bannerPages[bannerIdx' + 1]
  /\ UNCHANGED <<sponsorData, bannerPages, slots, rotating, asked, resizes>>

\* The fade's timeout, over whatever sets there are by now.
FadeOver ==
  /\ fadePending /\ fadePending' = FALSE
  /\ bannerIdx' = (bannerIdx + 1) % Len(bannerPages)
  /\ fading' = FALSE
  /\ track' = bannerPages[bannerIdx' + 1]
  /\ UNCHANGED <<sponsorData, bannerPages, slots, rotating, asked, resizes>>

\* Lists of the proxy: each name once.
LiveLists == {l \in SUBSET Sponsors : IsFiniteSet(l) /\ \A a, b \in l : a.name = b.name => a = b}

BarNext ==
  \/ \E live \in LiveLists : SponsorsLoaded(live)
  \/ SponsorsFailed \/ Resize \/ Rotate \/ FadeOver

BarSpec == BarInit /\ [][BarNext]_barVars

(***************************************************************************)
(* Properties.                                                             *)
(***************************************************************************)
\* Types of everything sponsorbar.js keeps.
BarTypeOK ==
  /\ sponsorData \in Seq(Sponsors) /\ track \in Seq(Sponsors)
  /\ bannerPages \in Seq(Seq(Sponsors)) /\ bannerIdx \in Nat
  /\ slots \in {NarrowSlots, WideSlots}
  /\ {rotating, fadePending, fading, asked} \subseteq BOOLEAN

\* The bar shows the set it stands at, also when sets are rebuilt between the
\* start of a fade and its end.
TrackIsCurrentSet ==
  bannerPages # <<>> => bannerIdx < Len(bannerPages) /\ track = bannerPages[bannerIdx + 1]

\* The names are invisible only while the timeout that shows the next set is
\* pending: no rebuild leaves the bar faded out.
FadeIsTimed == fading => fadePending

\* The sets, one after the other, are the list: each starts in it where the one
\* before ends.
SetsAreConsecutive ==
  bannerPages # <<>> =>
    \E from \in [DOMAIN bannerPages -> 0..Len(sponsorData)] :
      /\ from[1] = 0
      /\ \A i \in DOMAIN bannerPages :
           LET next == IF i < Len(bannerPages) THEN from[i + 1] ELSE Len(sponsorData)
           IN  bannerPages[i] = SubSeq(sponsorData, from[i] + 1, next)

\* "The first cycle is always main sponsors only, never padded out with lower
\* tiers": each sponsor is on exactly one set, the mains' sets come first, no
\* set mixes them with lower tiers, and no set is empty or too long.
SetsAreByTier ==
  /\ bannerPages = <<>> <=> sponsorData = <<>>
  /\ SetsAreConsecutive
  /\ \A i \in DOMAIN bannerPages :
       /\ Len(bannerPages[i]) \in 1..slots
       /\ \A s, t \in DOMAIN bannerPages[i] :
            IsMain(bannerPages[i][s]) = IsMain(bannerPages[i][t])
       /\ \A j \in 1..i : IsMain(bannerPages[i][1]) => IsMain(bannerPages[j][1])

\* The bar shows a set, visibly, and the sets are the list cut by tier.
BarShowsASet == TrackIsCurrentSet /\ FadeIsTimed /\ SetsAreByTier

\* Every sponsor of the list comes on show.
EverySponsorIsShown ==
  \A n \in Names :
    (\E i \in DOMAIN sponsorData : sponsorData[i].name = n) ~> (\E i \in DOMAIN track : track[i].name = n)
===============================================================================
