------------------------ MODULE PrimeMonitor_proofs -------------------------
(***************************************************************************)
(* The monitor's cursors (PrimeMonitor) and what the agent makes of the     *)
(* contents of a procurement (PrimeMemory), two programs beside the         *)
(* orchestrator whose work outlives them.                                   *)
(***************************************************************************)
EXTENDS PrimeMonitor, PrimeMemory, FiniteSetTheorems, TLAPS

---------------------------------------------------------------------------
(* The monitor: no event is skipped, for any confirmations, span and number  *)
(* of blocks, of failing calls, of deaths and of cycles that overlap.        *)

---------------------------------------------------------------------------
(* What holds of one cursor, in terms of the chain, the highest head there   *)
(* was (top), the events recorded (seen) and the reorganisations so far (r). *)

Keys == DOMAIN EventsOf

Chains == Seq(Blocks)

Seen(chain, seen, k, b) == \A e \in chain[b].events \cap EventsOf[k] : <<e, b>> \in seen

(* Block n is final and what a cursor at n has passed since first is seen.   *)
Firm(chain, top, seen, k, first, n) ==
    \/ n < first
    \/ /\ n + Confirmations <= top /\ n <= Len(chain)
       /\ \A b \in DOMAIN chain : first <= b /\ b <= n => Seen(chain, seen, k, b)

(* The anchored block is no longer in the chain. *)
Off(chain, a) ==
    a # Unknown /\ (IF a.block \in DOMAIN chain THEN chain[a.block].hash ELSE Unknown) # a.hash

(* Whatever became of the chain since, the blocks Span below an anchor are   *)
(* the ones that were scanned: that is how far a cursor is taken back.       *)
AnchorInv(chain, top, seen, r, k, first, a) ==
    a # Unknown =>
        /\ a.hash <= r /\ a.block + Confirmations <= top /\ a.block <= Len(chain) + Span
        /\ a.block > Len(chain) => a.hash < r
        /\ \A b \in DOMAIN chain : first <= b /\ b + Span <= a.block => Seen(chain, seen, k, b)
        /\ Off(chain, a) \/ Firm(chain, top, seen, k, first, a.block)

(* A cursor that may be relied on is firm; and up to where a lower head      *)
(* could take it, it is firm in any case.                                    *)
KeyInv(chain, top, seen, r, k, first, cur, a, head) ==
    /\ FirstCursor(k) < first /\ head <= top
    /\ AnchorInv(chain, top, seen, r, k, first, a)
    /\ Off(chain, a) \/ Firm(chain, top, seen, k, first, cur)
    /\ \A n \in Nat : n <= cur /\ n + Confirmations + Span <= head => Firm(chain, top, seen, k, first, n)

LEMMA Limits ==
    /\ Confirmations \in Nat /\ Span \in Nat /\ FirstBlock \in Nat
    /\ FirstChains \subseteq Chains /\ \A chain \in FirstChains : \A b \in DOMAIN chain : chain[b].hash = 0
    /\ Unknown \notin Nat /\ Unknown \notin Anchors /\ Unknown \notin MonitorStates
BY MonitorAssumption DEF Chains

(* Arithmetic, each with the plain numbers it is about. *)
LEMMA Below == ASSUME NEW b \in Nat, NEW h \in Nat, NEW s \in Nat, b + s <= h + s PROVE b <= h
OBVIOUS

LEMMA Between ==
    ASSUME NEW b \in Nat, NEW n \in Nat, NEW h \in Nat, NEW s \in Nat, b + s <= n, n <= h + s
    PROVE  b + s <= h + s
OBVIOUS

LEMMA FarBelow ==
    ASSUME NEW n \in Nat, NEW h \in Nat, NEW c \in Nat, NEW s \in Nat, NEW head \in Nat, NEW top \in Nat,
           n + c + s <= head, head <= top, top <= h + c + s
    PROVE  n <= h
OBVIOUS

LEMMA Higher ==
    ASSUME NEW len \in Nat, NEW top \in Nat, NEW top2, len <= top, top2 = IF len = top THEN top + 1 ELSE top
    PROVE  top2 \in Nat /\ top <= top2 /\ len + 1 <= top2
OBVIOUS

LEMMA FirmKept ==
    ASSUME NEW chain \in Chains, NEW top \in Nat, NEW seen, NEW k, NEW first \in Nat, NEW n \in Nat,
           NEW seen2, NEW first2 \in Nat, NEW m \in Nat,
           Firm(chain, top, seen, k, first, n), m <= n, first <= first2, seen \subseteq seen2
    PROVE  Firm(chain, top, seen2, k, first2, m)
<1>0. Confirmations \in Nat /\ Len(chain) \in Nat /\ DOMAIN chain = 1..Len(chain) BY Limits DEF Chains
<1>1. CASE n < first BY <1>1 DEF Firm
<1>2. CASE /\ n + Confirmations <= top /\ n <= Len(chain)
           /\ \A b \in DOMAIN chain : first <= b /\ b <= n => Seen(chain, seen, k, b)
  <2>1. \A b \in DOMAIN chain : first2 <= b /\ b <= m => first <= b /\ b <= n BY <1>0
  <2>2. \A b \in DOMAIN chain : first2 <= b /\ b <= m => Seen(chain, seen2, k, b)
    BY <1>2, <2>1 DEF Seen
  <2>3. m + Confirmations <= top /\ m <= Len(chain) BY <1>0, <1>2
  <2> QED BY <2>2, <2>3 DEF Firm
<1> QED BY <1>1, <1>2 DEF Firm

(* Two chains that agree up to m agree on what is firm up to there. *)
LEMMA FirmOnPrefix ==
    ASSUME NEW chain \in Chains, NEW chain2 \in Chains, NEW top \in Nat, NEW top2 \in Nat, NEW seen, NEW k,
           NEW first \in Nat, NEW n \in Nat, NEW m \in Nat,
           m <= Len(chain), m <= Len(chain2), \A b \in 1..m : chain2[b] = chain[b], top <= top2,
           Firm(chain, top, seen, k, first, n), n <= m \/ n < first
    PROVE  Firm(chain2, top2, seen, k, first, n)
<1>0. /\ Confirmations \in Nat /\ Len(chain) \in Nat /\ DOMAIN chain = 1..Len(chain)
      /\ Len(chain2) \in Nat /\ DOMAIN chain2 = 1..Len(chain2)
  BY Limits DEF Chains
<1>1. CASE n < first BY <1>1 DEF Firm
<1>2. CASE ~(n < first)
  <2>1. /\ n + Confirmations <= top /\ n <= m
        /\ \A b \in DOMAIN chain : first <= b /\ b <= n => Seen(chain, seen, k, b)
    BY <1>2 DEF Firm
  <2>2. ASSUME NEW b \in DOMAIN chain2, first <= b, b <= n PROVE Seen(chain2, seen, k, b)
    <3>1. b \in 1..m /\ b \in DOMAIN chain BY <1>0, <2>1, <2>2
    <3>2. Seen(chain, seen, k, b) BY <2>1, <2>2, <3>1
    <3>3. chain2[b] = chain[b] BY <3>1
    <3> QED BY <3>2, <3>3 DEF Seen
  <2>3. n + Confirmations <= top2 /\ n <= Len(chain2) BY <1>0, <2>1
  <2> QED BY <2>2, <2>3 DEF Firm
<1> QED BY <1>1, <1>2

(* A block is added. *)
LEMMA KeyOnMine ==
    ASSUME NEW chain \in Chains, NEW chain2 \in Chains, NEW top \in Nat, NEW top2 \in Nat, NEW seen, NEW r \in Nat,
           NEW k, NEW first \in Nat, NEW cur \in Nat, NEW a \in Anchors \cup {Unknown}, NEW head \in Nat,
           Len(chain2) = Len(chain) + 1, \A b \in 1..Len(chain) : chain2[b] = chain[b],
           chain2[Len(chain) + 1].hash = r, top <= top2,
           KeyInv(chain, top, seen, r, k, first, cur, a, head)
    PROVE  KeyInv(chain2, top2, seen, r, k, first, cur, a, head)
<1> DEFINE len == Len(chain)
<1>0. /\ Confirmations \in Nat /\ Span \in Nat /\ len \in Nat /\ DOMAIN chain = 1..len
      /\ Len(chain2) = len + 1 /\ DOMAIN chain2 = 1..(len + 1)
  BY Limits DEF Chains
<1>1. \A n \in Nat : Firm(chain, top, seen, k, first, n) => Firm(chain2, top2, seen, k, first, n)
  <2> SUFFICES ASSUME NEW n \in Nat, Firm(chain, top, seen, k, first, n)
               PROVE  Firm(chain2, top2, seen, k, first, n)
    OBVIOUS
  <2>1. n <= len \/ n < first BY DEF Firm
  <2>2. len <= Len(chain) /\ len <= Len(chain2) BY <1>0
  <2> QED BY <1>0, <2>1, <2>2, FirmOnPrefix
<1>2. ASSUME a # Unknown
      PROVE  /\ a.hash \in Nat /\ a.block \in Nat /\ a.hash <= r /\ a.block + Confirmations <= top
             /\ a.block <= len + Span /\ (a.block > len => a.hash < r)
             /\ Off(chain, a) \/ Firm(chain, top, seen, k, first, a.block)
             /\ \A b \in DOMAIN chain : first <= b /\ b + Span <= a.block => Seen(chain, seen, k, b)
  BY <1>2 DEF KeyInv, AnchorInv, Anchors
<1>3. ASSUME Off(chain, a) PROVE Off(chain2, a)
  <2>1. a # Unknown BY <1>3 DEF Off
  <2>2. CASE a.block \in 1..len
    <3>1. chain2[a.block].hash = chain[a.block].hash BY <2>2
    <3>2. a.block \in DOMAIN chain /\ a.block \in DOMAIN chain2 BY <1>0, <2>2
    <3> QED BY <1>3, <3>1, <3>2 DEF Off
  <2>3. CASE a.block = len + 1
    <3>1. chain2[a.block].hash # a.hash
      <4>1. a.hash < r BY <1>0, <1>2, <2>1, <2>3
      <4> QED BY <1>2, <2>1, <2>3, <4>1
    <3>2. a.block \in DOMAIN chain2 BY <1>0, <2>3
    <3> QED BY <2>1, <3>1, <3>2 DEF Off
  <2>4. CASE a.block \notin 1..(len + 1)
    <3>1. a.hash # Unknown BY <1>2, <2>1, Limits
    <3> QED BY <1>0, <2>1, <2>4, <3>1 DEF Off
  <2> QED BY <1>0, <1>2, <2>1, <2>2, <2>3, <2>4
<1>4. AnchorInv(chain2, top2, seen, r, k, first, a)
  <2> SUFFICES ASSUME a # Unknown
      PROVE  /\ a.hash <= r /\ a.block + Confirmations <= top2 /\ a.block <= Len(chain2) + Span
             /\ a.block > Len(chain2) => a.hash < r
             /\ \A b \in DOMAIN chain2 : first <= b /\ b + Span <= a.block => Seen(chain2, seen, k, b)
             /\ Off(chain2, a) \/ Firm(chain2, top2, seen, k, first, a.block)
    BY DEF AnchorInv
  <2>1. a.block + Confirmations <= top2 /\ a.block <= Len(chain2) + Span BY <1>0, <1>2
  <2>2. a.block > Len(chain2) => a.hash < r BY <1>0, <1>2
  <2>3. ASSUME NEW b \in DOMAIN chain2, first <= b, b + Span <= a.block PROVE Seen(chain2, seen, k, b)
    <3>1. b \in 1..len BY <1>0, <1>2, <2>3
    <3>2. Seen(chain, seen, k, b) BY <1>0, <1>2, <2>3, <3>1
    <3> QED BY <3>1, <3>2 DEF Seen
  <2> QED BY <1>1, <1>2, <1>3, <2>1, <2>2, <2>3
<1>5. head <= top2 BY DEF KeyInv
<1> QED BY <1>1, <1>3, <1>4, <1>5 DEF KeyInv

(* The blocks above h are replaced by one. *)
LEMMA KeyOnReorg ==
    ASSUME NEW chain \in Chains, NEW chain2 \in Chains, NEW top \in Nat, NEW seen, NEW r \in Nat,
           NEW k, NEW first \in Nat, NEW cur \in Nat, NEW a \in Anchors \cup {Unknown}, NEW head \in Nat,
           NEW h \in Nat, h < Len(chain), Len(chain2) = h + 1, \A b \in 1..h : chain2[b] = chain[b],
           chain2[h + 1].hash = r + 1, top <= h + Confirmations + Span,
           \/ top <= h + Confirmations
           \/ IF a = Unknown THEN cur = FirstCursor(k) ELSE cur <= a.block,
           FirstCursor(k) \in Nat,
           KeyInv(chain, top, seen, r, k, first, cur, a, head)
    PROVE  KeyInv(chain2, top, seen, r + 1, k, first, cur, a, head)
<1> DEFINE len == Len(chain)
<1>0. /\ Confirmations \in Nat /\ Span \in Nat /\ len \in Nat /\ DOMAIN chain = 1..len
      /\ Len(chain2) = h + 1 /\ DOMAIN chain2 = 1..(h + 1) /\ h < len
  BY Limits DEF Chains
<1>1. \A n \in Nat : Firm(chain, top, seen, k, first, n) /\ n <= h => Firm(chain2, top, seen, k, first, n)
  <2>1. h <= Len(chain) /\ h <= Len(chain2) /\ top <= top BY <1>0
  <2> QED BY <2>1, FirmOnPrefix
<1>2. ASSUME a # Unknown
      PROVE  /\ a.hash \in Nat /\ a.block \in Nat /\ a.hash <= r /\ a.block + Confirmations <= top
             /\ Off(chain, a) \/ Firm(chain, top, seen, k, first, a.block)
             /\ \A b \in DOMAIN chain : first <= b /\ b + Span <= a.block => Seen(chain, seen, k, b)
  BY <1>2 DEF KeyInv, AnchorInv, Anchors
<1>3. ASSUME a # Unknown, a.block > h PROVE Off(chain2, a)
  <2>1. CASE a.block = h + 1
    <3>1. chain2[a.block].hash # a.hash BY <1>2, <1>3, <2>1
    <3>2. a.block \in DOMAIN chain2 BY <1>0, <2>1
    <3> QED BY <1>3, <3>1, <3>2 DEF Off
  <2>2. CASE a.block # h + 1
    <3>1. a.hash # Unknown BY <1>2, <1>3, Limits
    <3>2. a.block \notin DOMAIN chain2 BY <1>0, <1>2, <1>3, <2>2
    <3> QED BY <1>3, <3>1, <3>2 DEF Off
  <2> QED BY <2>1, <2>2
<1>4. ASSUME Off(chain, a) PROVE Off(chain2, a)
  <2>1. a # Unknown BY <1>4 DEF Off
  <2>2. CASE a.block \in 1..h
    <3>1. chain2[a.block].hash = chain[a.block].hash BY <2>2
    <3>2. a.block \in DOMAIN chain /\ a.block \in DOMAIN chain2 BY <1>0, <2>2
    <3> QED BY <1>4, <3>1, <3>2 DEF Off
  <2>3. CASE a.block = 0
    <3>1. a.block \notin DOMAIN chain2 /\ a.hash # Unknown BY <1>0, <1>2, <2>1, <2>3, Limits
    <3> QED BY <2>1, <3>1 DEF Off
  <2>4. a.block \in 1..h \/ a.block = 0 \/ a.block > h BY <1>2, <2>1
  <2> QED BY <1>3, <2>1, <2>2, <2>3, <2>4
<1>5. AnchorInv(chain2, top, seen, r + 1, k, first, a)
  <2> SUFFICES ASSUME a # Unknown
      PROVE  /\ a.hash <= r + 1 /\ a.block + Confirmations <= top /\ a.block <= Len(chain2) + Span
             /\ a.block > Len(chain2) => a.hash < r + 1
             /\ \A b \in DOMAIN chain2 : first <= b /\ b + Span <= a.block => Seen(chain2, seen, k, b)
             /\ Off(chain2, a) \/ Firm(chain2, top, seen, k, first, a.block)
    BY DEF AnchorInv
  <2>1. a.block <= h + Span /\ a.hash < r + 1 BY <1>0, <1>2
  <2>2. a.hash <= r + 1 /\ a.block <= Len(chain2) + Span BY <1>0, <1>2, <2>1
  <2>3. ASSUME NEW b \in DOMAIN chain2, first <= b, b + Span <= a.block PROVE Seen(chain2, seen, k, b)
    <3>a. b \in Nat /\ b >= 1 BY <1>0, <2>3
    <3>b. a.block \in Nat /\ a.block <= h + Span BY <1>2, <2>1
    <3>0. b \in Nat /\ b >= 1 /\ b + Span <= h + Span BY <1>0, <2>3, <3>a, <3>b, Between
    <3>1. b \in 1..h /\ b \in DOMAIN chain BY <1>0, <3>0, Below
    <3>2. Seen(chain, seen, k, b) BY <1>2, <2>3, <3>1
    <3> QED BY <3>1, <3>2 DEF Seen
  <2>4. Off(chain2, a) \/ Firm(chain2, top, seen, k, first, a.block) BY <1>1, <1>2, <1>3, <1>4
  <2> QED BY <1>2, <2>1, <2>2, <2>3, <2>4
<1>6. Off(chain2, a) \/ Firm(chain2, top, seen, k, first, cur)
  <2>1. CASE Off(chain, a) BY <1>4, <2>1
  <2>2. CASE cur < first BY <2>2 DEF Firm
  <2>3. CASE ~Off(chain, a) /\ ~(cur < first)
    <3>1. Firm(chain, top, seen, k, first, cur) /\ cur + Confirmations <= top BY <2>3 DEF KeyInv, Firm
    <3>2. CASE top <= h + Confirmations
      <4>1. cur <= h BY <1>0, <3>1, <3>2
      <4> QED BY <1>1, <3>1, <4>1
    <3>3. CASE a = Unknown /\ cur = FirstCursor(k)
      BY <2>3, <3>3 DEF KeyInv
    <3>4. CASE a # Unknown /\ cur <= a.block
      <4>1. CASE a.block > h BY <1>3, <3>4, <4>1
      <4>2. CASE ~(a.block > h)
        <5>1. cur <= h BY <1>2, <3>4, <4>2
        <5> QED BY <1>1, <3>1, <5>1
      <4> QED BY <4>1, <4>2
    <3> QED BY <3>2, <3>3, <3>4
  <2> QED BY <2>1, <2>2, <2>3
<1>7. ASSUME NEW n \in Nat, n <= cur, n + Confirmations + Span <= head PROVE Firm(chain2, top, seen, k, first, n)
  <2>1. Firm(chain, top, seen, k, first, n) /\ head <= top BY <1>7 DEF KeyInv
  <2>2. n <= h BY <1>0, <1>7, <2>1, FarBelow
  <2> QED BY <1>1, <2>1, <2>2
<1>8. FirstCursor(k) < first /\ head <= top BY DEF KeyInv
<1> QED BY <1>5, <1>6, <1>7, <1>8 DEF KeyInv

(* The cursor is moved to where it is firm, by a scan or back. *)
LEMMA KeyOnMove ==
    ASSUME NEW chain \in Chains, NEW top \in Nat, NEW seen, NEW seen2, NEW r \in Nat, NEW k,
           NEW first \in Nat, NEW first2 \in Nat, NEW cur \in Nat, NEW cur2 \in Nat,
           NEW a \in Anchors \cup {Unknown}, NEW head \in Nat, NEW head2 \in Nat,
           KeyInv(chain, top, seen, r, k, first, cur, a, head), FirstCursor(k) \in Nat,
           first <= first2, seen \subseteq seen2, head2 <= top,
           Firm(chain, top, seen2, k, first2, cur2)
    PROVE  KeyInv(chain, top, seen2, r, k, first2, cur2, a, head2)
<1>0. Confirmations \in Nat /\ Span \in Nat /\ Len(chain) \in Nat /\ DOMAIN chain = 1..Len(chain)
  BY Limits DEF Chains
<1>1. FirstCursor(k) < first2 BY DEF KeyInv
<1>2. ASSUME NEW n \in Nat, n <= cur2 PROVE Firm(chain, top, seen2, k, first2, n)
  <2>1. first2 <= first2 /\ seen2 \subseteq seen2 OBVIOUS
  <2> QED BY <1>2, <2>1, FirmKept
<1>3. AnchorInv(chain, top, seen2, r, k, first2, a)
  <2> SUFFICES ASSUME a # Unknown
      PROVE  /\ a.hash <= r /\ a.block + Confirmations <= top /\ a.block <= Len(chain) + Span
             /\ a.block > Len(chain) => a.hash < r
             /\ \A b \in DOMAIN chain : first2 <= b /\ b + Span <= a.block => Seen(chain, seen2, k, b)
             /\ Off(chain, a) \/ Firm(chain, top, seen2, k, first2, a.block)
    BY DEF AnchorInv
  <2>1. /\ a.hash <= r /\ a.block + Confirmations <= top /\ a.block <= Len(chain) + Span
        /\ a.block > Len(chain) => a.hash < r
        /\ \A b \in DOMAIN chain : first <= b /\ b + Span <= a.block => Seen(chain, seen, k, b)
        /\ Off(chain, a) \/ Firm(chain, top, seen, k, first, a.block)
    BY DEF KeyInv, AnchorInv
  <2>2. a.block \in Nat /\ a.block <= a.block BY DEF Anchors
  <2>3. Off(chain, a) \/ Firm(chain, top, seen2, k, first2, a.block) BY <2>1, <2>2, FirmKept
  <2>4. ASSUME NEW b \in DOMAIN chain, first2 <= b, b + Span <= a.block PROVE Seen(chain, seen2, k, b)
    <3>1. first <= b BY <1>0, <2>4
    <3>2. Seen(chain, seen, k, b) BY <2>1, <2>4, <3>1
    <3> QED BY <3>2 DEF Seen
  <2> QED BY <2>1, <2>3, <2>4
<1> QED BY <1>1, <1>2, <1>3 DEF KeyInv

(* The anchor is renewed at a block up to which everything is firm. *)
LEMMA KeyOnAnchor ==
    ASSUME NEW chain \in Chains, NEW top \in Nat, NEW seen, NEW r \in Nat, NEW k,
           NEW first \in Nat, NEW cur \in Nat, NEW a \in Anchors \cup {Unknown}, NEW head \in Nat,
           NEW n \in DOMAIN chain, n + Confirmations <= top, \A b \in DOMAIN chain : chain[b].hash <= r,
           KeyInv(chain, top, seen, r, k, first, cur, a, head),
           Firm(chain, top, seen, k, first, n), Firm(chain, top, seen, k, first, cur)
    PROVE  KeyInv(chain, top, seen, r, k, first, cur, [block |-> n, hash |-> chain[n].hash], head)
<1> DEFINE new == [block |-> n, hash |-> chain[n].hash]
<1>0. Confirmations \in Nat /\ Span \in Nat /\ Len(chain) \in Nat /\ DOMAIN chain = 1..Len(chain)
  BY Limits DEF Chains
<1>1. n \in Nat /\ n <= Len(chain) /\ chain[n].hash \in Nat
  <2>1. chain[n] \in Blocks BY <1>0 DEF Chains
  <2> QED BY <1>0, <2>1 DEF Blocks
<1>2. new.block = n /\ new.hash = chain[n].hash OBVIOUS
<1>3. ~Off(chain, new) BY <1>2 DEF Off
<1>4. \A b \in DOMAIN chain : first <= b /\ b + Span <= n => Seen(chain, seen, k, b)
  <2> SUFFICES ASSUME NEW b \in DOMAIN chain, first <= b, b + Span <= n PROVE Seen(chain, seen, k, b)
    OBVIOUS
  <2>1. b <= n /\ ~(n < first) BY <1>0, <1>1
  <2> QED BY <2>1 DEF Firm
<1> HIDE DEF new
<1>5. AnchorInv(chain, top, seen, r, k, first, new)
  <2>1. new.hash <= r /\ n + Confirmations <= top /\ n <= Len(chain) + Span /\ ~(n > Len(chain))
    BY <1>0, <1>1, <1>2
  <2> QED BY <1>2, <1>4, <2>1 DEF AnchorInv
<1>6. KeyInv(chain, top, seen, r, k, first, cur, new, head) BY <1>5 DEF KeyInv
<1> QED BY <1>6 DEF new

---------------------------------------------------------------------------
(* The monitor's state. *)

Places == {"asleep", "head", "reconcile", "scan", "anchor", "refresh", "sync", "save"}

MonitorTypes ==
    /\ blocks \in Chains /\ peak \in Nat /\ Len(blocks) <= peak
    /\ counts \in [reorgs : Nat, troubles : Nat]
    /\ \A b \in DOMAIN blocks : blocks[b].hash <= counts.reorgs
    /\ memory \in MonitorStates \cup {Unknown} /\ saved \in MonitorStates
    /\ cycle \in [CycleIds -> [at : Places, key : 1..3, head : Nat, from : Nat]]

FileInv(s) ==
    \A k \in Keys : KeyInv(blocks, peak, noticed, counts.reorgs, k, s.since[k], s.cursor[k], s.anchor[k], s.head)

FirmAt(k, n) == Firm(blocks, peak, noticed, k, memory.since[k], n)

FirmCursor(k) == FirmAt(k, memory.cursor[k])

(* A cycle that has checked the anchors and not done with key j. *)
Past(c) == cycle[c].at \in {"scan", "anchor"} \/ (cycle[c].at = "head" /\ cycle[c].key > 1)

CycleInv(c) ==
    /\ cycle[c].at # "asleep" => memory # Unknown
    /\ cycle[c].at \in {"reconcile", "scan", "anchor"} =>
          cycle[c].head <= peak /\ SafeBlock(cycle[c].head) <= Len(blocks)
    /\ Past(c) => \A j \in 1..3 : j >= cycle[c].key => FirmCursor(CursorKeys[j])
    /\ cycle[c].at = "scan" =>
          \/ cycle[c].from <= memory.since[Key(c)]
          \/ cycle[c].from > 0 /\ FirmAt(Key(c), cycle[c].from - 1)
    /\ cycle[c].at = "anchor" => FirmAt(Key(c), SafeBlock(cycle[c].head))

MonitorInv ==
    /\ MonitorTypes
    /\ FileInv(saved)
    /\ memory # Unknown => FileInv(memory)
    /\ \A c \in CycleIds : CycleInv(c)

LEMMA KeyNames ==
    /\ Keys = {"procurement", "shortlist", "winner"}
    /\ Len(CursorKeys) = 3 /\ \A j \in 1..3 : CursorKeys[j] \in Keys
    /\ \A k \in Keys : FirstCursor(k) \in Nat
<1>1. Keys = {"procurement", "shortlist", "winner"} BY DEF Keys, EventsOf
<1>2. /\ Len(CursorKeys) = 3 /\ CursorKeys[1] = "procurement" /\ CursorKeys[2] = "shortlist"
      /\ CursorKeys[3] = "winner"
  BY DEF CursorKeys
<1>3. \A j \in 1..3 : CursorKeys[j] \in Keys
  <2>1. \A j \in 1..3 : j = 1 \/ j = 2 \/ j = 3 OBVIOUS
  <2> QED BY <1>1, <1>2, <2>1
<1>4. \A k \in Keys : FirstCursor(k) \in Nat BY Limits DEF FirstCursor
<1> QED BY <1>1, <1>2, <1>3, <1>4

LEMMA StateFields ==
    ASSUME NEW s \in MonitorStates
    PROVE  /\ s.head \in Nat /\ DOMAIN s = {"cursor", "anchor", "head", "since"}
           /\ s.cursor \in [Keys -> Nat] /\ s.since \in [Keys -> Nat]
           /\ s.anchor \in [Keys -> Anchors \cup {Unknown}]
           /\ \A k \in Keys : s.cursor[k] \in Nat /\ s.since[k] \in Nat
                              /\ s.anchor[k] \in Anchors \cup {Unknown}
<1>1. /\ s.head \in Nat /\ DOMAIN s = {"cursor", "anchor", "head", "since"}
      /\ s.cursor \in [Keys -> Nat] /\ s.since \in [Keys -> Nat]
      /\ s.anchor \in [Keys -> Anchors \cup {Unknown}]
  BY DEF MonitorStates, Keys
<1> QED BY <1>1

LEMMA CycleFields ==
    ASSUME MonitorTypes, NEW c \in CycleIds
    PROVE  /\ cycle[c].at \in Places /\ cycle[c].key \in 1..3 /\ cycle[c].head \in Nat /\ cycle[c].from \in Nat
           /\ DOMAIN cycle[c] = {"at", "key", "head", "from"} /\ DOMAIN cycle = CycleIds
           /\ Key(c) \in Keys
<1>1. cycle[c] \in [at : Places, key : 1..3, head : Nat, from : Nat] /\ DOMAIN cycle = CycleIds BY DEF MonitorTypes
<1>2. /\ cycle[c].at \in Places /\ cycle[c].key \in 1..3 /\ cycle[c].head \in Nat /\ cycle[c].from \in Nat
      /\ DOMAIN cycle[c] = {"at", "key", "head", "from"}
  BY <1>1
<1> QED BY <1>1, <1>2, KeyNames DEF Key

LEMMA SafeBlocks ==
    ASSUME NEW head \in Nat
    PROVE  /\ SafeBlock(head) \in Nat /\ SafeBlock(head) <= head
           /\ SafeBlock(head) > 0 => SafeBlock(head) + Confirmations = head
<1>1. Confirmations \in Nat BY Limits
<1> QED BY <1>1 DEF SafeBlock

(* A cycle is not disturbed by what another one does to the files and to the *)
(* memory, as long as firm cursors stay firm.                                *)
LEMMA Undisturbed ==
    ASSUME MonitorInv, MonitorTypes', NEW c \in CycleIds, cycle'[c] = cycle[c],
           UNCHANGED <<blocks, peak>>, noticed \subseteq noticed',
           memory \in MonitorStates => memory' \in MonitorStates,
           memory \in MonitorStates =>
               \A k \in Keys : /\ memory.since[k] <= memory'.since[k]
                               /\ FirmCursor(k) => FirmCursor(k)'
    PROVE  CycleInv(c)'
<1>0. MonitorTypes /\ CycleInv(c) BY DEF MonitorInv
<1>1. CASE cycle[c].at = "asleep" BY <1>1 DEF CycleInv, Past
<1>2. CASE cycle[c].at # "asleep"
  <2>1. memory \in MonitorStates /\ memory' \in MonitorStates BY <1>0, <1>2 DEF CycleInv, MonitorTypes
  <2>2. memory' # Unknown BY <2>1, Limits
  <2>a. \A k \in Keys : memory.since[k] \in Nat BY <2>1, StateFields
  <2>b. \A k \in Keys : memory'.since[k] \in Nat BY <2>1, StateFields
  <2>c. \A k \in Keys : memory.since[k] <= memory'.since[k] /\ (FirmCursor(k) => FirmCursor(k)') BY <2>1
  <2>3. \A k \in Keys : /\ memory.since[k] \in Nat /\ memory'.since[k] \in Nat
                        /\ memory.since[k] <= memory'.since[k] /\ (FirmCursor(k) => FirmCursor(k)')
    BY <2>a, <2>b, <2>c
  <2>4. blocks \in Chains /\ peak \in Nat BY <1>0 DEF MonitorTypes
  <2>5. \A k \in Keys, n \in Nat : FirmAt(k, n) => FirmAt(k, n)'
    <3> SUFFICES ASSUME NEW k \in Keys, NEW n \in Nat, FirmAt(k, n) PROVE FirmAt(k, n)'
      OBVIOUS
    <3>1. n <= n OBVIOUS
    <3>2. Firm(blocks, peak, noticed', k, memory'.since[k], n)
      BY <2>3, <2>4, <3>1, FirmKept DEF FirmAt
    <3> QED BY <3>2 DEF FirmAt
  <2>6. Key(c) \in Keys /\ Key(c)' = Key(c) /\ cycle[c].from \in Nat /\ cycle[c].head \in Nat
    BY <1>0, CycleFields DEF Key
  <2>7. Past(c)' => \A j \in 1..3 : j >= cycle'[c].key => FirmCursor(CursorKeys[j])'
    BY <1>0, <2>3, KeyNames DEF CycleInv, Past
  <2>8. cycle'[c].at = "scan" =>
            \/ cycle'[c].from <= memory'.since[Key(c)']
            \/ cycle'[c].from > 0 /\ FirmAt(Key(c), cycle[c].from - 1)'
    <3> SUFFICES ASSUME cycle[c].at = "scan"
        PROVE  \/ cycle[c].from <= memory'.since[Key(c)]
               \/ cycle[c].from > 0 /\ FirmAt(Key(c), cycle[c].from - 1)'
      BY <2>6
    <3>1. CASE cycle[c].from <= memory.since[Key(c)]
      <4>1. memory.since[Key(c)] <= memory'.since[Key(c)] /\ memory.since[Key(c)] \in Nat /\ memory'.since[Key(c)] \in Nat
        BY <2>3, <2>6
      <4> QED BY <2>6, <3>1, <4>1
    <3>2. CASE cycle[c].from > 0 /\ FirmAt(Key(c), cycle[c].from - 1)
      <4> PICK n : n = cycle[c].from - 1 OBVIOUS
      <4>1. n \in Nat BY <2>6, <3>2
      <4>2. cycle'[c].from - 1 = n OBVIOUS
      <4>3. FirmAt(Key(c), n)' BY <2>5, <2>6, <3>2, <4>1
      <4> QED BY <2>6, <3>2, <4>2, <4>3
    <3> QED BY <1>0, <3>1, <3>2 DEF CycleInv
  <2>9. cycle'[c].at = "anchor" => FirmAt(Key(c), SafeBlock(cycle[c].head))'
    <3> SUFFICES ASSUME cycle[c].at = "anchor" PROVE FirmAt(Key(c), SafeBlock(cycle[c].head))'
      OBVIOUS
    <3> PICK n : n = SafeBlock(cycle[c].head) OBVIOUS
    <3>1. n \in Nat BY <2>6, SafeBlocks
    <3>2. SafeBlock(cycle'[c].head) = n OBVIOUS
    <3>3. FirmAt(Key(c), n) BY <1>0 DEF CycleInv
    <3>4. FirmAt(Key(c), n)' BY <2>5, <2>6, <3>1, <3>3
    <3> QED BY <2>6, <3>2, <3>4
  <2> QED BY <1>0, <2>2, <2>6, <2>7, <2>8, <2>9 DEF CycleInv
<1> QED BY <1>1, <1>2

LEMMA KeyOnSeen ==
    ASSUME NEW chain \in Chains, NEW top \in Nat, NEW seen, NEW seen2, NEW r \in Nat, NEW k,
           NEW first \in Nat, NEW cur \in Nat, NEW a \in Anchors \cup {Unknown}, NEW head \in Nat,
           KeyInv(chain, top, seen, r, k, first, cur, a, head), seen \subseteq seen2
    PROVE  KeyInv(chain, top, seen2, r, k, first, cur, a, head)
<1>1. \A n \in Nat : Firm(chain, top, seen, k, first, n) => Firm(chain, top, seen2, k, first, n)
  <2>1. first <= first /\ \A n \in Nat : n <= n OBVIOUS
  <2> QED BY <2>1, FirmKept
<1>2. a # Unknown => a.block \in Nat BY DEF Anchors
<1>3. \A b : Seen(chain, seen, k, b) => Seen(chain, seen2, k, b) BY DEF Seen
<1>4. AnchorInv(chain, top, seen2, r, k, first, a)
  BY <1>1, <1>2, <1>3 DEF KeyInv, AnchorInv
<1> QED BY <1>1, <1>4 DEF KeyInv

(* A state of the monitor whose cursors moved only to where they are firm.   *)
LEMMA FileMoves ==
    ASSUME MonitorTypes, NEW s \in MonitorStates, NEW t \in MonitorStates, FileInv(s),
           UNCHANGED <<blocks, peak>>, counts'.reorgs = counts.reorgs, noticed \subseteq noticed',
           t.anchor = s.anchor, t.head <= peak,
           \A k \in Keys :
               \/ t.cursor[k] = s.cursor[k] /\ t.since[k] = s.since[k] /\ t.head = s.head
               \/ s.since[k] <= t.since[k] /\ Firm(blocks, peak, noticed', k, t.since[k], t.cursor[k])
    PROVE  FileInv(t)'
<1> SUFFICES ASSUME NEW k \in Keys
    PROVE  KeyInv(blocks, peak, noticed', counts.reorgs, k, t.since[k], t.cursor[k], t.anchor[k], t.head)
  BY DEF FileInv
<1>1. KeyInv(blocks, peak, noticed, counts.reorgs, k, s.since[k], s.cursor[k], s.anchor[k], s.head)
  BY DEF FileInv
<1>2. /\ blocks \in Chains /\ peak \in Nat /\ counts.reorgs \in Nat /\ FirstCursor(k) \in Nat
      /\ s.since[k] \in Nat /\ s.cursor[k] \in Nat /\ s.anchor[k] \in Anchors \cup {Unknown} /\ s.head \in Nat
      /\ t.since[k] \in Nat /\ t.cursor[k] \in Nat /\ t.head \in Nat /\ t.anchor[k] = s.anchor[k]
  BY StateFields, KeyNames DEF MonitorTypes
<1>3. CASE t.cursor[k] = s.cursor[k] /\ t.since[k] = s.since[k] /\ t.head = s.head
  BY <1>1, <1>2, <1>3, KeyOnSeen
<1>4. CASE s.since[k] <= t.since[k] /\ Firm(blocks, peak, noticed', k, t.since[k], t.cursor[k])
  BY <1>1, <1>2, <1>4, KeyOnMove
<1> QED BY <1>3, <1>4

LEMMA FileStays ==
    ASSUME MonitorTypes, NEW s \in MonitorStates, FileInv(s),
           UNCHANGED <<blocks, peak>>, counts'.reorgs = counts.reorgs, noticed \subseteq noticed'
    PROVE  FileInv(s)'
<1>0. s.head <= peak BY KeyNames DEF FileInv, KeyInv
<1>1. \A k \in Keys : s.cursor[k] = s.cursor[k] /\ s.since[k] = s.since[k] /\ s.head = s.head OBVIOUS
<1> QED BY <1>0, <1>1, FileMoves

(* A step of a cycle outside the scans, which leaves the memory as it was.   *)
LEMMA Elsewhere ==
    ASSUME MonitorInv, NEW c \in CycleIds, memory # Unknown,
           UNCHANGED <<blocks, peak, noticed, memory>>,
           counts' \in [reorgs : Nat, troubles : Nat], counts'.reorgs = counts.reorgs,
           saved' = saved \/ saved' = memory,
           cycle' \in [CycleIds -> [at : Places, key : 1..3, head : Nat, from : Nat]],
           \A d \in CycleIds : d # c => cycle'[d] = cycle[d],
           \/ cycle'[c].at \in {"asleep", "refresh", "sync", "save"}
           \/ cycle'[c].at = "head" /\ cycle'[c].key = 1
    PROVE  MonitorInv'
<1>0. MonitorTypes /\ FileInv(saved) /\ FileInv(memory) /\ memory \in MonitorStates /\ saved \in MonitorStates
  BY DEF MonitorInv, MonitorTypes
<1>1. MonitorTypes' BY <1>0 DEF MonitorTypes
<1>2. PICK s : s = saved OBVIOUS
<1>3. PICK m : m = memory OBVIOUS
<1>4. FileInv(s)' /\ FileInv(m)' BY <1>0, <1>2, <1>3, FileStays
<1>5. FileInv(saved)' /\ FileInv(memory)'
  <2>1. (saved' = s \/ saved' = m) /\ memory' = m BY <1>2, <1>3
  <2> QED BY <1>4, <2>1 DEF FileInv
<1>6. ASSUME NEW d \in CycleIds PROVE CycleInv(d)'
  <2>1. CASE d = c BY <2>1 DEF CycleInv, Past
  <2>2. CASE d # c
    <3>1. \A k \in Keys : /\ memory.since[k] <= memory'.since[k]
                          /\ FirmCursor(k) => FirmCursor(k)'
      BY <1>0, StateFields DEF FirmCursor, FirmAt
    <3> QED BY <1>1, <2>2, <3>1, Undisturbed
  <2> QED BY <2>1, <2>2
<1> QED BY <1>1, <1>5, <1>6 DEF MonitorInv

LEMMA CycleMoved ==
    ASSUME MonitorTypes, NEW c \in CycleIds, NEW rec \in [at : Places, key : 1..3, head : Nat, from : Nat],
           cycle' = [cycle EXCEPT ![c] = rec]
    PROVE  /\ cycle' \in [CycleIds -> [at : Places, key : 1..3, head : Nat, from : Nat]]
           /\ cycle'[c] = rec /\ \A d \in CycleIds : d # c => cycle'[d] = cycle[d]
BY DEF MonitorTypes

LEMMA CycleStepped ==
    ASSUME MonitorTypes, NEW c \in CycleIds, NEW place \in Places, Step(c, place)
    PROVE  /\ cycle' \in [CycleIds -> [at : Places, key : 1..3, head : Nat, from : Nat]]
           /\ cycle'[c].at = place /\ \A d \in CycleIds : d # c => cycle'[d] = cycle[d]
           /\ cycle'[c].key = cycle[c].key /\ cycle'[c].head = cycle[c].head /\ cycle'[c].from = cycle[c].from
<1> PICK rec : rec = [cycle[c] EXCEPT !.at = place] OBVIOUS
<1>1. cycle[c] \in [at : Places, key : 1..3, head : Nat, from : Nat] BY DEF MonitorTypes
<1>2. rec \in [at : Places, key : 1..3, head : Nat, from : Nat] BY <1>1
<1>3. rec.at = place /\ rec.key = cycle[c].key /\ rec.head = cycle[c].head /\ rec.from = cycle[c].from BY <1>1
<1>4. cycle' = [cycle EXCEPT ![c] = rec] BY DEF Step
<1> QED BY <1>2, <1>3, <1>4, CycleMoved

LEMMA StepsElsewhere ==
    ASSUME MonitorInv, NEW c \in CycleIds,
           \/ BeginCycle(c) \/ CycleFails(c) \/ RollBack(c) \/ FetchFresh(c) \/ RecordSync(c) \/ FetchFails(c)
           \/ FetchUnchecked(c) \/ SaveMonitorState(c)
    PROVE  MonitorInv'
<1>0. MonitorTypes /\ CycleInv(c) /\ blocks \in Chains /\ counts \in [reorgs : Nat, troubles : Nat]
  BY DEF MonitorInv, MonitorTypes
<1>a. counts' = [counts EXCEPT !.troubles = @ + 1] =>
          counts' \in [reorgs : Nat, troubles : Nat] /\ counts'.reorgs = counts.reorgs
  BY <1>0
<1>b. cycle[c].at # "asleep" => memory # Unknown BY <1>0 DEF CycleInv
<1>1. CASE BeginCycle(c)
  <2> PICK rec : rec = [Asleep EXCEPT !.at = "head"] OBVIOUS
  <2>1. rec = [at |-> "head", key |-> 1, head |-> 0, from |-> 0] BY DEF Asleep
  <2>a. "head" \in Places /\ 1 \in 1..3 /\ 0 \in Nat BY DEF Places
  <2>2. rec \in [at : Places, key : 1..3, head : Nat, from : Nat] /\ rec.at = "head" /\ rec.key = 1
    <3>1. [at |-> "head", key |-> 1, head |-> 0, from |-> 0] \in [at : Places, key : 1..3, head : Nat, from : Nat]
      BY <2>a
    <3>2. rec \in [at : Places, key : 1..3, head : Nat, from : Nat] BY <2>1, <3>1
    <3>3. rec.at = "head" /\ rec.key = 1 BY <2>1
    <3> QED BY <3>2, <3>3
  <2>3. cycle' = [cycle EXCEPT ![c] = rec] BY <1>1 DEF BeginCycle
  <2>4. /\ memory # Unknown /\ UNCHANGED <<blocks, peak, noticed, memory, counts, saved>>
    BY <1>1 DEF BeginCycle, monitorWorld, monitorFiles
  <2> QED BY <1>0, <2>2, <2>3, <2>4, CycleMoved, Elsewhere
<1>2. CASE CycleFails(c)
  <2>1. /\ Step(c, "asleep") /\ cycle[c].at # "asleep" /\ counts' = [counts EXCEPT !.troubles = @ + 1]
        /\ UNCHANGED <<blocks, peak, noticed, memory, saved>>
    BY <1>2 DEF CycleFails, monitorFiles
  <2>2. "asleep" \in Places BY DEF Places
  <2> QED BY <1>0, <1>a, <1>b, <2>1, <2>2, CycleStepped, Elsewhere
<1>3. CASE RollBack(c)
  <2>1. /\ Step(c, "save") /\ cycle[c].at # "asleep" /\ UNCHANGED <<blocks, peak, noticed, memory, counts, saved>>
    BY <1>3 DEF RollBack, monitorWorld
  <2>2. "save" \in Places BY DEF Places
  <2> QED BY <1>0, <1>b, <2>1, <2>2, CycleStepped, Elsewhere
<1>4. CASE FetchFresh(c)
  <2> PICK rec : rec = [cycle[c] EXCEPT !.at = "sync", !.head = Len(blocks)] OBVIOUS
  <2>1. cycle[c] \in [at : Places, key : 1..3, head : Nat, from : Nat] BY <1>0 DEF MonitorTypes
  <2>2. Len(blocks) \in Nat /\ "sync" \in Places BY <1>0 DEF Chains, Places
  <2>3. rec \in [at : Places, key : 1..3, head : Nat, from : Nat] /\ rec.at = "sync" BY <2>1, <2>2
  <2>4. cycle' = [cycle EXCEPT ![c].at = "sync", ![c].head = Len(blocks)] BY <1>4 DEF FetchFresh
  <2>5. cycle' = [cycle EXCEPT ![c] = rec] BY <1>0, <2>1, <2>4 DEF MonitorTypes
  <2>6. cycle[c].at # "asleep" /\ UNCHANGED <<blocks, peak, noticed, memory, counts, saved>>
    BY <1>4 DEF FetchFresh, monitorWorld, monitorFiles
  <2> QED BY <1>0, <1>b, <2>3, <2>5, <2>6, CycleMoved, Elsewhere
<1>5. CASE RecordSync(c)
  <2>1. /\ Step(c, "save") /\ cycle[c].at # "asleep" /\ UNCHANGED <<blocks, peak, noticed, memory, counts, saved>>
    BY <1>5 DEF RecordSync, monitorWorld
  <2>2. "save" \in Places BY DEF Places
  <2> QED BY <1>0, <1>b, <2>1, <2>2, CycleStepped, Elsewhere
<1>6. CASE FetchFails(c)
  <2>1. /\ Step(c, "save") /\ cycle[c].at # "asleep" /\ counts' = [counts EXCEPT !.troubles = @ + 1]
        /\ UNCHANGED <<blocks, peak, noticed, memory, saved>>
    BY <1>6 DEF FetchFails, monitorFiles
  <2>2. "save" \in Places BY DEF Places
  <2> QED BY <1>0, <1>a, <1>b, <2>1, <2>2, CycleStepped, Elsewhere
<1>7. CASE SaveMonitorState(c)
  <2>1. /\ Step(c, "asleep") /\ cycle[c].at # "asleep" /\ saved' = memory
        /\ UNCHANGED <<blocks, peak, noticed, memory, counts>>
    BY <1>7 DEF SaveMonitorState, monitorWorld
  <2>2. "asleep" \in Places BY DEF Places
  <2> QED BY <1>0, <1>b, <2>1, <2>2, CycleStepped, Elsewhere
<1>8. CASE FetchUnchecked(c)
  <2> PICK rec : rec = [cycle[c] EXCEPT !.at = "sync", !.head = Len(blocks)] OBVIOUS
  <2>1. cycle[c] \in [at : Places, key : 1..3, head : Nat, from : Nat] BY <1>0 DEF MonitorTypes
  <2>2. Len(blocks) \in Nat /\ "sync" \in Places BY <1>0 DEF Chains, Places
  <2>3. rec \in [at : Places, key : 1..3, head : Nat, from : Nat] /\ rec.at = "sync" BY <2>1, <2>2
  <2>4. cycle' = [cycle EXCEPT ![c].at = "sync", ![c].head = Len(blocks)] BY <1>8 DEF FetchUnchecked
  <2>5. cycle' = [cycle EXCEPT ![c] = rec] BY <1>0, <2>1, <2>4 DEF MonitorTypes
  <2>6. /\ cycle[c].at # "asleep" /\ counts' = [counts EXCEPT !.troubles = @ + 1]
        /\ UNCHANGED <<blocks, peak, noticed, memory, saved>>
    BY <1>8 DEF FetchUnchecked, monitorFiles
  <2> QED BY <1>0, <1>a, <1>b, <2>3, <2>5, <2>6, CycleMoved, Elsewhere
<1> QED BY <1>1, <1>2, <1>3, <1>4, <1>5, <1>6, <1>7, <1>8

LEMMA Restarts ==
    ASSUME MonitorInv, StartMonitor \/ MonitorDies
    PROVE  MonitorInv'
<1>0. MonitorTypes /\ FileInv(saved) /\ saved \in MonitorStates /\ counts \in [reorgs : Nat, troubles : Nat]
  BY DEF MonitorInv, MonitorTypes
<1>1. CASE StartMonitor
  <2>1. memory = Unknown /\ memory' = saved /\ UNCHANGED <<blocks, peak, noticed, counts, saved, cycle>>
    BY <1>1 DEF StartMonitor, monitorWorld, monitorFiles
  <2>2. MonitorTypes' BY <1>0, <2>1 DEF MonitorTypes
  <2>3. FileInv(saved)' /\ FileInv(memory)' BY <1>0, <2>1 DEF FileInv
  <2>4. ASSUME NEW c \in CycleIds PROVE CycleInv(c)'
    <3>1. cycle[c].at = "asleep" BY <2>1 DEF MonitorInv, CycleInv
    <3> QED BY <2>1, <3>1 DEF CycleInv, Past
  <2> QED BY <2>2, <2>3, <2>4 DEF MonitorInv
<1>2. CASE MonitorDies
  <2>1. /\ memory' = Unknown /\ cycle' = [c \in CycleIds |-> Asleep] /\ counts' = [counts EXCEPT !.troubles = @ + 1]
        /\ UNCHANGED <<blocks, peak, noticed, saved>>
    BY <1>2 DEF MonitorDies, monitorFiles
  <2>2. Asleep \in [at : Places, key : 1..3, head : Nat, from : Nat] /\ Asleep.at = "asleep"
    BY DEF Asleep, Places
  <2>3. counts' \in [reorgs : Nat, troubles : Nat] /\ counts'.reorgs = counts.reorgs BY <1>0, <2>1
  <2>4. MonitorTypes' BY <1>0, <2>1, <2>2, <2>3 DEF MonitorTypes
  <2>5. FileInv(saved)' BY <1>0, <2>1, <2>3 DEF FileInv
  <2>6. \A c \in CycleIds : CycleInv(c)' BY <2>1, <2>2 DEF CycleInv, Past
  <2> QED BY <2>1, <2>4, <2>5, <2>6 DEF MonitorInv
<1> QED BY <1>1, <1>2

---------------------------------------------------------------------------
(* The chain grows and is reorganised. *)

LEMMA OneMoreBlock ==
    ASSUME NEW chain \in Chains, NEW x \in Blocks
    PROVE  /\ Append(chain, x) \in Chains /\ Len(Append(chain, x)) = Len(chain) + 1
           /\ \A b \in 1..Len(chain) : Append(chain, x)[b] = chain[b]
           /\ Append(chain, x)[Len(chain) + 1] = x
           /\ Len(chain) \in Nat /\ DOMAIN chain = 1..Len(chain)
BY DEF Chains

LEMMA CutAt ==
    ASSUME NEW chain \in Chains, NEW h \in 1..Len(chain)
    PROVE  /\ SubSeq(chain, 1, h) \in Chains /\ Len(SubSeq(chain, 1, h)) = h
           /\ \A b \in 1..h : SubSeq(chain, 1, h)[b] = chain[b]
BY DEF Chains

LEMMA BlockEvents == ASSUME NEW chain, NEW evs \in NewEvents(chain) PROVE evs \in SUBSET ChainEvents
BY DEF NewEvents

(* A cycle while the chain changes and its firm cursors stay firm. *)
LEMMA CycleOnChain ==
    ASSUME MonitorTypes, NEW c \in CycleIds, CycleInv(c), UNCHANGED <<memory, cycle>>,
           memory \in MonitorStates => \A k \in Keys, n \in Nat : FirmAt(k, n) => FirmAt(k, n)',
           cycle[c].at \in {"reconcile", "scan", "anchor"} =>
               cycle[c].head <= peak' /\ SafeBlock(cycle[c].head) <= Len(blocks')
    PROVE  CycleInv(c)'
<1>1. CASE cycle[c].at = "asleep" BY <1>1 DEF CycleInv, Past
<1>2. CASE cycle[c].at # "asleep"
  <2>1. memory \in MonitorStates BY <1>2 DEF CycleInv, MonitorTypes
  <2>2. \A k \in Keys, n \in Nat : FirmAt(k, n) => FirmAt(k, n)' BY <2>1
  <2>3. \A k \in Keys : FirmCursor(k) => FirmCursor(k)' BY <2>1, <2>2, StateFields DEF FirmCursor
  <2>4. /\ cycle[c].head \in Nat /\ cycle[c].from \in Nat /\ Key(c) \in Keys /\ Key(c)' = Key(c) /\ cycle'[c] = cycle[c]
    BY CycleFields DEF Key
  <2>5. Past(c)' => \A j \in 1..3 : j >= cycle'[c].key => FirmCursor(CursorKeys[j])'
    BY <2>3, <2>4, KeyNames DEF CycleInv, Past
  <2>6. cycle[c].at = "scan" =>
            \/ cycle[c].from <= memory.since[Key(c)]
            \/ cycle[c].from > 0 /\ FirmAt(Key(c), cycle[c].from - 1)'
    <3> SUFFICES ASSUME cycle[c].from > 0, FirmAt(Key(c), cycle[c].from - 1)
        PROVE  FirmAt(Key(c), cycle[c].from - 1)'
      BY DEF CycleInv
    <3> PICK n : n = cycle[c].from - 1 OBVIOUS
    <3>1. n \in Nat /\ cycle'[c].from - 1 = n BY <2>4
    <3>2. FirmAt(Key(c), n)' BY <2>2, <2>4, <3>1
    <3> QED BY <2>4, <3>1, <3>2
  <2>7. cycle[c].at = "anchor" => FirmAt(Key(c), SafeBlock(cycle[c].head))'
    <3> SUFFICES ASSUME cycle[c].at = "anchor" PROVE FirmAt(Key(c), SafeBlock(cycle[c].head))'
      OBVIOUS
    <3> PICK n : n = SafeBlock(cycle[c].head) OBVIOUS
    <3>1. n \in Nat /\ SafeBlock(cycle'[c].head) = n BY <2>4, SafeBlocks
    <3>2. FirmAt(Key(c), n) BY DEF CycleInv
    <3>3. FirmAt(Key(c), n)' BY <2>2, <2>4, <3>1, <3>2
    <3> QED BY <2>4, <3>1, <3>3
  <2>8. memory' = memory /\ memory # Unknown BY <2>1, Limits
  <2> QED BY <2>4, <2>5, <2>6, <2>7, <2>8 DEF CycleInv
<1> QED BY <1>1, <1>2

LEMMA Mined ==
    ASSUME MonitorInv, Mine
    PROVE  MonitorInv'
<1>0. /\ MonitorTypes /\ blocks \in Chains /\ peak \in Nat /\ Len(blocks) <= peak /\ counts.reorgs \in Nat
      /\ \A b \in DOMAIN blocks : blocks[b].hash <= counts.reorgs
  BY DEF MonitorInv, MonitorTypes
<1>1. PICK evs \in NewEvents(blocks) : blocks' = Append(blocks, [hash |-> counts.reorgs, events |-> evs])
  BY DEF Mine
<1>2. UNCHANGED <<memory, saved, noticed, cycle, counts>> BY DEF Mine, monitorFiles
<1> PICK x : x = [hash |-> counts.reorgs, events |-> evs] OBVIOUS
<1>3. x \in Blocks /\ x.hash = counts.reorgs BY <1>0, BlockEvents DEF Blocks
<1>4. /\ blocks' \in Chains /\ Len(blocks') = Len(blocks) + 1 /\ Len(blocks) \in Nat
      /\ \A b \in 1..Len(blocks) : blocks'[b] = blocks[b]
      /\ blocks'[Len(blocks) + 1] = x /\ DOMAIN blocks = 1..Len(blocks) /\ DOMAIN blocks' = 1..(Len(blocks) + 1)
  BY <1>0, <1>1, <1>3, OneMoreBlock DEF Chains
<1>5. peak' \in Nat /\ peak <= peak' /\ Len(blocks') <= peak'
  <2>1. peak' = IF Len(blocks) = peak THEN peak + 1 ELSE peak BY DEF Mine
  <2> QED BY <1>0, <1>4, <2>1, Higher
<1>6. \A b \in DOMAIN blocks' : blocks'[b].hash <= counts.reorgs
  <2> SUFFICES ASSUME NEW b \in DOMAIN blocks' PROVE blocks'[b].hash <= counts.reorgs
    OBVIOUS
  <2>1. b \in 1..Len(blocks) \/ b = Len(blocks) + 1 BY <1>4
  <2>2. counts.reorgs <= counts.reorgs BY <1>0
  <2> QED BY <1>0, <1>3, <1>4, <2>1, <2>2
<1>7. MonitorTypes' BY <1>0, <1>2, <1>4, <1>5, <1>6 DEF MonitorTypes
<1>8. ASSUME NEW t \in MonitorStates, FileInv(t) PROVE FileInv(t)'
  <2> SUFFICES ASSUME NEW k \in Keys
      PROVE  KeyInv(blocks', peak', noticed, counts.reorgs, k, t.since[k], t.cursor[k], t.anchor[k], t.head)
    BY <1>2 DEF FileInv
  <2>1. KeyInv(blocks, peak, noticed, counts.reorgs, k, t.since[k], t.cursor[k], t.anchor[k], t.head)
    BY <1>8 DEF FileInv
  <2>2. t.since[k] \in Nat /\ t.cursor[k] \in Nat /\ t.anchor[k] \in Anchors \cup {Unknown} /\ t.head \in Nat
    BY StateFields
  <2>3. blocks'[Len(blocks) + 1].hash = counts.reorgs BY <1>3, <1>4
  <2> QED BY <1>0, <1>4, <1>5, <2>1, <2>2, <2>3, KeyOnMine
<1>9. ASSUME NEW c \in CycleIds PROVE CycleInv(c)'
  <2>1. CycleInv(c) BY DEF MonitorInv
  <2>2. memory \in MonitorStates => \A k \in Keys, n \in Nat : FirmAt(k, n) => FirmAt(k, n)'
    <3> SUFFICES ASSUME memory \in MonitorStates, NEW k \in Keys, NEW n \in Nat, FirmAt(k, n) PROVE FirmAt(k, n)'
      OBVIOUS
    <3> PICK len : len = Len(blocks) OBVIOUS
    <3>1. memory.since[k] \in Nat /\ memory'.since[k] = memory.since[k] BY <1>2, StateFields
    <3>2. Firm(blocks, peak, noticed, k, memory.since[k], n) BY DEF FirmAt
    <3>3. len \in Nat /\ len <= Len(blocks) /\ len <= Len(blocks') BY <1>4
    <3>4. \A b \in 1..len : blocks'[b] = blocks[b] BY <1>4
    <3>5. n <= len \/ n < memory.since[k] BY <3>2 DEF Firm
    <3>6. Firm(blocks', peak', noticed, k, memory.since[k], n)
      BY <1>0, <1>4, <1>5, <3>1, <3>2, <3>3, <3>4, <3>5, FirmOnPrefix
    <3> QED BY <1>2, <3>1, <3>6 DEF FirmAt
  <2>3. cycle[c].at \in {"reconcile", "scan", "anchor"} =>
            cycle[c].head <= peak' /\ SafeBlock(cycle[c].head) <= Len(blocks')
    <3> SUFFICES ASSUME cycle[c].at \in {"reconcile", "scan", "anchor"}
        PROVE  cycle[c].head <= peak' /\ SafeBlock(cycle[c].head) <= Len(blocks')
      OBVIOUS
    <3>1. cycle[c].head <= peak /\ SafeBlock(cycle[c].head) <= Len(blocks) BY <2>1 DEF CycleInv
    <3>2. cycle[c].head \in Nat /\ SafeBlock(cycle[c].head) \in Nat BY <1>0, CycleFields, SafeBlocks
    <3>3. cycle[c].head <= peak' BY <1>0, <1>5, <3>1, <3>2
    <3>4. SafeBlock(cycle[c].head) <= Len(blocks') BY <1>4, <3>1, <3>2
    <3> QED BY <3>3, <3>4
  <2> QED BY <1>0, <1>2, <2>1, <2>2, <2>3, CycleOnChain
<1>10. FileInv(saved)' /\ (memory' # Unknown => FileInv(memory)')
  <2> PICK s : s = saved OBVIOUS
  <2> PICK m : m = memory OBVIOUS
  <2>1. s \in MonitorStates /\ FileInv(s) BY <1>0 DEF MonitorInv, MonitorTypes, FileInv
  <2>2. m # Unknown => m \in MonitorStates /\ FileInv(m) BY <1>0 DEF MonitorInv, MonitorTypes, FileInv
  <2>3. FileInv(s)' /\ (m # Unknown => FileInv(m)') BY <1>8, <2>1, <2>2
  <2>4. saved' = s /\ memory' = m BY <1>2
  <2> QED BY <2>3, <2>4 DEF FileInv
<1> QED BY <1>7, <1>9, <1>10 DEF MonitorInv

(* How far a reorganisation may reach, and what is final up to there. *)
LEMMA ShallowCut ==
    ASSUME NEW head \in Nat, NEW top \in Nat, NEW h \in Nat, head <= top, top <= h + Confirmations
    PROVE  SafeBlock(head) <= h
<1>1. Confirmations \in Nat BY Limits
<1>2. CASE SafeBlock(head) > 0
  <2> PICK n : n = SafeBlock(head) OBVIOUS
  <2>1. n \in Nat /\ n + Confirmations = head BY <1>2, SafeBlocks
  <2> QED BY <1>1, <2>1
<1>3. CASE ~(SafeBlock(head) > 0)
  <2> QED BY <1>3, SafeBlocks
<1> QED BY <1>2, <1>3

LEMMA CutLimits ==
    ASSUME NEW top \in Nat, NEW h \in Nat, NEW len \in Nat, h < len, len <= top
    PROVE  /\ h >= top - Confirmations => top <= h + Confirmations /\ top <= h + Confirmations + Span
           /\ h >= top - Confirmations - Span => top <= h + Confirmations + Span
           /\ h + 1 <= top
<1>1. Confirmations \in Nat /\ Span \in Nat BY Limits
<1> QED BY <1>1

LEMMA Reorged ==
    ASSUME MonitorInv, Reorg
    PROVE  MonitorInv'
<1>0. /\ MonitorTypes /\ blocks \in Chains /\ peak \in Nat /\ Len(blocks) <= peak /\ Len(blocks) \in Nat
      /\ counts \in [reorgs : Nat, troubles : Nat]
      /\ \A b \in DOMAIN blocks : blocks[b].hash <= counts.reorgs /\ DOMAIN blocks = 1..Len(blocks)
  BY DEF MonitorInv, MonitorTypes, Chains
<1>1. PICK h \in DOMAIN blocks \ {Len(blocks)} :
          /\ \/ h >= peak - Confirmations
             \/ /\ h >= peak - Confirmations - Span
                /\ \A c \in CycleIds : ~Scanning(c)
                /\ Anchored(saved) /\ (memory # Unknown => Anchored(memory))
          /\ \E evs \in NewEvents(SubSeq(blocks, 1, h)) :
                blocks' = Append(SubSeq(blocks, 1, h), [hash |-> counts.reorgs + 1, events |-> evs])
  BY DEF Reorg
<1>2. PICK evs \in NewEvents(SubSeq(blocks, 1, h)) :
          blocks' = Append(SubSeq(blocks, 1, h), [hash |-> counts.reorgs + 1, events |-> evs])
  BY <1>1
<1>3. UNCHANGED <<peak, memory, saved, noticed, cycle>> /\ counts' = [counts EXCEPT !.reorgs = @ + 1]
  BY DEF Reorg, monitorFiles
<1> PICK r : r = counts.reorgs OBVIOUS
<1>4. r \in Nat /\ counts'.reorgs = r + 1 /\ counts' \in [reorgs : Nat, troubles : Nat] BY <1>0, <1>3
<1> PICK x : x = [hash |-> r + 1, events |-> evs] OBVIOUS
<1>5. x \in Blocks /\ x.hash = r + 1
  <2>1. evs \in SUBSET ChainEvents /\ r + 1 \in Nat BY <1>4, BlockEvents
  <2> QED BY <2>1 DEF Blocks
<1>6. h \in Nat /\ h \in 1..Len(blocks) /\ h < Len(blocks) BY <1>0, <1>1
<1> PICK cut : cut = SubSeq(blocks, 1, h) OBVIOUS
<1>7. cut \in Chains /\ Len(cut) = h /\ \A b \in 1..h : cut[b] = blocks[b] BY <1>0, <1>6, CutAt
<1>8. blocks' = Append(cut, x) BY <1>2
<1>9. /\ blocks' \in Chains /\ Len(blocks') = h + 1 /\ DOMAIN blocks' = 1..(h + 1)
      /\ \A b \in 1..h : blocks'[b] = blocks[b]
      /\ blocks'[h + 1] = x /\ blocks'[h + 1].hash = r + 1
  <2>1. /\ Append(cut, x) \in Chains /\ Len(Append(cut, x)) = h + 1
        /\ \A b \in 1..h : Append(cut, x)[b] = cut[b]
        /\ Append(cut, x)[h + 1] = x
    <3>1. /\ Append(cut, x) \in Chains /\ Len(Append(cut, x)) = Len(cut) + 1
          /\ \A b \in 1..Len(cut) : Append(cut, x)[b] = cut[b]
          /\ Append(cut, x)[Len(cut) + 1] = x
      BY <1>5, <1>7, OneMoreBlock
    <3> QED BY <1>7, <3>1
  <2>2. DOMAIN blocks' = 1..(h + 1) BY <1>8, <2>1 DEF Chains
  <2> QED BY <1>5, <1>7, <1>8, <2>1, <2>2
<1>10. /\ peak <= h + Confirmations + Span /\ Len(blocks') <= peak
       /\ h >= peak - Confirmations => peak <= h + Confirmations
  BY <1>0, <1>1, <1>6, <1>9, CutLimits
<1>11. \A b \in DOMAIN blocks' : blocks'[b].hash <= r + 1
  <2> SUFFICES ASSUME NEW b \in DOMAIN blocks' PROVE blocks'[b].hash <= r + 1
    OBVIOUS
  <2>1. b \in 1..h \/ b = h + 1 BY <1>6, <1>9
  <2>2. CASE b \in 1..h
    <3>1. b \in DOMAIN blocks /\ blocks[b] \in Blocks BY <1>0, <1>6, <2>2 DEF Chains
    <3>2. blocks'[b].hash = blocks[b].hash /\ blocks[b].hash <= r /\ blocks[b].hash \in Nat
      BY <1>0, <1>9, <2>2, <3>1 DEF Blocks
    <3> QED BY <1>4, <3>2
  <2>3. CASE b = h + 1
    <3>1. r + 1 <= r + 1 BY <1>4
    <3> QED BY <1>9, <2>3, <3>1
  <2> QED BY <2>1, <2>2, <2>3
<1>12. MonitorTypes' BY <1>0, <1>3, <1>4, <1>9, <1>10, <1>11 DEF MonitorTypes
<1>13. ASSUME NEW t \in MonitorStates, FileInv(t), h >= peak - Confirmations \/ Anchored(t) PROVE FileInv(t)'
  <2> SUFFICES ASSUME NEW k \in Keys
      PROVE  KeyInv(blocks', peak, noticed, r + 1, k, t.since[k], t.cursor[k], t.anchor[k], t.head)
    BY <1>3, <1>4 DEF FileInv
  <2>1. KeyInv(blocks, peak, noticed, r, k, t.since[k], t.cursor[k], t.anchor[k], t.head)
    BY <1>13 DEF FileInv
  <2>2. /\ t.since[k] \in Nat /\ t.cursor[k] \in Nat /\ t.anchor[k] \in Anchors \cup {Unknown} /\ t.head \in Nat
        /\ FirstCursor(k) \in Nat
    BY StateFields, KeyNames
  <2>3. \/ peak <= h + Confirmations
        \/ IF t.anchor[k] = Unknown THEN t.cursor[k] = FirstCursor(k) ELSE t.cursor[k] <= t.anchor[k].block
    BY <1>10, <1>13 DEF Anchored, Keys
  <2> QED BY <1>0, <1>4, <1>6, <1>9, <1>10, <2>1, <2>2, <2>3, KeyOnReorg
<1>14. FileInv(saved)' /\ (memory' # Unknown => FileInv(memory)')
  <2> PICK s : s = saved OBVIOUS
  <2> PICK m : m = memory OBVIOUS
  <2>1. s \in MonitorStates /\ FileInv(s) BY <1>0 DEF MonitorInv, MonitorTypes, FileInv
  <2>2. m # Unknown => m \in MonitorStates /\ FileInv(m) BY <1>0 DEF MonitorInv, MonitorTypes, FileInv
  <2>3. h >= peak - Confirmations \/ (Anchored(s) /\ (m # Unknown => Anchored(m))) BY <1>1
  <2>4. FileInv(s)' /\ (m # Unknown => FileInv(m)') BY <1>13, <2>1, <2>2, <2>3
  <2>5. saved' = s /\ memory' = m BY <1>3
  <2> QED BY <2>4, <2>5 DEF FileInv
<1>15. ASSUME NEW c \in CycleIds PROVE CycleInv(c)'
  <2>1. CycleInv(c) BY DEF MonitorInv
  <2>2. CASE ~Scanning(c)
    <3>1. ~Past(c) /\ cycle[c].at \notin {"reconcile", "scan", "anchor"} BY <2>2 DEF Scanning, Past
    <3>2. ~Past(c)' /\ cycle'[c] = cycle[c] /\ memory' = memory BY <1>3, <3>1 DEF Past
    <3> QED BY <2>1, <3>1, <3>2 DEF CycleInv
  <2>3. CASE Scanning(c)
    <3>1. peak <= h + Confirmations BY <1>1, <1>10, <2>3
    <3>2. memory \in MonitorStates => \A k \in Keys, n \in Nat : FirmAt(k, n) => FirmAt(k, n)'
      <4> SUFFICES ASSUME memory \in MonitorStates, NEW k \in Keys, NEW n \in Nat, FirmAt(k, n) PROVE FirmAt(k, n)'
        OBVIOUS
      <4>1. memory.since[k] \in Nat /\ memory'.since[k] = memory.since[k] BY <1>3, StateFields
      <4>2. Firm(blocks, peak, noticed, k, memory.since[k], n) BY DEF FirmAt
      <4>3. h <= Len(blocks) /\ h <= Len(blocks') /\ peak <= peak BY <1>0, <1>6, <1>9
      <4>4. n <= h \/ n < memory.since[k]
        <5>1. n + Confirmations <= peak \/ n < memory.since[k] BY <4>2 DEF Firm
        <5> QED BY <1>0, <1>6, <3>1, <5>1, Limits
      <4>5. Firm(blocks', peak, noticed, k, memory.since[k], n)
        BY <1>0, <1>6, <1>9, <4>1, <4>2, <4>3, <4>4, FirmOnPrefix
      <4> QED BY <1>3, <4>1, <4>5 DEF FirmAt
    <3>3. cycle[c].at \in {"reconcile", "scan", "anchor"} =>
              cycle[c].head <= peak' /\ SafeBlock(cycle[c].head) <= Len(blocks')
      <4> SUFFICES ASSUME cycle[c].at \in {"reconcile", "scan", "anchor"}
          PROVE  cycle[c].head <= peak' /\ SafeBlock(cycle[c].head) <= Len(blocks')
        OBVIOUS
      <4>1. cycle[c].head <= peak /\ cycle[c].head \in Nat /\ SafeBlock(cycle[c].head) \in Nat
        BY <1>0, <2>1, CycleFields, SafeBlocks DEF CycleInv
      <4>2. SafeBlock(cycle[c].head) <= h BY <1>0, <1>6, <3>1, <4>1, ShallowCut
      <4>3. SafeBlock(cycle[c].head) <= Len(blocks') BY <1>6, <1>9, <4>1, <4>2
      <4> QED BY <1>3, <4>1, <4>3
    <3> QED BY <1>0, <1>3, <2>1, <3>2, <3>3, CycleOnChain
  <2> QED BY <2>2, <2>3
<1> QED BY <1>12, <1>14, <1>15 DEF MonitorInv

---------------------------------------------------------------------------
(* The scans. *)

(* Where a cycle goes after a key: to the next key, or out of the scans. *)
LEMMA NextKeys ==
    ASSUME MonitorTypes, NEW c \in CycleIds, NEW rec, rec = NextKey(c)
    PROVE  /\ rec \in [at : Places, key : 1..3, head : Nat, from : Nat]
           /\ rec.at \in {"head", "save", "refresh"}
           /\ rec.at = "head" => rec.key = cycle[c].key + 1
<1>1. cycle[c] \in [at : Places, key : 1..3, head : Nat, from : Nat] /\ Len(CursorKeys) = 3
  BY KeyNames DEF MonitorTypes
<1>2. "head" \in Places /\ "save" \in Places /\ "refresh" \in Places BY DEF Places
<1>3. CASE addressed /\ cycle[c].key < 3
  <2>1. rec = [cycle[c] EXCEPT !.key = @ + 1, !.at = "head"] BY <1>1, <1>3 DEF NextKey
  <2>2. cycle[c].key + 1 \in 1..3 BY <1>1, <1>3
  <2> QED BY <1>1, <1>2, <2>1, <2>2
<1>4. CASE ~(addressed /\ cycle[c].key < 3)
  <2>1. rec = [cycle[c] EXCEPT !.at = IF procStatus = "NONE" THEN "save" ELSE "refresh"] BY <1>1, <1>4 DEF NextKey
  <2>2. rec = [cycle[c] EXCEPT !.at = "save"] \/ rec = [cycle[c] EXCEPT !.at = "refresh"] BY <2>1
  <2> QED BY <1>1, <1>2, <2>2
<1> QED BY <1>3, <1>4

(* A cursor is moved within a state. *)
LEMMA CursorSet ==
    ASSUME NEW s \in MonitorStates, NEW k \in Keys, NEW n \in Nat, NEW t, t = [s EXCEPT !.cursor[k] = n]
    PROVE  /\ t \in MonitorStates /\ t.anchor = s.anchor /\ t.since = s.since /\ t.head = s.head
           /\ t.cursor[k] = n /\ \A j \in Keys : j # k => t.cursor[j] = s.cursor[j]
BY StateFields DEF MonitorStates, Keys

LEMMA SinceSet ==
    ASSUME NEW s \in MonitorStates, NEW k \in Keys, NEW n \in Nat, NEW t, t = [s EXCEPT !.since[k] = n]
    PROVE  /\ t \in MonitorStates /\ t.anchor = s.anchor /\ t.cursor = s.cursor /\ t.head = s.head
           /\ t.since[k] = n /\ \A j \in Keys : j # k => t.since[j] = s.since[j]
BY StateFields DEF MonitorStates, Keys

LEMMA NoGaps ==
    ASSUME NEW first \in Nat, NEW cur \in Nat, NEW next \in Nat
    PROVE  /\ NoGapSince(first, cur, next) \in Nat /\ first <= NoGapSince(first, cur, next)
           /\ next <= NoGapSince(first, cur, next) \/ next <= cur + 1
BY DEF NoGapSince

(* A step of a cycle that changes the memory: the other cycles do not notice. *)
LEMMA ScanStep ==
    ASSUME MonitorInv, NEW c \in CycleIds, memory # Unknown, memory' \in MonitorStates,
           UNCHANGED <<blocks, peak, counts, saved>>, noticed \subseteq noticed', FileInv(memory)',
           \A k \in Keys : memory.since[k] <= memory'.since[k] /\ (FirmCursor(k) => FirmCursor(k)'),
           cycle' \in [CycleIds -> [at : Places, key : 1..3, head : Nat, from : Nat]],
           \A d \in CycleIds : d # c => cycle'[d] = cycle[d],
           CycleInv(c)'
    PROVE  MonitorInv'
<1>1. MonitorTypes /\ FileInv(saved) /\ saved \in MonitorStates BY DEF MonitorInv, MonitorTypes
<1>2. MonitorTypes' BY <1>1 DEF MonitorTypes
<1>3. FileInv(saved)'
  <2> PICK s : s = saved OBVIOUS
  <2>1. FileInv(s)' BY <1>1, FileStays
  <2> QED BY <2>1 DEF FileInv
<1>4. ASSUME NEW d \in CycleIds PROVE CycleInv(d)'
  <2>1. CASE d = c BY <2>1
  <2>2. CASE d # c BY <1>2, <2>2, Undisturbed
  <2> QED BY <2>1, <2>2
<1> QED BY <1>2, <1>3, <1>4 DEF MonitorInv

LEMMA Planned ==
    ASSUME MonitorInv, NEW c \in CycleIds, NEW head \in Nat, NEW mem \in MonitorStates,
           memory # Unknown, PlanScan(c, head, mem), FileInv(mem),
           UNCHANGED <<blocks, peak, noticed, counts, saved>>,
           head <= peak, SafeBlock(head) <= Len(blocks),
           \A k \in Keys : /\ memory.since[k] <= mem.since[k]
                           /\ FirmCursor(k) => Firm(blocks, peak, noticed, k, mem.since[k], mem.cursor[k]),
           \A j \in 1..3 : j >= cycle[c].key =>
               Firm(blocks, peak, noticed, CursorKeys[j], mem.since[CursorKeys[j]], mem.cursor[CursorKeys[j]])
    PROVE  MonitorInv'
<1>0. /\ MonitorTypes /\ blocks \in Chains /\ peak \in Nat /\ memory \in MonitorStates /\ Span \in Nat
      /\ cycle[c].key \in 1..3 /\ Key(c) \in Keys /\ Key(c) = CursorKeys[cycle[c].key]
  BY Limits, CycleFields DEF MonitorInv, MonitorTypes, Key
<1> PICK k : k = Key(c) OBVIOUS
<1> PICK safe : safe = SafeBlock(head) OBVIOUS
<1> PICK cur : cur = mem.cursor[k] OBVIOUS
<1> PICK from : from = IF mem.cursor[k] > 0 THEN mem.cursor[k] + 1 ELSE Minus(safe, Span) OBVIOUS
<1>1. /\ k \in Keys /\ safe \in Nat /\ cur \in Nat /\ from \in Nat
      /\ cur > 0 => from = cur + 1
      /\ cur = 0 => from <= safe
  <2>1. k \in Keys /\ safe \in Nat /\ cur \in Nat BY <1>0, SafeBlocks, StateFields
  <2>2. Minus(safe, Span) \in Nat /\ Minus(safe, Span) <= safe BY <1>0, <2>1 DEF Minus
  <2> QED BY <2>1, <2>2
<1>2. Firm(blocks, peak, noticed, k, mem.since[k], cur)
  <2>1. cycle[c].key >= cycle[c].key BY <1>0
  <2> QED BY <1>0, <2>1
<1>3. \A j \in Keys : memory.since[j] \in Nat BY <1>0, StateFields
<1>4. \A j \in Keys : mem.since[j] \in Nat /\ mem.cursor[j] \in Nat BY StateFields
<1>5. CASE from > safe
  <2>1. memory' = [mem EXCEPT !.cursor[k] = safe] /\ cycle' = [cycle EXCEPT ![c] = NextKey(c)]
    BY <1>5 DEF PlanScan
  <2>2. /\ memory' \in MonitorStates /\ memory'.anchor = mem.anchor /\ memory'.since = mem.since
        /\ memory'.head = mem.head /\ memory'.cursor[k] = safe
        /\ \A j \in Keys : j # k => memory'.cursor[j] = mem.cursor[j]
    BY <1>1, <2>1, CursorSet
  <2>3. Firm(blocks, peak, noticed, k, mem.since[k], safe)
    <3>1. safe <= cur BY <1>1, <1>5
    <3>2. mem.since[k] <= mem.since[k] /\ noticed \subseteq noticed BY <1>1, <1>4
    <3> QED BY <1>0, <1>1, <1>2, <1>4, <3>1, <3>2, FirmKept
  <2>4. ASSUME NEW j \in Keys, j = k \/ Firm(blocks, peak, noticed, j, mem.since[j], mem.cursor[j])
        PROVE  FirmCursor(j)'
    <3>1. Firm(blocks, peak, noticed, j, memory'.since[j], memory'.cursor[j]) BY <2>2, <2>3, <2>4
    <3> QED BY <3>1 DEF FirmCursor, FirmAt
  <2>5. FileInv(memory)'
    <3> PICK t : t = memory' OBVIOUS
    <3>1. t.head <= peak BY <2>2, KeyNames DEF FileInv, KeyInv
    <3>2. \A j \in Keys :
             \/ t.cursor[j] = mem.cursor[j] /\ t.since[j] = mem.since[j] /\ t.head = mem.head
             \/ mem.since[j] <= t.since[j] /\ Firm(blocks, peak, noticed', j, t.since[j], t.cursor[j])
      BY <1>4, <2>2, <2>3
    <3>3. counts'.reorgs = counts.reorgs /\ noticed \subseteq noticed' OBVIOUS
    <3>4. FileInv(t)' BY <1>0, <2>2, <3>1, <3>2, <3>3, FileMoves
    <3> QED BY <3>4 DEF FileInv
  <2>6. \A j \in Keys : memory.since[j] <= memory'.since[j] /\ (FirmCursor(j) => FirmCursor(j)')
    BY <2>2, <2>4
  <2> PICK rec : rec = NextKey(c) OBVIOUS
  <2>7. /\ rec \in [at : Places, key : 1..3, head : Nat, from : Nat] /\ rec.at \in {"head", "save", "refresh"}
        /\ rec.at = "head" => rec.key = cycle[c].key + 1
    BY <1>0, NextKeys
  <2>8. /\ cycle' \in [CycleIds -> [at : Places, key : 1..3, head : Nat, from : Nat]]
        /\ cycle'[c] = rec /\ \A d \in CycleIds : d # c => cycle'[d] = cycle[d]
    BY <1>0, <2>1, <2>7, CycleMoved
  <2>9. CycleInv(c)'
    <3>1. memory' # Unknown BY <2>2, Limits
    <3>2. Past(c)' => \A j \in 1..3 : j >= cycle'[c].key => FirmCursor(CursorKeys[j])'
      <4> SUFFICES ASSUME rec.at = "head", NEW j \in 1..3, j >= rec.key PROVE FirmCursor(CursorKeys[j])'
        BY <2>7, <2>8 DEF Past
      <4>1. j >= cycle[c].key BY <1>0, <2>7
      <4> QED BY <2>4, <4>1, KeyNames
    <3> QED BY <2>7, <2>8, <3>1, <3>2 DEF CycleInv
  <2>10. noticed \subseteq noticed' OBVIOUS
  <2> QED BY <2>2, <2>5, <2>6, <2>8, <2>9, <2>10, ScanStep
<1>6. CASE ~(from > safe)
  <2>1. PICK first \in Nat :
            /\ memory' = [mem EXCEPT !.since[k] = first]
            /\ mem.since[k] <= first /\ (from <= first \/ from <= cur + 1)
    <3>1. memory' = [mem EXCEPT !.since[k] = NoGapSince(@, mem.cursor[k], from)] BY <1>6 DEF PlanScan
    <3>2. memory' = [mem EXCEPT !.since[k] = NoGapSince(mem.since[k], cur, from)] BY <1>1, <3>1, StateFields
    <3>3. /\ NoGapSince(mem.since[k], cur, from) \in Nat /\ mem.since[k] <= NoGapSince(mem.since[k], cur, from)
          /\ from <= NoGapSince(mem.since[k], cur, from) \/ from <= cur + 1
      BY <1>1, <1>4, NoGaps
    <3> QED BY <3>2, <3>3
  <2>2. cycle' = [cycle EXCEPT ![c].at = "scan", ![c].head = head, ![c].from = from] BY <1>6 DEF PlanScan
  <2>a. first \in Nat OBVIOUS
  <2>b. mem.since[k] <= first BY <2>1
  <2>3. /\ memory' \in MonitorStates /\ memory'.anchor = mem.anchor /\ memory'.cursor = mem.cursor
        /\ memory'.head = mem.head /\ memory'.since[k] = first
        /\ \A j \in Keys : j # k => memory'.since[j] = mem.since[j]
    BY <1>1, <2>1, SinceSet
  <2>4. Firm(blocks, peak, noticed, k, first, cur)
    <3>1. cur <= cur /\ noticed \subseteq noticed BY <1>1
    <3> QED BY <1>0, <1>1, <1>2, <1>4, <2>a, <2>b, <3>1, FirmKept
  <2>5. ASSUME NEW j \in Keys, j = k \/ Firm(blocks, peak, noticed, j, mem.since[j], mem.cursor[j])
        PROVE  FirmCursor(j)'
    <3>1. Firm(blocks, peak, noticed, j, memory'.since[j], memory'.cursor[j]) BY <2>3, <2>4, <2>5
    <3> QED BY <3>1 DEF FirmCursor, FirmAt
  <2>6. FileInv(memory)'
    <3> PICK t : t = memory' OBVIOUS
    <3>1. t.head <= peak BY <2>3, KeyNames DEF FileInv, KeyInv
    <3>2. \A j \in Keys :
             \/ t.cursor[j] = mem.cursor[j] /\ t.since[j] = mem.since[j] /\ t.head = mem.head
             \/ mem.since[j] <= t.since[j] /\ Firm(blocks, peak, noticed', j, t.since[j], t.cursor[j])
      BY <1>4, <2>1, <2>3, <2>4
    <3>3. counts'.reorgs = counts.reorgs /\ noticed \subseteq noticed' OBVIOUS
    <3>4. FileInv(t)' BY <1>0, <2>3, <3>1, <3>2, <3>3, FileMoves
    <3> QED BY <3>4 DEF FileInv
  <2>7. \A j \in Keys : memory.since[j] <= memory'.since[j] /\ (FirmCursor(j) => FirmCursor(j)')
    <3> SUFFICES ASSUME NEW j \in Keys
        PROVE  memory.since[j] <= memory'.since[j] /\ (FirmCursor(j) => FirmCursor(j)')
      OBVIOUS
    <3>1. mem.since[j] <= memory'.since[j] /\ memory'.since[j] \in Nat
      BY <1>4, <2>1, <2>3
    <3>2. memory.since[j] <= memory'.since[j] BY <1>3, <1>4, <3>1
    <3> QED BY <2>5, <3>2
  <2> PICK rec : rec = [cycle[c] EXCEPT !.at = "scan", !.head = head, !.from = from] OBVIOUS
  <2>8. cycle[c] \in [at : Places, key : 1..3, head : Nat, from : Nat] /\ "scan" \in Places
    BY <1>0 DEF MonitorTypes, Places
  <2>9. /\ rec \in [at : Places, key : 1..3, head : Nat, from : Nat]
        /\ rec.at = "scan" /\ rec.key = cycle[c].key /\ rec.head = head /\ rec.from = from
    BY <1>1, <2>8
  <2>10. cycle' = [cycle EXCEPT ![c] = rec] BY <1>0, <2>2, <2>8 DEF MonitorTypes
  <2>11. /\ cycle' \in [CycleIds -> [at : Places, key : 1..3, head : Nat, from : Nat]]
         /\ cycle'[c] = rec /\ \A d \in CycleIds : d # c => cycle'[d] = cycle[d]
    BY <1>0, <2>9, <2>10, CycleMoved
  <2>12. CycleInv(c)'
    <3>1. memory' # Unknown BY <2>3, Limits
    <3>2. \A j \in 1..3 : j >= cycle'[c].key => FirmCursor(CursorKeys[j])'
      BY <2>5, <2>9, <2>11, KeyNames
    <3>3. cycle'[c].head <= peak' /\ SafeBlock(cycle'[c].head) <= Len(blocks') BY <2>9, <2>11
    <3>4. Key(c)' = k BY <1>0, <2>9, <2>11 DEF Key
    <3>5. from <= first \/ (from > 0 /\ Firm(blocks, peak, noticed, k, first, from - 1))
      <4>1. CASE from = 0 BY <4>1
      <4>2. CASE from > 0 /\ from <= cur + 1
        <5> PICK n : n = from - 1 OBVIOUS
        <5>1. n \in Nat /\ n <= cur BY <1>1, <4>2
        <5>2. first <= first /\ noticed \subseteq noticed BY <2>a
        <5>c. cur \in Nat BY <1>1
        <5>3. Firm(blocks, peak, noticed, k, first, n) BY <1>0, <2>a, <2>4, <5>1, <5>2, <5>c, FirmKept
        <5> QED BY <4>2, <5>3
      <4> QED BY <1>1, <2>1, <4>1, <4>2
    <3>6. FirmAt(k, from - 1)' <=> Firm(blocks, peak, noticed, k, first, from - 1)
      BY <2>3 DEF FirmAt
    <3>7. \/ cycle'[c].from <= memory'.since[Key(c)']
          \/ cycle'[c].from > 0 /\ FirmAt(Key(c), cycle[c].from - 1)'
      <4>1. cycle'[c].from = from /\ memory'.since[k] = first BY <2>3, <2>9, <2>11
      <4>2. FirmAt(Key(c), cycle[c].from - 1)' <=> FirmAt(k, from - 1)' BY <3>4, <4>1 DEF FirmAt
      <4> QED BY <3>4, <3>5, <3>6, <4>1, <4>2
    <3>8. cycle'[c].at = "scan" BY <2>9, <2>11
    <3> QED BY <3>1, <3>2, <3>3, <3>7, <3>8 DEF CycleInv
  <2>13. noticed \subseteq noticed' OBVIOUS
  <2> QED BY <2>3, <2>6, <2>7, <2>11, <2>12, <2>13, ScanStep
<1> QED BY <1>5, <1>6

LEMMA Minuses ==
    ASSUME NEW a \in Nat, NEW b \in Nat
    PROVE  Minus(a, b) \in Nat /\ (Minus(a, b) > 0 => Minus(a, b) + b = a)
BY DEF Minus

LEMMA Nothing ==
    ASSUME NEW chain, NEW top, NEW seen, NEW k, NEW first \in Nat, NEW n \in Nat, n < first
    PROVE  Firm(chain, top, seen, k, first, n)
BY DEF Firm

(* A head that reads lower: forward the cursor leaves a gap, back it is firm. *)
LEMMA FirmByHead ==
    ASSUME MonitorTypes, NEW s \in MonitorStates, NEW k \in Keys, NEW head \in Nat, head < s.head,
           FileInv(s), NEW back \in Nat, back = Minus(SafeBlock(head), Span), NEW first \in Nat,
           s.since[k] <= first, back + 1 <= first \/ back + 1 <= s.cursor[k] + 1
    PROVE  Firm(blocks, peak, noticed, k, first, back)
<1>0. /\ blocks \in Chains /\ peak \in Nat /\ Confirmations \in Nat /\ Span \in Nat /\ s.head \in Nat
      /\ s.since[k] \in Nat /\ s.cursor[k] \in Nat /\ FirstCursor(k) \in Nat
  BY Limits, StateFields, KeyNames DEF MonitorTypes
<1>1. /\ FirstCursor(k) < s.since[k]
      /\ \A n \in Nat : n <= s.cursor[k] /\ n + Confirmations + Span <= s.head =>
             Firm(blocks, peak, noticed, k, s.since[k], n)
  BY DEF FileInv, KeyInv
<1>2. CASE back < first BY <1>2, Nothing
<1>3. CASE ~(back < first)
  <2> PICK safe \in Nat : safe = SafeBlock(head) BY SafeBlocks
  <2>1. back > 0 /\ back <= s.cursor[k] BY <1>0, <1>1, <1>3
  <2>2. back + Span = safe BY <1>0, <2>1, Minuses
  <2>3. safe + Confirmations = head
    <3>1. safe > 0 BY <1>0, <2>1, <2>2
    <3> QED BY <3>1, SafeBlocks
  <2>4. back + Confirmations + Span <= s.head
    <3>1. back + Confirmations + Span = head BY <1>0, <2>2, <2>3
    <3> QED BY <1>0, <3>1
  <2>5. Firm(blocks, peak, noticed, k, s.since[k], back) BY <1>1, <2>1, <2>4
  <2>6. back <= back /\ noticed \subseteq noticed OBVIOUS
  <2> QED BY <1>0, <2>5, <2>6, FirmKept
<1> QED BY <1>2, <1>3

(* An anchor that is gone: its cursor goes far enough back. *)
LEMMA FirmByAnchor ==
    ASSUME MonitorTypes, NEW s \in MonitorStates, NEW k \in Keys, FileInv(s)
    PROVE  Firm(blocks, peak, noticed, k, s.since[k], Rewound(s)[k])
<1> PICK a : a = s.anchor[k] OBVIOUS
<1> PICK first : first = s.since[k] OBVIOUS
<1> PICK len : len = Len(blocks) OBVIOUS
<1>0. /\ blocks \in Chains /\ peak \in Nat /\ Confirmations \in Nat /\ Span \in Nat
      /\ first \in Nat /\ s.cursor[k] \in Nat /\ FirstCursor(k) \in Nat /\ a \in Anchors \cup {Unknown}
      /\ len \in Nat /\ DOMAIN blocks = 1..len
  <2>1. s.since[k] \in Nat /\ s.cursor[k] \in Nat /\ s.anchor[k] \in Anchors \cup {Unknown} BY StateFields
  <2>2. blocks \in Chains /\ peak \in Nat /\ Confirmations \in Nat /\ Span \in Nat /\ FirstCursor(k) \in Nat
    BY Limits, KeyNames DEF MonitorTypes
  <2>3. len \in Nat /\ DOMAIN blocks = 1..len BY <2>2 DEF Chains
  <2> QED BY <2>1, <2>2, <2>3
<1>1. /\ FirstCursor(k) < first /\ AnchorInv(blocks, peak, noticed, counts.reorgs, k, first, a)
      /\ Off(blocks, a) \/ Firm(blocks, peak, noticed, k, first, s.cursor[k])
  BY DEF FileInv, KeyInv
<1>2. Rewound(s)[k] = IF Mismatch(s, k) THEN Minus(a.block, Confirmations + Span) ELSE s.cursor[k]
  BY DEF Rewound, Keys
<1>3. CASE Mismatch(s, k)
  <2>1. a # Unknown BY <1>3 DEF Mismatch
  <2>2. /\ a.block \in Nat /\ a.block + Confirmations <= peak /\ a.block <= len + Span
        /\ \A b \in DOMAIN blocks : first <= b /\ b + Span <= a.block => Seen(blocks, noticed, k, b)
    BY <1>0, <1>1, <2>1 DEF AnchorInv, Anchors
  <2>a. a.block \in Nat /\ Confirmations + Span \in Nat BY <1>0, <2>2
  <2> PICK n \in Nat : n = Minus(a.block, Confirmations + Span) BY <2>a, Minuses
  <2>3. CASE n = 0
    <3>1. n < first BY <1>0, <1>1, <2>3
    <3> QED BY <1>0, <1>2, <1>3, <3>1, Nothing
  <2>4. CASE n > 0
    <3>1. n + (Confirmations + Span) = a.block BY <2>a, <2>4, Minuses
    <3>2. n + Confirmations <= peak /\ n <= len BY <1>0, <2>2, <3>1
    <3>3. \A b \in DOMAIN blocks : first <= b /\ b <= n => Seen(blocks, noticed, k, b)
      <4> SUFFICES ASSUME NEW b \in DOMAIN blocks, first <= b, b <= n PROVE Seen(blocks, noticed, k, b)
        OBVIOUS
      <4>1. b \in Nat BY <1>0
      <4>2. b + Span <= a.block BY <1>0, <2>2, <3>1, <4>1
      <4> QED BY <2>2, <4>2
    <3> QED BY <1>2, <1>3, <3>2, <3>3 DEF Firm
  <2> QED BY <2>3, <2>4
<1>4. CASE ~Mismatch(s, k)
  <2>1. ~Off(blocks, a)
    <3> SUFFICES ASSUME Off(blocks, a) PROVE FALSE
      OBVIOUS
    <3>1. a # Unknown /\ HashAt(a.block) # a.hash BY DEF Off, HashAt
    <3>2. a.hash \in Nat BY <1>0, <3>1 DEF Anchors
    <3>3. a.hash # Unknown BY <3>2, Limits
    <3> QED BY <1>4, <3>1, <3>3 DEF Mismatch
  <2> QED BY <1>1, <1>2, <1>4, <2>1
<1> QED BY <1>3, <1>4

LEMMA RecheckedFirm ==
    ASSUME MonitorTypes, NEW s \in MonitorStates, s = memory, FileInv(s), NEW head \in Nat, head <= peak,
           NEW mem, mem = Rechecked(head)
    PROVE  /\ mem \in MonitorStates /\ FileInv(mem)
           /\ \A k \in Keys : /\ s.since[k] <= mem.since[k]
                              /\ Firm(blocks, peak, noticed, k, mem.since[k], mem.cursor[k])
<1>0. /\ blocks \in Chains /\ peak \in Nat /\ Span \in Nat /\ Confirmations \in Nat /\ counts.reorgs \in Nat
      /\ s \in [cursor : [Keys -> Nat], anchor : [Keys -> Anchors \cup {Unknown}], head : Nat, since : [Keys -> Nat]]
  BY Limits DEF MonitorTypes, MonitorStates, Keys
<1>1. /\ mem \in MonitorStates /\ mem.anchor = s.anchor /\ mem.head = head
      /\ \A k \in Keys : /\ s.since[k] <= mem.since[k]
                         /\ Firm(blocks, peak, noticed, k, mem.since[k], mem.cursor[k])
  <2>1. CASE s.head > head
    <3> PICK safe \in Nat : safe = SafeBlock(head) BY SafeBlocks
    <3> PICK back \in Nat : back = Minus(safe, Span) BY <1>0, Minuses
    <3> PICK cursors : cursors = [k \in Keys |-> back] OBVIOUS
    <3> PICK firsts : firsts = [k \in Keys |-> NoGapSince(s.since[k], s.cursor[k], back + 1)] OBVIOUS
    <3>1. mem = [s EXCEPT !.head = head, !.cursor = cursors, !.since = firsts] BY <2>1 DEF Rechecked, Keys
    <3>2. \A k \in Keys : /\ firsts[k] \in Nat /\ s.since[k] <= firsts[k]
                          /\ back + 1 <= firsts[k] \/ back + 1 <= s.cursor[k] + 1
      <4> SUFFICES ASSUME NEW k \in Keys
          PROVE /\ firsts[k] \in Nat /\ s.since[k] <= firsts[k]
                /\ back + 1 <= firsts[k] \/ back + 1 <= s.cursor[k] + 1
        OBVIOUS
      <4>1. s.since[k] \in Nat /\ s.cursor[k] \in Nat /\ back + 1 \in Nat BY <1>0
      <4>2. firsts[k] = NoGapSince(s.since[k], s.cursor[k], back + 1) OBVIOUS
      <4> QED BY <4>1, <4>2, NoGaps
    <3>3. firsts \in [Keys -> Nat] /\ cursors \in [Keys -> Nat] BY <3>2
    <3>4. mem \in MonitorStates /\ mem.anchor = s.anchor /\ mem.head = head /\ mem.cursor = cursors /\ mem.since = firsts
      BY <1>0, <3>1, <3>3 DEF MonitorStates, Keys
    <3>5. ASSUME NEW k \in Keys PROVE Firm(blocks, peak, noticed, k, mem.since[k], mem.cursor[k])
      <4>1. cursors[k] = back OBVIOUS
      <4>2. head < s.head BY <1>0, <2>1
      <4>3. Firm(blocks, peak, noticed, k, firsts[k], back) BY <3>2, <4>2, FirmByHead
      <4> QED BY <3>4, <4>1, <4>3
    <3> QED BY <3>2, <3>4, <3>5
  <2>2. CASE ~(s.head > head)
    <3> PICK cursors : cursors = Rewound(s) OBVIOUS
    <3>1. mem = [s EXCEPT !.head = head, !.cursor = cursors] BY <2>2 DEF Rechecked
    <3>2. cursors \in [Keys -> Nat]
      <4>1. cursors = [k \in Keys |-> IF Mismatch(s, k) THEN Minus(s.anchor[k].block, Confirmations + Span)
                                      ELSE s.cursor[k]]
        BY DEF Rewound, Keys
      <4>2. ASSUME NEW k \in Keys, Mismatch(s, k) PROVE Minus(s.anchor[k].block, Confirmations + Span) \in Nat
        <5>1. s.anchor[k] \in Anchors BY <1>0, <4>2 DEF Mismatch
        <5>2. s.anchor[k].block \in Nat /\ Confirmations + Span \in Nat BY <1>0, <5>1 DEF Anchors
        <5> QED BY <5>2, Minuses
      <4>3. \A k \in Keys : s.cursor[k] \in Nat BY <1>0
      <4> QED BY <4>1, <4>2, <4>3
    <3>3. mem \in MonitorStates /\ mem.anchor = s.anchor /\ mem.head = head /\ mem.cursor = cursors /\ mem.since = s.since
      BY <1>0, <3>1, <3>2 DEF MonitorStates, Keys
    <3>4. \A k \in Keys : Firm(blocks, peak, noticed, k, s.since[k], cursors[k]) BY FirmByAnchor
    <3>5. \A k \in Keys : s.since[k] <= s.since[k] BY <1>0
    <3> QED BY <3>3, <3>4, <3>5
  <2> QED BY <2>1, <2>2
<1>2. FileInv(mem)
  <2> SUFFICES ASSUME NEW k \in Keys
      PROVE  KeyInv(blocks, peak, noticed, counts.reorgs, k, mem.since[k], mem.cursor[k], mem.anchor[k], mem.head)
    BY DEF FileInv
  <2>1. KeyInv(blocks, peak, noticed, counts.reorgs, k, s.since[k], s.cursor[k], s.anchor[k], s.head)
    BY DEF FileInv
  <2>2. /\ s.since[k] \in Nat /\ s.cursor[k] \in Nat /\ s.anchor[k] \in Anchors \cup {Unknown} /\ s.head \in Nat
        /\ FirstCursor(k) \in Nat
    BY StateFields, KeyNames
  <2>3. mem.since[k] \in Nat /\ mem.cursor[k] \in Nat BY <1>1, StateFields
  <2>4. noticed \subseteq noticed /\ s.since[k] <= mem.since[k] BY <1>1
  <2>5. Firm(blocks, peak, noticed, k, mem.since[k], mem.cursor[k]) BY <1>1
  <2>6. KeyInv(blocks, peak, noticed, counts.reorgs, k, mem.since[k], mem.cursor[k], s.anchor[k], head)
    BY <1>0, <2>1, <2>2, <2>3, <2>4, <2>5, KeyOnMove
  <2> QED BY <1>1, <2>6
<1> QED BY <1>1, <1>2

LEMMA HeadRead ==
    ASSUME MonitorInv, NEW c \in CycleIds, ReadHead(c)
    PROVE  MonitorInv'
<1>0. /\ MonitorTypes /\ CycleInv(c) /\ cycle[c].at = "head" /\ memory \in MonitorStates /\ memory # Unknown
      /\ FileInv(memory) /\ Len(blocks) \in Nat /\ Len(blocks) <= peak
  BY DEF MonitorInv, MonitorTypes, CycleInv, ReadHead, Chains
<1>1. UNCHANGED <<blocks, peak, noticed, counts, saved>> BY DEF ReadHead, monitorWorld
<1>2. SafeBlock(Len(blocks)) <= Len(blocks) BY <1>0, SafeBlocks
<1>3. CASE Key(c) = "procurement"
  <2>1. UNCHANGED memory /\ cycle' = [cycle EXCEPT ![c].at = "reconcile", ![c].head = Len(blocks)]
    BY <1>3 DEF ReadHead
  <2> PICK rec : rec = [cycle[c] EXCEPT !.at = "reconcile", !.head = Len(blocks)] OBVIOUS
  <2>2. cycle[c] \in [at : Places, key : 1..3, head : Nat, from : Nat] /\ "reconcile" \in Places
    BY <1>0 DEF MonitorTypes, Places
  <2>3. /\ rec \in [at : Places, key : 1..3, head : Nat, from : Nat]
        /\ rec.at = "reconcile" /\ rec.head = Len(blocks)
    BY <1>0, <2>2
  <2>4. cycle' = [cycle EXCEPT ![c] = rec] BY <1>0, <2>1, <2>2 DEF MonitorTypes
  <2>5. /\ cycle' \in [CycleIds -> [at : Places, key : 1..3, head : Nat, from : Nat]]
        /\ cycle'[c] = rec /\ \A d \in CycleIds : d # c => cycle'[d] = cycle[d]
    BY <1>0, <2>3, <2>4, CycleMoved
  <2>6. CycleInv(c)'
    <3>1. ~Past(c)' BY <2>3, <2>5 DEF Past
    <3> QED BY <1>0, <1>1, <1>2, <2>1, <2>3, <2>5, <3>1 DEF CycleInv
  <2>7. noticed \subseteq noticed' BY <1>1
  <2>8. FileInv(memory)'
    <3> PICK m : m = memory OBVIOUS
    <3>1. FileInv(m)' BY <1>0, <1>1, FileStays
    <3> QED BY <2>1, <3>1 DEF FileInv
  <2>9. \A k \in Keys : memory.since[k] <= memory'.since[k] /\ (FirmCursor(k) => FirmCursor(k)')
    <3> SUFFICES ASSUME NEW k \in Keys
        PROVE  memory.since[k] <= memory'.since[k] /\ (FirmCursor(k) => FirmCursor(k)')
      OBVIOUS
    <3>1. memory.since[k] \in Nat BY <1>0, StateFields
    <3> QED BY <1>1, <2>1, <3>1 DEF FirmCursor, FirmAt
  <2> QED BY <1>0, <1>1, <2>1, <2>5, <2>6, <2>7, <2>8, <2>9, ScanStep
<1>4. CASE Key(c) # "procurement"
  <2>1. PlanScan(c, Len(blocks), memory) BY <1>4 DEF ReadHead
  <2>2. cycle[c].key \in 1..3 /\ cycle[c].key # 1 BY <1>0, <1>4, CycleFields DEF Key, CursorKeys
  <2>3. Past(c) BY <1>0, <2>2 DEF Past
  <2>4. \A j \in 1..3 : j >= cycle[c].key =>
            Firm(blocks, peak, noticed, CursorKeys[j], memory.since[CursorKeys[j]], memory.cursor[CursorKeys[j]])
    BY <1>0, <2>3 DEF CycleInv, FirmCursor, FirmAt
  <2>5. \A k \in Keys : /\ memory.since[k] <= memory.since[k]
                        /\ FirmCursor(k) => Firm(blocks, peak, noticed, k, memory.since[k], memory.cursor[k])
    <3>1. \A k \in Keys : memory.since[k] \in Nat BY <1>0, StateFields
    <3> QED BY <3>1 DEF FirmCursor, FirmAt
  <2> QED BY <1>0, <1>1, <1>2, <2>1, <2>4, <2>5, Planned
<1> QED BY <1>3, <1>4

LEMMA AnchorsChecked ==
    ASSUME MonitorInv, NEW c \in CycleIds, Reconcile(c)
    PROVE  MonitorInv'
<1>0. /\ MonitorTypes /\ CycleInv(c) /\ cycle[c].at = "reconcile" /\ memory \in MonitorStates /\ memory # Unknown
      /\ FileInv(memory)
  BY DEF MonitorInv, MonitorTypes, CycleInv, Reconcile
<1>1. UNCHANGED <<blocks, peak, noticed, counts, saved>> BY DEF Reconcile, monitorWorld
<1> PICK head : head = cycle[c].head OBVIOUS
<1>2. head \in Nat /\ head <= peak /\ SafeBlock(head) <= Len(blocks) BY <1>0, CycleFields DEF CycleInv
<1> PICK mem : mem = Rechecked(head) OBVIOUS
<1>3. PlanScan(c, head, mem) BY DEF Reconcile
<1> PICK s : s = memory OBVIOUS
<1>4. /\ mem \in MonitorStates /\ FileInv(mem)
      /\ \A k \in Keys : /\ s.since[k] <= mem.since[k]
                         /\ Firm(blocks, peak, noticed, k, mem.since[k], mem.cursor[k])
  BY <1>0, <1>2, RecheckedFirm
<1>5. \A k \in Keys : /\ memory.since[k] <= mem.since[k]
                      /\ FirmCursor(k) => Firm(blocks, peak, noticed, k, mem.since[k], mem.cursor[k])
  BY <1>4
<1>6. \A j \in 1..3 : j >= cycle[c].key =>
          Firm(blocks, peak, noticed, CursorKeys[j], mem.since[CursorKeys[j]], mem.cursor[CursorKeys[j]])
  BY <1>4, KeyNames
<1> QED BY <1>0, <1>1, <1>2, <1>3, <1>4, <1>5, <1>6, Planned

(* What a scan leaves behind: everything up to the safe block is seen. *)
LEMMA ScanSees ==
    ASSUME MonitorInv, NEW c \in CycleIds, Scan(c), NEW k, k = Key(c),
           NEW safe, safe = SafeBlock(cycle[c].head), NEW first, first = memory.since[k]
    PROVE  Firm(blocks, peak, noticed', k, first, safe)
<1>0. /\ MonitorTypes /\ CycleInv(c) /\ cycle[c].at = "scan" /\ memory \in MonitorStates /\ memory # Unknown
      /\ FileInv(memory) /\ blocks \in Chains /\ peak \in Nat
  BY DEF MonitorInv, MonitorTypes, CycleInv, Scan
<1> PICK from : from = cycle[c].from OBVIOUS
<1> PICK head : head = cycle[c].head OBVIOUS
<1>1. /\ k \in Keys /\ from \in Nat /\ head \in Nat /\ safe \in Nat /\ first \in Nat /\ FirstCursor(k) \in Nat
      /\ FirstCursor(k) < first /\ head <= peak /\ safe <= Len(blocks)
  <2>1. k \in Keys /\ from \in Nat /\ head \in Nat BY <1>0, CycleFields
  <2>2. safe \in Nat BY <2>1, SafeBlocks
  <2>3. first \in Nat /\ FirstCursor(k) \in Nat BY <1>0, <2>1, StateFields, KeyNames
  <2>4. FirstCursor(k) < first BY <1>0, <2>1 DEF FileInv, KeyInv
  <2>5. head <= peak /\ safe <= Len(blocks) BY <1>0 DEF CycleInv
  <2> QED BY <2>1, <2>2, <2>3, <2>4, <2>5
<1>2. from <= first \/ (from > 0 /\ Firm(blocks, peak, noticed, k, first, from - 1))
  BY <1>0 DEF CycleInv, FirmAt
<1>3. noticed' = noticed \cup
          {log \in EventsOf[k] \X (from..safe) : log[2] \in DOMAIN blocks /\ log[1] \in blocks[log[2]].events}
  BY DEF Scan
<1>4. CASE safe = 0
  <2>1. safe < first BY <1>1, <1>4
  <2> QED BY <1>1, <2>1, Nothing
<1>5. CASE safe > 0
  <2>1. safe + Confirmations <= peak
    <3>1. safe + Confirmations = head BY <1>1, <1>5, SafeBlocks
    <3> QED BY <1>1, <3>1
  <2>2. ASSUME NEW b \in DOMAIN blocks, first <= b, b <= safe PROVE Seen(blocks, noticed', k, b)
    <3>0. b \in Nat BY <1>0 DEF Chains
    <3>1. CASE from <= b
      <4> SUFFICES ASSUME NEW e \in blocks[b].events \cap EventsOf[k] PROVE <<e, b>> \in noticed'
        BY DEF Seen
      <4>1. b \in from..safe BY <1>1, <2>2, <3>0, <3>1
      <4>2. <<e, b>> \in EventsOf[k] \X (from..safe) /\ <<e, b>>[1] = e /\ <<e, b>>[2] = b BY <4>1
      <4> QED BY <1>3, <4>2
    <3>2. CASE ~(from <= b)
      <4>1. from > 0 /\ Firm(blocks, peak, noticed, k, first, from - 1) BY <1>1, <1>2, <2>2, <3>0, <3>2
      <4>2. b <= from - 1 /\ ~(from - 1 < first) BY <1>1, <2>2, <3>0, <3>2
      <4>3. Seen(blocks, noticed, k, b) BY <2>2, <4>1, <4>2 DEF Firm
      <4> QED BY <1>3, <4>3 DEF Seen
    <3> QED BY <3>1, <3>2
  <2> QED BY <1>1, <2>1, <2>2 DEF Firm
<1> QED BY <1>1, <1>4, <1>5

LEMMA Scanned ==
    ASSUME MonitorInv, NEW c \in CycleIds, Scan(c)
    PROVE  MonitorInv'
<1>0. /\ MonitorTypes /\ CycleInv(c) /\ cycle[c].at = "scan" /\ memory \in MonitorStates /\ memory # Unknown
      /\ FileInv(memory) /\ blocks \in Chains /\ peak \in Nat /\ "anchor" \in Places
  BY DEF MonitorInv, MonitorTypes, CycleInv, Scan, Places
<1> PICK m : m = memory OBVIOUS
<1> PICK k : k = Key(c) OBVIOUS
<1> PICK safe : safe = SafeBlock(cycle[c].head) OBVIOUS
<1>1. k \in Keys /\ safe \in Nat BY <1>0, CycleFields, SafeBlocks
<1>2. /\ UNCHANGED <<blocks, peak, counts, saved>> /\ noticed \subseteq noticed'
      /\ memory' = [memory EXCEPT !.cursor[k] = safe] /\ Step(c, "anchor")
  BY DEF Scan, monitorWorld
<1>3. /\ memory' \in MonitorStates /\ memory'.anchor = m.anchor /\ memory'.since = m.since
      /\ memory'.head = m.head /\ memory'.cursor[k] = safe
      /\ \A j \in Keys : j # k => memory'.cursor[j] = m.cursor[j]
  BY <1>0, <1>1, <1>2, CursorSet
<1>4. Firm(blocks, peak, noticed', k, m.since[k], safe) BY ScanSees
<1>5. \A j \in Keys : m.since[j] \in Nat /\ m.cursor[j] \in Nat BY <1>0, StateFields
<1>6. FileInv(memory)'
  <2> PICK t : t = memory' OBVIOUS
  <2>1. t.head <= peak
    <3>1. m.head <= peak BY <1>0, KeyNames DEF FileInv, KeyInv
    <3> QED BY <1>3, <3>1
  <2>2. \A j \in Keys :
           \/ t.cursor[j] = m.cursor[j] /\ t.since[j] = m.since[j] /\ t.head = m.head
           \/ m.since[j] <= t.since[j] /\ Firm(blocks, peak, noticed', j, t.since[j], t.cursor[j])
    <3> SUFFICES ASSUME NEW j \in Keys
        PROVE \/ t.cursor[j] = m.cursor[j] /\ t.since[j] = m.since[j] /\ t.head = m.head
              \/ m.since[j] <= t.since[j] /\ Firm(blocks, peak, noticed', j, t.since[j], t.cursor[j])
      OBVIOUS
    <3>1. CASE j = k
      <4>1. m.since[k] <= t.since[k] BY <1>1, <1>3, <1>5
      <4> QED BY <1>3, <1>4, <3>1, <4>1
    <3>2. CASE j # k BY <1>3, <3>2
    <3> QED BY <3>1, <3>2
  <2>3. counts'.reorgs = counts.reorgs BY <1>2
  <2>4. t.anchor = m.anchor /\ t \in MonitorStates BY <1>3
  <2>5. FileInv(m) /\ m \in MonitorStates BY <1>0
  <2>6. FileInv(t)' BY <1>0, <1>2, <2>1, <2>2, <2>3, <2>4, <2>5, FileMoves
  <2> QED BY <2>6 DEF FileInv
<1>7. ASSUME NEW j \in Keys, j = k \/ FirmCursor(j) PROVE FirmCursor(j)'
  <2>1. CASE j = k
    <3>1. Firm(blocks, peak, noticed', k, memory'.since[k], memory'.cursor[k]) BY <1>3, <1>4
    <3> QED BY <1>2, <2>1, <3>1 DEF FirmCursor, FirmAt
  <2>2. CASE j # k
    <3> PICK n : n = m.cursor[j] OBVIOUS
    <3>1. n \in Nat /\ n <= n /\ m.since[j] \in Nat /\ m.since[j] <= m.since[j] BY <1>5
    <3>2. Firm(blocks, peak, noticed, j, m.since[j], n) BY <1>7, <2>2 DEF FirmCursor, FirmAt
    <3>3. Firm(blocks, peak, noticed', j, m.since[j], n) BY <1>0, <1>2, <3>1, <3>2, FirmKept
    <3>4. Firm(blocks, peak, noticed', j, memory'.since[j], memory'.cursor[j]) BY <1>3, <2>2, <3>3
    <3> QED BY <1>2, <3>4 DEF FirmCursor, FirmAt
  <2> QED BY <2>1, <2>2
<1>8. \A j \in Keys : memory.since[j] <= memory'.since[j] /\ (FirmCursor(j) => FirmCursor(j)')
  <2>1. \A j \in Keys : memory.since[j] <= memory'.since[j] BY <1>3, <1>5
  <2> QED BY <1>7, <2>1
<1>9. /\ cycle' \in [CycleIds -> [at : Places, key : 1..3, head : Nat, from : Nat]]
      /\ cycle'[c].at = "anchor" /\ \A d \in CycleIds : d # c => cycle'[d] = cycle[d]
      /\ cycle'[c].key = cycle[c].key /\ cycle'[c].head = cycle[c].head
  BY <1>0, <1>2, CycleStepped
<1>10. CycleInv(c)'
  <2>1. Past(c) BY <1>0 DEF Past
  <2>2. \A j \in 1..3 : j >= cycle'[c].key => FirmCursor(CursorKeys[j])'
    BY <1>0, <1>7, <1>9, <2>1, KeyNames DEF CycleInv
  <2>3. cycle'[c].head <= peak' /\ SafeBlock(cycle'[c].head) <= Len(blocks') BY <1>0, <1>2, <1>9 DEF CycleInv
  <2>4. Key(c)' = k BY <1>9 DEF Key
  <2>5. FirmAt(Key(c), SafeBlock(cycle[c].head))'
    <3>1. Firm(blocks, peak, noticed', k, memory'.since[k], safe) BY <1>3, <1>4
    <3> QED BY <1>2, <1>9, <2>4, <3>1 DEF FirmAt
  <2>6. memory' # Unknown BY <1>3, Limits
  <2> QED BY <1>9, <2>2, <2>3, <2>5, <2>6 DEF CycleInv
<1> QED BY <1>0, <1>2, <1>3, <1>6, <1>8, <1>9, <1>10, ScanStep

(* The memory once the anchor of key k is block n. *)
LEMMA AnchorIsFirm ==
    ASSUME MonitorTypes, NEW s \in MonitorStates, NEW k \in Keys, NEW n \in DOMAIN blocks,
           FileInv(s), n + Confirmations <= peak,
           Firm(blocks, peak, noticed, k, s.since[k], n), Firm(blocks, peak, noticed, k, s.since[k], s.cursor[k]),
           NEW t, t = [s EXCEPT !.anchor[k] = [block |-> n, hash |-> blocks[n].hash]]
    PROVE  /\ t \in MonitorStates /\ t.since = s.since /\ t.cursor = s.cursor /\ t.head = s.head
           /\ FileInv(t)
<1>0. /\ blocks \in Chains /\ peak \in Nat /\ counts.reorgs \in Nat
      /\ \A b \in DOMAIN blocks : blocks[b].hash <= counts.reorgs
  BY DEF MonitorTypes
<1>1. PICK a \in Anchors : a = [block |-> n, hash |-> blocks[n].hash]
  <2>1. n \in Nat /\ blocks[n] \in Blocks BY <1>0 DEF Chains
  <2>2. blocks[n].hash \in Nat BY <2>1 DEF Blocks
  <2> QED BY <2>1, <2>2 DEF Anchors
<1>2. /\ t \in MonitorStates /\ t.since = s.since /\ t.cursor = s.cursor /\ t.head = s.head
      /\ t.anchor[k] = a /\ \A j \in Keys : j # k => t.anchor[j] = s.anchor[j]
  <2>1. t = [s EXCEPT !.anchor[k] = a] BY <1>1
  <2>2. k \in Keys /\ s \in MonitorStates /\ a \in Anchors OBVIOUS
  <2> QED BY <2>1, <2>2, StateFields DEF MonitorStates, Keys
<1>3. FileInv(t)
  <2> SUFFICES ASSUME NEW j \in Keys
      PROVE  KeyInv(blocks, peak, noticed, counts.reorgs, j, s.since[j], s.cursor[j], t.anchor[j], s.head)
    BY <1>2 DEF FileInv
  <2>1. KeyInv(blocks, peak, noticed, counts.reorgs, j, s.since[j], s.cursor[j], s.anchor[j], s.head)
    BY DEF FileInv
  <2>2. CASE j = k
    <3>1. /\ s.since[k] \in Nat /\ s.cursor[k] \in Nat /\ s.anchor[k] \in Anchors \cup {Unknown} /\ s.head \in Nat
      BY StateFields
    <3>2. KeyInv(blocks, peak, noticed, counts.reorgs, k, s.since[k], s.cursor[k], a, s.head)
      BY <1>0, <1>1, <2>1, <2>2, <3>1, KeyOnAnchor
    <3> QED BY <1>2, <2>2, <3>2
  <2>3. CASE j # k BY <1>2, <2>1, <2>3
  <2> QED BY <2>2, <2>3
<1> QED BY <1>2, <1>3

LEMMA AnchorMoved ==
    ASSUME MonitorInv, NEW c \in CycleIds, UpdateCursorAnchor(c)
    PROVE  MonitorInv'
<1>0. /\ MonitorTypes /\ CycleInv(c) /\ cycle[c].at = "anchor" /\ memory \in MonitorStates /\ memory # Unknown
      /\ FileInv(memory) /\ blocks \in Chains /\ peak \in Nat
  BY DEF MonitorInv, MonitorTypes, CycleInv, UpdateCursorAnchor
<1> PICK m : m = memory OBVIOUS
<1> PICK k : k = Key(c) OBVIOUS
<1> PICK head : head = cycle[c].head OBVIOUS
<1> PICK safe : safe = SafeBlock(head) OBVIOUS
<1>1. /\ k \in Keys /\ head \in Nat /\ safe \in Nat /\ head <= peak /\ safe <= Len(blocks)
      /\ cycle[c].key \in 1..3 /\ k = CursorKeys[cycle[c].key]
  BY <1>0, CycleFields, SafeBlocks DEF CycleInv, Key
<1>2. /\ UNCHANGED <<blocks, peak, counts, saved, noticed>>
      /\ memory' = IF safe > 0 THEN [memory EXCEPT !.anchor[k] = [block |-> safe, hash |-> HashAt(safe)]] ELSE memory
      /\ cycle' = [cycle EXCEPT ![c] = NextKey(c)]
  BY DEF UpdateCursorAnchor, monitorWorld, monitorFiles
<1>3. Past(c) /\ (\A j \in 1..3 : j >= cycle[c].key => FirmCursor(CursorKeys[j])) BY <1>0 DEF CycleInv, Past
<1>4. Firm(blocks, peak, noticed, k, m.since[k], safe) BY <1>0 DEF CycleInv, FirmAt
<1>5. Firm(blocks, peak, noticed, k, m.since[k], m.cursor[k])
  <2>1. cycle[c].key >= cycle[c].key BY <1>1
  <2> QED BY <1>1, <1>3, <2>1 DEF FirmCursor, FirmAt
<1>6. PICK t : /\ t = memory' /\ t \in MonitorStates /\ FileInv(t)
               /\ t.since = m.since /\ t.cursor = m.cursor /\ t.head = m.head
  <2>1. CASE safe > 0
    <3>1. safe \in DOMAIN blocks BY <1>0, <1>1, <2>1 DEF Chains
    <3>2. HashAt(safe) = blocks[safe].hash BY <3>1 DEF HashAt
    <3>3. safe + Confirmations <= peak
      <4>1. safe + Confirmations = head BY <1>1, <2>1, SafeBlocks
      <4> QED BY <1>1, <4>1
    <3>4. memory' = [m EXCEPT !.anchor[k] = [block |-> safe, hash |-> blocks[safe].hash]] BY <1>2, <2>1, <3>2
    <3>5. FileInv(m) /\ m \in MonitorStates BY <1>0
    <3> QED BY <1>0, <1>1, <1>4, <1>5, <3>1, <3>3, <3>4, <3>5, AnchorIsFirm
  <2>2. CASE ~(safe > 0)
    <3>1. memory' = memory BY <1>2, <2>2
    <3> QED BY <1>0, <3>1
  <2> QED BY <2>1, <2>2
<1>7. FileInv(memory)'
  <2>1. FileInv(t)' BY <1>2, <1>6 DEF FileInv
  <2> QED BY <1>6, <2>1 DEF FileInv
<1>8. \A j \in Keys : memory.since[j] <= memory'.since[j] /\ (FirmCursor(j) => FirmCursor(j)')
  <2> SUFFICES ASSUME NEW j \in Keys
      PROVE  memory.since[j] <= memory'.since[j] /\ (FirmCursor(j) => FirmCursor(j)')
    OBVIOUS
  <2>1. memory.since[j] \in Nat BY <1>0, StateFields
  <2>2. memory'.since[j] = memory.since[j] /\ memory'.cursor[j] = memory.cursor[j] BY <1>6
  <2> QED BY <1>2, <2>1, <2>2 DEF FirmCursor, FirmAt
<1> PICK rec : rec = NextKey(c) OBVIOUS
<1>9. /\ rec \in [at : Places, key : 1..3, head : Nat, from : Nat] /\ rec.at \in {"head", "save", "refresh"}
      /\ rec.at = "head" => rec.key = cycle[c].key + 1
  BY <1>0, NextKeys
<1>10. /\ cycle' \in [CycleIds -> [at : Places, key : 1..3, head : Nat, from : Nat]]
       /\ cycle'[c] = rec /\ \A d \in CycleIds : d # c => cycle'[d] = cycle[d]
  BY <1>0, <1>2, <1>9, CycleMoved
<1>11. CycleInv(c)'
  <2>1. memory' # Unknown BY <1>6, Limits
  <2>2. Past(c)' => \A j \in 1..3 : j >= cycle'[c].key => FirmCursor(CursorKeys[j])'
    <3> SUFFICES ASSUME rec.at = "head", NEW j \in 1..3, j >= rec.key PROVE FirmCursor(CursorKeys[j])'
      BY <1>9, <1>10 DEF Past
    <3>1. j >= cycle[c].key BY <1>1, <1>9
    <3> QED BY <1>3, <1>8, <3>1, KeyNames
  <2> QED BY <1>9, <1>10, <2>1, <2>2 DEF CycleInv
<1>12. noticed \subseteq noticed' /\ memory' \in MonitorStates BY <1>2, <1>6
<1> QED BY <1>0, <1>2, <1>7, <1>8, <1>10, <1>11, <1>12, ScanStep

---------------------------------------------------------------------------
LEMMA MonitorStarts == MonitorInit => MonitorInv
<1> SUFFICES ASSUME MonitorInit PROVE MonitorInv
  OBVIOUS
<1>1. /\ blocks \in FirstChains /\ peak = Len(blocks) /\ memory = Unknown /\ saved = NewMonitorState
      /\ cycle = [c \in CycleIds |-> Asleep] /\ counts = [reorgs |-> 0, troubles |-> 0]
  BY DEF MonitorInit
<1>2. /\ blocks \in Chains /\ peak \in Nat /\ Len(blocks) <= peak /\ counts.reorgs = 0
      /\ \A b \in DOMAIN blocks : blocks[b].hash <= counts.reorgs
  <2>1. blocks \in Chains /\ \A b \in DOMAIN blocks : blocks[b].hash = 0 BY <1>1, Limits
  <2>2. Len(blocks) \in Nat BY <2>1 DEF Chains
  <2> QED BY <1>1, <2>1, <2>2
<1>3. NewMonitorState \in MonitorStates
  <2>1. \A k \in Keys : FirstCursor(k) \in Nat /\ FirstCursor(k) + 1 \in Nat BY KeyNames
  <2> QED BY <2>1 DEF NewMonitorState, MonitorStates, Keys
<1>4. counts \in [reorgs : Nat, troubles : Nat] BY <1>1
<1>5. cycle \in [CycleIds -> [at : Places, key : 1..3, head : Nat, from : Nat]] /\ \A c \in CycleIds : cycle[c].at = "asleep"
  <2>1. Asleep \in [at : Places, key : 1..3, head : Nat, from : Nat] /\ Asleep.at = "asleep"
    BY DEF Asleep, Places
  <2> QED BY <1>1, <2>1
<1>6. MonitorTypes BY <1>1, <1>2, <1>3, <1>4, <1>5 DEF MonitorTypes
<1>7. FileInv(saved)
  <2> SUFFICES ASSUME NEW k \in Keys
      PROVE  KeyInv(blocks, peak, noticed, counts.reorgs, k, saved.since[k], saved.cursor[k], saved.anchor[k], saved.head)
    BY DEF FileInv
  <2> PICK n : n = FirstCursor(k) OBVIOUS
  <2>1. /\ saved.since[k] = n + 1 /\ saved.cursor[k] = n /\ saved.anchor[k] = Unknown /\ saved.head = 0
    BY <1>1 DEF NewMonitorState, Keys
  <2>2. n \in Nat BY KeyNames
  <2>3. \A i \in Nat : i <= n => i < n + 1 BY <2>2
  <2>4. n < n + 1 /\ 0 <= peak /\ n + 1 \in Nat /\ n <= n BY <1>2, <2>2
  <2>5. \A i \in Nat : i <= n => Firm(blocks, peak, noticed, k, n + 1, i) BY <2>3, <2>4, Nothing
  <2>6. AnchorInv(blocks, peak, noticed, counts.reorgs, k, n + 1, Unknown) BY DEF AnchorInv
  <2>7. Firm(blocks, peak, noticed, k, n + 1, n) BY <2>2, <2>4, <2>5
  <2>8. KeyInv(blocks, peak, noticed, counts.reorgs, k, n + 1, n, Unknown, 0)
    BY <2>4, <2>5, <2>6, <2>7 DEF KeyInv
  <2> QED BY <2>1, <2>8
<1>8. \A c \in CycleIds : CycleInv(c) BY <1>5 DEF CycleInv, Past
<1> QED BY <1>1, <1>6, <1>7, <1>8 DEF MonitorInv

LEMMA MonitorStays == MonitorInv /\ [MonitorNext]_monitorVars => MonitorInv'
<1> SUFFICES ASSUME MonitorInv, [MonitorNext]_monitorVars PROVE MonitorInv'
  OBVIOUS
<1>1. CASE Mine BY <1>1, Mined
<1>2. CASE Reorg BY <1>2, Reorged
<1>3. CASE StartMonitor \/ MonitorDies BY <1>3, Restarts
<1>4. ASSUME NEW c \in CycleIds,
             BeginCycle(c) \/ CycleStep(c) \/ CycleFails(c) \/ FetchFails(c) \/ FetchUnchecked(c)
      PROVE  MonitorInv'
  <2>1. CASE ReadHead(c) BY <2>1, HeadRead
  <2>2. CASE Reconcile(c) BY <2>2, AnchorsChecked
  <2>3. CASE Scan(c) BY <2>3, Scanned
  <2>4. CASE UpdateCursorAnchor(c) BY <2>4, AnchorMoved
  <2>5. CASE \/ BeginCycle(c) \/ CycleFails(c) \/ RollBack(c) \/ FetchFresh(c) \/ RecordSync(c) \/ FetchFails(c)
             \/ FetchUnchecked(c) \/ SaveMonitorState(c)
    BY <2>5, StepsElsewhere
  <2> QED BY <1>4, <2>1, <2>2, <2>3, <2>4, <2>5 DEF CycleStep
<1>5. CASE UNCHANGED monitorVars
  <2>1. UNCHANGED <<blocks, peak, memory, saved, noticed, cycle, counts>> BY <1>5 DEF monitorVars
  <2> QED BY <2>1 DEF MonitorInv, MonitorTypes, FileInv, CycleInv, Past, FirmCursor, FirmAt, Key
<1> QED BY <1>1, <1>2, <1>3, <1>4, <1>5 DEF MonitorNext

LEMMA InvCovers ==
    ASSUME MonitorTypes, NEW s \in MonitorStates, FileInv(s)
    PROVE  Covers(s)
<1> SUFFICES ASSUME NEW k \in DOMAIN EventsOf, ~Mismatch(s, k), NEW b \in DOMAIN blocks, s.since[k] <= b, b <= s.cursor[k],
                    NEW e \in blocks[b].events \cap EventsOf[k]
    PROVE  <<e, b>> \in noticed
  BY DEF Covers
<1>1. k \in Keys BY DEF Keys
<1>2. Firm(blocks, peak, noticed, k, s.since[k], s.cursor[k])
  <2>1. Rewound(s)[k] = s.cursor[k] BY DEF Rewound
  <2> QED BY <1>1, <2>1, FirmByAnchor
<1>3. s.since[k] \in Nat /\ s.cursor[k] \in Nat /\ b \in Nat BY <1>1, StateFields DEF MonitorTypes, Chains
<1>4. ~(s.cursor[k] < s.since[k]) BY <1>3
<1> QED BY <1>2, <1>4 DEF Firm, Seen

(* Whatever the chain does within what the reorganisations of the model may  *)
(* do, wherever cycles fail, overlap or the process dies: what a cursor of   *)
(* prime-monitor.js has passed without a gap is recorded, in the memory as   *)
(* in the file, or its anchor shows that the next cycle will take it back.   *)
THEOREM NothingSkippedTheorem == MonitorSpec => []NoEventSkipped
<1>1. MonitorInv => NoEventSkipped
  <2> SUFFICES ASSUME MonitorInv PROVE NoEventSkipped
    OBVIOUS
  <2>1. MonitorTypes /\ FileInv(saved) /\ saved \in MonitorStates
        /\ (memory # Unknown => FileInv(memory) /\ memory \in MonitorStates)
    BY DEF MonitorInv, MonitorTypes
  <2> QED BY <2>1, InvCovers DEF NoEventSkipped
<1> QED BY <1>1, MonitorStarts, MonitorStays, PTL DEF MonitorSpec

---------------------------------------------------------------------------
(* A procurement that was refreshed from a block replaced since *)

NoneSyncing == \A c \in CycleIds : cycle[c].at # "sync"

(* No refresh is made any more, but for another reorganisation or a read of   *)
(* the block that fails.                                                     *)
StaysStale ==
    Stale /\ NoneSyncing /\ counts'.reorgs = counts.reorgs =>
        \/ Stale' /\ NoneSyncing' /\ syncBlock' = syncBlock
        \/ \E c \in CycleIds : FetchUnchecked(c)

LEMMA GoesElsewhere ==
    ASSUME MonitorTypes, NoneSyncing, NEW c \in CycleIds,
           \/ \E new : cycle' = [cycle EXCEPT ![c] = new] /\ new.at # "sync"
           \/ cycle' = [k \in CycleIds |-> Asleep]
           \/ cycle' = cycle
    PROVE  NoneSyncing'
BY DEF MonitorTypes, NoneSyncing, Asleep

LEMMA NextIsElsewhere ==
    ASSUME MonitorTypes, NEW c \in CycleIds PROVE NextKey(c).at # "sync"
<1>1. cycle[c] \in [at : Places, key : 1..3, head : Nat, from : Nat] BY DEF MonitorTypes
<1> QED BY <1>1 DEF NextKey

LEMMA PlanIsElsewhere ==
    ASSUME MonitorTypes, NoneSyncing, NEW c \in CycleIds, NEW head, NEW mem, PlanScan(c, head, mem)
    PROVE  NoneSyncing'
<1>1. CASE cycle' = [cycle EXCEPT ![c] = NextKey(c)] BY <1>1, NextIsElsewhere, GoesElsewhere
<1>2. CASE \E from : cycle' = [cycle EXCEPT ![c].at = "scan", ![c].head = head, ![c].from = from]
  BY <1>2 DEF MonitorTypes, NoneSyncing
<1> QED BY <1>1, <1>2 DEF PlanScan

LEMMA HashStays ==
    ASSUME MonitorTypes, Mine \/ UNCHANGED blocks, NEW b \in DOMAIN blocks PROVE HashAt(b)' = HashAt(b)
<1>1. CASE UNCHANGED blocks BY <1>1 DEF HashAt
<1>2. CASE Mine
  <2>1. PICK evs \in NewEvents(blocks) : blocks' = Append(blocks, [hash |-> counts.reorgs, events |-> evs])
    BY <1>2 DEF Mine
  <2>2. [hash |-> counts.reorgs, events |-> evs] \in Blocks
    <3>1. counts.reorgs \in Nat BY DEF MonitorTypes
    <3> QED BY <3>1, BlockEvents DEF Blocks
  <2>3. blocks' \in Chains /\ Len(blocks') = Len(blocks) + 1 /\ b \in 1..Len(blocks) /\ blocks'[b] = blocks[b]
    BY <2>1, <2>2, OneMoreBlock DEF MonitorTypes
  <2>4. b \in DOMAIN blocks' BY <2>3 DEF Chains
  <2> QED BY <2>3, <2>4 DEF HashAt
<1> QED BY <1>1, <1>2

LEMMA StaleStep == ASSUME MonitorInv, [MonitorNext]_monitorVars PROVE StaysStale
<1> SUFFICES ASSUME Stale, NoneSyncing, counts'.reorgs = counts.reorgs,
                    \A c \in CycleIds : ~FetchUnchecked(c)
             PROVE  Stale' /\ NoneSyncing' /\ syncBlock' = syncBlock
  BY DEF StaysStale
<1>1. MonitorTypes BY DEF MonitorInv
<1>2. ASSUME Mine \/ UNCHANGED blocks, syncBlock' = syncBlock PROVE Stale'
  <2>1. HashAt(syncBlock.block) # Unknown BY DEF Stale
  <2>2. syncBlock.block \in DOMAIN blocks BY <2>1 DEF HashAt
  <2>3. HashAt(syncBlock.block)' = HashAt(syncBlock.block)
    BY <1>1, <1>2, <2>2, HashStays DEF HashAt
  <2> QED BY <1>2, <2>3 DEF Stale
<1>3. CASE Mine
  <2>1. syncBlock' = syncBlock /\ cycle' = cycle BY <1>3 DEF Mine, monitorFiles
  <2> QED BY <1>2, <1>3, <2>1 DEF NoneSyncing
<1>4. CASE Reorg
  <2>1. counts'.reorgs = counts.reorgs + 1 BY <1>1, <1>4 DEF Reorg, MonitorTypes
  <2> QED BY <1>1, <2>1 DEF MonitorTypes
<1>5. CASE StartMonitor \/ MonitorDies
  <2>1. UNCHANGED <<blocks, syncBlock>> BY <1>5 DEF StartMonitor, MonitorDies, monitorWorld, monitorFiles
  <2>2. cycle' = cycle \/ cycle' = [k \in CycleIds |-> Asleep] BY <1>5 DEF StartMonitor, MonitorDies
  <2>3. NoneSyncing' BY <2>2 DEF NoneSyncing, Asleep
  <2> QED BY <1>2, <2>1, <2>3
<1>6. ASSUME NEW c \in CycleIds, BeginCycle(c) \/ CycleStep(c) \/ CycleFails(c) \/ FetchFails(c)
      PROVE  Stale' /\ NoneSyncing' /\ syncBlock' = syncBlock
  <2> DEFINE Same == UNCHANGED <<blocks, syncBlock>>
             At(place) == cycle' = [cycle EXCEPT ![c].at = place]
  <2>1. ASSUME NEW place \in Places \ {"sync"}, At(place) PROVE NoneSyncing'
    BY <1>1, <2>1 DEF MonitorTypes, NoneSyncing
  <2>2. CASE BeginCycle(c)
    <3>1. Same BY <2>2 DEF BeginCycle, monitorWorld, monitorFiles
    <3>2. NoneSyncing' BY <1>1, <2>2 DEF BeginCycle, MonitorTypes, NoneSyncing, Asleep
    <3> QED BY <1>2, <3>1, <3>2
  <2>3. CASE ReadHead(c)
    <3>1. Same BY <2>3 DEF ReadHead, monitorWorld
    <3>2. CASE PlanScan(c, Len(blocks), memory) BY <1>1, <1>2, <3>1, <3>2, PlanIsElsewhere
    <3>3. CASE cycle' = [cycle EXCEPT ![c].at = "reconcile", ![c].head = Len(blocks)]
      <4>1. NoneSyncing' BY <1>1, <3>3 DEF MonitorTypes, NoneSyncing
      <4> QED BY <1>2, <3>1, <4>1
    <3> QED BY <2>3, <3>2, <3>3 DEF ReadHead
  <2>4. CASE Reconcile(c)
    <3>1. Same BY <2>4 DEF Reconcile, monitorWorld
    <3>2. PlanScan(c, cycle[c].head, Rechecked(cycle[c].head)) BY <2>4 DEF Reconcile
    <3> QED BY <1>1, <1>2, <3>1, <3>2, PlanIsElsewhere
  <2>5. CASE Scan(c)
    <3>1. Same /\ At("anchor") BY <2>5 DEF Scan, monitorWorld, Step
    <3> QED BY <1>2, <2>1, <3>1 DEF Places
  <2>6. CASE UpdateCursorAnchor(c)
    <3>1. Same /\ cycle' = [cycle EXCEPT ![c] = NextKey(c)]
      BY <2>6 DEF UpdateCursorAnchor, monitorWorld, monitorFiles
    <3>2. NoneSyncing' BY <1>1, <3>1, NextIsElsewhere, GoesElsewhere
    <3> QED BY <1>2, <3>1, <3>2
  <2>7. CASE CycleFails(c) \/ SaveMonitorState(c)
    <3>1. Same /\ At("asleep") BY <2>7 DEF CycleFails, SaveMonitorState, monitorWorld, monitorFiles, Step
    <3> QED BY <1>2, <2>1, <3>1 DEF Places
  <2>8. CASE RollBack(c) \/ FetchFails(c)
    <3>1. Same /\ At("save") BY <2>8 DEF RollBack, FetchFails, monitorWorld, monitorFiles, Step
    <3> QED BY <1>2, <2>1, <3>1 DEF Places
  <2>9. ~FetchFresh(c) BY DEF FetchFresh
  <2>10. ~RecordSync(c) BY DEF RecordSync, NoneSyncing
  <2> QED BY <1>6, <2>2, <2>3, <2>4, <2>5, <2>6, <2>7, <2>8, <2>9, <2>10 DEF CycleStep
<1>7. CASE UNCHANGED monitorVars
  <2>1. UNCHANGED <<blocks, syncBlock, cycle>> BY <1>7 DEF monitorVars
  <2> QED BY <1>2, <2>1 DEF NoneSyncing
<1> QED BY <1>3, <1>4, <1>5, <1>6, <1>7 DEF MonitorNext

(* A procurement whose sync block was replaced is not refreshed again,       *)
(* whatever the monitor does and however often it is started, until another  *)
(* reorganisation happens or the read of that block fails: the roll back     *)
(* leaves the sync block that the next cycle compares with the chain, and    *)
(* only the catch of a failed read lets it through (prime-monitor.js:374-376).*)
THEOREM StaleTheorem == MonitorSpec => [][StaysStale]_monitorVars
<1>1. MonitorInv /\ [MonitorNext]_monitorVars => StaysStale BY StaleStep
<1> QED BY <1>1, MonitorStarts, MonitorStays, PTL DEF MonitorSpec

---------------------------------------------------------------------------
(* The memory: the budget of a procurement's drafts and the index of its     *)
(* archive, for any drafts, items and deaths of those that make them.        *)

---------------------------------------------------------------------------
(* The contents and the archive. *)

At(where) == {p \in Makers : maker[p].at \in where}

(* A call under way, or answered and not yet in the audit log. *)
Asking == At({"call", "audit"})
Owing  == At({"audit"})

MakerFields == {"op", "at", "entry", "copy", "source", "tried"}

MakerTypes ==
    /\ DOMAIN maker = Makers
    /\ \A p \in Makers : DOMAIN maker[p] = MakerFields
    /\ spent \in [asked : Nat, audited : Nat] /\ mishaps \in Nat

(* What the models answered is in the audit log, but for those who are about *)
(* to write it there and those who died before; and who asks found room in   *)
(* the log when it began, with at most k that ask at a time.                 *)
BudgetInv(k) ==
    /\ MakerTypes
    /\ spent.asked <= spent.audited + Cardinality(Owing) + mishaps
    /\ spent.audited + Cardinality(Asking) < LlmBudget + k

AskAtOnce(k) == Cardinality(Asking) <= k

BudgetOfMany(k) == spent.asked < LlmBudget + mishaps + k

(* A step of one maker leaves the places of the others alone. *)
LEMMA OneMoves ==
    ASSUME MakerTypes, MakerTypes', IsFiniteSet(Makers), NEW p \in Makers, NEW m, NEW where,
           maker' = [maker EXCEPT ![p] = m]
    PROVE  /\ IsFiniteSet(At(where)) /\ Cardinality(At(where)) \in Nat
           /\ IsFiniteSet(At(where)') /\ Cardinality(At(where)') \in Nat
           /\ Cardinality(At(where)) <= Cardinality(Makers)
           /\ Cardinality(At(where)') <= Cardinality(Makers)
           /\ Cardinality(At(where)') =
                 Cardinality(At(where)) - (IF maker[p].at \in where THEN 1 ELSE 0)
                                        + (IF m.at \in where THEN 1 ELSE 0)
<1> DEFINE now == At(where)
           next == {q \in Makers : maker'[q].at \in where}
<1>1. At(where)' = next BY DEF At
<1>2. now \subseteq Makers /\ next \subseteq Makers BY DEF At
<1>3. \A q \in Makers : maker'[q] = IF q = p THEN m ELSE maker[q] BY DEF MakerTypes
<1>4. /\ p \in now <=> maker[p].at \in where
      /\ p \in next <=> m.at \in where
      /\ now \ {p} = next \ {p}
  BY <1>3 DEF At
<1> HIDE DEF now, next
<1> DEFINE rest == now \ {p}
<1>5. /\ IsFiniteSet(now) /\ Cardinality(now) \in Nat /\ Cardinality(now) <= Cardinality(Makers)
      /\ IsFiniteSet(next) /\ Cardinality(next) \in Nat /\ Cardinality(next) <= Cardinality(Makers)
  BY <1>2, FS_Subset, FS_CardinalityType
<1>6. IsFiniteSet(rest) /\ Cardinality(rest) \in Nat
  BY <1>5, FS_Subset, FS_CardinalityType
<1>7. ASSUME NEW S, S \ {p} = rest, IsFiniteSet(S)
      PROVE  Cardinality(S) = Cardinality(rest) + (IF p \in S THEN 1 ELSE 0)
  <2>1. CASE p \in S
    <3>1. S = rest \cup {p} /\ p \notin rest BY <1>7, <2>1
    <3>2. Cardinality(rest \cup {p}) = Cardinality(rest) + 1 BY <1>6, <3>1, FS_AddElement
    <3> QED BY <3>1, <3>2, <2>1
  <2>2. CASE p \notin S
    <3>1. S = rest BY <1>7, <2>2
    <3> QED BY <1>6, <3>1, <2>2
  <2> QED BY <2>1, <2>2
<1>8. Cardinality(now) = Cardinality(rest) + (IF p \in now THEN 1 ELSE 0) BY <1>5, <1>7
<1>9. Cardinality(next) = Cardinality(rest) + (IF p \in next THEN 1 ELSE 0) BY <1>4, <1>5, <1>7
<1>10. Cardinality(next) = Cardinality(now) - (IF p \in now THEN 1 ELSE 0) + (IF p \in next THEN 1 ELSE 0)
  BY <1>5, <1>6, <1>8, <1>9
<1>11. At(where) = now BY DEF now
<1> QED BY <1>1, <1>4, <1>5, <1>10, <1>11

LEMMA BudgetInvInit == ASSUME MemoryInit, NEW k \in Nat \ {0} PROVE BudgetInv(k)
<1>1. MakerTypes BY DEF MemoryInit, MakerTypes, MakerFields, Free
<1>2. Owing = {} /\ Asking = {} BY DEF MemoryInit, Free, Owing, Asking, At
<1>3. Cardinality(Owing) = 0 /\ Cardinality(Asking) = 0 BY <1>2, FS_EmptySet
<1>4. spent.asked = 0 /\ spent.audited = 0 /\ mishaps = 0 BY DEF MemoryInit
<1> HIDE DEF MemoryInit
<1> QED BY <1>1, <1>3, <1>4 DEF BudgetInv, LlmBudget

(* What the steps do to the counts: a maker that leaves "audit" wrote its    *)
(* call to the log, could not, or died.                                      *)
LEMMA BudgetStep ==
    ASSUME NEW k \in Nat, AskAtOnce(k)', BudgetInv(k), IsFiniteSet(Makers), [MemoryNext]_memoryVars
    PROVE  BudgetInv(k)'
<1> USE DEF LlmBudget
<1>1. CASE UNCHANGED memoryVars
  BY <1>1 DEF memoryVars, BudgetInv, MakerTypes, Owing, Asking, At
<1>2. ASSUME NEW p \in Makers, NEW m, maker' = [maker EXCEPT ![p] = m], DOMAIN m = MakerFields,
             \/ UNCHANGED <<spent, mishaps>>
                /\ m.at \notin {"call", "audit"} /\ maker[p].at # "audit"
             \/ UNCHANGED <<spent, mishaps>> /\ spent.audited < LlmBudget
                /\ m.at = "call" /\ maker[p].at \notin {"call", "audit"}
             \/ spent' = [spent EXCEPT !.asked = @ + 1] /\ UNCHANGED mishaps
                /\ m.at = "audit" /\ maker[p].at = "call"
             \/ spent' = [spent EXCEPT !.audited = @ + 1] /\ UNCHANGED mishaps
                /\ m.at \notin {"call", "audit"} /\ maker[p].at = "audit"
             \/ spent' = spent /\ mishaps' = mishaps + 1
                /\ m.at \notin {"call", "audit"}
      PROVE  BudgetInv(k)'
  <2> DEFINE owing == Cardinality(Owing)
             asking == Cardinality(Asking)
             owing1 == Cardinality(Owing')
             asking1 == Cardinality(Asking')
  <2>0. MakerTypes'
    <3>1. DOMAIN maker' = Makers /\ \A q \in Makers : DOMAIN maker'[q] = MakerFields
      BY <1>2 DEF BudgetInv, MakerTypes
    <3>2. spent' \in [asked : Nat, audited : Nat] /\ mishaps' \in Nat
      BY <1>2 DEF BudgetInv, MakerTypes
    <3> QED BY <3>1, <3>2 DEF MakerTypes
  <2>1. /\ owing1 = owing - (IF maker[p].at \in {"audit"} THEN 1 ELSE 0) + (IF m.at \in {"audit"} THEN 1 ELSE 0)
        /\ asking1 = asking - (IF maker[p].at \in {"call", "audit"} THEN 1 ELSE 0)
                            + (IF m.at \in {"call", "audit"} THEN 1 ELSE 0)
        /\ owing \in Nat /\ owing1 \in Nat /\ asking \in Nat /\ asking1 \in Nat
        /\ asking1 <= k
    BY <1>2, <2>0, OneMoves DEF Owing, Asking, BudgetInv, AskAtOnce
  <2>2. /\ spent.asked \in Nat /\ spent.audited \in Nat /\ mishaps \in Nat
        /\ spent.asked <= spent.audited + owing + mishaps
        /\ spent.audited + asking < LlmBudget + k
        /\ MakerTypes
    BY DEF BudgetInv, MakerTypes
  <2> HIDE DEF owing, asking, owing1, asking1
  <2>3. /\ spent'.asked \in Nat /\ spent'.audited \in Nat /\ mishaps' \in Nat
        /\ spent'.asked <= spent'.audited + owing1 + mishaps'
        /\ spent'.audited + asking1 < LlmBudget + k
    <3>1. /\ spent' = [spent EXCEPT !.asked = @ + 1] =>
                 spent'.asked = spent.asked + 1 /\ spent'.audited = spent.audited
          /\ spent' = [spent EXCEPT !.audited = @ + 1] =>
                 spent'.asked = spent.asked /\ spent'.audited = spent.audited + 1
      BY <2>2 DEF MakerTypes
    <3> QED BY <1>2, <2>1, <2>2, <3>1
  <2> QED BY <1>2, <2>3, <2>0 DEF BudgetInv, owing1, asking1
<1>3. Free.at = "free" /\ DOMAIN Free = MakerFields BY DEF Free, MakerFields
<1>4. ASSUME NEW p \in Makers, NEW c \in Drafts, Draft(p, c) PROVE BudgetInv(k)'
  <2>1. CASE ~BudgetConsumed /\ env.ollama
    <3> DEFINE m == [Free EXCEPT !.op = c, !.at = "call"]
    <3>1. maker' = [maker EXCEPT ![p] = m] BY <1>4, <2>1 DEF Draft
    <3>2. m.at = "call" /\ DOMAIN m = MakerFields BY <1>3 DEF MakerFields
    <3>3. UNCHANGED <<spent, mishaps>> /\ spent.audited < LlmBudget /\ maker[p].at = "free"
      BY <1>3, <1>4, <2>1 DEF Draft, BudgetConsumed, BudgetInv, MakerTypes
    <3> HIDE DEF m
    <3> QED BY <1>2, <3>1, <3>2, <3>3
  <2>2. CASE ~(~BudgetConsumed /\ env.ollama)
    <3> DEFINE m == [Free EXCEPT !.op = c, !.at = "log",
                                 !.source = IF BudgetConsumed THEN "template-budget-exhausted" ELSE "template"]
    <3>1. maker' = [maker EXCEPT ![p] = m] BY <1>4, <2>2 DEF Draft
    <3>2. m.at = "log" /\ DOMAIN m = MakerFields BY <1>3 DEF MakerFields
    <3>3. UNCHANGED <<spent, mishaps>> /\ maker[p].at = "free" BY <1>3, <1>4 DEF Draft
    <3> HIDE DEF m
    <3> QED BY <1>2, <3>1, <3>2, <3>3
  <2> QED BY <2>1, <2>2
<1>5. ASSUME NEW p \in Makers, CallLlm(p) PROVE BudgetInv(k)'
  <2>1. maker[p].at = "call" /\ UNCHANGED mishaps /\ p \in DOMAIN maker /\ DOMAIN maker[p] = MakerFields
    BY <1>5 DEF CallLlm, BudgetInv, MakerTypes
  <2>2. ASSUME NEW tried, FallBack(p, tried) PROVE BudgetInv(k)'
    <3> DEFINE m == [maker[p] EXCEPT !.at = "log", !.source = "template-fallback", !.tried = tried]
    <3>1. maker' = [maker EXCEPT ![p] = m] /\ spent' = spent BY <2>1, <2>2 DEF FallBack
    <3>2. m.at = "log" /\ DOMAIN m = MakerFields BY <2>1 DEF MakerFields
    <3> HIDE DEF m
    <3> QED BY <1>2, <2>1, <3>1, <3>2
  <2>3. ASSUME NEW n, maker' = [maker EXCEPT ![p].at = "audit", ![p].source = "llm",
                                            ![p].tried = Range(SubSeq(CallOrder, 1, n))],
               spent' = [spent EXCEPT !.asked = @ + 1]
        PROVE  BudgetInv(k)'
    <3> DEFINE m == [maker[p] EXCEPT !.at = "audit", !.source = "llm", !.tried = Range(SubSeq(CallOrder, 1, n))]
    <3>1. maker' = [maker EXCEPT ![p] = m] BY <2>1, <2>3
    <3>2. m.at = "audit" /\ DOMAIN m = MakerFields BY <2>1 DEF MakerFields
    <3> HIDE DEF m
    <3> QED BY <1>2, <2>1, <2>3, <3>1, <3>2
  <2> QED BY <1>5, <2>2, <2>3 DEF CallLlm
<1>6. ASSUME NEW p \in Makers, NEW where, maker' = [maker EXCEPT ![p].at = where],
             \/ UNCHANGED <<spent, mishaps>>
                /\ where \notin {"call", "audit"} /\ maker[p].at # "audit"
             \/ spent' = [spent EXCEPT !.audited = @ + 1] /\ UNCHANGED mishaps
                /\ where = "log" /\ maker[p].at = "audit"
      PROVE  BudgetInv(k)'
  <2> DEFINE m == [maker[p] EXCEPT !.at = where]
  <2>1. p \in DOMAIN maker /\ DOMAIN maker[p] = MakerFields BY DEF BudgetInv, MakerTypes
  <2>2. maker' = [maker EXCEPT ![p] = m] BY <1>6, <2>1
  <2>3. m.at = where /\ DOMAIN m = MakerFields BY <2>1 DEF MakerFields
  <2> HIDE DEF m
  <2> QED BY <1>2, <1>6, <2>2, <2>3
<1>7. ASSUME NEW p \in Makers, AppendLlmCallAudit(p) \/ SaveIndex(p) PROVE BudgetInv(k)'
  BY <1>6, <1>7 DEF AppendLlmCallAudit, SaveIndex, llmVars
<1>8. ASSUME NEW p \in Makers, WriteContent(p) \/ WriteRecord(p) \/ MakerDies(p) PROVE BudgetInv(k)'
  <2>1. CASE WriteContent(p) \/ WriteRecord(p)
    <3>1. maker' = [maker EXCEPT ![p] = Free] /\ UNCHANGED <<spent, mishaps>> /\ maker[p].at # "audit"
      BY <2>1 DEF WriteContent, WriteRecord, llmVars
    <3> QED BY <1>2, <1>3, <3>1
  <2>2. CASE MakerDies(p)
    <3>1. maker' = [maker EXCEPT ![p] = Free] /\ spent' = spent /\ mishaps' = mishaps + 1
      BY <2>2 DEF MakerDies, llmVars
    <3> QED BY <1>2, <1>3, <3>1
  <2> QED BY <1>8, <2>1, <2>2
<1>9. ASSUME NEW p \in Makers, NEW t \in Terminals, Extract(p, t) PROVE BudgetInv(k)'
  <2>1. PICK q \in {0, 1} : maker' = [maker EXCEPT ![p] = [Free EXCEPT !.op = t, !.at = "index",
                        !.entry = [id |-> items + 1, phase |-> IF t = "trial" THEN t ELSE "completion",
                                   quality |-> q]]]
    BY <1>9 DEF Extract
  <2> DEFINE m == [Free EXCEPT !.op = t, !.at = "index",
                        !.entry = [id |-> items + 1, phase |-> IF t = "trial" THEN t ELSE "completion",
                                   quality |-> q]]
  <2>2. maker' = [maker EXCEPT ![p] = m] BY <2>1
  <2>3. m.at = "index" /\ DOMAIN m = MakerFields BY <1>3 DEF MakerFields
  <2>4. UNCHANGED <<spent, mishaps>> /\ maker[p].at = "free" BY <1>3, <1>9 DEF Extract, llmVars
  <2> HIDE DEF m
  <2> QED BY <1>2, <2>2, <2>3, <2>4
<1>10. ASSUME NEW p \in Makers, LoadIndex(p) PROVE BudgetInv(k)'
  <2> DEFINE m == [maker[p] EXCEPT !.at = "save", !.copy = index]
  <2>1. p \in DOMAIN maker /\ DOMAIN maker[p] = MakerFields BY DEF BudgetInv, MakerTypes
  <2>2. /\ maker' = [maker EXCEPT ![p] = m] /\ UNCHANGED <<spent, mishaps>> /\ maker[p].at = "index"
    BY <1>10, <2>1 DEF LoadIndex, llmVars
  <2>3. m.at = "save" /\ DOMAIN m = MakerFields BY <2>1 DEF MakerFields
  <2> HIDE DEF m
  <2> QED BY <1>2, <2>2, <2>3
<1>11. ASSUME NEW id, SetPreferredProvider(id) PROVE BudgetInv(k)'
  BY <1>11 DEF SetPreferredProvider, llmVars, BudgetInv, MakerTypes, Owing, Asking, At
<1>12. ASSUME NEW p \in Makers, AppendFails(p) PROVE BudgetInv(k)'
  <2> DEFINE m == [maker[p] EXCEPT !.at = "log", !.source = "template-fallback"]
  <2>1. p \in DOMAIN maker /\ DOMAIN maker[p] = MakerFields BY DEF BudgetInv, MakerTypes
  <2>2. maker' = [maker EXCEPT ![p] = m] /\ spent' = spent /\ mishaps' = mishaps + 1
    BY <1>12, <2>1 DEF AppendFails, llmVars
  <2>3. m.at = "log" /\ DOMAIN m = MakerFields BY <2>1 DEF MakerFields
  <2> HIDE DEF m
  <2> QED BY <1>2, <2>2, <2>3
<1> QED BY <1>1, <1>4, <1>5, <1>7, <1>8, <1>9, <1>10, <1>11, <1>12 DEF MemoryNext

LEMMA BudgetCovers ==
    ASSUME IsFiniteSet(Makers), NEW k \in Nat, BudgetInv(k)
    PROVE  BudgetOfMany(k)
<1>1. IsFiniteSet(Owing) /\ IsFiniteSet(Asking) /\ Owing \subseteq Asking
  <2>1. Asking \subseteq Makers /\ Owing \subseteq Asking BY DEF Asking, Owing, At
  <2> QED BY <2>1, FS_Subset
<1>2. Cardinality(Owing) <= Cardinality(Asking) /\ Cardinality(Owing) \in Nat /\ Cardinality(Asking) \in Nat
  BY <1>1, FS_Subset, FS_CardinalityType
<1> QED BY <1>2 DEF BudgetInv, BudgetOfMany, MakerTypes, LlmBudget

(* Whatever the makers do at the same time, and however many they are: if at *)
(* most k of them have a call to a model under way at a time, the models     *)
(* answer less often than the budget, the mishaps and k together.  The audit  *)
(* log is read before a call and written after it (prime-content.js).        *)
THEOREM BudgetOfManyTheorem ==
    ASSUME IsFiniteSet(Makers), NEW CONSTANT k \in Nat \ {0}
    PROVE  MemorySpec /\ []AskAtOnce(k) => []BudgetOfMany(k)
<1>1. MemoryInit => BudgetInv(k) BY BudgetInvInit
<1>2. BudgetInv(k) /\ AskAtOnce(k)' /\ [MemoryNext]_memoryVars => BudgetInv(k)' BY BudgetStep
<1>3. BudgetInv(k) => BudgetOfMany(k) BY BudgetCovers
<1> QED BY <1>1, <1>2, <1>3, PTL DEF MemorySpec

(* With calls that do not overlap, that is the budget and mishaps; drafts *)
(* from templates and all work on the archive may overlap.                   *)
THEOREM BudgetTheorem ==
    ASSUME IsFiniteSet(Makers)
    PROVE  MemorySpec /\ []AskAtOnce(1) => []BudgetHolds
<1>1. MemoryInit => BudgetInv(1) BY BudgetInvInit
<1>2. BudgetInv(1) /\ AskAtOnce(1)' /\ [MemoryNext]_memoryVars => BudgetInv(1)' BY BudgetStep
<1>3. BudgetInv(1) => BudgetHolds
  <2>1. BudgetInv(1) => BudgetOfMany(1) BY BudgetCovers
  <2> QED BY <2>1 DEF BudgetInv, BudgetOfMany, BudgetHolds, MakerTypes, LlmBudget
<1> QED BY <1>1, <1>2, <1>3, PTL DEF MemorySpec

(* A single maker never has two calls under way.                             *)
THEOREM BudgetOfOneTheorem ==
    ASSUME NEW CONSTANT p, Makers = {p}
    PROVE  MemorySpec => []BudgetHolds
<1>1. IsFiniteSet(Makers) /\ Cardinality(Makers) = 1 BY FS_Singleton
<1>2. AskAtOnce(1)
  <2>1. Asking \subseteq Makers BY DEF Asking, At
  <2> QED BY <1>1, <2>1, FS_Subset DEF AskAtOnce
<1>3. []AskAtOnce(1) BY <1>2, PTL
<1> QED BY <1>1, <1>3, BudgetTheorem, PTL

(* No maker reads the index while another one is between its reading and its *)
(* writing.                                                                  *)
SavesApart == \A p, q \in Makers : maker[p].at = "save" /\ maker[q].at = "save" => p = q

(* What is read of the index, and the entry that is saved there, are still   *)
(* there at the next step.                                                   *)
RecordInv ==
    /\ DOMAIN maker = Makers /\ DOMAIN record = Terminals
    /\ \A p \in Makers :
          /\ DOMAIN maker[p] = MakerFields
          /\ maker[p].at = "save" => maker[p].copy = index
          /\ maker[p].at = "record" => maker[p].entry \in index
    /\ RecordIsIndexed

LEMMA RecordStep ==
    ASSUME SavesApart, RecordInv, [MemoryNext]_memoryVars
    PROVE  RecordInv'
<1>1. CASE UNCHANGED memoryVars BY <1>1 DEF memoryVars, RecordInv, RecordIsIndexed
<1>2. ASSUME NEW p \in Makers, NEW m, maker' = [maker EXCEPT ![p] = m], DOMAIN m = MakerFields,
             m.at = "save" => m.copy = index', m.at = "record" => m.entry \in index',
             index' = index \/ maker[p].at = "save",
             index \subseteq index', DOMAIN record' = Terminals,
             \A t \in Terminals : \/ record'[t] = record[t]
                                  \/ \E e \in index : record'[t] = e.id
      PROVE  RecordInv'
  <2>1. DOMAIN maker' = Makers /\ \A q \in Makers : maker'[q] = IF q = p THEN m ELSE maker[q]
    BY <1>2 DEF RecordInv
  <2>2. RecordIsIndexed' BY <1>2 DEF RecordInv, RecordIsIndexed
  <2>3. \A q \in Makers : q # p /\ maker[q].at = "save" => index' = index
    BY <1>2 DEF SavesApart
  <2> QED BY <1>2, <2>1, <2>2, <2>3 DEF RecordInv
<1>3. Free.at = "free" /\ DOMAIN Free = MakerFields BY DEF Free, MakerFields
<1>4. /\ \A p \in Makers : p \in DOMAIN maker /\ DOMAIN maker[p] = MakerFields
      /\ DOMAIN record = Terminals
  BY DEF RecordInv
<1>5. ASSUME UNCHANGED archive, NEW p \in Makers, NEW m, maker' = [maker EXCEPT ![p] = m], DOMAIN m = MakerFields,
             m.at \notin {"save", "record"}
      PROVE  RecordInv'
  BY <1>2, <1>4, <1>5 DEF archive
<1>6. ASSUME NEW p \in Makers, NEW c \in Drafts, Draft(p, c) PROVE RecordInv'
  <2> DEFINE m == IF ~BudgetConsumed /\ env.ollama
                  THEN [Free EXCEPT !.op = c, !.at = "call"]
                  ELSE [Free EXCEPT !.op = c, !.at = "log",
                            !.source = IF BudgetConsumed THEN "template-budget-exhausted" ELSE "template"]
  <2>1. maker' = [maker EXCEPT ![p] = m] /\ UNCHANGED archive BY <1>6 DEF Draft
  <2>2. m.at \in {"call", "log"} /\ DOMAIN m = MakerFields BY <1>3 DEF MakerFields
  <2> HIDE DEF m
  <2> QED BY <1>5, <2>1, <2>2
<1>7. ASSUME NEW p \in Makers, CallLlm(p) PROVE RecordInv'
  <2>0. UNCHANGED archive BY <1>7 DEF CallLlm
  <2>1. ASSUME NEW at \in {"log", "audit"}, NEW source, NEW tried,
               maker' = [maker EXCEPT ![p].at = at, ![p].source = source, ![p].tried = tried]
        PROVE  RecordInv'
    <3> DEFINE m == [maker[p] EXCEPT !.at = at, !.source = source, !.tried = tried]
    <3>1. maker' = [maker EXCEPT ![p] = m] BY <1>4, <2>1
    <3>2. m.at \in {"log", "audit"} /\ DOMAIN m = MakerFields BY <1>4 DEF MakerFields
    <3> HIDE DEF m
    <3> QED BY <1>5, <2>0, <3>1, <3>2
  <2>2. ASSUME NEW tried, FallBack(p, tried) PROVE RecordInv' BY <2>1, <2>2 DEF FallBack
  <2> QED BY <1>7, <2>1, <2>2 DEF CallLlm
<1>8. ASSUME NEW p \in Makers, AppendLlmCallAudit(p) PROVE RecordInv'
  <2> DEFINE m == [maker[p] EXCEPT !.at = "log"]
  <2>1. maker' = [maker EXCEPT ![p] = m] /\ UNCHANGED archive BY <1>4, <1>8 DEF AppendLlmCallAudit
  <2>2. m.at = "log" /\ DOMAIN m = MakerFields BY <1>4 DEF MakerFields
  <2> HIDE DEF m
  <2> QED BY <1>5, <2>1, <2>2
<1>15. ASSUME NEW p \in Makers, AppendFails(p) PROVE RecordInv'
  <2> DEFINE m == [maker[p] EXCEPT !.at = "log", !.source = "template-fallback"]
  <2>1. maker' = [maker EXCEPT ![p] = m] /\ UNCHANGED archive BY <1>4, <1>15 DEF AppendFails
  <2>2. m.at = "log" /\ DOMAIN m = MakerFields BY <1>4 DEF MakerFields
  <2> HIDE DEF m
  <2> QED BY <1>5, <2>1, <2>2
<1>9. ASSUME NEW p \in Makers, WriteContent(p) \/ MakerDies(p) PROVE RecordInv'
  BY <1>3, <1>5, <1>9 DEF WriteContent, MakerDies
<1>10. ASSUME NEW p \in Makers, NEW t \in Terminals, Extract(p, t) PROVE RecordInv'
  <2>1. PICK q \in {0, 1} : maker' = [maker EXCEPT ![p] = [Free EXCEPT !.op = t, !.at = "index",
                        !.entry = [id |-> items + 1, phase |-> IF t = "trial" THEN t ELSE "completion",
                                   quality |-> q]]]
    BY <1>10 DEF Extract
  <2> DEFINE m == [Free EXCEPT !.op = t, !.at = "index",
                        !.entry = [id |-> items + 1, phase |-> IF t = "trial" THEN t ELSE "completion",
                                   quality |-> q]]
  <2>2. maker' = [maker EXCEPT ![p] = m] BY <2>1
  <2>3. m.at = "index" /\ DOMAIN m = MakerFields BY <1>3 DEF MakerFields
  <2>4. UNCHANGED <<index, record>> BY <1>10 DEF Extract
  <2> HIDE DEF m
  <2> QED BY <1>2, <1>4, <2>2, <2>3, <2>4
<1>11. ASSUME NEW p \in Makers, LoadIndex(p) PROVE RecordInv'
  <2> DEFINE m == [maker[p] EXCEPT !.at = "save", !.copy = index]
  <2>1. maker' = [maker EXCEPT ![p] = m] /\ UNCHANGED archive BY <1>4, <1>11 DEF LoadIndex
  <2>2. m.at = "save" /\ m.copy = index /\ DOMAIN m = MakerFields BY <1>4 DEF MakerFields
  <2> HIDE DEF m
  <2> QED BY <1>2, <1>4, <2>1, <2>2 DEF archive
<1>12. ASSUME NEW p \in Makers, SaveIndex(p) PROVE RecordInv'
  <2> DEFINE m == [maker[p] EXCEPT !.at = "record"]
  <2>1. maker' = [maker EXCEPT ![p] = m] /\ record' = record /\ maker[p].at = "save"
    BY <1>4, <1>12 DEF SaveIndex
  <2>2. m.at = "record" /\ m.entry = maker[p].entry /\ DOMAIN m = MakerFields BY <1>4 DEF MakerFields
  <2>3. index' = index \cup {maker[p].entry} BY <1>12 DEF SaveIndex, RecordInv
  <2> HIDE DEF m
  <2> QED BY <1>2, <1>4, <2>1, <2>2, <2>3
<1>13. ASSUME NEW p \in Makers, WriteRecord(p) PROVE RecordInv'
  <2>1. maker' = [maker EXCEPT ![p] = Free] /\ index' = index /\ maker[p].entry \in index
    BY <1>13 DEF WriteRecord, RecordInv
  <2>2. \/ record' = record
        \/ record' = [record EXCEPT ![maker[p].op] = maker[p].entry.id]
    BY <1>13 DEF WriteRecord
  <2>3. DOMAIN record' = Terminals /\ \A t \in Terminals : record'[t] \in {record[t], maker[p].entry.id}
    BY <1>4, <2>2
  <2> QED BY <1>2, <1>3, <2>1, <2>3
<1>14. ASSUME NEW id, SetPreferredProvider(id) PROVE RecordInv'
  BY <1>14 DEF SetPreferredProvider, archive, RecordInv, RecordIsIndexed
<1> QED BY <1>1, <1>6, <1>7, <1>8, <1>9, <1>10, <1>11, <1>12, <1>13, <1>14, <1>15 DEF MemoryNext

(* The record of kept work names an entry the index has, whichever makers    *)
(* die between the item, the index and the record, as long as no two of them *)
(* are between reading the index and writing it (prime-retrieval.js); then   *)
(* one could save an index without the other's entry.                        *)
THEOREM RecordTheorem == MemorySpec /\ []SavesApart => []RecordIsIndexed
<1>1. ASSUME MemoryInit PROVE RecordInv
  <2>1. maker = [q \in Makers |-> Free] /\ record = [t \in Terminals |-> Unset]
    BY <1>1 DEF MemoryInit
  <2>2. Free.at = "free" /\ DOMAIN Free = MakerFields BY DEF Free, MakerFields
  <2> QED BY <2>1, <2>2 DEF RecordInv, RecordIsIndexed
<1>2. SavesApart /\ RecordInv /\ [MemoryNext]_memoryVars => RecordInv' BY RecordStep
<1>3. RecordInv => RecordIsIndexed BY DEF RecordInv
<1> QED BY <1>1, <1>2, <1>3, PTL DEF MemorySpec

(* A single maker cannot come between its own reading and writing.           *)
THEOREM RecordOfOneTheorem ==
    ASSUME NEW CONSTANT p, Makers = {p}
    PROVE  MemorySpec => []RecordIsIndexed
<1>1. SavesApart BY DEF SavesApart
<1>2. []SavesApart BY <1>1, PTL
<1> QED BY <1>2, RecordTheorem, PTL
=============================================================================
