----------------------------- MODULE PartsProofs -----------------------------
(***************************************************************************)
(* Proofs about the parts that share no state with the others, each for    *)
(* every value of its constants: the deduplicator (the record of a packet  *)
(* outlives every stale clock reading, and the code implements             *)
(* DedupeWindow) and packet IDs (distinct for as long as the low part      *)
(* counts); truncated positions; traceroute lists; names, region maps and  *)
(* the channel registry.                                                   *)
(***************************************************************************)
EXTENDS Dedupe, PacketId, Traceroute, PositionPrecision, CoreValues, TLAPS,
        SequenceTheorems, WellFoundedInduction

(***************************************************************************)
(* The deduplicator, then packet IDs.                                      *)
(***************************************************************************)

\* An empty map and idle callers satisfy the inductive invariant.
LEMMA InitIInv == DedupeInit => IInv
BY DedupeAssumption DEF DedupeInit, IInv, DedupeTypeOK, CallerClock, SeenIsLast, CallOpen,
   RecordKept, Time, NoTime

\* Every step of the deduplicator preserves the inductive invariant.
LEMMA NextIInv == IInv /\ [DedupeNext]_dedupeVars => IInv'
<1> SUFFICES ASSUME IInv, [DedupeNext]_dedupeVars PROVE IInv'
    OBVIOUS
<1> USE DedupeAssumption DEF IInv, DedupeTypeOK, CallerClock, SeenIsLast, CallOpen,
    RecordKept, Time, NoTime
<1>1. CASE PassTime
    BY <1>1 DEF PassTime
<1>2. ASSUME NEW c \in Callers, NEW k \in Packets, Seen(c, k)
      PROVE  IInv'
    BY <1>2 DEF Seen
<1>3. ASSUME NEW c \in Callers, DeleteUntil(c)
      PROVE  IInv'
    BY <1>3 DEF DeleteUntil, Expired
<1>4. ASSUME NEW c \in Callers, RecordNew(c)
      PROVE  IInv'
    BY <1>4 DEF RecordNew
<1>5. ASSUME NEW c \in Callers, ForgetExpired(c)
      PROVE  IInv'
    BY <1>5 DEF ForgetExpired
<1>6. ASSUME NEW c \in Callers, ReportDup(c)
      PROVE  IInv'
    BY <1>6 DEF ReportDup
<1>7. CASE UNCHANGED dedupeVars
    BY <1>7 DEF dedupeVars
<1> QED
    BY <1>1, <1>2, <1>3, <1>4, <1>5, <1>6, <1>7 DEF DedupeNext

\* The deduplicator's state is well typed in every reachable state.
THEOREM TypeCorrect == DedupeSpec => []DedupeTypeOK
BY InitIInv, NextIInv, PTL DEF DedupeSpec, IInv

\* isSeen and deleteUntil never drop a record before its window is over,
\* whatever clock readings concurrent callers hold.
THEOREM RecordKeptAlways == DedupeSpec => []RecordKept
BY InitIInv, NextIInv, PTL DEF DedupeSpec, IInv

\* The code implements the window specification: no caller is told "new" about
\* a recorded packet inside the window of the record.
THEOREM ImplementsWindow == DedupeSpec => WindowSpec
<1> DEFINE untilBar == [k \in Packets |->
                          IF last[k] = NoTime THEN NoTime ELSE last[k] + ExpiresAfter]
<1>1. DedupeInit => Abstract!WindowInit
    BY DEF DedupeInit, Abstract!WindowInit, NoTime, Abstract!NoTime
<1>2. IInv /\ [DedupeNext]_dedupeVars => [Abstract!WindowNext]_(Abstract!windowVars)
    <2> SUFFICES ASSUME IInv, [DedupeNext]_dedupeVars
                 PROVE  Abstract!WindowNext \/ UNCHANGED Abstract!windowVars
        OBVIOUS
    <2> USE DedupeAssumption DEF IInv, DedupeTypeOK, CallerClock, SeenIsLast, CallOpen,
        RecordKept, Time, NoTime, Abstract!NoTime
    <2>1. CASE PassTime
        BY <2>1 DEF PassTime, Abstract!WindowNext, Abstract!Advance
    <2>2. ASSUME NEW c \in Callers, NEW k \in Packets, Seen(c, k)
          PROVE  Abstract!WindowNext
        BY <2>2 DEF Seen, Abstract!WindowNext, Abstract!Ask
    <2>3. ASSUME NEW c \in Callers, DeleteUntil(c)
          PROVE  UNCHANGED Abstract!windowVars
        BY <2>3 DEF DeleteUntil, Abstract!windowVars
    <2>4. ASSUME NEW c \in Callers, RecordNew(c)
          PROVE  Abstract!WindowNext
        <3>1. now[c] \in 0..clock
            BY <2>4
        <3>2. untilBar' = [untilBar EXCEPT ![arg[c]] = now[c] + ExpiresAfter]
            <4>1. \A k \in Packets :
                    untilBar'[k] = IF k = arg[c] THEN now[c] + ExpiresAfter ELSE untilBar[k]
                BY <2>4 DEF RecordNew
            <4> QED
                BY <4>1, Zenon
        <3>3. untilBar[arg[c]] = NoTime \/ clock > untilBar[arg[c]]
            BY <2>4 DEF RecordNew
        <3>4. Abstract!AnswerNew(c)
            BY <2>4, <3>1, <3>2, <3>3 DEF RecordNew, Abstract!AnswerNew
        <3> QED
            BY <3>4 DEF Abstract!WindowNext
    <2>5. ASSUME NEW c \in Callers, ForgetExpired(c)
          PROVE  Abstract!WindowNext
        <3>1. clock > untilBar[arg[c]]
            BY <2>5 DEF ForgetExpired
        <3>2. untilBar' = untilBar
            BY <2>5 DEF ForgetExpired
        <3>3. Abstract!AnswerNew(c)
            BY <2>5, <3>1, <3>2 DEF ForgetExpired, Abstract!AnswerNew
        <3> QED
            BY <3>3 DEF Abstract!WindowNext
    <2>6. ASSUME NEW c \in Callers, ReportDup(c)
          PROVE  Abstract!WindowNext
        <3>1. untilBar[arg[c]] # NoTime
            BY <2>6 DEF ReportDup
        <3>2. Abstract!AnswerDup(c)
            BY <2>6, <3>1 DEF ReportDup, Abstract!AnswerDup
        <3> QED
            BY <3>2 DEF Abstract!WindowNext
    <2>7. CASE UNCHANGED dedupeVars
        BY <2>7 DEF dedupeVars, Abstract!windowVars
    <2> QED
        BY <2>1, <2>2, <2>3, <2>4, <2>5, <2>6, <2>7 DEF DedupeNext
<1>3. QED
    BY <1>1, <1>2, InitIInv, NextIInv, PTL DEF DedupeSpec, WindowSpec, Abstract!WindowSpec
-----------------------------------------------------------------------------
(***************************************************************************)
(* Packet IDs.  WindowDistinct is not inductive: distinct IDs say nothing  *)
(* about the next one.  Counting is: the low part of the j-th ID is that   *)
(* of the i-th plus the distance, wrapped once at most, since a window     *)
(* holds no more than LowMod IDs.                                          *)
(***************************************************************************)

\* A low part d IDs on, and the invariant.
Later(low, d) == IF low + d < LowMod THEN low + d ELSE low + d - LowMod

Counting ==
    /\ counter \in Nat
    /\ recent \in Seq(Nat) /\ Len(recent) <= LowMod
    /\ counter # 0 => recent # <<>> /\ recent[Len(recent)] = counter
    /\ \A i, j \in 1 .. Len(recent) :
          i < j => recent[j] % LowMod = Later(recent[i] % LowMod, j - i)

\* Quotient and remainder of a natural number; the remainder is unique.
LEMMA LowPart ==
    ASSUME NEW x \in Nat
    PROVE  /\ x % LowMod \in 0 .. (LowMod - 1)
           /\ \E q \in Nat : x = q * LowMod + (x % LowMod)
           /\ \A q \in Nat, r \in 0 .. (LowMod - 1) : x = q * LowMod + r => x % LowMod = r
<1>0. LowMod \in Nat /\ LowMod > 0
  BY PacketIdAssumption
<1>1. x % LowMod \in 0 .. (LowMod - 1)
  BY <1>0
<1>2. x \div LowMod \in Nat
  BY <1>0
<1>3. x = (x \div LowMod) * LowMod + (x % LowMod)
  BY <1>0
<1>4. ASSUME NEW q \in Nat, NEW r \in 0 .. (LowMod - 1), x = q * LowMod + r
      PROVE  x % LowMod = r
  BY <1>0, <1>4
<1> QED BY <1>1, <1>2, <1>3, <1>4

\* The low part of the ID that follows c is the next one, whatever is drawn above it.
LEMMA NextLow ==
    ASSUME NEW c \in Nat, NEW h \in Nat
    PROVE  /\ ((c + 1) % LowMod) + LowMod * h \in Nat
           /\ (((c + 1) % LowMod) + LowMod * h) % LowMod = Later(c % LowMod, 1)
<1> DEFINE low == (c + 1) % LowMod
           id == low + LowMod * h
<1>0. LowMod \in Nat /\ LowMod > 0 /\ c + 1 \in Nat
  BY PacketIdAssumption
<1>1. low \in 0 .. (LowMod - 1)
  BY <1>0, LowPart
<1>2. id \in Nat /\ id = h * LowMod + low
  BY <1>0, <1>1
<1>3. id % LowMod = low
  BY <1>1, <1>2, LowPart
<1>4. low = Later(c % LowMod, 1)
  <2> DEFINE old == c % LowMod
  <2>1. PICK q \in Nat : c = q * LowMod + old
    BY LowPart
  <2>2. old \in 0 .. (LowMod - 1)
    BY LowPart
  <2> DEFINE whole == q * LowMod
  <2> HIDE DEF old
  <2>3. CASE old + 1 < LowMod
    <3>1. c + 1 = whole + (old + 1) /\ old + 1 \in 0 .. (LowMod - 1)
      <4>1. whole \in Nat
        BY <1>0
      <4> HIDE DEF whole
      <4> QED BY <1>0, <2>1, <2>2, <2>3, <4>1 DEF whole
    <3>2. low = old + 1
      BY <1>0, <3>1, LowPart
    <3> QED BY <2>3, <3>2 DEF Later, old
  <2>4. CASE old + 1 = LowMod
    <3>1. c + 1 = (q + 1) * LowMod + 0 /\ 0 \in 0 .. (LowMod - 1) /\ q + 1 \in Nat
      <4>1. (q + 1) * LowMod = q * LowMod + LowMod
        BY <1>0
      <4> QED BY <1>0, <2>1, <2>2, <2>4, <4>1
    <3>2. low = 0
      BY <1>0, <3>1, LowPart
    <3>3. Later(old, 1) = 0
      BY <1>0, <2>2, <2>4 DEF Later
    <3> QED BY <3>2, <3>3 DEF old
  <2> QED BY <1>0, <2>2, <2>3, <2>4
<1> QED BY <1>2, <1>3, <1>4

\* Distances add up.
LEMMA LaterAdds ==
    ASSUME NEW low \in 0 .. (LowMod - 1), NEW d \in Nat, d + 1 < LowMod \/ d + 1 = LowMod
    PROVE  Later(low, d) \in 0 .. (LowMod - 1) /\ Later(Later(low, d), 1) = Later(low, d + 1)
BY PacketIdAssumption DEF Later

\* What next() draws, and that it goes on counting.
LEMMA DrawCounts == Counting /\ [Draw]_idVars => Counting'
<1> SUFFICES ASSUME Counting, Draw PROVE Counting'
  BY DEF Counting, idVars
<1>0. /\ LowMod \in Nat /\ LowMod > 0 /\ recent \in Seq(Nat) /\ Len(recent) \in Nat
      /\ counter \in Nat
  BY PacketIdAssumption DEF Counting
<1>1. PICK b \in Nat, h \in Nat : /\ counter' = ((b + 1) % LowMod) + LowMod * h
                                  /\ counter # 0 => b = counter
  <2>1. PICK b \in IF counter = 0 THEN Uint32 ELSE {counter}, h \in 0 .. (HighMod - 1) :
            counter' = ((b + 1) % LowMod) + LowMod * h
    BY DEF Draw, NextCounter
  <2>2. b \in Nat /\ h \in Nat
    BY <1>0, PacketIdAssumption DEF Uint32
  <2> QED BY <2>1, <2>2
<1>2. counter' \in Nat /\ (counter # 0 => counter' % LowMod = Later(counter % LowMod, 1))
  BY <1>0, <1>1, NextLow
<1>3. CASE counter = 0
  <2>1. recent' = <<counter'>>
    BY <1>3 DEF Draw
  <2> QED BY <1>0, <1>2, <2>1 DEF Counting
<1>4. CASE counter # 0
  <2> DEFINE n == Len(recent)
             grown == Append(recent, counter')
  <2>1. n \in 1 .. LowMod /\ recent[n] = counter
    BY <1>0, <1>4 DEF Counting
  <2>2. /\ grown \in Seq(Nat) /\ Len(grown) = n + 1 /\ grown[n + 1] = counter'
        /\ \A i \in 1 .. n : grown[i] = recent[i]
    BY <1>0, <1>2
  <2>3. ASSUME NEW i \in 1 .. n, n + 1 - i <= LowMod
        PROVE  counter' % LowMod = Later(recent[i] % LowMod, n + 1 - i)
    <3>1. recent[i] \in Nat /\ recent[i] % LowMod \in 0 .. (LowMod - 1)
      BY <1>0, LowPart
    <3>2. CASE i = n
      BY <1>2, <1>4, <2>1, <3>2, <1>0
    <3>3. CASE i < n
      <4>1. counter % LowMod = Later(recent[i] % LowMod, n - i)
        BY <1>0, <2>1, <3>3 DEF Counting
      <4>2. n - i \in Nat /\ (n - i) + 1 <= LowMod /\ (n - i) + 1 = n + 1 - i
        BY <1>0, <2>1, <2>3, <3>3
      <4>3. (n - i) + 1 < LowMod \/ (n - i) + 1 = LowMod
        BY <1>0, <4>2
      <4>4. Later(Later(recent[i] % LowMod, n - i), 1) = Later(recent[i] % LowMod, (n - i) + 1)
        BY <3>1, <4>2, <4>3, LaterAdds
      <4> QED BY <1>2, <1>4, <4>1, <4>2, <4>4
    <3> QED BY <1>0, <2>1, <3>2, <3>3
  <2>4. ASSUME NEW i \in 1 .. (n + 1), NEW j \in 1 .. (n + 1), i < j, j - i <= LowMod
        PROVE  grown[j] % LowMod = Later(grown[i] % LowMod, j - i)
    <3>1. i \in 1 .. n
      BY <1>0, <2>1, <2>4
    <3>2. CASE j = n + 1
      BY <2>2, <2>3, <2>4, <3>1, <3>2
    <3>3. CASE j \in 1 .. n
      BY <2>2, <2>4, <3>1, <3>3 DEF Counting
    <3> QED BY <1>0, <3>2, <3>3
  <2> HIDE DEF grown
  <2>5. CASE Len(grown) > LowMod
    <3>1. n = LowMod /\ recent' = Tail(grown)
      BY <1>0, <1>4, <2>1, <2>2, <2>5 DEF Draw, Window, grown
    <3>2. /\ recent' \in Seq(Nat) /\ Len(recent') = n
          /\ \A i \in 1 .. n : recent'[i] = grown[i + 1]
      BY <1>0, <2>2, <3>1
    <3>3. ASSUME NEW i \in 1 .. n, NEW j \in 1 .. n, i < j
          PROVE  recent'[j] % LowMod = Later(recent'[i] % LowMod, j - i)
      <4>1. /\ i + 1 \in 1 .. (n + 1) /\ j + 1 \in 1 .. (n + 1) /\ i + 1 < j + 1
            /\ (j + 1) - (i + 1) = j - i /\ j - i <= LowMod
        BY <1>0, <3>1, <3>3
      <4> QED BY <2>4, <3>2, <4>1
    <3>4. recent' # <<>> /\ recent'[Len(recent')] = counter'
      BY <1>0, <2>1, <2>2, <3>2
    <3> QED BY <1>0, <1>2, <3>1, <3>2, <3>3, <3>4 DEF Counting
  <2>6. CASE ~(Len(grown) > LowMod)
    <3>1. n + 1 <= LowMod /\ recent' = grown
      BY <1>0, <1>4, <2>1, <2>2, <2>6 DEF Draw, Window, grown
    <3>2. \A i, j \in 1 .. (n + 1) : i < j => j - i <= LowMod
      BY <1>0, <3>1
    <3>3. recent' # <<>> /\ recent'[Len(recent')] = counter'
      BY <1>0, <2>1, <2>2, <3>1
    <3> QED BY <1>0, <1>2, <2>2, <2>4, <3>1, <3>2, <3>3 DEF Counting
  <2> QED BY <2>5, <2>6
<1> QED BY <1>3, <1>4

\* Any LowMod consecutive IDs of packetIDGenerator.next are distinct, unless the counter was
\* seeded in between, for any widths of the parts and whatever the random parts are.
THEOREM WindowDistinctAlways == IdSpec => []WindowDistinct
<1>1. IdInit => Counting
  BY PacketIdAssumption DEF IdInit, Counting
<1>2. Counting => WindowDistinct
  <2> SUFFICES ASSUME Counting, NEW i \in 1 .. Len(recent), NEW j \in 1 .. Len(recent), i < j
               PROVE  recent[i] # recent[j]
    BY DEF WindowDistinct, Counting
  <2>0. LowMod \in Nat \ {0} /\ recent \in Seq(Nat) /\ Len(recent) \in Nat /\ Len(recent) <= LowMod
    BY PacketIdAssumption DEF Counting
  <2>1. recent[i] % LowMod \in 0 .. (LowMod - 1) /\ j - i \in 1 .. (LowMod - 1)
    <3>1. recent[i] \in Nat
      BY <2>0
    <3>2. j - i \in 1 .. (LowMod - 1)
      BY <2>0
    <3> QED BY <3>1, <3>2, LowPart
  <2>2. recent[j] % LowMod = Later(recent[i] % LowMod, j - i)
    BY DEF Counting
  <2>3. Later(recent[i] % LowMod, j - i) # recent[i] % LowMod
    BY PacketIdAssumption, <2>1 DEF Later
  <2> QED BY <2>2, <2>3
<1> QED BY <1>1, <1>2, DrawCounts, PTL DEF IdSpec
-----------------------------------------------------------------------------
(***************************************************************************)
(* Positions.  First the powers of two: that the recursion of Pow2 defines *)
(* a function takes a proof of its own.                                    *)
(***************************************************************************)

\* A set of numbers that is not empty has a least one.
LEMMA LeastOf ==
    ASSUME NEW S, S \subseteq Nat, S # {}
    PROVE  \E i \in S : \A j \in S : i <= j
  <1>1. PICK i \in S : \A j \in S : ~ (<<j, i>> \in OpToRel(<, Nat))
    BY NatLessThanWellFounded, WFMin, Zenon
  <1>2. \A j \in S : ~ (j < i)
    BY <1>1, Zenon DEF OpToRel
  <1>. QED  BY <1>2

\* So Min is the least element.
LEMMA MinOf ==
    ASSUME NEW S, S \subseteq Nat, S # {}
    PROVE  Min(S) \in S /\ \A j \in S : Min(S) <= j
  BY LeastOf, Zenon DEF Min

\* g has the first n + 1 powers of two.
Powers(g, n) ==
    /\ g \in [0 .. n -> Nat]
    /\ \A m \in 0 .. n : g[m] = IF m = 0 THEN 1 ELSE 2 * g[m - 1]

\* There is such a table for every n.
LEMMA PowersExist ==
    ASSUME NEW n \in Nat
    PROVE  \E g : Powers(g, n)
  <1>. DEFINE S == {k \in Nat : ~ \E g : Powers(g, k)}
  <1>1. SUFFICES ASSUME S # {} PROVE FALSE
    OBVIOUS
  <1>2. PICK k \in S : \A j \in S : k <= j
    BY <1>1, LeastOf
  <1>3. k \in Nat /\ ~ \E g : Powers(g, k)
    OBVIOUS
  <1>4. CASE k = 0
    <2>. DEFINE g == [m \in 0 .. 0 |-> 1]
    <2>1. Powers(g, 0)
      BY DEF Powers
    <2>. QED  BY <1>3, <1>4, <2>1
  <1>5. CASE k # 0
    <2>1. k - 1 \in Nat /\ k - 1 \notin S
      BY <1>2, <1>3, <1>5
    <2>2. PICK h : Powers(h, k - 1)
      BY <2>1
    <2>. DEFINE g == [m \in 0 .. k |-> IF m = k THEN 2 * h[k - 1] ELSE h[m]]
    <2>3. /\ h \in [0 .. (k - 1) -> Nat]
          /\ \A m \in 0 .. (k - 1) : h[m] = IF m = 0 THEN 1 ELSE 2 * h[m - 1]
      BY <2>2 DEF Powers
    <2>4. k - 1 \in 0 .. (k - 1) /\ h[k - 1] \in Nat
      BY <2>1, <2>3
    <2>5. \A m \in 0 .. k : g[m] = IF m = k THEN 2 * h[k - 1] ELSE h[m]
      OBVIOUS
    <2>6. \A m \in 0 .. k : m # k => m \in 0 .. (k - 1)
      BY <1>3
    <2>7. g \in [0 .. k -> Nat]
      BY <2>3, <2>4, <2>6
    <2>. HIDE DEF g
    <2>8. ASSUME NEW m \in 0 .. k
          PROVE  g[m] = IF m = 0 THEN 1 ELSE 2 * g[m - 1]
      <3>1. CASE m = k
        BY <1>3, <1>5, <2>4, <2>5, <3>1
      <3>2. CASE m # k /\ m = 0
        BY <2>3, <2>5, <2>6, <3>2
      <3>3. CASE m # k /\ m # 0
        <4>1. m \in 0 .. (k - 1) /\ m - 1 \in 0 .. k /\ m - 1 # k
          BY <1>3, <3>3
        <4>2. g[m] = h[m] /\ g[m - 1] = h[m - 1]
          BY <2>5, <3>3, <4>1
        <4>. QED  BY <2>3, <3>3, <4>1, <4>2
      <3>. QED  BY <3>1, <3>2, <3>3
    <2>9. Powers(g, k)
      BY <2>7, <2>8 DEF Powers
    <2>. QED  BY <1>3, <2>9
  <1>. QED  BY <1>4, <1>5

\* Two tables agree where both are defined.
LEMMA PowersAgree ==
    ASSUME NEW a \in Nat, NEW b \in Nat, NEW g, NEW h, Powers(g, a), Powers(h, b), NEW m \in 0 .. a, m <= b
    PROVE  g[m] = h[m]
  <1>. DEFINE S == {k \in Nat : k <= a /\ k <= b /\ g[k] # h[k]}
  <1>1. SUFFICES ASSUME S # {} PROVE FALSE
    OBVIOUS
  <1>2. PICK k \in S : \A j \in S : k <= j
    BY <1>1, LeastOf
  <1>3. k \in 0 .. a /\ k \in 0 .. b /\ g[k] # h[k]
    OBVIOUS
  <1>4. /\ g[k] = IF k = 0 THEN 1 ELSE 2 * g[k - 1]
        /\ h[k] = IF k = 0 THEN 1 ELSE 2 * h[k - 1]
    BY <1>3 DEF Powers
  <1>5. k # 0
    BY <1>3, <1>4
  <1>6. k - 1 \in Nat /\ k - 1 <= a /\ k - 1 <= b /\ k - 1 \notin S
    BY <1>2, <1>3, <1>5
  <1>7. g[k - 1] = h[k - 1]
    BY <1>6
  <1>. QED  BY <1>3, <1>4, <1>5, <1>7

\* The recursion of Pow2 defines it.
LEMMA Pow2Def ==
    Pow2 = [n \in Nat |-> IF n = 0 THEN 1 ELSE 2 * Pow2[n - 1]]
  <1>. DEFINE T(n) == CHOOSE g : Powers(g, n)
              F == [n \in Nat |-> T(n)[n]]
  <1>1. \A n \in Nat : Powers(T(n), n)
    BY PowersExist, Zenon
  <1>. HIDE DEF T
  <1>2. ASSUME NEW n \in Nat
        PROVE  F[n] = IF n = 0 THEN 1 ELSE 2 * F[n - 1]
    <2>1. T(n)[n] = IF n = 0 THEN 1 ELSE 2 * T(n)[n - 1]
      BY <1>1 DEF Powers
    <2>2. CASE n = 0
      BY <2>1, <2>2
    <2>3. CASE n # 0
      <3>1. n - 1 \in Nat /\ n - 1 \in 0 .. (n - 1) /\ n - 1 <= n
        BY <2>3
      <3>2. T(n)[n - 1] = T(n - 1)[n - 1]
        BY <1>1, <3>1, PowersAgree
      <3>. QED  BY <2>1, <2>3, <3>1, <3>2
    <2>. QED  BY <2>2, <2>3
  <1>3. F = [n \in Nat |-> IF n = 0 THEN 1 ELSE 2 * F[n - 1]]
    <2>. DEFINE G == [n \in Nat |-> IF n = 0 THEN 1 ELSE 2 * F[n - 1]]
    <2>1. \A n \in Nat : G[n] = IF n = 0 THEN 1 ELSE 2 * F[n - 1]
      OBVIOUS
    <2>2. \A n \in Nat : F[n] = G[n]
      BY <1>2, <2>1, Zenon
    <2>. QED  BY <2>2, Zenon
  <1>. HIDE DEF F
  <1>4. \E f : f = [n \in Nat |-> IF n = 0 THEN 1 ELSE 2 * f[n - 1]]
    BY <1>3, Zenon
  <1>. QED  BY <1>4, Zenon DEF Pow2

\* One, then doubling; and every power is positive.
LEMMA Pow2Laws ==
    /\ Pow2[0] = 1
    /\ \A n \in Nat : Pow2[n + 1] = 2 * Pow2[n]
    /\ \A n \in Nat : Pow2[n] \in Nat /\ Pow2[n] > 0
  <1>1. \A n \in Nat : Pow2[n] = IF n = 0 THEN 1 ELSE 2 * Pow2[n - 1]
    <2>. DEFINE G == [n \in Nat |-> IF n = 0 THEN 1 ELSE 2 * Pow2[n - 1]]
    <2>1. \A n \in Nat : G[n] = IF n = 0 THEN 1 ELSE 2 * Pow2[n - 1]
      OBVIOUS
    <2>. HIDE DEF Pow2
    <2>2. Pow2 = G
      BY Pow2Def
    <2>. QED  BY <2>1, <2>2, Zenon
  <1>. HIDE DEF Pow2
  <1>2. Pow2[0] = 1
    BY <1>1
  <1>3. ASSUME NEW n \in Nat PROVE Pow2[n + 1] = 2 * Pow2[n]
    <2>1. n + 1 \in Nat /\ n + 1 # 0 /\ (n + 1) - 1 = n
      OBVIOUS
    <2>. QED  BY <1>1, <2>1
  <1>4. ASSUME NEW n \in Nat PROVE Pow2[n] \in Nat /\ Pow2[n] > 0
    <2>. DEFINE S == {k \in Nat : ~(Pow2[k] \in Nat /\ Pow2[k] > 0)}
    <2>1. SUFFICES ASSUME S # {} PROVE FALSE
      OBVIOUS
    <2>2. PICK k \in S : \A j \in S : k <= j
      BY <2>1, LeastOf
    <2>3. k \in Nat /\ ~(Pow2[k] \in Nat /\ Pow2[k] > 0)
      OBVIOUS
    <2>4. k # 0
      BY <1>2, <2>3
    <2>5. k - 1 \in Nat /\ k - 1 \notin S
      BY <2>2, <2>3, <2>4
    <2>6. Pow2[k - 1] \in Nat /\ Pow2[k - 1] > 0
      BY <2>5
    <2>. QED  BY <1>1, <2>3, <2>4, <2>6
  <1>. QED  BY <1>2, <1>3, <1>4

\* A larger power is a multiple of a smaller one.
LEMMA Pow2Divides ==
    ASSUME NEW m \in Nat, NEW n \in Nat
    PROVE  \E q \in Nat : q > 0 /\ Pow2[m + n] = q * Pow2[m]
  <1>. DEFINE S == {k \in Nat : ~ \E q \in Nat : q > 0 /\ Pow2[m + k] = q * Pow2[m]}
  <1>1. SUFFICES ASSUME S # {} PROVE FALSE
    OBVIOUS
  <1>2. PICK k \in S : \A j \in S : k <= j
    BY <1>1, LeastOf
  <1>3. k \in Nat /\ ~ \E q \in Nat : q > 0 /\ Pow2[m + k] = q * Pow2[m]
    OBVIOUS
  <1>. HIDE DEF Pow2
  <1>4. Pow2[m] \in Nat
    BY Pow2Laws
  <1>5. k # 0
    <2>1. SUFFICES ASSUME k = 0 PROVE FALSE
      OBVIOUS
    <2>2. m + k = m /\ Pow2[m] = 1 * Pow2[m] /\ 1 \in Nat /\ 1 > 0
      BY <1>4, <2>1
    <2>3. Pow2[m + k] = 1 * Pow2[m]
      BY <2>2
    <2>. QED  BY <1>3, <2>2, <2>3, Zenon
  <1>6. k - 1 \in Nat /\ k - 1 \notin S
    BY <1>2, <1>3, <1>5
  <1>7. PICK q \in Nat : q > 0 /\ Pow2[m + (k - 1)] = q * Pow2[m]
    BY <1>6
  <1>8. m + (k - 1) \in Nat /\ (m + (k - 1)) + 1 = m + k
    BY <1>3, <1>6
  <1>9. Pow2[(m + (k - 1)) + 1] = 2 * Pow2[m + (k - 1)]
    BY <1>8, Pow2Laws
  <1>10. Pow2[m + k] = 2 * (q * Pow2[m])
    BY <1>7, <1>8, <1>9
  <1>11. 2 * (q * Pow2[m]) = (2 * q) * Pow2[m] /\ 2 * q \in Nat /\ 2 * q > 0
    BY <1>4, <1>7
  <1>. QED  BY <1>3, <1>10, <1>11

\* Multiplying by a positive number keeps the order.
LEMMA TimesGrows ==
    ASSUME NEW a \in Int, NEW b \in Int, NEW m \in Nat, m > 0
    PROVE  a * m < b * m <=> a < b
  <1>1. b * m - a * m = (b - a) * m
    OBVIOUS
  <1>2. CASE a < b
    <2>1. (b - a) * m > 0
      BY <1>2
    <2>. QED  BY <1>1, <1>2, <2>1
  <1>3. CASE a >= b
    <2>1. (b - a) * m <= 0
      BY <1>3
    <2>. QED  BY <1>1, <1>3, <2>1
  <1>. QED  BY <1>2, <1>3

\* Quotient and remainder are the only ones.
LEMMA Euclid ==
    ASSUME NEW m \in Nat, m > 0, NEW q \in Int, NEW r \in Int, 0 <= r, r < m
    PROVE  (q * m + r) % m = r /\ (q * m + r) \div m = q
  <1>. DEFINE x == q * m + r
              d == x \div m
              e == x % m
  <1>1. x \in Int /\ d \in Int /\ e \in Int /\ 0 <= e /\ e < m /\ x = d * m + e
    OBVIOUS
  <1>2. x = q * m + r
    OBVIOUS
  <1>. HIDE DEF x, d, e
  <1>3. q * m \in Int /\ d * m \in Int /\ (q + 1) * m = q * m + m /\ (d + 1) * m = d * m + m
    BY <1>1
  <1>4. d * m < (q + 1) * m /\ q * m < (d + 1) * m
    BY <1>1, <1>2, <1>3
  <1>5. d < q + 1 /\ q < d + 1
    BY <1>1, <1>4, TimesGrows
  <1>6. d = q
    BY <1>1, <1>5
  <1>7. e = r
    BY <1>1, <1>2, <1>3, <1>6
  <1>. QED  BY <1>6, <1>7 DEF x, d, e

\* What TruncateCoordinate computes of a word of W values, H of them negative.
Masked(c, cell, H, W) ==
    LET u == c % W
        t == ((u - (u % cell)) + cell \div 2) % W
    IN IF t >= H THEN t - W ELSE t

\* The centre of the cell that holds c.
Centre(c, cell) == (c \div cell) * cell + cell \div 2

\* The word is 2 P cells of two halves each.
Cells(half, P, cell, H, W) == half > 0 /\ P > 0 /\ cell = 2 * half /\ H = P * cell /\ W = 2 * H

\* Masking and adding half a cell on the unsigned word finds the centre of the cell of
\* the signed coordinate: the word is a whole number of cells, so neither the sign nor
\* the sum disturbs it.
LEMMA MaskedCentre ==
    ASSUME NEW half \in Nat, NEW P \in Nat, NEW cell \in Nat, NEW H \in Nat, NEW W \in Nat,
           Cells(half, P, cell, H, W), NEW c \in Int, - H <= c, c < H
    PROVE  Masked(c, cell, H, W) = Centre(c, cell)
  <1>. DEFINE u == c % W
              t == ((u - (u % cell)) + cell \div 2) % W
              a == c \div cell
              r == c % cell
  <1>. USE DEF Cells
  <1>1. cell > 0 /\ cell \div 2 = half /\ half < cell
    OBVIOUS
  <1>2. a \in Int /\ r \in Int /\ 0 <= r /\ r < cell /\ c = a * cell + r
    BY <1>1
  <1>3. H > 0 /\ W > 0
    <2>1. 0 * cell < P * cell
      BY <1>1, TimesGrows
    <2>2. 0 * cell = 0
      OBVIOUS
    <2>. QED  BY <2>1, <2>2
  <1>. HIDE DEF a, r
  <1>4. a < P /\ a >= - P
    <2>0. (- P) * cell = - (P * cell)
      OBVIOUS
    <2>1. a * cell \in Int /\ (a + 1) * cell = a * cell + cell /\ (- P) * cell = - H
      BY <1>2, <2>0
    <2>2. a * cell < P * cell /\ (- P) * cell < (a + 1) * cell
      BY <1>2, <2>1
    <2>3. a < P /\ - P < a + 1
      BY <1>1, <1>2, <2>2, TimesGrows
    <2>. QED  BY <1>2, <2>3
  <1>5. ASSUME NEW b \in Nat, b < 2 * P, u = b * cell + r
        PROVE  t = b * cell + half
    <2>. HIDE DEF u
    <2>1. u % cell = r
      <3>1. (b * cell + r) % cell = r
        BY <1>1, <1>2, Euclid
      <3>. QED  BY <1>5, <3>1
    <2>2. b * cell \in Nat /\ (b + 1) * cell = b * cell + cell /\ (2 * P) * cell = W
      <3>1. (2 * P) * cell = 2 * (P * cell)
        OBVIOUS
      <3>2. b * cell \in Nat /\ (b + 1) * cell = b * cell + cell
        OBVIOUS
      <3>. QED  BY <3>1, <3>2
    <2>3. b * cell + cell <= W
      <3>1. b + 1 < 2 * P \/ b + 1 = 2 * P
        BY <1>5
      <3>2. b + 1 < 2 * P => (b + 1) * cell < (2 * P) * cell
        BY <1>1, TimesGrows
      <3>. QED  BY <2>2, <3>1, <3>2
    <2>4. ((u - (u % cell)) + cell \div 2) = 0 * W + (b * cell + half)
      BY <1>1, <1>2, <1>5, <2>1, <2>2
    <2>5. (0 * W + (b * cell + half)) % W = b * cell + half
      BY <1>1, <1>3, <2>2, <2>3, Euclid
    <2>. QED  BY <2>4, <2>5
  <1>6. CASE c >= 0
    <2>1. a >= 0
      <3>1. a * cell \in Int /\ (a + 1) * cell = a * cell + cell
        BY <1>2
      <3>2. 0 * cell < (a + 1) * cell
        BY <1>2, <1>6, <3>1
      <3>3. 0 < a + 1
        BY <1>1, <1>2, <3>2, TimesGrows
      <3>. QED  BY <1>2, <3>3
    <2>2. u = c
      <3>1. (0 * W + c) % W = c
        BY <1>3, <1>6, Euclid
      <3>. QED  BY <3>1
    <2>3. t = a * cell + half
      <3>. HIDE DEF u, t
      <3>1. a \in Nat /\ a < 2 * P /\ u = a * cell + r
        BY <1>2, <1>4, <2>1, <2>2
      <3>. QED  BY <1>5, <3>1
    <2>4. a * cell + cell <= H
      <3>1. a + 1 < P \/ a + 1 = P
        BY <1>2, <1>4
      <3>2. a + 1 < P => (a + 1) * cell < P * cell
        BY <1>1, <1>2, TimesGrows
      <3>3. a * cell \in Int /\ (a + 1) * cell = a * cell + cell
        BY <1>2
      <3>. QED  BY <3>1, <3>2, <3>3
    <2>5. a * cell \in Int
      BY <1>2
    <2>. HIDE DEF t
    <2>6. ~(t >= H)
      BY <1>1, <2>3, <2>4, <2>5
    <2>7. (IF t >= H THEN t - W ELSE t) = a * cell + cell \div 2
      BY <1>1, <2>3, <2>6
    <2>. QED  BY <2>7 DEF Masked, Centre, t, u, a
  <1>7. CASE c < 0
    <2>1. u = c + W
      <3>1. ((-1) * W + (c + W)) % W = c + W
        BY <1>3, <1>7, Euclid
      <3>2. (-1) * W + (c + W) = c
        OBVIOUS
      <3>. QED  BY <3>1, <3>2
    <2>2. PICK b \in Nat : b = a + 2 * P
      BY <1>2, <1>4
    <2>3. b * cell = a * cell + W /\ a * cell \in Int /\ b * cell \in Int
      BY <1>2, <2>2
    <2>4. a < 0
      <3>1. a * cell < 0 * cell
        BY <1>2, <1>7, <2>3
      <3>. QED  BY <1>1, <1>2, <3>1, TimesGrows
    <2>5. b < 2 * P /\ b >= P
      BY <1>2, <1>4, <2>2, <2>4
    <2>6. t = b * cell + half
      <3>1. u = b * cell + r
        BY <1>2, <2>1, <2>3
      <3>. QED  BY <1>5, <2>5, <3>1
    <2>7. b * cell >= H
      <3>1. P < b \/ P = b
        BY <2>5
      <3>2. P < b => P * cell < b * cell
        BY <1>1, TimesGrows
      <3>. QED  BY <2>3, <3>1, <3>2
    <2>. HIDE DEF t
    <2>8. t >= H /\ t - W = a * cell + half
      BY <2>3, <2>6, <2>7
    <2>9. (IF t >= H THEN t - W ELSE t) = a * cell + cell \div 2
      BY <1>1, <2>8
    <2>. QED  BY <2>9 DEF Masked, Centre, t, u, a
  <1>. QED  BY <1>6, <1>7

\* TruncateCoordinate returns the centre of the cell, at every precision of the word.
LEMMA TruncateCentre ==
    ASSUME NEW c \in Coordinates, NEW p \in 1 .. WordBits
    PROVE  TruncateCoordinate(c, p) = CellCentre(c, p)
  <1>. HIDE DEF Pow2
  <1>1. WordBits \in Nat /\ WordBits - 1 \in Nat
    BY PrecisionAssumption
  <1>2. CASE p = WordBits
    BY <1>1, <1>2 DEF TruncateCoordinate, CellCentre
  <1>3. CASE p # WordBits
    <2>1. /\ WordBits - p - 1 \in Nat /\ p - 1 \in Nat /\ WordBits - p \in Nat
          /\ (WordBits - p) + (p - 1) = WordBits - 1 /\ (WordBits - p - 1) + 1 = WordBits - p
          /\ (WordBits - 1) + 1 = WordBits /\ ~(p = 0 \/ p >= WordBits)
      BY <1>1, <1>3
    <2>2. PICK half \in Nat : half = Pow2[WordBits - p - 1] /\ half > 0
      BY <2>1, Pow2Laws
    <2>3. PICK cell \in Nat : cell = Pow2[WordBits - p] /\ cell = 2 * half
      BY <2>1, <2>2, Pow2Laws
    <2>4. PICK P \in Nat : P > 0 /\ Pow2[(WordBits - p) + (p - 1)] = P * Pow2[WordBits - p]
      BY <2>1, Pow2Divides
    <2>5. PICK H \in Nat : H = Pow2[WordBits - 1] /\ H = P * cell
      BY <1>1, <2>1, <2>3, <2>4, Pow2Laws
    <2>6. PICK W \in Nat : W = Pow2[WordBits] /\ W = 2 * H
      BY <1>1, <2>1, <2>5, Pow2Laws
    <2>7. c \in Int /\ - H <= c /\ c < H
      BY <2>5 DEF Coordinates
    <2>8. Masked(c, cell, H, W) = Centre(c, cell)
      <3>1. Cells(half, P, cell, H, W)
        BY <2>2, <2>3, <2>4, <2>5, <2>6 DEF Cells
      <3>. QED  BY <2>7, <3>1, MaskedCentre
    <2>9. TruncateCoordinate(c, p) = Masked(c, cell, H, W)
      BY <2>1, <2>3, <2>5, <2>6, Zenon DEF TruncateCoordinate, Masked
    <2>10. CellCentre(c, p) = Centre(c, cell)
      BY <1>3, <2>3, Zenon DEF CellCentre, Centre
    <2>. QED  BY <2>8, <2>9, <2>10
  <1>. QED  BY <1>2, <1>3

\* A table is a sequence of channels.
LEMMA TableFacts ==
    ASSUME NEW t \in Tables
    PROVE  DOMAIN t \subseteq Nat \ {0} /\ \A i \in DOMAIN t : t[i] \in Channels
  BY PrecisionAssumption DEF Tables

\* What is set on a channel that can be used.
LEMMA UsableFacts ==
    ASSUME NEW t \in Tables, NEW i, Usable(t, i)
    PROVE  /\ i \in DOMAIN t /\ t[i] # Nil /\ t[i].settings # Nil
           /\ t[i].role \in {"primary", "secondary"} /\ t[i].settings.psk \in Psks
           /\ t[i].settings.precision \in Nat
  <1>1. i \in DOMAIN t /\ t[i] # Nil /\ t[i].settings # Nil /\ t[i].role # "disabled"
    BY DEF Usable
  <1>2. t[i] \in [role : Roles, settings : {Nil} \union [psk : Psks, precision : Precisions]]
    BY <1>1, TableFacts DEF Channels
  <1>3. t[i].role \in Roles /\ t[i].settings \in [psk : Psks, precision : Precisions]
    BY <1>1, <1>2
  <1>4. Precisions \subseteq Nat
    BY PrecisionAssumption DEF Precisions
  <1>. QED  BY <1>1, <1>3, <1>4 DEF Roles

\* A channel that everybody can read uses a public key, given that primaries have settings.
LEMMA PublicFound ==
    ASSUME NEW t \in Tables, NEW i, Usable(t, i), table' = t, WellFormed', ReadableByAll(i)'
    PROVE  ChannelUsesPublicKey(t, i)
  <1>1. i \in DOMAIN t /\ t[i].settings # Nil /\ t[i].settings.psk \in Psks /\ i \in Nat
    BY UsableFacts, TableFacts
  <1>. DEFINE primaries == {j \in DOMAIN t : IsPrimary(t[j])}
  <1>2. CASE t[i].settings.psk = "empty" /\ t[i].role = "secondary"
    <2>1. CASE primaries = {}
      BY <1>2, <2>1 DEF ChannelUsesPublicKey
    <2>2. CASE primaries # {}
      <3>1. primaries \subseteq Nat
        BY TableFacts
      <3>2. PICK j \in primaries : j = Min(primaries)
        BY <2>2, <3>1, MinOf
      <3>3. j \in DOMAIN t /\ IsPrimary(t[j]) /\ t[j].settings # Nil
        BY <3>2 DEF WellFormed
      <3>4. Usable(t, j)
        BY <3>3 DEF Usable, IsPrimary
      <3>5. t[j].settings.psk \in Psks
        BY <3>4, UsableFacts
      <3>6. t[j].settings.psk # "private"
        <4>1. primaries = {} \/ t[Min(primaries)].settings = Nil
              \/ t[Min(primaries)].settings.psk # "private"
          BY <1>2 DEF ReadableByAll
        <4>. QED  BY <2>2, <3>2, <3>3, <4>1
      <3>7. OwnKeyPublic(t, j)
        BY <3>4, <3>5, <3>6 DEF OwnKeyPublic, Published, Psks
      <3>8. ChannelUsesPublicKey(t, i) = OwnKeyPublic(t, Min(primaries))
        BY <1>2, <2>2, Zenon DEF ChannelUsesPublicKey
      <3>. QED  BY <3>2, <3>7, <3>8
    <2>. QED  BY <2>1, <2>2
  <1>3. CASE ~(t[i].settings.psk = "empty" /\ t[i].role = "secondary")
    <2>1. Min({i}) = i
      <3>1. {i} \subseteq Nat /\ {i} # {}
        BY <1>1
      <3>. QED  BY <3>1, MinOf
    <2>2. t[i].settings.psk # "private"
      <3>1. {i} = {} \/ t[Min({i})].settings = Nil \/ t[Min({i})].settings.psk # "private"
        BY <1>3, Zenon DEF ReadableByAll
      <3>. QED  BY <1>1, <2>1, <3>1
    <2>3. OwnKeyPublic(t, i)
      BY <1>1, <2>2 DEF OwnKeyPublic, Published, Psks
    <2>. QED  BY <1>3, <2>3 DEF ChannelUsesPublicKey
  <1>. QED  BY <1>2, <1>3

\* What SendPosition sends on a table whose primaries have settings is coarse enough.
LEMMA SentCoarse ==
    ASSUME NEW t \in Tables, NEW lat \in Coordinates \union {Nil}, SendPosition(t, lat)
    PROVE  PositionCoarse'
  <1>. DEFINE open == {i \in DOMAIN t : PositionPrecisionForChannel(t, i) # 0}
              i == FindPositionChannel(t)
              p == PositionPrecisionForChannel(t, i)
  <1>1. table' = t /\ where' = lat
        /\ sent' = IF i = 0 THEN [status |-> "off"] ELSE ApplyPositionPrecision(lat, p)
    BY DEF SendPosition
  <1>2. CASE i = 0
    <2>1. sent'.status = "off"
      BY <1>1, <1>2
    <2>. QED  BY <2>1 DEF PositionCoarse, Coarse
  <1>3. CASE i # 0
    <2>1. open # {} /\ i = Min(open)
      BY <1>3 DEF FindPositionChannel
    <2>2. open \subseteq Nat
      BY TableFacts
    <2>3. i \in open
      BY <2>1, <2>2, MinOf
    <2>4. i \in DOMAIN t /\ p # 0
      BY <2>3
    <2>. HIDE DEF i, open
    <2>5. Usable(t, i) /\ p = IF t[i].settings.precision > PublicCap /\ ChannelUsesPublicKey(t, i)
                              THEN PublicCap ELSE t[i].settings.precision
      BY <2>4 DEF PositionPrecisionForChannel
    <2>6. t[i].settings.precision \in Nat /\ PublicCap \in Nat /\ WordBits \in Nat
          /\ PublicCap \in 1 .. WordBits
      BY <2>5, UsableFacts, PrecisionAssumption
    <2>. HIDE DEF p
    <2>7. p \in Nat /\ p # 0 /\ p <= t[i].settings.precision
      BY <2>4, <2>5, <2>6
    <2>. DEFINE bits == Min({p, WordBits})
    <2>8. bits \in {p, WordBits} /\ bits <= p /\ bits <= WordBits
      <3>1. {p, WordBits} \subseteq Nat /\ {p, WordBits} # {}
        BY <2>6, <2>7
      <3>. QED  BY <3>1, MinOf
    <2>9. sent' = [status |-> "sent",
                   lat |-> IF lat = Nil THEN Nil ELSE TruncateCoordinate(lat, bits),
                   bits |-> bits]
      BY <1>1, <1>3, <2>7, Zenon DEF ApplyPositionPrecision
    <2>. HIDE DEF bits
    <2>10. bits \in 1 .. WordBits
      BY <2>6, <2>7, <2>8
    <2>11. bits <= t[i].settings.precision
      BY <2>6, <2>7, <2>8
    <2>12. IF lat = Nil THEN sent'.lat = Nil ELSE sent'.lat = CellCentre(lat, bits)
      <3>1. CASE lat = Nil
        BY <2>9, <3>1
      <3>2. CASE lat # Nil
        <4>1. lat \in Coordinates
          BY <3>2
        <4>. QED  BY <2>9, <2>10, <3>2, <4>1, TruncateCentre
      <3>. QED  BY <3>1, <3>2
    <2>13. ASSUME WellFormed', ReadableByAll(i)' PROVE bits <= PublicCap
      <3>1. ChannelUsesPublicKey(t, i)
        BY <1>1, <2>5, <2>13, PublicFound
      <3>. QED  BY <2>5, <2>6, <2>8, <3>1
    <2>14. FindPositionChannel(table)' = i /\ sent'.bits = bits
      BY <1>1, <2>9 DEF i
    <2>. QED  BY <1>1, <2>10, <2>11, <2>12, <2>13, <2>14 DEF PositionCoarse, Coarse
  <1>. QED  BY <1>2, <1>3

\* No position leaves finer than its channel allows, nor finer than the public cap where
\* everybody can read it, for every word width, cap and channel table.
THEOREM PositionIsCoarse == PositionSpec => []PositionCoarse
  <1>1. PositionInit => PositionCoarse
    BY DEF PositionInit, PositionCoarse, Coarse
  <1>2. PositionCoarse /\ [PositionNext]_positionVars => PositionCoarse'
    <2>1. ASSUME PositionNext PROVE PositionCoarse'
      BY <2>1, SentCoarse DEF PositionNext
    <2>2. ASSUME PositionCoarse, UNCHANGED positionVars PROVE PositionCoarse'
      BY <2>2 DEF positionVars, PositionCoarse, WellFormed, Coarse, ReadableByAll
    <2>. QED  BY <2>1, <2>2
  <1>. QED  BY <1>1, <1>2, PTL DEF PositionSpec
-----------------------------------------------------------------------------
(***************************************************************************)
(* Traceroute.  The lists are compared place by place: a list is Tied to   *)
(* the packet's when it begins with it and each place after that has the   *)
(* signal value that its hop calls for.                                    *)
(***************************************************************************)

Hop == [node : Relays \cup {Stranger, Bridge, Virtual, NoNode}, snr : Int, unknown : BOOLEAN]
Node == Relays \cup {Gateway, Bridge, BroadcastNodeID}

\* A sequence that agrees with another one as long as it goes is its prefix.
LEMMA PrefixOf ==
    ASSUME NEW S, NEW s \in Seq(S), NEW t \in Seq(S), Len(s) <= Len(t),
           \A i \in 1 .. Len(s) : t[i] = s[i]
    PROVE  IsPrefix(s, t)
  <1>1. PICK n \in Nat : n = Len(s)
    OBVIOUS
  <1>2. \A i \in 1 .. n : t[i] \in S
    BY <1>1
  <1>3. /\ SubSeq(t, 1, n) \in Seq(S)
        /\ Len(SubSeq(t, 1, n)) = IF 1 <= n THEN n - 1 + 1 ELSE 0
        /\ \A i \in 1 .. n - 1 + 1 : SubSeq(t, 1, n)[i] = t[1 + i - 1]
    BY <1>2, SubSeqProperties
  <1>4. Len(SubSeq(t, 1, n)) = n /\ \A i \in 1 .. n : SubSeq(t, 1, n)[i] = t[i]
    <2>1. n - 1 + 1 = n /\ (IF 1 <= n THEN n - 1 + 1 ELSE 0) = n /\ \A i \in 1 .. n : 1 + i - 1 = i
      OBVIOUS
    <2>. QED  BY <1>3, <2>1
  <1>5. SubSeq(t, 1, n) = s
    BY <1>1, <1>3, <1>4, SeqEqual
  <1>6. SubSeq(s, 1, n) = s
    BY <1>1, SubSeqFull
  <1>. QED  BY <1>1, <1>5, <1>6 DEF IsPrefix

\* What a list padded to length n with x holds: what was there, then x.
Padded(p, S, s, n, x) ==
    /\ p \in Seq(S)
    /\ Len(p) = IF n > Len(s) THEN n ELSE Len(s)
    /\ \A i \in 1 .. Len(s) : p[i] = s[i]
    /\ \A i \in (Len(s) + 1) .. Len(p) : p[i] = x

\* Pad adds x up to length n and leaves what is there.
LEMMA PadFacts ==
    ASSUME NEW S, NEW s \in Seq(S), NEW x \in S, NEW n \in Int
    PROVE  Padded(Pad(s, n, x), S, s, n, x)
  <1>. DEFINE m == IF n > Len(s) THEN n - Len(s) ELSE 0
              more == [i \in 1 .. m |-> x]
  <1>1. m \in Nat /\ 1 .. (n - Len(s)) = 1 .. m /\ Len(s) + m = IF n > Len(s) THEN n ELSE Len(s)
    OBVIOUS
  <1>2. more \in Seq(S) /\ Len(more) = m /\ \A i \in 1 .. m : more[i] = x
    BY <1>1
  <1>3. Pad(s, n, x) = s \o more
    BY <1>1 DEF Pad
  <1>. HIDE DEF m, more
  <1>4. /\ s \o more \in Seq(S) /\ Len(s \o more) = Len(s) + m
        /\ \A i \in 1 .. Len(s) + m : (s \o more)[i] = IF i <= Len(s) THEN s[i] ELSE more[i - Len(s)]
    BY <1>2, ConcatProperties
  <1>5. \A i \in 1 .. Len(s) : (s \o more)[i] = s[i]
    BY <1>1, <1>4
  <1>6. ASSUME NEW i \in (Len(s) + 1) .. (Len(s) + m)
        PROVE  (s \o more)[i] = x
    <2>1. i \in 1 .. Len(s) + m /\ ~(i <= Len(s)) /\ i - Len(s) \in 1 .. m
      BY <1>1
    <2>. QED  BY <1>2, <1>4, <2>1
  <1>. QED  BY <1>1, <1>3, <1>4, <1>5, <1>6 DEF Padded

\* The signal value place i of a list calls for, beyond those of the packet.
Called(d, l, i) ==
    IF i <= Len(d.route) \/ l.route[i] = BroadcastNodeID THEN MinInt8
    ELSE IF l.route[i] = Gateway THEN RxSnr ELSE 0
Tied(d, l) ==
    /\ l.route \in Seq(Node) /\ l.snr \in Seq(Int) /\ Len(l.snr) = Len(l.route)
    /\ Len(d.route) <= Len(l.route) /\ \A i \in 1 .. Len(d.route) : l.route[i] = d.route[i]
    /\ \A i \in 1 .. Len(d.snr) : l.snr[i] = d.snr[i]
    /\ \A i \in (Len(d.snr) + 1) .. Len(l.route) : l.snr[i] = Called(d, l, i)

\* A packet's lists and numbers.
LEMMA DiscoveryFacts ==
    ASSUME NEW d \in Discoveries
    PROVE  /\ d.route \in Seq(Relays) /\ d.route \in Seq(Node) /\ d.snr \in Seq(Int)
           /\ Len(d.snr) <= Len(d.route) /\ Len(d.route) \in Nat /\ Len(d.snr) \in Nat
           /\ d.hopStart \in Nat /\ d.hopLimit \in Nat
           /\ d.to \in {Bridge, Virtual, Stranger} /\ d.via \in {NoNode, Gateway, Stranger}
  <1>1. d.route \in Seq(Relays)
    BY TracerouteAssumption DEF Discoveries, SeqsUpTo
  <1>2. d.snr \in Seq(Snrs)
    BY TracerouteAssumption DEF Discoveries, SeqsUpTo
  <1>3. d.route \in Seq(Node)
    BY <1>1, SeqMonotonic DEF Node
  <1>4. d.snr \in Seq(Int)
    BY <1>2, TracerouteAssumption, SeqMonotonic
  <1>5. d.hopStart \in Nat /\ d.hopLimit \in Nat
    BY TracerouteAssumption DEF Discoveries
  <1>6. Len(d.snr) <= Len(d.route)
    BY DEF Discoveries
  <1>7. d.to \in {Bridge, Virtual, Stranger} /\ d.via \in {NoNode, Gateway, Stranger}
    BY DEF Discoveries
  <1>. QED  BY <1>1, <1>3, <1>4, <1>5, <1>6, <1>7

\* insertUnknownHops ties the lists when the packet says how far it came.
LEMMA InsertTied ==
    ASSUME NEW d \in Discoveries, ~(d.hopStart = 0 \/ d.hopLimit > d.hopStart)
    PROVE  Tied(d, insertUnknownHops([route |-> d.route, snr |-> d.snr], d))
  <1>. DEFINE n == d.hopStart - d.hopLimit
              route == Pad(d.route, n, BroadcastNodeID)
              snr == Pad(d.snr, Len(route), MinInt8)
              l == [route |-> route, snr |-> snr]
  <1>1. insertUnknownHops([route |-> d.route, snr |-> d.snr], d) = l
    BY DEF insertUnknownHops
  <1>2. n \in Int /\ MinInt8 \in Int /\ BroadcastNodeID \in Node
    BY DiscoveryFacts DEF MinInt8, Node
  <1>. HIDE DEF n
  <1>3. /\ route \in Seq(Node) /\ Len(route) = IF n > Len(d.route) THEN n ELSE Len(d.route)
        /\ \A i \in 1 .. Len(d.route) : route[i] = d.route[i]
        /\ \A i \in (Len(d.route) + 1) .. Len(route) : route[i] = BroadcastNodeID
    BY <1>2, DiscoveryFacts, PadFacts DEF Padded
  <1>. HIDE DEF route
  <1>4. Len(route) \in Nat /\ Len(d.route) <= Len(route) /\ Len(d.snr) <= Len(route)
    BY <1>2, <1>3, DiscoveryFacts
  <1>5. /\ snr \in Seq(Int) /\ Len(snr) = IF Len(route) > Len(d.snr) THEN Len(route) ELSE Len(d.snr)
        /\ \A i \in 1 .. Len(d.snr) : snr[i] = d.snr[i]
        /\ \A i \in (Len(d.snr) + 1) .. Len(snr) : snr[i] = MinInt8
    <2>1. PICK s \in Seq(Int) : s = d.snr
      BY DiscoveryFacts
    <2>2. PICK m \in Int : m = Len(route)
      BY <1>4
    <2>3. Padded(Pad(s, m, MinInt8), Int, s, m, MinInt8)
      BY <1>2, PadFacts, Zenon
    <2>4. snr = Pad(s, m, MinInt8)
      BY <2>1, <2>2
    <2>. QED  BY <2>1, <2>2, <2>3, <2>4 DEF Padded
  <1>. HIDE DEF snr
  <1>6. Len(snr) = Len(route)
    BY <1>4, <1>5, DiscoveryFacts
  <1>7. l.route = route /\ l.snr = snr
    OBVIOUS
  <1>. HIDE DEF l
  <1>8. ASSUME NEW i \in (Len(d.snr) + 1) .. Len(route)
        PROVE  snr[i] = Called(d, l, i)
    <2>1. i <= Len(d.route) \/ route[i] = BroadcastNodeID
      BY <1>3, <1>4, DiscoveryFacts
    <2>. QED  BY <1>5, <1>6, <1>7, <2>1 DEF Called
  <1>9. Tied(d, l)
    BY <1>3, <1>4, <1>5, <1>6, <1>7, <1>8 DEF Tied
  <1>. QED  BY <1>1, <1>9

\* A node that is added is in the list; the list stays one.
LEMMA AddedThere ==
    ASSUME NEW l, NEW n \in Node, NEW snr, l.route \in Seq(Node)
    PROVE  /\ addNodeToRouteIfMissing(l, n, snr).route \in Seq(Node)
           /\ Contains(addNodeToRouteIfMissing(l, n, snr).route, n)
  <1>1. CASE Contains(l.route, n)
    BY <1>1 DEF addNodeToRouteIfMissing
  <1>2. CASE ~Contains(l.route, n)
    <2>1. addNodeToRouteIfMissing(l, n, snr).route = Append(l.route, n)
      BY <1>2 DEF addNodeToRouteIfMissing
    <2>2. /\ Append(l.route, n) \in Seq(Node) /\ Len(Append(l.route, n)) = Len(l.route) + 1
          /\ Append(l.route, n)[Len(l.route) + 1] = n
      BY AppendProperties
    <2>3. Contains(Append(l.route, n), n)
      BY <2>2 DEF Contains
    <2>. QED  BY <2>1, <2>2, <2>3
  <1>. QED  BY <1>1, <1>2

\* Adding the gateway with what it measured, or another node with 0, keeps a list tied.
LEMMA AddTied ==
    ASSUME NEW d \in Discoveries, NEW l, Tied(d, l), NEW n \in Node, NEW snr \in Int,
           n # BroadcastNodeID, snr = IF n = Gateway THEN RxSnr ELSE 0
    PROVE  Tied(d, addNodeToRouteIfMissing(l, n, snr))
  <1>1. CASE Contains(l.route, n)
    BY <1>1 DEF addNodeToRouteIfMissing
  <1>2. CASE ~Contains(l.route, n)
    <2>. DEFINE route == Append(l.route, n)
                values == Append(l.snr, snr)
                k == [route |-> route, snr |-> values]
    <2>1. addNodeToRouteIfMissing(l, n, snr) = k
      BY <1>2 DEF addNodeToRouteIfMissing
    <2>2. l.route \in Seq(Node) /\ l.snr \in Seq(Int) /\ Len(l.snr) = Len(l.route)
          /\ Len(l.route) \in Nat /\ Len(d.route) <= Len(l.route)
      BY DEF Tied
    <2>3. /\ route \in Seq(Node) /\ Len(route) = Len(l.route) + 1
          /\ \A i \in 1 .. Len(l.route) : route[i] = l.route[i]
          /\ route[Len(l.route) + 1] = n
      BY <2>2, AppendProperties
    <2>4. /\ values \in Seq(Int) /\ Len(values) = Len(l.route) + 1
          /\ \A i \in 1 .. Len(l.route) : values[i] = l.snr[i]
          /\ values[Len(l.route) + 1] = snr
      BY <2>2, AppendProperties
    <2>5. k.route = route /\ k.snr = values
      OBVIOUS
    <2>. HIDE DEF route, values, k
    <2>6. ASSUME NEW i \in (Len(d.snr) + 1) .. Len(route)
          PROVE  values[i] = Called(d, k, i)
      <3>1. CASE i = Len(l.route) + 1
        <4>1. ~(i <= Len(d.route))
          BY <2>2, <3>1, DiscoveryFacts
        <4>. QED  BY <2>3, <2>4, <2>5, <3>1, <4>1 DEF Called
      <3>2. CASE i # Len(l.route) + 1
        <4>1. i \in 1 .. Len(l.route) /\ i \in (Len(d.snr) + 1) .. Len(l.route)
          BY <2>2, <2>3, <3>2, DiscoveryFacts
        <4>2. l.snr[i] = Called(d, l, i)
          BY <4>1 DEF Tied
        <4>3. route[i] = l.route[i] /\ values[i] = l.snr[i]
          BY <2>3, <2>4, <4>1
        <4>. QED  BY <2>5, <4>2, <4>3 DEF Called
      <3>. QED  BY <3>1, <3>2
    <2>7. Len(d.route) <= Len(route) /\ \A i \in 1 .. Len(d.route) : route[i] = d.route[i]
      <3>1. \A i \in 1 .. Len(d.route) : i \in 1 .. Len(l.route) /\ l.route[i] = d.route[i]
        BY <2>2, DiscoveryFacts DEF Tied
      <3>. QED  BY <2>2, <2>3, <3>1, DiscoveryFacts
    <2>8. \A i \in 1 .. Len(d.snr) : values[i] = d.snr[i]
      <3>1. \A i \in 1 .. Len(d.snr) : i \in 1 .. Len(l.route)
        <4>1. Len(d.snr) <= Len(d.route) /\ Len(d.route) \in Nat /\ Len(d.snr) \in Nat
          BY DiscoveryFacts
        <4>2. PICK a \in Nat, b \in Nat, c \in Nat : a = Len(d.snr) /\ b = Len(d.route) /\ c = Len(l.route)
          BY <2>2, <4>1
        <4>3. a <= c
          BY <2>2, <4>1, <4>2
        <4>. QED  BY <4>2, <4>3
      <3>2. \A i \in 1 .. Len(d.snr) : l.snr[i] = d.snr[i]
        BY DEF Tied
      <3>. QED  BY <2>4, <3>1, <3>2
    <2>9. Tied(d, k)
      BY <2>3, <2>4, <2>5, <2>6, <2>7, <2>8 DEF Tied
    <2>. QED  BY <2>1, <2>9
  <1>. QED  BY <1>1, <1>2

\* The list a responder completes, before the value of the destination is added.
Listed(d) ==
    LET l == addGatewayToRoute(
                 insertUnknownHops([route |-> d.route, snr |-> d.snr], d), d)
    IN IF d.to # Bridge THEN addNodeToRouteIfMissing(l, Bridge, 0) ELSE l

\* It is tied to the packet's when the packet says how far it came.
LEMMA ListedTied ==
    ASSUME NEW d \in Discoveries, ~(d.hopStart = 0 \/ d.hopLimit > d.hopStart)
    PROVE  Tied(d, Listed(d))
  <1>1. PICK l0 : l0 = insertUnknownHops([route |-> d.route, snr |-> d.snr], d)
    OBVIOUS
  <1>2. Tied(d, l0)
    BY <1>1, InsertTied
  <1>3. PICK l : l = addGatewayToRoute(l0, d)
    OBVIOUS
  <1>4. Tied(d, l)
    <2>1. CASE d.via \in {NoNode, Stranger}
      BY <1>2, <1>3, <2>1 DEF addGatewayToRoute
    <2>2. CASE d.via \notin {NoNode, Stranger}
      <3>1. d.via = Gateway
        BY <2>2, DiscoveryFacts
      <3>2. l = addNodeToRouteIfMissing(l0, Gateway, RxSnr)
        BY <1>3, <2>2, <3>1 DEF addGatewayToRoute
      <3>3. Gateway \in Node /\ RxSnr \in Int /\ Gateway # BroadcastNodeID
        BY TracerouteAssumption DEF Node
      <3>. QED  BY <1>2, <3>2, <3>3, AddTied
    <2>. QED  BY <2>1, <2>2
  <1>5. Listed(d) = IF d.to # Bridge THEN addNodeToRouteIfMissing(l, Bridge, 0) ELSE l
    BY <1>1, <1>3 DEF Listed
  <1>6. Tied(d, addNodeToRouteIfMissing(l, Bridge, 0))
    <2>1. Bridge \in Node /\ Bridge # BroadcastNodeID /\ 0 = IF Bridge = Gateway THEN RxSnr ELSE 0
      BY TracerouteAssumption DEF Node
    <2>. QED  BY <1>4, <2>1, AddTied
  <1>. QED  BY <1>4, <1>5, <1>6

\* The completed list has a value for each hop, at its place, and one more.
LEMMA CompletedAligned ==
    ASSUME NEW d \in Discoveries, d.hopStart > 0, d.hopLimit <= d.hopStart
    PROVE  Aligned(d, Completed(d))
  <1>1. ~(d.hopStart = 0 \/ d.hopLimit > d.hopStart)
    BY DiscoveryFacts
  <1>2. PICK m : m = Listed(d)
    OBVIOUS
  <1>3. Tied(d, m)
    BY <1>1, <1>2, ListedTied
  <1>4. Completed(d) = [route |-> m.route, snr |-> Append(m.snr, 0)]
    BY <1>2 DEF Completed, Listed
  <1>5. PICK c : c = Completed(d)
    OBVIOUS
  <1>6. c.route = m.route /\ c.snr = Append(m.snr, 0)
    BY <1>4, <1>5
  <1>7. PICK n \in Nat : n = Len(m.route)
    BY <1>3 DEF Tied
  <1>8. m.route \in Seq(Node) /\ m.snr \in Seq(Int) /\ Len(m.snr) = n
    BY <1>3, <1>7 DEF Tied
  <1>9. /\ c.snr \in Seq(Int) /\ Len(c.snr) = n + 1 /\ \A i \in 1 .. n : c.snr[i] = m.snr[i]
    BY <1>6, <1>8, AppendProperties
  <1>10. PICK a \in Nat, b \in Nat : a = Len(d.snr) /\ b = Len(d.route) /\ a <= b /\ b <= n
    BY <1>3, <1>7, DiscoveryFacts DEF Tied
  <1>11. IsPrefix(d.route, c.route)
    <2>1. Len(d.route) <= Len(c.route) /\ \A i \in 1 .. Len(d.route) : c.route[i] = d.route[i]
      BY <1>3, <1>6 DEF Tied
    <2>2. d.route \in Seq(Node) /\ c.route \in Seq(Node)
      BY <1>6, <1>8, DiscoveryFacts
    <2>. QED  BY <2>1, <2>2, PrefixOf
  <1>12. IsPrefix(d.snr, c.snr)
    <2>1. \A i \in 1 .. a : m.snr[i] = d.snr[i]
      BY <1>3, <1>10 DEF Tied
    <2>2. \A i \in 1 .. a : i \in 1 .. n
      BY <1>10
    <2>3. \A i \in 1 .. a : c.snr[i] = d.snr[i]
      BY <1>9, <2>1, <2>2
    <2>4. PICK s \in Seq(Int), t \in Seq(Int) : s = d.snr /\ t = c.snr
      BY <1>9, DiscoveryFacts
    <2>5. Len(s) = a /\ Len(t) = n + 1 /\ a <= n + 1
      BY <1>9, <1>10, <2>4
    <2>6. Len(s) <= Len(t) /\ \A i \in 1 .. Len(s) : t[i] = s[i]
      BY <2>3, <2>4, <2>5
    <2>7. IsPrefix(s, t)
      BY <2>6, PrefixOf, Zenon
    <2>. QED  BY <2>4, <2>7
  <1>13. ASSUME NEW i \in (Len(d.snr) + 1) .. Len(c.route)
         PROVE  c.snr[i] = IF i <= Len(d.route) \/ c.route[i] = BroadcastNodeID THEN MinInt8
                           ELSE IF c.route[i] = Gateway THEN RxSnr ELSE 0
    <2>1. i \in 1 .. n
      BY <1>6, <1>7, <1>10
    <2>2. i \in (Len(d.snr) + 1) .. Len(m.route)
      BY <1>6
    <2>3. m.snr[i] = Called(d, m, i)
      BY <1>3, <2>2 DEF Tied
    <2>4. c.snr[i] = Called(d, m, i)
      BY <1>9, <2>1, <2>3
    <2>. QED  BY <1>6, <2>4 DEF Called
  <1>14. Len(c.snr) = Len(c.route) + 1
    BY <1>6, <1>7, <1>9
  <1>. QED  BY <1>5, <1>11, <1>12, <1>13, <1>14 DEF Aligned

\* An answer on behalf of another node names the bridge, whatever the packet says.
LEMMA BridgeNamed ==
    ASSUME NEW d \in Discoveries, d.to = Virtual
    PROVE  Contains(Completed(d).route, Bridge)
  <1>1. PICK l0 : l0 = insertUnknownHops([route |-> d.route, snr |-> d.snr], d)
    OBVIOUS
  <1>2. l0.route \in Seq(Node)
    <2>1. CASE d.hopStart = 0 \/ d.hopLimit > d.hopStart
      BY <1>1, <2>1, DiscoveryFacts DEF insertUnknownHops
    <2>2. CASE ~(d.hopStart = 0 \/ d.hopLimit > d.hopStart)
      BY <1>1, <2>2, InsertTied DEF Tied
    <2>. QED  BY <2>1, <2>2
  <1>3. PICK l : l = addGatewayToRoute(l0, d)
    OBVIOUS
  <1>4. l.route \in Seq(Node)
    <2>1. CASE d.via \in {NoNode, Stranger}
      BY <1>2, <1>3, <2>1 DEF addGatewayToRoute
    <2>2. CASE d.via \notin {NoNode, Stranger}
      <3>1. d.via = Gateway
        BY <2>2, DiscoveryFacts
      <3>2. l = addNodeToRouteIfMissing(l0, Gateway, RxSnr) /\ Gateway \in Node
        BY <1>3, <2>2, <3>1 DEF addGatewayToRoute, Node
      <3>. QED  BY <1>2, <3>2, AddedThere
    <2>. QED  BY <2>1, <2>2
  <1>5. Completed(d).route = addNodeToRouteIfMissing(l, Bridge, 0).route
    BY <1>1, <1>3, TracerouteAssumption DEF Completed
  <1>6. Bridge \in Node
    BY DEF Node
  <1>. QED  BY <1>4, <1>5, <1>6, AddedThere

\* The return list starts aligned, with the bridge on it when it answers for another node.
LEMMA ReturnStarts ==
    ASSUME NEW d \in Discoveries
    PROVE  /\ Len(StartOfReturn(d).snr) = Len(StartOfReturn(d).route)
           /\ d.to = Virtual => Contains(StartOfReturn(d).route, Bridge)
  <1>1. PICK l : l = [route |-> <<>>, snr |-> <<>>]
    OBVIOUS
  <1>2. l.route = <<>> /\ l.snr = <<>> /\ l.route \in Seq(Node) /\ Len(l.route) = 0
        /\ ~Contains(l.route, Bridge)
    BY <1>1 DEF Contains
  <1>3. CASE d.to = Bridge
    <2>1. StartOfReturn(d) = l
      BY <1>1, <1>3 DEF StartOfReturn
    <2>. QED  BY <1>2, <1>3, <2>1, TracerouteAssumption
  <1>4. CASE d.to # Bridge
    <2>1. StartOfReturn(d) = addNodeToRouteIfMissing(l, Bridge, 0)
      BY <1>1, <1>4 DEF StartOfReturn
    <2>2. StartOfReturn(d).route = Append(l.route, Bridge) /\ StartOfReturn(d).snr = Append(l.snr, 0)
      BY <1>2, <2>1 DEF addNodeToRouteIfMissing
    <2>3. Contains(StartOfReturn(d).route, Bridge)
      BY <1>2, <2>1, AddedThere DEF Node
    <2>4. Len(StartOfReturn(d).snr) = 1 /\ Len(StartOfReturn(d).route) = 1
      BY <1>2, <2>2
    <2>. QED  BY <2>3, <2>4
  <1>. QED  BY <1>3, <1>4

\* q is s, of length a, followed by t, of length b.
Joined(q, S, s, a, t, b) ==
    /\ q \in Seq(S) /\ Len(q) = a + b
    /\ \A i \in 1 .. a : q[i] = s[i]
    /\ \A i \in 1 .. b : q[a + i] = t[i]

\* A concatenation is.
LEMMA JoinFacts ==
    ASSUME NEW S, NEW s \in Seq(S), NEW t \in Seq(S), NEW a \in Nat, NEW b \in Nat,
           Len(s) = a, Len(t) = b
    PROVE  Joined(s \o t, S, s, a, t, b)
  <1>1. /\ s \o t \in Seq(S) /\ Len(s \o t) = a + b
        /\ \A i \in 1 .. a + b : (s \o t)[i] = IF i <= a THEN s[i] ELSE t[i - a]
    BY ConcatProperties
  <1>2. \A i \in 1 .. a : i \in 1 .. a + b /\ i <= a
    OBVIOUS
  <1>3. \A i \in 1 .. b : a + i \in 1 .. a + b /\ ~(a + i <= a) /\ a + i - a = i
    OBVIOUS
  <1>4. \A i \in 1 .. b : (s \o t)[a + i] = t[i]
    BY <1>1, <1>3
  <1>. QED  BY <1>1, <1>2, <1>4 DEF Joined

\* q is s, of length n, followed by x.
Appended(q, S, s, n, x) ==
    q \in Seq(S) /\ Len(q) = n + 1 /\ q[n + 1] = x /\ \A i \in 1 .. n : q[i] = s[i]

\* That is what Append returns.
LEMMA AppendFacts ==
    ASSUME NEW S, NEW s \in Seq(S), NEW x \in S, NEW n \in Nat, n = Len(s)
    PROVE  Appended(Append(s, x), S, s, n, x)
  BY AppendProperties DEF Appended

\* What the analysis of d shows, of any sequence of hops.
Shown(hs, d, h) ==
    LET n == Len(d.route)
    IN /\ hs \in Seq(Hop) /\ Len(hs) = (IF h > n + 1 THEN h ELSE n + 1) + 1
       /\ hs[1].node = Stranger /\ hs[Len(hs)].node = d.to
       /\ \A i \in 1 .. n : hs[i + 1].node = d.route[i]
       /\ \A i \in 1 .. Len(hs) : hs[i].unknown <=> i \in (n + 2) .. (Len(hs) - 1)

\* A hop that is known has its node and is not a placeholder; a placeholder is.
LEMMA HopFacts ==
    /\ \A m \in Relays \cup {Stranger, Bridge, Virtual}, x \in Int :
         KnownHop(m, x) \in Hop /\ KnownHop(m, x).node = m /\ ~KnownHop(m, x).unknown
    /\ UnknownHop \in Hop /\ UnknownHop.unknown
  <1>1. ASSUME NEW m \in Relays \cup {Stranger, Bridge, Virtual}, NEW x \in Int
        PROVE  KnownHop(m, x) \in Hop /\ KnownHop(m, x).node = m
    BY DEF KnownHop, Hop
  <1>2. ASSUME NEW m, NEW x PROVE ~KnownHop(m, x).unknown
    BY Zenon DEF KnownHop
  <1>3. UnknownHop \in Hop
    BY DEF UnknownHop, Hop, NoSnr
  <1>4. UnknownHop.unknown
    BY Zenon DEF UnknownHop
  <1>. QED  BY <1>1, <1>2, <1>3, <1>4

\* ParseRoute names the sender, the relays and the receiver, and no placeholder.
LEMMA ParseShown ==
    ASSUME NEW d \in Discoveries, NEW back \in Seq(Int)
    PROVE  Shown(ParseRoute(d.route, back, Stranger, d.to), d, 0)
  <1>1. PICK r \in Seq(Relays) : r = d.route
    BY DiscoveryFacts
  <1>2. PICK n \in Nat : n = Len(r)
    OBVIOUS
  <1>. DEFINE value(i) == IF i <= Len(back) THEN back[i] ELSE NoSnr
              mid == [i \in 1 .. n |-> KnownHop(r[i], value(i))]
              first == <<KnownHop(Stranger, NoSnr)>>
              final == <<KnownHop(d.to, NoSnr)>>
  <1>3. DOMAIN d.route = 1 .. n
    BY <1>1, <1>2
  <1>4. ParseRoute(d.route, back, Stranger, d.to) = first \o mid \o final
    BY <1>1, <1>3 DEF ParseRoute
  <1>5. \A i \in 1 .. n : value(i) \in Int /\ r[i] \in Relays
    <2>1. \A i \in 1 .. n : i <= Len(back) => back[i] \in Int
      OBVIOUS
    <2>. QED  BY <1>2, <2>1 DEF NoSnr
  <1>. HIDE DEF value
  <1>6. \A i \in 1 .. n : /\ KnownHop(r[i], value(i)) \in Hop
                          /\ KnownHop(r[i], value(i)).node = r[i]
                          /\ ~KnownHop(r[i], value(i)).unknown
    BY <1>5, HopFacts
  <1>7. /\ mid \in Seq(Hop) /\ Len(mid) = n
        /\ \A i \in 1 .. n : mid[i] = KnownHop(r[i], value(i))
    BY <1>6
  <1>8. /\ KnownHop(Stranger, NoSnr) \in Hop /\ KnownHop(Stranger, NoSnr).node = Stranger
        /\ ~KnownHop(Stranger, NoSnr).unknown
        /\ KnownHop(d.to, NoSnr) \in Hop /\ KnownHop(d.to, NoSnr).node = d.to
        /\ ~KnownHop(d.to, NoSnr).unknown
    <2>1. /\ NoSnr \in Int /\ Stranger \in Relays \cup {Stranger, Bridge, Virtual}
          /\ d.to \in Relays \cup {Stranger, Bridge, Virtual}
      BY DiscoveryFacts DEF NoSnr
    <2>. QED  BY <2>1, HopFacts
  <1>9. /\ first \in Seq(Hop) /\ Len(first) = 1 /\ first[1] = KnownHop(Stranger, NoSnr)
        /\ final \in Seq(Hop) /\ Len(final) = 1 /\ final[1] = KnownHop(d.to, NoSnr)
    BY <1>8
  <1>. HIDE DEF mid, first, final
  <1>10. PICK f : f = first \o mid
    OBVIOUS
  <1>11. /\ f \in Seq(Hop) /\ Len(f) = n + 1 /\ f[1] = first[1]
         /\ \A i \in 1 .. n : f[i + 1] = mid[i]
    <2>1. Joined(f, Hop, first, 1, mid, n)
      BY <1>7, <1>9, <1>10, JoinFacts
    <2>2. 1 + n = n + 1 /\ \A i \in 1 .. n : 1 + i = i + 1
      OBVIOUS
    <2>. QED  BY <2>1, <2>2 DEF Joined
  <1>12. PICK p : p = f \o final
    OBVIOUS
  <1>13. /\ p \in Seq(Hop) /\ Len(p) = n + 2 /\ p[n + 2] = final[1]
         /\ \A i \in 1 .. n + 1 : p[i] = f[i]
    <2>1. PICK a \in Nat : a = n + 1
      OBVIOUS
    <2>2. Joined(p, Hop, f, a, final, 1)
      BY <1>9, <1>11, <1>12, <2>1, JoinFacts
    <2>3. a + 1 = n + 2 /\ 1 \in 1 .. 1
      BY <2>1
    <2>. QED  BY <2>1, <2>2, <2>3 DEF Joined
  <1>14. p[1].node = Stranger /\ p[n + 2].node = d.to /\ \A i \in 1 .. n : p[i + 1].node = r[i]
    <2>1. 1 \in 1 .. n + 1 /\ \A i \in 1 .. n : i + 1 \in 1 .. n + 1
      OBVIOUS
    <2>. QED  BY <1>6, <1>7, <1>8, <1>9, <1>11, <1>13, <2>1
  <1>15. ASSUME NEW i \in 1 .. n + 2 PROVE ~p[i].unknown
    <2>1. CASE i = 1
      <3>1. p[i] = KnownHop(Stranger, NoSnr)
        BY <1>9, <1>11, <1>13, <2>1
      <3>. QED  BY <1>8, <3>1, Zenon
    <2>2. CASE i = n + 2
      <3>1. p[i] = KnownHop(d.to, NoSnr)
        BY <1>9, <1>13, <2>2
      <3>. QED  BY <1>8, <3>1, Zenon
    <2>3. CASE i # 1 /\ i # n + 2
      <3>1. PICK j \in 1 .. n : i = j + 1
        <4>1. i - 1 \in 1 .. n /\ i = (i - 1) + 1
          BY <2>3
        <4>. QED  BY <4>1
      <3>2. i \in 1 .. n + 1
        BY <2>3
      <3>3. p[i] = KnownHop(r[j], value(j))
        BY <1>7, <1>11, <1>13, <3>1, <3>2
      <3>. QED  BY <1>6, <3>3, Zenon
    <2>. QED  BY <2>1, <2>2, <2>3
  <1>16. (IF 0 > n + 1 THEN 0 ELSE n + 1) + 1 = n + 2 /\ \A i : i \notin (n + 2) .. (n + 2 - 1)
    OBVIOUS
  <1>17. p = ParseRoute(d.route, back, Stranger, d.to)
    BY <1>4, <1>10, <1>12
  <1>18. \A i \in 1 .. Len(p) : p[i].unknown <=> i \in (Len(d.route) + 2) .. (Len(p) - 1)
    <2>1. Len(p) = n + 2 /\ Len(d.route) = n
      BY <1>1, <1>2, <1>13
    <2>2. n + 2 - 1 = Len(p) - 1
      BY <2>1
    <2>3. ASSUME NEW i \in 1 .. Len(p)
          PROVE  ~p[i].unknown /\ i \notin (Len(d.route) + 2) .. (Len(p) - 1)
      <3>1. i \in 1 .. n + 2
        BY <2>1
      <3>2. ~p[i].unknown
        BY <1>15, <3>1, Zenon
      <3>3. i \notin (Len(d.route) + 2) .. (Len(p) - 1)
        BY <1>16, <2>1, <2>2
      <3>. QED  BY <3>2, <3>3, Zenon
    <2>. QED  BY <2>3, Zenon
  <1>19. Len(p) = (IF 0 > Len(d.route) + 1 THEN 0 ELSE Len(d.route) + 1) + 1
    BY <1>1, <1>2, <1>13, <1>16
  <1>20. p[1].node = Stranger /\ p[Len(p)].node = d.to /\ \A i \in 1 .. Len(d.route) : p[i + 1].node = d.route[i]
    BY <1>1, <1>2, <1>13, <1>14
  <1>21. Shown(p, d, 0)
    BY <1>13, <1>18, <1>19, <1>20, Zenon DEF Shown
  <1>. QED  BY <1>17, <1>21

\* InsertUnknownHops makes up the difference before the receiver and changes nothing else.
LEMMA InsertShown ==
    ASSUME NEW d \in Discoveries, NEW p, Shown(p, d, 0), NEW h \in Nat
    PROVE  Shown(InsertUnknownHops(p, h), d, h)
  <1>1. PICK n \in Nat : n = Len(d.route)
    BY DiscoveryFacts
  <1>2. /\ p \in Seq(Hop) /\ Len(p) = n + 2 /\ p[1].node = Stranger /\ p[n + 2].node = d.to
        /\ \A i \in 1 .. n : p[i + 1].node = d.route[i]
    BY <1>1 DEF Shown
  <1>3. \A i \in 1 .. n + 2 : ~p[i].unknown
    <2>1. \A i \in 1 .. Len(p) : p[i].unknown <=> i \in (Len(d.route) + 2) .. (Len(p) - 1)
      BY Zenon DEF Shown
    <2>2. \A i : i \notin (Len(d.route) + 2) .. (Len(p) - 1)
      BY <1>1, <1>2
    <2>. QED  BY <1>2, <2>1, <2>2, Zenon
  <1>4. CASE h <= n + 1
    <2>1. InsertUnknownHops(p, h) = p
      BY <1>2, <1>4 DEF InsertUnknownHops
    <2>2. (IF 0 > n + 1 THEN 0 ELSE n + 1) = (IF h > n + 1 THEN h ELSE n + 1)
      BY <1>4
    <2>3. Shown(p, d, h)
      BY <1>1, <2>2, Zenon DEF Shown
    <2>. QED  BY <2>1, <2>3
  <1>5. CASE ~(h <= n + 1)
    <2>1. PICK k \in Nat, a \in Nat : k = h - (n + 1) /\ a = n + 1
      BY <1>5
    <2>2. PICK w : w = Front(p)
      OBVIOUS
    <2>. DEFINE pad == [i \in 1 .. k |-> UnknownHop]
                end == <<p[n + 2]>>
    <2>3. InsertUnknownHops(p, h) = w \o pad \o end
      <3>1. ~(Len(p) < 2 \/ h <= Len(p) - 1) /\ h - (Len(p) - 1) = k
        BY <1>2, <1>5, <2>1
      <3>2. Last(p) = p[n + 2]
        BY <1>2 DEF Last
      <3>. QED  BY <2>2, <3>1, <3>2 DEF InsertUnknownHops
    <2>4. w \in Seq(Hop) /\ Len(w) = a /\ \A i \in 1 .. a : w[i] = p[i]
      <3>1. Len(p) - 1 = a
        BY <1>2, <2>1
      <3>2. \A i \in 1 .. a : p[i] \in Hop
        BY <1>2, <2>1
      <3>3. /\ SubSeq(p, 1, a) \in Seq(Hop) /\ Len(SubSeq(p, 1, a)) = IF 1 <= a THEN a - 1 + 1 ELSE 0
            /\ \A i \in 1 .. a - 1 + 1 : SubSeq(p, 1, a)[i] = p[1 + i - 1]
        BY <3>2, SubSeqProperties
      <3>4. a - 1 + 1 = a /\ (IF 1 <= a THEN a - 1 + 1 ELSE 0) = a /\ \A i \in 1 .. a : 1 + i - 1 = i
        BY <2>1
      <3>5. w = SubSeq(p, 1, a)
        BY <2>2, <3>1 DEF Front
      <3>. QED  BY <3>3, <3>4, <3>5
    <2>5. pad \in Seq(Hop) /\ Len(pad) = k /\ \A i \in 1 .. k : pad[i] = UnknownHop
      BY HopFacts
    <2>6. end \in Seq(Hop) /\ Len(end) = 1 /\ end[1] = p[n + 2]
      <3>1. p[n + 2] \in Hop
        BY <1>2
      <3>. QED  BY <3>1
    <2>. HIDE DEF pad, end
    <2>7. PICK f : f = w \o pad
      OBVIOUS
    <2>8. Joined(f, Hop, w, a, pad, k)
      BY <2>4, <2>5, <2>7, JoinFacts
    <2>9. PICK b \in Nat : b = a + k
      OBVIOUS
    <2>10. PICK q : q = f \o end
      OBVIOUS
    <2>11. Joined(q, Hop, f, b, end, 1)
      <3>1. f \in Seq(Hop) /\ Len(f) = b
        BY <2>8, <2>9 DEF Joined
      <3>. QED  BY <2>6, <2>10, <3>1, JoinFacts
    <2>12. b = h /\ a = n + 1 /\ b + 1 = h + 1
      BY <2>1, <2>9
    <2>13. q \in Seq(Hop) /\ Len(q) = h + 1 /\ q[h + 1] = p[n + 2]
      BY <2>6, <2>11, <2>12 DEF Joined
    <2>14. \A i \in 1 .. n + 1 : q[i] = p[i]
      <3>1. \A i \in 1 .. n + 1 : i \in 1 .. a /\ i \in 1 .. b
        BY <2>9, <2>12
      <3>. QED  BY <2>4, <2>8, <2>11, <3>1 DEF Joined
    <2>15. \A i \in (n + 2) .. h : q[i] = UnknownHop
      <3>1. ASSUME NEW i \in (n + 2) .. h PROVE q[i] = UnknownHop
        <4>1. i - a \in 1 .. k /\ a + (i - a) = i /\ i \in 1 .. b
          BY <2>1, <2>9, <2>12
        <4>2. f[a + (i - a)] = pad[i - a]
          BY <2>8, <4>1 DEF Joined
        <4>3. q[i] = f[i]
          BY <2>11, <4>1 DEF Joined
        <4>. QED  BY <2>5, <4>1, <4>2, <4>3
      <3>. QED  BY <3>1
    <2>16. ASSUME NEW i \in 1 .. h + 1 PROVE q[i].unknown <=> i \in (n + 2) .. h
      <3>1. CASE i \in (n + 2) .. h
        BY <2>15, <3>1, HopFacts, Zenon
      <3>2. CASE i \in 1 .. n + 1
        <4>1. i \notin (n + 2) .. h /\ i \in 1 .. n + 2
          BY <3>2
        <4>. QED  BY <1>3, <2>14, <3>2, <4>1, Zenon
      <3>3. CASE i = h + 1
        <4>1. i \notin (n + 2) .. h /\ n + 2 \in 1 .. n + 2
          BY <3>3
        <4>. QED  BY <1>3, <2>13, <3>3, <4>1, Zenon
      <3>4. i \in (n + 2) .. h \/ i \in 1 .. n + 1 \/ i = h + 1
        OBVIOUS
      <3>. QED  BY <3>1, <3>2, <3>3, <3>4
    <2>17. \A i \in 1 .. Len(q) : q[i].unknown <=> i \in (n + 2) .. (Len(q) - 1)
      <3>1. Len(q) = h + 1 /\ Len(q) - 1 = h
        BY <2>13
      <3>. QED  BY <2>16, <3>1, Zenon
    <2>18. q[1].node = Stranger /\ \A i \in 1 .. n : q[i + 1].node = d.route[i]
      <3>1. 1 \in 1 .. n + 1 /\ \A i \in 1 .. n : i + 1 \in 1 .. n + 1
        OBVIOUS
      <3>. QED  BY <1>2, <2>14, <3>1
    <2>19. Len(q) = (IF h > n + 1 THEN h ELSE n + 1) + 1 /\ q[Len(q)].node = d.to
      BY <1>2, <1>5, <2>13
    <2>20. Shown(q, d, h)
      BY <1>1, <2>13, <2>17, <2>18, <2>19, Zenon DEF Shown
    <2>. QED  BY <2>3, <2>7, <2>10, <2>20
  <1>. QED  BY <1>4, <1>5

\* What Shown says of the next hops is what Analysed asks of them.
LEMMA ShownAnalysed ==
    ASSUME NEW d \in Discoveries, Shown(hops', d, HopCount(d))
    PROVE  Analysed(d)'
  <1>1. PICK r \in Seq(Relays) : r = d.route
    BY DiscoveryFacts
  <1>2. PICK n \in Nat, h \in Nat : n = Len(r) /\ h = HopCount(d)
    BY DiscoveryFacts DEF HopCount
  <1>3. PICK legs \in Nat : legs = IF h > n + 1 THEN h ELSE n + 1
    OBVIOUS
  <1>4. /\ hops' \in Seq(Hop) /\ Len(hops') = legs + 1
        /\ hops'[1].node = Stranger /\ hops'[Len(hops')].node = d.to
        /\ \A i \in 1 .. n : hops'[i + 1].node = r[i]
    BY <1>1, <1>2, <1>3, Zenon DEF Shown
  <1>5. \A i \in 1 .. Len(hops') : hops'[i].unknown <=> i \in (n + 2) .. (Len(hops') - 1)
    BY <1>1, <1>2, Zenon DEF Shown
  <1>6. Len(hops') - 1 = legs /\ n + 1 + 1 = n + 2
    BY <1>4
  <1>7. \A i \in 1 .. Len(hops') : hops'[i].unknown <=> i \in (n + 1 + 1) .. legs
    BY <1>5, <1>6, Zenon
  <1>8. [i \in 1 .. n + 1 |-> hops'[i].node] = <<Stranger>> \o r
    <2>. DEFINE S == Relays \cup {Stranger}
                g == [i \in 1 .. n + 1 |-> hops'[i].node]
    <2>1. PICK one \in Seq(S), t \in Seq(S) : one = <<Stranger>> /\ t = r
      <3>1. r \in Seq(S)
        BY SeqMonotonic
      <3>2. <<Stranger>> \in Seq(S)
        OBVIOUS
      <3>. HIDE DEF S
      <3>. QED  BY <3>1, <3>2, Zenon
    <2>2. Len(one) = 1 /\ Len(t) = n /\ one[1] = Stranger
      BY <1>2, <2>1
    <2>3. PICK q : q = one \o t
      OBVIOUS
    <2>4. Joined(q, S, one, 1, t, n)
      BY <2>2, <2>3, JoinFacts
    <2>5. q \in Seq(S) /\ Len(q) = n + 1 /\ q[1] = Stranger /\ \A i \in 1 .. n : q[i + 1] = r[i]
      <3>1. 1 + n = n + 1 /\ 1 \in 1 .. 1 /\ \A i \in 1 .. n : 1 + i = i + 1
        OBVIOUS
      <3>. QED  BY <2>1, <2>2, <2>4, <3>1 DEF Joined
    <2>6. ASSUME NEW i \in 1 .. n + 1 PROVE hops'[i].node = q[i]
      <3>1. CASE i = 1
        BY <1>4, <2>5, <3>1
      <3>2. CASE i # 1
        <4>1. i - 1 \in 1 .. n /\ (i - 1) + 1 = i
          BY <3>2
        <4>. QED  BY <1>4, <2>5, <4>1
      <3>. QED  BY <3>1, <3>2
    <2>7. q = [i \in 1 .. n + 1 |-> q[i]]
      BY <2>5
    <2>8. g = q
      BY <2>6, <2>7
    <2>. QED  BY <2>1, <2>3, <2>8
  <1>9. /\ legs >= n + 1 /\ legs >= h
        /\ legs > n + 1 => legs - 1 <= h
    BY <1>3
  <1>. QED  BY <1>1, <1>2, <1>4, <1>6, <1>7, <1>8, <1>9, Zenon DEF Analysed, Last

\* A route shown to a user is analysed.
LEMMA AnalyseAligned ==
    ASSUME NEW d \in Discoveries, NEW back \in SeqsUpTo(Snrs, MaxRoute), AnalyseRoute(d, back)
    PROVE  RouteAligned'
  <1>1. /\ discovery' = d /\ reply' = Nothing
        /\ hops' = InsertUnknownHops(ParseRoute(d.route, back, Stranger, d.to), HopCount(d))
    BY DEF AnalyseRoute
  <1>2. back \in Seq(Int)
    <2>1. back \in Seq(Snrs)
      BY TracerouteAssumption DEF SeqsUpTo
    <2>. QED  BY <2>1, TracerouteAssumption, SeqMonotonic
  <1>3. HopCount(d) \in Nat
    BY DiscoveryFacts DEF HopCount
  <1>4. Shown(hops', d, HopCount(d))
    BY <1>1, <1>2, <1>3, ParseShown, InsertShown
  <1>5. Analysed(d)'
    BY <1>4, ShownAnalysed
  <1>. QED  BY <1>1, <1>5, Zenon DEF RouteAligned, Analysed

\* A handled packet leaves an aligned answer.
LEMMA HandleAligned ==
    ASSUME NEW d \in Discoveries, HandleTraceroute(d)
    PROVE  RouteAligned'
  <1>1. discovery' = d /\ hops' = <<>>
    BY DEF HandleTraceroute
  <1>2. CASE d.to = Stranger
    <2>1. reply' = Nothing
      BY <1>2 DEF HandleTraceroute
    <2>. QED  BY <1>1, <2>1, Zenon DEF RouteAligned, Analysed
  <1>3. CASE d.to # Stranger
    <2>1. reply' = [there |-> Completed(d), back |-> IF d.request THEN StartOfReturn(d) ELSE Nothing]
      BY <1>3 DEF HandleTraceroute
    <2>2. reply'.there = Completed(d) /\ (d.request => reply'.back = StartOfReturn(d))
      BY <2>1
    <2>3. d.hopStart > 0 /\ d.hopLimit <= d.hopStart => Aligned(d, reply'.there)
      BY <2>2, CompletedAligned
    <2>4. d.request => Len(reply'.back.snr) = Len(reply'.back.route)
      BY <2>2, ReturnStarts
    <2>5. d.to = Virtual => /\ Contains(reply'.there.route, Bridge)
                            /\ d.request => Contains(reply'.back.route, Bridge)
      BY <2>2, BridgeNamed, ReturnStarts
    <2>. QED  BY <1>1, <2>3, <2>4, <2>5, Zenon DEF RouteAligned, Analysed
  <1>. QED  BY <1>2, <1>3

(***************************************************************************)
(* Hops and signal values stay aligned in every RouteDiscovery the bridge  *)
(* answers or delivers whose packet says how far it came, and the route    *)
(* shown to a user names every hop once, for routes of any length.         *)
(***************************************************************************)
THEOREM RouteIsAligned == RouteSpec => []RouteAligned
  <1>1. RouteInit => RouteAligned
    BY DEF RouteInit, RouteAligned
  <1>2. RouteAligned /\ [RouteNext]_routeVars => RouteAligned'
    <2>1. ASSUME RouteNext PROVE RouteAligned'
      BY <2>1, HandleAligned, AnalyseAligned DEF RouteNext
    <2>2. ASSUME RouteAligned, UNCHANGED routeVars PROVE RouteAligned'
      <3>1. discovery' = discovery /\ hops' = hops /\ reply' = reply
        BY <2>2 DEF routeVars
      <3>. QED  BY <2>2, <3>1, Zenon DEF RouteAligned, Analysed
    <2>. QED  BY <2>1, <2>2
  <1>. QED  BY <1>1, <1>2, PTL DEF RouteSpec
-----------------------------------------------------------------------------
(***************************************************************************)
(* Names.  A prefix of a name ends with a whole rune exactly where the     *)
(* name goes on with a lead byte, so truncateToBytes, which looks at the   *)
(* prefix, stops at the boundary that NameWhole finds in the whole name.   *)
(***************************************************************************)

Byte == Widths \cup {0}

\* What a name's bytes are.
LEMMA NameFacts ==
    ASSUME NEW b \in Names
    PROVE  /\ b \in Seq(Byte) /\ Len(b) \in Nat
           /\ \A i \in 1 .. Len(b) : b[i] \in 0 .. 4
           /\ \A i \in 1 .. Len(b) : b[i] = 0 => \E j \in 1 .. (i - 1) : b[j] # 0 /\ i < j + b[j]
           /\ \A i \in 1 .. Len(b) : b[i] # 0 =>
                /\ i + b[i] - 1 <= Len(b)
                /\ \A j \in (i + 1) .. (i + b[i] - 1) : b[j] = 0
                /\ i + b[i] <= Len(b) => b[i + b[i]] # 0
  <1>1. b \in Seq(Byte)
    BY ValuesAssumption DEF Names, Byte
  <1>2. DOMAIN b = 1 .. Len(b) /\ Len(b) \in Nat
    BY <1>1
  <1>3. \A i \in 1 .. Len(b) : b[i] \in 0 .. 4
    BY <1>1 DEF Byte, Widths
  <1>4. Utf8(b)
    BY DEF Names
  <1>. QED  BY <1>1, <1>2, <1>3, <1>4 DEF Utf8

\* The encoding of a rune of width w.
LEMMA EncodeFacts ==
    ASSUME NEW w \in Widths
    PROVE  /\ w \in Nat /\ 1 <= w /\ w <= 4
           /\ Encode(w) \in Seq(Byte) /\ Len(Encode(w)) = w /\ Encode(w)[1] = w
           /\ \A i \in 1 .. w : i # 1 => Encode(w)[i] = 0
  <1>1. w \in Nat /\ 1 <= w /\ w <= 4
    BY DEF Widths
  <1>. QED  BY <1>1 DEF Encode, Byte, Widths

\* A rune of width w ends at place n of b.
RuneAt(b, n, w) == w <= n /\ b[n - w + 1] = w /\ \A i \in (n - w + 2) .. n : b[i] = 0

\* EndsWhole looks for one.
LEMMA EndsAt ==
    ASSUME NEW b \in Names, NEW n \in 1 .. Len(b)
    PROVE  EndsWhole(SubSeq(b, 1, n)) <=> \E w \in Widths : RuneAt(b, n, w)
  <1>1. b \in Seq(Byte) /\ Len(b) \in Nat /\ n \in Nat /\ 1 <= n /\ n <= Len(b)
    BY NameFacts
  <1>2. PICK p : p = SubSeq(b, 1, n)
    OBVIOUS
  <1>3. p \in Seq(Byte) /\ Len(p) = n /\ \A i \in 1 .. n : p[i] = b[i]
    <2>1. \A i \in 1 .. n : b[i] \in Byte
      BY <1>1
    <2>2. /\ p \in Seq(Byte) /\ Len(p) = IF 1 <= n THEN n - 1 + 1 ELSE 0
          /\ \A i \in 1 .. n - 1 + 1 : p[i] = b[1 + i - 1]
      BY <1>1, <1>2, <2>1, SubSeqProperties
    <2>3. n - 1 + 1 = n /\ \A i \in 1 .. n : 1 + i - 1 = i
      BY <1>1
    <2>. QED  BY <1>1, <2>2, <2>3
  <1>4. ASSUME NEW w \in Widths
        PROVE  w <= Len(p) /\ SubSeq(p, Len(p) - w + 1, Len(p)) = Encode(w) <=> RuneAt(b, n, w)
    <2>1. w \in Nat /\ 1 <= w
      BY EncodeFacts
    <2>2. CASE ~(w <= n)
      BY <1>3, <2>2 DEF RuneAt
    <2>3. CASE w <= n
      <3>1. PICK m \in Nat : m = n - w + 1 /\ 1 <= m
        BY <1>1, <2>1, <2>3
      <3>2. PICK q : q = SubSeq(p, m, n)
        OBVIOUS
      <3>3. \A i \in m .. n : p[i] \in Byte
        BY <1>1, <1>3, <3>1
      <3>4. /\ q \in Seq(Byte) /\ Len(q) = IF m <= n THEN n - m + 1 ELSE 0
            /\ \A i \in 1 .. n - m + 1 : q[i] = p[m + i - 1]
        BY <1>1, <3>2, <3>3, SubSeqProperties
      <3>5. n - m + 1 = w /\ m <= n
        BY <1>1, <2>1, <3>1
      <3>6. Len(q) = w /\ \A i \in 1 .. w : q[i] = b[m + i - 1]
        <4>1. \A i \in 1 .. w : m + i - 1 \in 1 .. n
          BY <1>1, <2>1, <3>1
        <4>. QED  BY <1>3, <3>4, <3>5, <4>1
      <3>7. q = Encode(w) <=> \A i \in 1 .. w : q[i] = Encode(w)[i]
        <4>1. Encode(w) \in Seq(Byte) /\ Len(Encode(w)) = w
          BY EncodeFacts
        <4>. QED  BY <3>4, <3>6, <4>1, SeqEqual
      <3>8. ASSUME RuneAt(b, n, w), NEW i \in 1 .. w PROVE q[i] = Encode(w)[i]
        <4>1. CASE i = 1
          <5>1. m + i - 1 = n - w + 1
            BY <3>1, <4>1
          <5>. QED  BY <3>6, <3>8, <4>1, <5>1, EncodeFacts DEF RuneAt
        <4>2. CASE i # 1
          <5>1. m + i - 1 \in (n - w + 2) .. n
            BY <1>1, <2>1, <3>1, <4>2
          <5>2. b[m + i - 1] = 0
            BY <3>8, <5>1 DEF RuneAt
          <5>. QED  BY <3>6, <4>2, <5>2, EncodeFacts
        <4>. QED  BY <4>1, <4>2
      <3>9. ASSUME \A i \in 1 .. w : q[i] = Encode(w)[i] PROVE RuneAt(b, n, w)
        <4>1. b[n - w + 1] = w
          <5>1. 1 \in 1 .. w /\ m + 1 - 1 = n - w + 1
            BY <2>1, <3>1
          <5>. QED  BY <3>6, <3>9, <5>1, EncodeFacts
        <4>2. ASSUME NEW i \in (n - w + 2) .. n PROVE b[i] = 0
          <5>1. i - m + 1 \in 1 .. w /\ i - m + 1 # 1 /\ m + (i - m + 1) - 1 = i
            BY <1>1, <2>1, <3>1
          <5>2. q[i - m + 1] = b[i]
            BY <3>6, <5>1
          <5>. QED  BY <3>9, <5>1, <5>2, EncodeFacts
        <4>. QED  BY <2>3, <4>1, <4>2 DEF RuneAt
      <3>10. SubSeq(p, Len(p) - w + 1, Len(p)) = q
        BY <1>3, <3>1, <3>2
      <3>. QED  BY <1>3, <2>3, <3>7, <3>8, <3>9, <3>10
    <2>. QED  BY <2>2, <2>3
  <1>. QED  BY <1>2, <1>4 DEF EndsWhole

\* In a name a rune ends where the name ends or a lead byte follows.
LEMMA RuneBoundary ==
    ASSUME NEW b \in Names, NEW n \in 1 .. Len(b)
    PROVE  EndsWhole(SubSeq(b, 1, n)) <=> n = Len(b) \/ b[n + 1] # 0
  <1>1. Len(b) \in Nat /\ n \in Nat /\ 1 <= n /\ n <= Len(b) /\ \A i \in 1 .. Len(b) : b[i] \in 0 .. 4
    BY NameFacts
  <1>2. ASSUME NEW w \in Widths, RuneAt(b, n, w), n # Len(b) PROVE b[n + 1] # 0
    <2>1. w \in Nat /\ 1 <= w /\ w <= n /\ b[n - w + 1] = w
      BY <1>2, EncodeFacts DEF RuneAt
    <2>2. PICK i \in 1 .. Len(b) : i = n - w + 1
      BY <1>1, <2>1
    <2>3. b[i] # 0 /\ i + b[i] = n + 1 /\ n + 1 <= Len(b)
      BY <1>1, <1>2, <2>1, <2>2
    <2>4. i + b[i] <= Len(b) => b[i + b[i]] # 0
      BY <2>3, NameFacts
    <2>. QED  BY <2>3, <2>4
  <1>3. ASSUME n = Len(b) \/ b[n + 1] # 0 PROVE \E w \in Widths : RuneAt(b, n, w)
    <2>1. PICK j \in 1 .. n : b[j] # 0 /\ n < j + b[j]
      <3>1. CASE b[n] = 0
        <4>1. PICK j \in 1 .. (n - 1) : b[j] # 0 /\ n < j + b[j]
          BY <3>1, NameFacts
        <4>2. j \in 1 .. n
          BY <1>1
        <4>. QED  BY <4>1, <4>2
      <3>2. CASE b[n] # 0
        <4>1. n \in 1 .. n /\ n < n + b[n]
          BY <1>1, <3>2
        <4>. QED  BY <3>2, <4>1
      <3>. QED  BY <3>1, <3>2
    <2>2. j \in 1 .. Len(b) /\ b[j] \in 0 .. 4
      BY <1>1
    <2>3. /\ j + b[j] - 1 <= Len(b)
          /\ \A i \in (j + 1) .. (j + b[j] - 1) : b[i] = 0
      BY <2>1, <2>2, NameFacts
    <2>4. PICK w \in Nat : w = b[j] /\ w \in Widths
      BY <2>1, <2>2 DEF Widths
    <2>5. n = j + w - 1
      <3>1. CASE n = Len(b)
        BY <1>1, <2>1, <2>3, <2>4, <3>1
      <3>2. CASE n # Len(b)
        <4>1. ~(n + 1 \in (j + 1) .. (j + b[j] - 1))
          BY <1>3, <2>3, <3>2
        <4>2. ~(n + 1 \in (j + 1) .. (j + w - 1)) /\ n < j + w /\ j \in Nat /\ j <= n
          BY <1>1, <2>1, <2>4, <4>1
        <4>. QED  BY <1>1, <4>2
      <3>. QED  BY <3>1, <3>2
    <2>6. RuneAt(b, n, w)
      <3>1. n - w + 1 = j /\ w <= n /\ n - w + 2 = j + 1 /\ j + w - 1 = n
        BY <1>1, <2>1, <2>5
      <3>. QED  BY <2>3, <2>4, <3>1 DEF RuneAt
    <2>. QED  BY <2>4, <2>6
  <1>. QED  BY <1>2, <1>3, EndsAt

\* The greatest element of a set that has one is its Max.
LEMMA MaxIs ==
    ASSUME NEW S, S \subseteq Nat, NEW m \in S, \A j \in S : j <= m
    PROVE  Max(S) = m
  <1>1. m \in S /\ \A j \in S : m >= j
    OBVIOUS
  <1>2. Max(S) \in S /\ \A j \in S : Max(S) >= j
    BY <1>1, Zenon DEF Max
  <1>3. PICK k : k = Max(S)
    OBVIOUS
  <1>4. k \in S /\ k >= m /\ k <= m /\ k \in Nat /\ m \in Nat
    BY <1>2, <1>3
  <1>5. k = m
    BY <1>4
  <1>. QED  BY <1>3, <1>5

\* A name is cut at the last boundary within the limit.
LEMMA NameCut ==
    ASSUME NEW b \in Names
    PROVE  NameWhole(b, truncateToBytes(b, MaxNameBytes))
  <1>. DEFINE fits == {n \in 0 .. Len(b) : n <= MaxNameBytes /\ (n = Len(b) \/ b[n + 1] # 0)}
              ends == {n \in 0 .. MaxNameBytes : n = 0 \/ EndsWhole(SubSeq(b, 1, n))}
  <1>1. b \in Seq(Byte) /\ Len(b) \in Nat /\ MaxNameBytes \in Nat
    BY NameFacts, ValuesAssumption
  <1>2. CASE Len(b) <= MaxNameBytes
    <2>1. Len(b) \in fits /\ fits \subseteq Nat /\ \A j \in fits : j <= Len(b)
      BY <1>1, <1>2
    <2>2. Max(fits) = Len(b)
      BY <2>1, MaxIs
    <2>3. SubSeq(b, 1, Len(b)) = b
      BY <1>1, SubSeqFull
    <2>4. truncateToBytes(b, MaxNameBytes) = b
      BY <1>2 DEF truncateToBytes
    <2>5. truncateToBytes(b, MaxNameBytes) = SubSeq(b, 1, Max(fits))
      BY <2>2, <2>3, <2>4, Zenon
    <2>. QED  BY <2>5, Zenon DEF NameWhole
  <1>3. CASE ~(Len(b) <= MaxNameBytes)
    <2>1. ASSUME NEW n \in 0 .. MaxNameBytes
          PROVE  n = 0 \/ EndsWhole(SubSeq(b, 1, n)) <=> n = Len(b) \/ b[n + 1] # 0
      <3>1. CASE n = 0
        <4>1. 1 \in 1 .. Len(b)
          BY <1>1, <1>3
        <4>2. b[1] # 0
          <5>1. \A j \in 1 .. (1 - 1) : FALSE
            OBVIOUS
          <5>. QED  BY <4>1, <5>1, NameFacts
        <4>. QED  BY <3>1, <4>2
      <3>2. CASE n # 0
        <4>1. n \in 1 .. Len(b)
          BY <1>1, <1>3, <3>2
        <4>. QED  BY <3>2, <4>1, RuneBoundary
      <3>. QED  BY <3>1, <3>2
    <2>2. fits = {n \in 0 .. MaxNameBytes : n = Len(b) \/ b[n + 1] # 0}
      <3>1. \A n : n \in 0 .. Len(b) /\ n <= MaxNameBytes <=> n \in 0 .. MaxNameBytes
        BY <1>1, <1>3
      <3>. QED  BY <3>1
    <2>3. ends = fits
      BY <2>1, <2>2
    <2>4. truncateToBytes(b, MaxNameBytes) = SubSeq(b, 1, Max(ends))
      BY <1>3 DEF truncateToBytes
    <2>. QED  BY <2>3, <2>4 DEF NameWhole
  <1>. QED  BY <1>2, <1>3
-----------------------------------------------------------------------------
(***************************************************************************)
(* Regions.  A key stands for one group, that of every region with it, and *)
(* a region in the map points at the group of its key.                     *)
(***************************************************************************)

Right(r, g) ==
    /\ g.presets = Cut(IF r.swappable THEN Superset ELSE Presets[r.profile])
    /\ g.default = r.default /\ g.licensed = Licensed[r.profile]
Group(r) == [presets |-> Cut(IF r.swappable THEN Superset ELSE Presets[r.profile]),
             default |-> r.default, licensed |-> Licensed[r.profile]]
Keys == {GroupKey(r) : r \in Regions}
Groups == {Group(r) : r \in Regions}
Points == [code : {r.code : r \in Regions}, group : Nat]

MapTyped(m) == m \in [keys : Seq(Keys), groups : Seq(Groups), regions : Seq(Points)]
Capped(m) ==
    /\ Len(m.keys) = Len(m.groups)
    /\ Len(m.groups) <= maxPresetGroups /\ Len(m.regions) <= maxRegionGroups
\* The group of a key is right for every region that has the key.
KeyStands(m) ==
    \A i \in 1 .. Len(m.keys) : \A r \in Regions : GroupKey(r) = m.keys[i] => Right(r, m.groups[i])
\* A region of the map is one of the table's and points at its key's group.
PointsRight(t, m) ==
    \A x \in 1 .. Len(m.regions) :
      /\ m.regions[x].group \in 1 .. Len(m.keys)
      /\ \E i \in 1 .. Len(t) :
           t[i].code = m.regions[x].code /\ m.keys[m.regions[x].group] = GroupKey(t[i])
\* A region is missing only when a cap was met.
Complete(t, m) ==
    Len(m.groups) < maxPresetGroups /\ Len(t) <= maxRegionGroups => Len(m.regions) = Len(t)
MapInv(t, m) ==
    t \in Seq(Regions) /\ MapTyped(m) /\ Capped(m) /\ KeyStands(m) /\ PointsRight(t, m) /\ Complete(t, m)

\* Regions that have the same key are served by the same group.
LEMMA SameKeySameGroup ==
    ASSUME NEW r \in Regions, NEW q \in Regions, GroupKey(q) = GroupKey(r)
    PROVE  Right(q, Group(r))
  <1>1. q.profile = r.profile /\ q.default = r.default
    BY DEF GroupKey
  <1>2. q.swappable = r.swappable
    BY <1>1, ValuesAssumption
  <1>. QED  BY <1>1, <1>2, Zenon DEF Right, Group

\* An empty map is right for no regions.
LEMMA EmptyMap == MapInv(<<>>, NoRegions)
  <1>1. NoRegions.keys = <<>> /\ NoRegions.groups = <<>> /\ NoRegions.regions = <<>>
    BY DEF NoRegions
  <1>2. MapTyped(NoRegions) /\ Capped(NoRegions) /\ Complete(<<>>, NoRegions)
    BY <1>1, ValuesAssumption DEF MapTyped, Capped, Complete, NoRegions
  <1>3. KeyStands(NoRegions) /\ PointsRight(<<>>, NoRegions)
    BY <1>1 DEF KeyStands, PointsRight
  <1>. QED  BY <1>2, <1>3 DEF MapInv

\* What the map promises follows.
LEMMA MapAdvertised ==
    ASSUME NEW t, NEW m, MapInv(t, m)
    PROVE  RegionsAdvertised(t, m)
  <1>1. t \in Seq(Regions) /\ MapTyped(m) /\ Capped(m) /\ KeyStands(m) /\ PointsRight(t, m) /\ Complete(t, m)
    BY DEF MapInv
  <1>2. ASSUME NEW x \in Range(m.regions)
        PROVE  \E r \in Range(t) : r.code = x.code /\ Right(r, m.groups[x.group])
    <2>1. PICK y \in 1 .. Len(m.regions) : x = m.regions[y]
      BY <1>1 DEF Range, MapTyped
    <2>2. PICK i \in 1 .. Len(t) : t[i].code = x.code /\ m.keys[x.group] = GroupKey(t[i])
      BY <1>1, <2>1 DEF PointsRight
    <2>3. x.group \in 1 .. Len(m.keys)
      BY <1>1, <2>1 DEF PointsRight
    <2>4. t[i] \in Regions /\ t[i] \in Range(t)
      BY <1>1 DEF Range
    <2>5. Right(t[i], m.groups[x.group])
      BY <1>1, <2>2, <2>3, <2>4 DEF KeyStands
    <2>. QED  BY <2>2, <2>4, <2>5
  <1>3. Len(m.groups) <= maxPresetGroups /\ Len(m.regions) <= maxRegionGroups
    BY <1>1 DEF Capped
  <1>. QED  BY <1>1, <1>2, <1>3 DEF RegionsAdvertised, Right, Complete

\* The next region, for a map that leaves it out: only when a cap is met.
LEMMA RegionLeftOut ==
    ASSUME NEW t, NEW m, MapInv(t, m), NEW r \in Regions,
           Len(m.regions) >= maxRegionGroups \/ Len(m.groups) >= maxPresetGroups
    PROVE  MapInv(Append(t, r), m)
  <1>1. t \in Seq(Regions) /\ MapTyped(m) /\ Capped(m) /\ KeyStands(m) /\ PointsRight(t, m) /\ Complete(t, m)
    BY DEF MapInv
  <1>2. PICK u : u = Append(t, r)
    OBVIOUS
  <1>3. PICK n \in Nat : n = Len(t)
    BY <1>1
  <1>4. u \in Seq(Regions) /\ Len(u) = n + 1 /\ \A i \in 1 .. n : u[i] = t[i]
    BY <1>1, <1>2, <1>3, AppendProperties
  <1>5. PointsRight(u, m)
    <2>1. \A i \in 1 .. n : i \in 1 .. n + 1
      OBVIOUS
    <2>2. ASSUME NEW x \in 1 .. Len(m.regions)
          PROVE  /\ m.regions[x].group \in 1 .. Len(m.keys)
                 /\ \E i \in 1 .. n + 1 :
                      u[i].code = m.regions[x].code /\ m.keys[m.regions[x].group] = GroupKey(u[i])
      <3>1. m.regions[x].group \in 1 .. Len(m.keys)
        BY <1>1 DEF PointsRight
      <3>2. PICK i \in 1 .. n :
              t[i].code = m.regions[x].code /\ m.keys[m.regions[x].group] = GroupKey(t[i])
        BY <1>1, <1>3 DEF PointsRight
      <3>3. u[i] = t[i] /\ i \in 1 .. n + 1
        BY <1>4, <2>1
      <3>. QED  BY <3>1, <3>2, <3>3, Zenon
    <2>. QED  BY <1>4, <2>2 DEF PointsRight
  <1>6. Complete(u, m)
    <2>1. PICK a \in Nat, b \in Nat : a = Len(m.groups) /\ b = Len(m.regions)
      BY <1>1 DEF MapTyped
    <2>2. a < maxPresetGroups /\ n <= maxRegionGroups => b = n
      BY <1>1, <1>3, <2>1 DEF Complete
    <2>3. ~(a < maxPresetGroups /\ n + 1 <= maxRegionGroups)
      BY <2>1, <2>2, ValuesAssumption
    <2>. QED  BY <1>4, <2>1, <2>3 DEF Complete
  <1>. QED  BY <1>1, <1>2, <1>4, <1>5, <1>6 DEF MapInv

\* The next region, pointed at group g of a map m that already stands for keys.
LEMMA RegionPointed ==
    ASSUME NEW t, NEW m, t \in Seq(Regions), MapTyped(m), Capped(m), KeyStands(m), PointsRight(t, m),
           Len(m.groups) <= maxPresetGroups,
           Len(m.groups) < maxPresetGroups /\ Len(t) <= maxRegionGroups => Len(m.regions) = Len(t),
           NEW r \in Regions, NEW g \in 1 .. Len(m.keys), m.keys[g] = GroupKey(r),
           Len(m.regions) < maxRegionGroups
    PROVE  MapInv(Append(t, r), [keys |-> m.keys, groups |-> m.groups,
                                 regions |-> Append(m.regions, [code |-> r.code, group |-> g])])
  <1>. DEFINE x == [code |-> r.code, group |-> g]
              m2 == [keys |-> m.keys, groups |-> m.groups, regions |-> Append(m.regions, x)]
  <1>1. PICK u : u = Append(t, r)
    OBVIOUS
  <1>2. PICK n \in Nat, k \in Nat, c \in Nat : n = Len(t) /\ k = Len(m.regions) /\ c = Len(m.keys)
    BY DEF MapTyped
  <1>3. u \in Seq(Regions) /\ Len(u) = n + 1 /\ u[n + 1] = r /\ \A i \in 1 .. n : u[i] = t[i]
    BY <1>1, <1>2, AppendProperties
  <1>4. x \in Points
    BY <1>2 DEF Points
  <1>5. x.code = r.code /\ x.group = g
    OBVIOUS
  <1>. HIDE DEF x
  <1>6. PICK rs : rs = Append(m.regions, x)
    OBVIOUS
  <1>7. rs \in Seq(Points) /\ Len(rs) = k + 1 /\ rs[k + 1] = x /\ \A i \in 1 .. k : rs[i] = m.regions[i]
    <2>1. m.regions \in Seq(Points)
      BY DEF MapTyped
    <2>. QED  BY <1>2, <1>4, <1>6, <2>1, AppendProperties
  <1>8. m2.keys = m.keys /\ m2.groups = m.groups /\ m2.regions = rs /\ MapTyped(m2)
    BY <1>6, <1>7 DEF MapTyped
  <1>. HIDE DEF m2
  <1>9. Capped(m2)
    BY <1>2, <1>7, <1>8, ValuesAssumption DEF Capped
  <1>10. KeyStands(m2)
    BY <1>8 DEF KeyStands
  <1>11. PointsRight(u, m2)
    <2>1. ASSUME NEW y \in 1 .. k + 1
          PROVE  /\ rs[y].group \in 1 .. c
                 /\ \E i \in 1 .. n + 1 : u[i].code = rs[y].code /\ m.keys[rs[y].group] = GroupKey(u[i])
      <3>1. CASE y = k + 1
        <4>1. n + 1 \in 1 .. n + 1
          OBVIOUS
        <4>. QED  BY <1>2, <1>3, <1>5, <1>7, <3>1, <4>1
      <3>2. CASE y # k + 1
        <4>1. y \in 1 .. k /\ \A i \in 1 .. n : i \in 1 .. n + 1
          BY <3>2
        <4>2. PICK z : z = m.regions[y] /\ z = rs[y]
          BY <1>7, <4>1
        <4>3. /\ z.group \in 1 .. c
              /\ \E i \in 1 .. n : t[i].code = z.code /\ m.keys[z.group] = GroupKey(t[i])
          BY <1>2, <4>1, <4>2, Zenon DEF PointsRight
        <4>4. PICK i \in 1 .. n : t[i].code = z.code /\ m.keys[z.group] = GroupKey(t[i])
          BY <4>3
        <4>5. u[i] = t[i] /\ i \in 1 .. n + 1
          BY <1>3, <4>1
        <4>. QED  BY <4>2, <4>3, <4>4, <4>5, Zenon
      <3>. QED  BY <3>1, <3>2
    <2>. QED  BY <1>2, <1>3, <1>7, <1>8, <2>1 DEF PointsRight
  <1>12. Complete(u, m2)
    BY <1>2, <1>3, <1>7, <1>8, ValuesAssumption DEF Complete
  <1>13. MapInv(u, m2)
    BY <1>3, <1>8, <1>9, <1>10, <1>11, <1>12 DEF MapInv
  <1>. QED  BY <1>1, <1>13 DEF m2, x

\* A round of the loop keeps the map right.
LEMMA RegionAdded ==
    ASSUME NEW t, NEW m, MapInv(t, m), NEW r \in Regions
    PROVE  MapInv(Append(t, r), AddRegion(m, r))
  <1>1. t \in Seq(Regions) /\ MapTyped(m) /\ Capped(m) /\ KeyStands(m) /\ PointsRight(t, m) /\ Complete(t, m)
    BY DEF MapInv
  <1>2. m.keys \in Seq(Keys) /\ m.groups \in Seq(Groups) /\ m.regions \in Seq(Points)
    BY <1>1 DEF MapTyped
  <1>3. PICK c \in Nat, k \in Nat, n \in Nat : c = Len(m.keys) /\ k = Len(m.regions) /\ n = Len(t) /\ c = Len(m.groups)
    BY <1>1, <1>2 DEF Capped
  <1>4. c <= maxPresetGroups /\ k <= maxRegionGroups /\ (c < maxPresetGroups /\ n <= maxRegionGroups => k = n)
    BY <1>1, <1>3 DEF Capped, Complete
  <1>5. CASE k >= maxRegionGroups
    <2>1. AddRegion(m, r) = m
      BY <1>3, <1>5 DEF AddRegion
    <2>. QED  BY <1>3, <1>5, <2>1, RegionLeftOut
  <1>6. CASE ~(k >= maxRegionGroups) /\ Contains(m.keys, GroupKey(r))
    <2>. DEFINE g == CHOOSE i \in DOMAIN m.keys : m.keys[i] = GroupKey(r)
    <2>1. \E i \in DOMAIN m.keys : m.keys[i] = GroupKey(r)
      BY <1>2, <1>6 DEF Contains
    <2>2. g \in DOMAIN m.keys /\ m.keys[g] = GroupKey(r)
      BY <2>1, Zenon
    <2>3. AddRegion(m, r) = [m EXCEPT !.regions = Append(@, [code |-> r.code, group |-> g])]
      BY <1>3, <1>6, Zenon DEF AddRegion
    <2>. HIDE DEF g
    <2>4. AddRegion(m, r) = [keys |-> m.keys, groups |-> m.groups,
                             regions |-> Append(m.regions, [code |-> r.code, group |-> g])]
      BY <1>1, <2>3 DEF MapTyped
    <2>5. g \in 1 .. Len(m.keys)
      BY <1>2, <2>2
    <2>6. Len(m.regions) < maxRegionGroups
      BY <1>3, <1>6, ValuesAssumption
    <2>. QED  BY <1>1, <1>3, <1>4, <2>2, <2>4, <2>5, <2>6, RegionPointed
  <1>7. CASE ~(k >= maxRegionGroups) /\ ~Contains(m.keys, GroupKey(r)) /\ c >= maxPresetGroups
    <2>1. AddRegion(m, r) = m
      BY <1>3, <1>7 DEF AddRegion
    <2>. QED  BY <1>3, <1>7, <2>1, RegionLeftOut
  <1>8. CASE ~(k >= maxRegionGroups) /\ ~Contains(m.keys, GroupKey(r)) /\ ~(c >= maxPresetGroups)
    <2>1. PICK ks, gs : ks = Append(m.keys, GroupKey(r)) /\ gs = Append(m.groups, Group(r))
      OBVIOUS
    <2>2. /\ ks \in Seq(Keys) /\ Len(ks) = c + 1 /\ ks[c + 1] = GroupKey(r)
          /\ \A i \in 1 .. c : ks[i] = m.keys[i]
      <3>1. GroupKey(r) \in Keys
        BY DEF Keys
      <3>2. PICK s \in Seq(Keys), x \in Keys : s = m.keys /\ x = GroupKey(r)
        BY <1>2, <3>1
      <3>3. Appended(Append(s, x), Keys, s, c, x)
        BY <1>3, <3>2, AppendFacts
      <3>. QED  BY <2>1, <3>2, <3>3 DEF Appended
    <2>3. /\ gs \in Seq(Groups) /\ Len(gs) = c + 1 /\ gs[c + 1] = Group(r)
          /\ \A i \in 1 .. c : gs[i] = m.groups[i]
      <3>1. Group(r) \in Groups
        BY DEF Groups
      <3>2. PICK s \in Seq(Groups), x \in Groups : s = m.groups /\ x = Group(r)
        BY <1>2, <3>1
      <3>3. Appended(Append(s, x), Groups, s, c, x)
        BY <1>3, <3>2, AppendFacts
      <3>. QED  BY <2>1, <3>2, <3>3 DEF Appended
    <2>4. PICK m1 : m1 = [keys |-> ks, groups |-> gs, regions |-> m.regions]
      OBVIOUS
    <2>5. m1.keys = ks /\ m1.groups = gs /\ m1.regions = m.regions /\ MapTyped(m1)
      BY <1>2, <2>2, <2>3, <2>4 DEF MapTyped
    <2>6. Capped(m1)
      BY <1>3, <1>4, <1>8, <2>2, <2>3, <2>5, ValuesAssumption DEF Capped
    <2>7. KeyStands(m1)
      <3>1. ASSUME NEW i \in 1 .. c + 1, NEW q \in Regions, GroupKey(q) = ks[i]
            PROVE  Right(q, gs[i])
        <4>1. CASE i = c + 1
          BY <2>2, <2>3, <3>1, <4>1, SameKeySameGroup
        <4>2. CASE i # c + 1
          <5>1. i \in 1 .. c
            BY <4>2
          <5>. QED  BY <1>1, <1>3, <2>2, <2>3, <3>1, <5>1 DEF KeyStands
        <4>. QED  BY <4>1, <4>2
      <3>. QED  BY <2>2, <2>5, <3>1 DEF KeyStands
    <2>8. PointsRight(t, m1)
      <3>1. ASSUME NEW x \in 1 .. k
            PROVE  /\ m.regions[x].group \in 1 .. c + 1
                   /\ \E i \in 1 .. n : t[i].code = m.regions[x].code /\ ks[m.regions[x].group] = GroupKey(t[i])
        <4>1. /\ m.regions[x].group \in 1 .. c
              /\ \E i \in 1 .. n : t[i].code = m.regions[x].code /\ m.keys[m.regions[x].group] = GroupKey(t[i])
          BY <1>1, <1>3 DEF PointsRight
        <4>2. ks[m.regions[x].group] = m.keys[m.regions[x].group]
          BY <2>2, <4>1
        <4>. QED  BY <4>1, <4>2
      <3>. QED  BY <1>3, <2>2, <2>5, <3>1 DEF PointsRight
    <2>9. c + 1 \in 1 .. Len(m1.keys) /\ m1.keys[c + 1] = GroupKey(r) /\ Len(m1.regions) < maxRegionGroups
      <3>1. k < maxRegionGroups /\ c + 1 \in 1 .. c + 1
        BY <1>8, ValuesAssumption
      <3>. QED  BY <1>3, <2>2, <2>5, <3>1, Zenon
    <2>10. /\ Len(m1.groups) <= maxPresetGroups
           /\ Len(m1.groups) < maxPresetGroups /\ Len(t) <= maxRegionGroups => Len(m1.regions) = Len(t)
      BY <1>3, <1>4, <1>8, <2>3, <2>5, ValuesAssumption
    <2>11. PICK g \in 1 .. Len(m1.keys) : g = c + 1
      BY <2>9
    <2>12. MapInv(Append(t, r), [keys |-> m1.keys, groups |-> m1.groups,
                                 regions |-> Append(m1.regions, [code |-> r.code, group |-> g])])
      BY <1>1, <2>5, <2>6, <2>7, <2>8, <2>9, <2>10, <2>11, RegionPointed
    <2>13. AddRegion(m, r) = [keys |-> ks, groups |-> gs,
                              regions |-> Append(m.regions, [code |-> r.code, group |-> c + 1])]
      BY <1>3, <1>8, <2>1, Zenon DEF AddRegion, Group
    <2>. QED  BY <2>5, <2>11, <2>12, <2>13
  <1>. QED  BY <1>5, <1>6, <1>7, <1>8
-----------------------------------------------------------------------------
(***************************************************************************)
(* Channels.  The indexes are compared with the order through classes of   *)
(* channels: those with a hash, those with a name.  Definitions of one     *)
(* channel are in the same classes, so a replacement keeps an index one.   *)
(***************************************************************************)

Rep(x, ch) == IF SameChannel(x, ch) THEN ch ELSE x
Class(C) ==
    C \subseteq ChannelDefs /\ \A x, y \in ChannelDefs : SameChannel(x, y) => (x \in C <=> y \in C)
Lists == Seq(ChannelDefs)

\* The elements of a list by their places.
LEMMA RangeOf ==
    ASSUME NEW s \in Lists
    PROVE  /\ Len(s) \in Nat /\ DOMAIN s = 1 .. Len(s)
           /\ \A i \in 1 .. Len(s) : s[i] \in ChannelDefs /\ s[i] \in Range(s)
           /\ \A x \in Range(s) : \E i \in 1 .. Len(s) : x = s[i]
  BY DEF Lists, Range

\* A replacement stands for the same channel.
LEMMA RepSame ==
    ASSUME NEW x \in ChannelDefs, NEW ch \in ChannelDefs
    PROVE  /\ Rep(x, ch) \in ChannelDefs /\ SameChannel(Rep(x, ch), x) /\ SameChannel(x, Rep(x, ch))
           /\ \A C : Class(C) => (Rep(x, ch) \in C <=> x \in C)
  BY DEF Rep, SameChannel, Class

\* replaceSame goes over the list place by place.
LEMMA ReplaceFacts ==
    ASSUME NEW s \in Lists, NEW ch \in ChannelDefs
    PROVE  /\ replaceSame(s, ch) \in Lists /\ Len(replaceSame(s, ch)) = Len(s)
           /\ \A i \in 1 .. Len(s) : replaceSame(s, ch)[i] = Rep(s[i], ch)
  <1>1. DOMAIN s = 1 .. Len(s) /\ Len(s) \in Nat /\ \A i \in 1 .. Len(s) : s[i] \in ChannelDefs
    BY RangeOf
  <1>2. replaceSame(s, ch) = [i \in 1 .. Len(s) |-> Rep(s[i], ch)]
    BY <1>1 DEF replaceSame, Rep
  <1>3. \A i \in 1 .. Len(s) : Rep(s[i], ch) \in ChannelDefs
    BY <1>1, RepSame
  <1>. QED  BY <1>1, <1>2, <1>3 DEF Lists

\* The second half of an index, over lengths.
Ordered(list, n, all, k) ==
    \A p, q \in 1 .. n : p < q => \E a, b \in 1 .. k : a < b /\ all[a] = list[p] /\ all[b] = list[q]

\* An index is the elements of the class, ordered.
LEMMA IndexIs ==
    ASSUME NEW list, NEW all, NEW C, NEW n, NEW k, DOMAIN list = 1 .. n, DOMAIN all = 1 .. k,
           Range(list) = Range(all) \cap C, Ordered(list, n, all, k)
    PROVE  Index(list, all, C)
  <1>1. ASSUME NEW p \in DOMAIN list, NEW q \in DOMAIN list, p < q
        PROVE  \E a, b \in DOMAIN all : a < b /\ all[a] = list[p] /\ all[b] = list[q]
    <2>1. p \in 1 .. n /\ q \in 1 .. n
      OBVIOUS
    <2>2. PICK a \in 1 .. k, b \in 1 .. k : a < b /\ all[a] = list[p] /\ all[b] = list[q]
      BY <1>1, <2>1 DEF Ordered
    <2>3. a \in DOMAIN all /\ b \in DOMAIN all
      OBVIOUS
    <2>. QED  BY <2>2, <2>3, Zenon
  <1>. QED  BY <1>1, Zenon DEF Index

\* An index and its order, replaced together, agree again.
LEMMA IndexReplaced ==
    ASSUME NEW list \in Lists, NEW all \in Lists, NEW C, Class(C), Index(list, all, C),
           NEW ch \in ChannelDefs
    PROVE  Index(replaceSame(list, ch), replaceSame(all, ch), C)
  <1>1. PICK l \in Lists, o \in Lists : l = replaceSame(list, ch) /\ o = replaceSame(all, ch)
    BY ReplaceFacts
  <1>2. PICK n \in Nat, k \in Nat : n = Len(list) /\ k = Len(all)
    BY RangeOf
  <1>3. Len(l) = n /\ Len(o) = k /\ DOMAIN l = 1 .. n /\ DOMAIN o = 1 .. k
        /\ DOMAIN list = 1 .. n /\ DOMAIN all = 1 .. k
    BY <1>1, <1>2, ReplaceFacts, RangeOf
  <1>4. \A i \in 1 .. n : list[i] \in ChannelDefs /\ l[i] = Rep(list[i], ch)
    BY <1>1, <1>2, ReplaceFacts, RangeOf
  <1>5. \A i \in 1 .. k : all[i] \in ChannelDefs /\ o[i] = Rep(all[i], ch)
    BY <1>1, <1>2, ReplaceFacts, RangeOf
  <1>6. Range(list) = Range(all) \cap C
    BY DEF Index
  <1>7. ASSUME NEW x \in Range(l) PROVE x \in Range(o) \cap C
    <2>1. PICK i \in 1 .. n : x = l[i]
      BY <1>3 DEF Range
    <2>2. list[i] \in Range(all) /\ list[i] \in C
      BY <1>3, <1>6 DEF Range
    <2>3. PICK j \in 1 .. k : list[i] = all[j]
      BY <1>3, <2>2 DEF Range
    <2>4. x = o[j] /\ o[j] \in Range(o)
      BY <1>3, <1>4, <1>5, <2>1, <2>3 DEF Range
    <2>5. x \in C
      BY <1>4, <2>1, <2>2, RepSame
    <2>. QED  BY <2>4, <2>5
  <1>8. ASSUME NEW x \in Range(o), x \in C PROVE x \in Range(l)
    <2>1. PICK j \in 1 .. k : x = o[j]
      BY <1>3 DEF Range
    <2>2. all[j] \in C /\ all[j] \in Range(all)
      BY <1>3, <1>5, <1>8, <2>1, RepSame DEF Range
    <2>3. PICK i \in 1 .. n : all[j] = list[i]
      BY <1>3, <1>6, <2>2 DEF Range
    <2>. QED  BY <1>3, <1>4, <1>5, <2>1, <2>3 DEF Range
  <1>9. ASSUME NEW p \in 1 .. n, NEW q \in 1 .. n, p < q
        PROVE  \E a, b \in 1 .. k : a < b /\ o[a] = l[p] /\ o[b] = l[q]
    <2>1. PICK a \in 1 .. k, b \in 1 .. k : a < b /\ all[a] = list[p] /\ all[b] = list[q]
      BY <1>3, <1>9 DEF Index
    <2>2. o[a] = l[p] /\ o[b] = l[q]
      BY <1>4, <1>5, <2>1
    <2>. QED  BY <2>1, <2>2
  <1>10. Range(l) = Range(o) \cap C
    BY <1>7, <1>8
  <1>11. Index(l, o, C)
    <2>1. Ordered(l, n, o, k)
      BY <1>9, Zenon DEF Ordered
    <2>. QED  BY <1>3, <1>10, <2>1, IndexIs
  <1>. QED  BY <1>1, <1>11

\* A list of a class that a channel is not in has nothing to replace.
LEMMA NothingReplaced ==
    ASSUME NEW list \in Lists, NEW C, Class(C), Range(list) \subseteq C,
           NEW ch \in ChannelDefs, ch \notin C
    PROVE  replaceSame(list, ch) = list
  <1>1. /\ replaceSame(list, ch) \in Lists /\ Len(replaceSame(list, ch)) = Len(list)
        /\ \A i \in 1 .. Len(list) : replaceSame(list, ch)[i] = Rep(list[i], ch)
    BY ReplaceFacts
  <1>2. ASSUME NEW i \in 1 .. Len(list) PROVE Rep(list[i], ch) = list[i]
    <2>1. list[i] \in ChannelDefs /\ list[i] \in C
      BY RangeOf
    <2>2. ~SameChannel(list[i], ch)
      BY <2>1 DEF Class
    <2>. QED  BY <2>2 DEF Rep
  <1>3. \A i \in 1 .. Len(list) : replaceSame(list, ch)[i] = list[i]
    BY <1>1, <1>2
  <1>. QED  BY <1>1, <1>3, SeqEqual DEF Lists

\* A channel appended to the order and, if it is of the class, to the index.
LEMMA IndexAppended ==
    ASSUME NEW list \in Lists, NEW all \in Lists, NEW C, Class(C), Index(list, all, C),
           NEW ch \in ChannelDefs
    PROVE  Index(IF ch \in C THEN Append(list, ch) ELSE list, Append(all, ch), C)
  <1>1. PICK n \in Nat, k \in Nat : n = Len(list) /\ k = Len(all)
    BY RangeOf
  <1>2. PICK o \in Lists : o = Append(all, ch)
    BY AppendProperties DEF Lists
  <1>3. Appended(o, ChannelDefs, all, k, ch)
    BY <1>1, <1>2, AppendFacts DEF Lists
  <1>4. Len(o) = k + 1 /\ o[k + 1] = ch /\ \A i \in 1 .. k : o[i] = all[i]
    BY <1>3 DEF Appended
  <1>5. DOMAIN o = 1 .. k + 1 /\ DOMAIN all = 1 .. k /\ DOMAIN list = 1 .. n
    BY <1>1, <1>4, RangeOf
  <1>6. Range(list) = Range(all) \cap C
    BY DEF Index
  <1>7. \A i \in 1 .. k : i \in 1 .. k + 1
    OBVIOUS
  <1>8. k + 1 \in 1 .. k + 1 /\ \A i \in 1 .. k + 1 : i = k + 1 \/ i \in 1 .. k
    OBVIOUS
  <1>9. Range(o) = Range(all) \cup {ch}
    <2>1. ASSUME NEW x \in Range(o) PROVE x \in Range(all) \cup {ch}
      BY <1>4, <1>5, <1>8 DEF Range
    <2>2. ASSUME NEW x \in Range(all) PROVE x \in Range(o)
      <3>1. PICK i \in 1 .. k : x = all[i]
        BY <1>5 DEF Range
      <3>2. x = o[i] /\ i \in DOMAIN o
        BY <1>4, <1>5, <1>7, <3>1
      <3>. QED  BY <3>2 DEF Range
    <2>3. ch \in Range(o)
      BY <1>4, <1>5, <1>8 DEF Range
    <2>. QED  BY <2>1, <2>2, <2>3
  <1>10. ASSUME NEW p \in 1 .. n, NEW q \in 1 .. n, p < q
         PROVE  \E a, b \in 1 .. k + 1 : a < b /\ o[a] = list[p] /\ o[b] = list[q]
    <2>1. PICK a \in 1 .. k, b \in 1 .. k : a < b /\ all[a] = list[p] /\ all[b] = list[q]
      BY <1>5, <1>10 DEF Index
    <2>2. o[a] = list[p] /\ o[b] = list[q] /\ a \in 1 .. k + 1 /\ b \in 1 .. k + 1
      BY <1>4, <1>7, <2>1
    <2>. QED  BY <2>1, <2>2
  <1>11. CASE ch \notin C
    <2>1. Range(list) = Range(o) \cap C
      BY <1>6, <1>9, <1>11
    <2>2. Index(list, o, C)
      <3>1. Ordered(list, n, o, k + 1)
        BY <1>10, Zenon DEF Ordered
      <3>. QED  BY <1>5, <2>1, <3>1, IndexIs
    <2>. QED  BY <1>2, <1>11, <2>2
  <1>12. CASE ch \in C
    <2>1. PICK l \in Lists : l = Append(list, ch)
      BY AppendProperties DEF Lists
    <2>2. Appended(l, ChannelDefs, list, n, ch)
      BY <1>1, <2>1, AppendFacts DEF Lists
    <2>3. Len(l) = n + 1 /\ l[n + 1] = ch /\ \A i \in 1 .. n : l[i] = list[i]
      BY <2>2 DEF Appended
    <2>4. DOMAIN l = 1 .. n + 1
      BY <2>3, RangeOf
    <2>5. n + 1 \in 1 .. n + 1 /\ (\A i \in 1 .. n + 1 : i = n + 1 \/ i \in 1 .. n)
          /\ \A i \in 1 .. n : i \in 1 .. n + 1
      OBVIOUS
    <2>6. Range(l) = Range(list) \cup {ch}
      <3>1. ASSUME NEW x \in Range(l) PROVE x \in Range(list) \cup {ch}
        BY <1>5, <2>3, <2>4, <2>5 DEF Range
      <3>2. ASSUME NEW x \in Range(list) PROVE x \in Range(l)
        <4>1. PICK i \in 1 .. n : x = list[i]
          BY <1>5 DEF Range
        <4>2. x = l[i] /\ i \in DOMAIN l
          BY <2>3, <2>4, <2>5, <4>1
        <4>. QED  BY <4>2 DEF Range
      <3>3. ch \in Range(l)
        BY <2>3, <2>4, <2>5 DEF Range
      <3>. QED  BY <3>1, <3>2, <3>3
    <2>7. Range(l) = Range(o) \cap C
      BY <1>6, <1>9, <1>12, <2>6
    <2>8. ASSUME NEW p \in 1 .. n + 1, NEW q \in 1 .. n + 1, p < q
          PROVE  \E a, b \in 1 .. k + 1 : a < b /\ o[a] = l[p] /\ o[b] = l[q]
      <3>1. p \in 1 .. n
        BY <2>8
      <3>2. CASE q \in 1 .. n
        <4>1. \E a, b \in 1 .. k + 1 : a < b /\ o[a] = list[p] /\ o[b] = list[q]
          BY <1>10, <2>8, <3>1, <3>2, Zenon
        <4>2. l[p] = list[p] /\ l[q] = list[q]
          BY <2>3, <3>1, <3>2
        <4>. QED  BY <4>1, <4>2
      <3>3. CASE q = n + 1
        <4>1. list[p] \in Range(all)
          BY <1>5, <1>6, <3>1 DEF Range
        <4>2. PICK a \in 1 .. k : all[a] = list[p]
          BY <1>5, <4>1 DEF Range
        <4>3. a < k + 1 /\ a \in 1 .. k + 1 /\ o[a] = l[p] /\ o[k + 1] = l[q]
          BY <1>4, <1>7, <2>3, <3>1, <3>3, <4>2
        <4>. QED  BY <1>8, <4>3
      <3>. QED  BY <2>5, <3>2, <3>3
    <2>9. Index(l, o, C)
      <3>1. Ordered(l, n + 1, o, k + 1)
        BY <2>8, Zenon DEF Ordered
      <3>. QED  BY <1>5, <2>4, <2>7, <3>1, IndexIs
    <2>. QED  BY <1>2, <1>12, <2>1, <2>9
  <1>. QED  BY <1>11, <1>12

\* Being definitions of one channel is an equivalence.
LEMMA SameEquiv ==
    \A x, y, z : /\ SameChannel(x, x) /\ (SameChannel(x, y) => SameChannel(y, x))
                 /\ (SameChannel(x, y) /\ SameChannel(y, z) => SameChannel(x, z))
  BY Zenon DEF SameChannel

\* The parts of LastAtFirst, over lengths.
Once(o, k) == \A p, q \in 1 .. k : SameChannel(o[p], o[q]) => p = q
Covered(c, n, o, k) == \A i \in 1 .. n : \E p \in 1 .. k : SameChannel(c[i], o[p])
Latest(c, n, x) ==
    \E i \in 1 .. n : x = c[i] /\ \A j \in (i + 1) .. n : ~SameChannel(c[j], c[i])
Before(c, n, x, y) ==
    \E i \in 1 .. n : SameChannel(c[i], x) /\ \A j \in 1 .. i : ~SameChannel(c[j], y)
Registered(c, n, o, k) ==
    /\ Once(o, k) /\ Covered(c, n, o, k)
    /\ \A p \in 1 .. k : Latest(c, n, o[p])
    /\ \A p, q \in 1 .. k : p < q => Before(c, n, o[p], o[q])

\* They are LastAtFirst.
LEMMA RegisteredIs ==
    ASSUME NEW c \in Lists, NEW o \in Lists
    PROVE  LastAtFirst(c, o) <=> Registered(c, Len(c), o, Len(o))
  <1>1. PICK n, k : n = Len(c) /\ k = Len(o)
    OBVIOUS
  <1>2. DOMAIN c = 1 .. n /\ DOMAIN o = 1 .. k
    BY <1>1, RangeOf
  <1>3. (\A p, q \in DOMAIN o : SameChannel(o[p], o[q]) => p = q) <=> Once(o, k)
    BY <1>2, Zenon DEF Once
  <1>4. (\A i \in DOMAIN c : \E p \in DOMAIN o : SameChannel(c[i], o[p])) <=> Covered(c, n, o, k)
    BY <1>2 DEF Covered
  <1>5. \A x : (\E i \in DOMAIN c : x = c[i] /\ \A j \in (i + 1) .. Len(c) : ~SameChannel(c[j], c[i]))
               <=> Latest(c, n, x)
    BY <1>1, <1>2 DEF Latest
  <1>6. \A x, y : (\E i \in DOMAIN c : SameChannel(c[i], x) /\ \A j \in 1 .. i : ~SameChannel(c[j], y))
                  <=> Before(c, n, x, y)
    BY <1>2 DEF Before
  <1>7. LastAtFirst(c, o) <=>
          /\ Once(o, k) /\ Covered(c, n, o, k)
          /\ \A p \in DOMAIN o : Latest(c, n, o[p])
          /\ \A p, q \in DOMAIN o : p < q => Before(c, n, o[p], o[q])
    BY <1>3, <1>4, <1>5, <1>6, Zenon DEF LastAtFirst
  <1>8. LastAtFirst(c, o) <=> Registered(c, n, o, k)
    BY <1>2, <1>7 DEF Registered
  <1>. QED  BY <1>1, <1>8

\* What was so of the channels registered before one more is still so.
LEMMA StillBefore ==
    ASSUME NEW c, NEW n \in Nat, NEW c2, \A i \in 1 .. n : c2[i] = c[i],
           NEW x, NEW y, NEW x2, NEW y2, SameChannel(x, x2), SameChannel(y2, y), Before(c, n, x, y)
    PROVE  Before(c2, n + 1, x2, y2)
  <1>1. PICK i \in 1 .. n : SameChannel(c[i], x) /\ \A j \in 1 .. i : ~SameChannel(c[j], y)
    BY DEF Before
  <1>2. i \in 1 .. n + 1 /\ \A j \in 1 .. i : j \in 1 .. n
    OBVIOUS
  <1>3. SameChannel(c2[i], x2)
    BY <1>1, SameEquiv
  <1>4. ASSUME NEW j \in 1 .. i PROVE ~SameChannel(c2[j], y2)
    <2>1. c2[j] = c[j] /\ ~SameChannel(c[j], y)
      BY <1>1, <1>2
    <2>. QED  BY <2>1, SameEquiv
  <1>. QED  BY <1>2, <1>3, <1>4 DEF Before

\* So is the latest definition of another channel.
LEMMA StillLatest ==
    ASSUME NEW c, NEW n \in Nat, NEW c2, \A i \in 1 .. n : c2[i] = c[i],
           NEW x, Latest(c, n, x), ~SameChannel(c2[n + 1], x)
    PROVE  Latest(c2, n + 1, x)
  <1>1. PICK i \in 1 .. n : x = c[i] /\ \A j \in (i + 1) .. n : ~SameChannel(c[j], c[i])
    BY DEF Latest
  <1>2. i \in 1 .. n + 1 /\ x = c2[i]
    BY <1>1
  <1>3. ASSUME NEW j \in (i + 1) .. (n + 1) PROVE ~SameChannel(c2[j], c2[i])
    <2>1. CASE j = n + 1
      BY <1>2, <2>1
    <2>2. CASE j # n + 1
      <3>1. j \in (i + 1) .. n /\ j \in 1 .. n
        BY <2>2
      <3>2. c2[j] = c[j] /\ c2[i] = c[i]
        BY <3>1
      <3>. QED  BY <1>1, <3>1, <3>2
    <2>. QED  BY <2>1, <2>2
  <1>. QED  BY <1>2, <1>3 DEF Latest

\* The channel registered now is the latest of its own.
LEMMA NowLatest ==
    ASSUME NEW n \in Nat, NEW c2
    PROVE  Latest(c2, n + 1, c2[n + 1])
  <1>1. n + 1 \in 1 .. n + 1 /\ \A j : j \notin (n + 1 + 1) .. (n + 1)
    OBVIOUS
  <1>. QED  BY <1>1 DEF Latest

\* A channel that is known is registered again.
LEMMA RegisteredAgain ==
    ASSUME NEW c, NEW n \in Nat, NEW o, NEW k \in Nat, Registered(c, n, o, k),
           NEW ch \in ChannelDefs, NEW c2, \A i \in 1 .. n : c2[i] = c[i], c2[n + 1] = ch,
           \A p \in 1 .. k : o[p] \in ChannelDefs,
           NEW o2, \A p \in 1 .. k : o2[p] = Rep(o[p], ch),
           \E p \in 1 .. k : SameChannel(o[p], ch)
    PROVE  Registered(c2, n + 1, o2, k)
  <1>1. \A p \in 1 .. k : SameChannel(o2[p], o[p]) /\ SameChannel(o[p], o2[p])
    BY RepSame
  <1>2. Once(o2, k)
    <2>1. ASSUME NEW p \in 1 .. k, NEW q \in 1 .. k, SameChannel(o2[p], o2[q])
          PROVE  p = q
      <3>1. SameChannel(o[p], o[q])
        BY <1>1, <2>1, SameEquiv
      <3>. QED  BY <3>1 DEF Registered, Once
    <2>. QED  BY <2>1 DEF Once
  <1>3. Covered(c2, n + 1, o2, k)
    <2>1. ASSUME NEW i \in 1 .. n + 1 PROVE \E p \in 1 .. k : SameChannel(c2[i], o2[p])
      <3>1. CASE i = n + 1
        <4>1. PICK p \in 1 .. k : SameChannel(o[p], ch)
          OBVIOUS
        <4>2. SameChannel(c2[i], o2[p])
          BY <1>1, <3>1, <4>1, SameEquiv
        <4>. QED  BY <4>2
      <3>2. CASE i # n + 1
        <4>1. i \in 1 .. n
          BY <3>2
        <4>2. PICK p \in 1 .. k : SameChannel(c[i], o[p])
          BY <4>1 DEF Registered, Covered
        <4>3. SameChannel(c2[i], o2[p])
          BY <1>1, <4>1, <4>2, SameEquiv
        <4>. QED  BY <4>3
      <3>. QED  BY <3>1, <3>2
    <2>. QED  BY <2>1 DEF Covered
  <1>4. ASSUME NEW p \in 1 .. k PROVE Latest(c2, n + 1, o2[p])
    <2>1. CASE SameChannel(o[p], ch)
      <3>1. o2[p] = c2[n + 1]
        BY <2>1 DEF Rep
      <3>. QED  BY <3>1, NowLatest
    <2>2. CASE ~SameChannel(o[p], ch)
      <3>1. o2[p] = o[p]
        BY <2>2 DEF Rep
      <3>2. Latest(c, n, o[p]) /\ ~SameChannel(c2[n + 1], o[p])
        BY <2>2, SameEquiv DEF Registered
      <3>. QED  BY <3>1, <3>2, StillLatest
    <2>. QED  BY <2>1, <2>2
  <1>5. ASSUME NEW p \in 1 .. k, NEW q \in 1 .. k, p < q PROVE Before(c2, n + 1, o2[p], o2[q])
    <2>1. Before(c, n, o[p], o[q])
      BY <1>5 DEF Registered
    <2>. QED  BY <1>1, <2>1, StillBefore
  <1>. QED  BY <1>2, <1>3, <1>4, <1>5 DEF Registered

\* A channel that is not known is appended.
LEMMA RegisteredFirst ==
    ASSUME NEW c, NEW n \in Nat, NEW o, NEW k \in Nat, Registered(c, n, o, k),
           NEW ch \in ChannelDefs, NEW c2, \A i \in 1 .. n : c2[i] = c[i], c2[n + 1] = ch,
           NEW o2, \A p \in 1 .. k : o2[p] = o[p], o2[k + 1] = ch,
           \A p \in 1 .. k : ~SameChannel(o[p], ch)
    PROVE  Registered(c2, n + 1, o2, k + 1)
  <1>1. k + 1 \in 1 .. k + 1 /\ (\A p \in 1 .. k : p \in 1 .. k + 1)
        /\ \A p \in 1 .. k + 1 : p = k + 1 \/ p \in 1 .. k
    OBVIOUS
  <1>2. Once(o2, k + 1)
    <2>1. ASSUME NEW p \in 1 .. k + 1, NEW q \in 1 .. k + 1, SameChannel(o2[p], o2[q])
          PROVE  p = q
      <3>1. CASE p \in 1 .. k /\ q \in 1 .. k
        BY <2>1, <3>1 DEF Registered, Once
      <3>2. CASE p = k + 1 /\ q \in 1 .. k
        BY <2>1, <3>2, SameEquiv
      <3>3. CASE p \in 1 .. k /\ q = k + 1
        BY <2>1, <3>3
      <3>. QED  BY <1>1, <3>1, <3>2, <3>3
    <2>. QED  BY <2>1 DEF Once
  <1>3. Covered(c2, n + 1, o2, k + 1)
    <2>1. ASSUME NEW i \in 1 .. n + 1 PROVE \E p \in 1 .. k + 1 : SameChannel(c2[i], o2[p])
      <3>1. CASE i = n + 1
        BY <1>1, <3>1, SameEquiv
      <3>2. CASE i # n + 1
        <4>1. i \in 1 .. n
          BY <3>2
        <4>2. PICK p \in 1 .. k : SameChannel(c[i], o[p])
          BY <4>1 DEF Registered, Covered
        <4>. QED  BY <1>1, <4>1, <4>2
      <3>. QED  BY <3>1, <3>2
    <2>. QED  BY <2>1 DEF Covered
  <1>4. ASSUME NEW p \in 1 .. k + 1 PROVE Latest(c2, n + 1, o2[p])
    <2>1. CASE p = k + 1
      <3>1. o2[p] = c2[n + 1]
        BY <2>1
      <3>. QED  BY <3>1, NowLatest
    <2>2. CASE p \in 1 .. k
      <3>1. o2[p] = o[p]
        BY <2>2
      <3>2. Latest(c, n, o[p]) /\ ~SameChannel(c2[n + 1], o[p])
        BY <2>2, SameEquiv DEF Registered
      <3>. QED  BY <3>1, <3>2, StillLatest
    <2>. QED  BY <1>1, <2>1, <2>2
  <1>5. ASSUME NEW p \in 1 .. k + 1, NEW q \in 1 .. k + 1, p < q PROVE Before(c2, n + 1, o2[p], o2[q])
    <2>1. p \in 1 .. k /\ o2[p] = o[p]
      BY <1>5
    <2>2. CASE q \in 1 .. k
      <3>1. Before(c, n, o[p], o[q]) /\ o2[q] = o[q]
        BY <1>5, <2>1, <2>2 DEF Registered
      <3>. QED  BY <2>1, <3>1, SameEquiv, StillBefore
    <2>3. CASE q = k + 1
      <3>1. PICK i \in 1 .. n : o[p] = c[i]
        BY <2>1 DEF Registered, Latest
      <3>2. i \in 1 .. n + 1 /\ \A j \in 1 .. i : j \in 1 .. n
        OBVIOUS
      <3>3. SameChannel(c2[i], o2[p])
        BY <2>1, <3>1, SameEquiv
      <3>4. ASSUME NEW j \in 1 .. i PROVE ~SameChannel(c2[j], o2[q])
        <4>1. PICK m \in 1 .. k : SameChannel(c[j], o[m])
          BY <3>2 DEF Registered, Covered
        <4>2. c2[j] = c[j] /\ o2[q] = ch
          BY <2>3, <3>2
        <4>. QED  BY <4>1, <4>2, SameEquiv
      <3>. QED  BY <3>2, <3>3, <3>4 DEF Before
    <2>. QED  BY <1>1, <2>2, <2>3
  <1>. QED  BY <1>2, <1>3, <1>4, <1>5 DEF Registered

HashClass(h) == {ch \in ChannelDefs : ChannelHash(ch) = h}
NameClass(n) == {ch \in ChannelDefs : ch.name = n}
RegistryTyped(r) ==
    r \in [order : Lists, byHash : [Hashes -> Lists], byName : [ChannelNames -> Lists]]
HashIndexed(r) == \A h \in Hashes : Index(r.byHash[h], r.order, HashClass(h))
NameIndexed(r) == \A n \in ChannelNames : Index(r.byName[n], r.order, NameClass(n))
RegistryInv(cs, r) ==
    cs \in Lists /\ RegistryTyped(r) /\ LastAtFirst(cs, r.order) /\ HashIndexed(r) /\ NameIndexed(r)

\* Channels with one hash are a class, and so are channels with one name.
LEMMA Classes ==
    /\ \A h : Class(HashClass(h))
    /\ \A n : Class(NameClass(n))
    /\ \A ch \in ChannelDefs : ChannelHash(ch) \in Hashes /\ ch.name \in ChannelNames
  <1>1. ASSUME NEW h PROVE Class(HashClass(h))
    <2>1. ASSUME NEW x, NEW y, SameChannel(x, y) PROVE ChannelHash(x) = ChannelHash(y)
      BY <2>1, Zenon DEF SameChannel, ChannelHash
    <2>. QED  BY <2>1 DEF Class, HashClass
  <1>2. ASSUME NEW n PROVE Class(NameClass(n))
    BY DEF Class, NameClass, SameChannel
  <1>3. \A ch \in ChannelDefs : ChannelHash(ch) \in Hashes
    BY DEF Hashes
  <1>4. \A ch \in ChannelDefs : ch.name \in ChannelNames
    BY DEF ChannelDefs
  <1>. QED  BY <1>1, <1>2, <1>3, <1>4

\* An empty registry is right for no channels.
LEMMA EmptyRegistry == RegistryInv(<<>>, NewChannelRegistry)
  <1>1. PICK r : r = NewChannelRegistry
    OBVIOUS
  <1>2. <<>> \in Lists
    BY DEF Lists
  <1>3. r.order = <<>> /\ (\A h \in Hashes : r.byHash[h] = <<>>)
        /\ (\A n \in ChannelNames : r.byName[n] = <<>>) /\ RegistryTyped(r)
    BY <1>1, <1>2 DEF NewChannelRegistry, RegistryTyped
  <1>4. \A C : Index(<<>>, <<>>, C)
    BY DEF Index, Range
  <1>5. LastAtFirst(<<>>, <<>>)
    BY DEF LastAtFirst
  <1>6. HashIndexed(r)
    BY <1>3, <1>4 DEF HashIndexed
  <1>7. NameIndexed(r)
    BY <1>3, <1>4 DEF NameIndexed
  <1>8. RegistryInv(<<>>, r)
    BY <1>2, <1>3, <1>5, <1>6, <1>7 DEF RegistryInv
  <1>. QED  BY <1>1, <1>8

\* Register keeps the order and both indexes.
LEMMA RegisterKeeps ==
    ASSUME NEW cs, NEW r, RegistryInv(cs, r), NEW ch \in ChannelDefs
    PROVE  RegistryInv(Append(cs, ch), Register(r, ch))
  <1>1. cs \in Lists /\ RegistryTyped(r) /\ LastAtFirst(cs, r.order) /\ HashIndexed(r) /\ NameIndexed(r)
    BY DEF RegistryInv
  <1>2. PICK o \in Lists, H \in [Hashes -> Lists], N \in [ChannelNames -> Lists] :
          o = r.order /\ H = r.byHash /\ N = r.byName
    BY <1>1 DEF RegistryTyped
  <1>3. PICK n \in Nat, k \in Nat : n = Len(cs) /\ k = Len(o)
    BY <1>1, RangeOf
  <1>4. PICK h0 \in Hashes, n0 \in ChannelNames : h0 = ChannelHash(ch) /\ n0 = ch.name
    BY Classes
  <1>5. PICK c2 \in Lists : c2 = Append(cs, ch)
    BY <1>1, AppendProperties DEF Lists
  <1>6. Len(c2) = n + 1 /\ c2[n + 1] = ch /\ \A i \in 1 .. n : c2[i] = cs[i]
    <2>1. Appended(c2, ChannelDefs, cs, n, ch)
      BY <1>1, <1>3, <1>5, AppendFacts DEF Lists
    <2>. QED  BY <2>1 DEF Appended
  <1>7. Registered(cs, n, o, k)
    BY <1>1, <1>2, <1>3, RegisteredIs
  <1>8. \A p \in 1 .. k : o[p] \in ChannelDefs
    BY <1>3, RangeOf
  <1>9. \A h \in Hashes : Index(H[h], o, HashClass(h)) /\ H[h] \in Lists /\ (ch \in HashClass(h) <=> h = h0)
    <2>1. \A h \in Hashes : Index(H[h], o, HashClass(h))
      BY <1>1, <1>2 DEF HashIndexed
    <2>2. \A h \in Hashes : ch \in HashClass(h) <=> h = h0
      BY <1>4 DEF HashClass
    <2>. QED  BY <2>1, <2>2
  <1>10. \A m \in ChannelNames : Index(N[m], o, NameClass(m)) /\ N[m] \in Lists /\ (ch \in NameClass(m) <=> m = n0)
    <2>1. \A m \in ChannelNames : Index(N[m], o, NameClass(m))
      BY <1>1, <1>2 DEF NameIndexed
    <2>2. \A m \in ChannelNames : ch \in NameClass(m) <=> m = n0
      BY <1>4 DEF NameClass
    <2>. QED  BY <2>1, <2>2
  <1>11. CASE \E old \in Range(o) : SameChannel(old, ch)
    <2>1. PICK o2 \in Lists : o2 = replaceSame(o, ch)
      BY ReplaceFacts
    <2>2. PICK H2, N2 : /\ H2 = [H EXCEPT ![h0] = replaceSame(@, ch)]
                        /\ N2 = [N EXCEPT ![n0] = replaceSame(@, ch)]
      OBVIOUS
    <2>3. Register(r, ch) = [order |-> o2, byHash |-> H2, byName |-> N2]
      BY <1>2, <1>4, <1>11, <2>1, <2>2, Zenon DEF Register
    <2>4. Len(o2) = k /\ \A p \in 1 .. k : o2[p] = Rep(o[p], ch)
      BY <1>3, <2>1, ReplaceFacts
    <2>5. \E p \in 1 .. k : SameChannel(o[p], ch)
      BY <1>3, <1>11, RangeOf
    <2>6. Registered(c2, n + 1, o2, k)
      BY <1>6, <1>7, <1>8, <2>4, <2>5, RegisteredAgain
    <2>7. LastAtFirst(c2, o2)
      BY <1>6, <2>4, <2>6, RegisteredIs
    <2>8. \A h \in Hashes : H2[h] = replaceSame(H[h], ch) /\ H2[h] \in Lists
      <3>1. ASSUME NEW h \in Hashes PROVE H2[h] = replaceSame(H[h], ch)
        <4>1. CASE h = h0
          BY <2>2, <4>1
        <4>2. CASE h # h0
          <5>1. Range(H[h]) \subseteq HashClass(h) /\ ch \notin HashClass(h) /\ H[h] \in Lists
            BY <1>9, <4>2 DEF Index
          <5>2. replaceSame(H[h], ch) = H[h]
            BY <5>1, Classes, NothingReplaced
          <5>. QED  BY <2>2, <4>2, <5>2
        <4>. QED  BY <4>1, <4>2
      <3>. QED  BY <1>9, <3>1, ReplaceFacts
    <2>9. \A m \in ChannelNames : N2[m] = replaceSame(N[m], ch) /\ N2[m] \in Lists
      <3>1. ASSUME NEW m \in ChannelNames PROVE N2[m] = replaceSame(N[m], ch)
        <4>1. CASE m = n0
          BY <2>2, <4>1
        <4>2. CASE m # n0
          <5>1. Range(N[m]) \subseteq NameClass(m) /\ ch \notin NameClass(m) /\ N[m] \in Lists
            BY <1>10, <4>2 DEF Index
          <5>2. replaceSame(N[m], ch) = N[m]
            BY <5>1, Classes, NothingReplaced
          <5>. QED  BY <2>2, <4>2, <5>2
        <4>. QED  BY <4>1, <4>2
      <3>. QED  BY <1>10, <3>1, ReplaceFacts
    <2>10. \A h \in Hashes : Index(H2[h], o2, HashClass(h))
      BY <1>9, <2>1, <2>8, Classes, IndexReplaced
    <2>11. \A m \in ChannelNames : Index(N2[m], o2, NameClass(m))
      BY <1>10, <2>1, <2>9, Classes, IndexReplaced
    <2>12. H2 \in [Hashes -> Lists] /\ N2 \in [ChannelNames -> Lists]
      BY <2>2, <2>8, <2>9
    <2>13. PICK r2 : r2 = [order |-> o2, byHash |-> H2, byName |-> N2]
      OBVIOUS
    <2>14. r2.order = o2 /\ r2.byHash = H2 /\ r2.byName = N2 /\ RegistryTyped(r2)
      BY <2>12, <2>13 DEF RegistryTyped
    <2>15. RegistryInv(c2, r2)
      BY <2>7, <2>10, <2>11, <2>14 DEF RegistryInv, HashIndexed, NameIndexed
    <2>. QED  BY <1>5, <2>3, <2>13, <2>15
  <1>12. CASE ~ \E old \in Range(o) : SameChannel(old, ch)
    <2>1. PICK o2 \in Lists : o2 = Append(o, ch)
      BY AppendProperties DEF Lists
    <2>2. PICK H2, N2 : /\ H2 = [H EXCEPT ![h0] = Append(@, ch)]
                        /\ N2 = [N EXCEPT ![n0] = Append(@, ch)]
      OBVIOUS
    <2>3. Register(r, ch) = [order |-> o2, byHash |-> H2, byName |-> N2]
      BY <1>2, <1>4, <1>12, <2>1, <2>2, Zenon DEF Register
    <2>4. Len(o2) = k + 1 /\ o2[k + 1] = ch /\ \A p \in 1 .. k : o2[p] = o[p]
      <3>1. Appended(o2, ChannelDefs, o, k, ch)
        BY <1>3, <2>1, AppendFacts DEF Lists
      <3>. QED  BY <3>1 DEF Appended
    <2>5. \A p \in 1 .. k : ~SameChannel(o[p], ch)
      BY <1>3, <1>12, RangeOf
    <2>6. Registered(c2, n + 1, o2, k + 1)
      BY <1>6, <1>7, <2>4, <2>5, RegisteredFirst
    <2>7. LastAtFirst(c2, o2)
      BY <1>6, <2>4, <2>6, RegisteredIs
    <2>8. ASSUME NEW h \in Hashes
          PROVE  H2[h] = (IF ch \in HashClass(h) THEN Append(H[h], ch) ELSE H[h]) /\ H2[h] \in Lists
      <3>1. H2[h] = IF ch \in HashClass(h) THEN Append(H[h], ch) ELSE H[h]
        BY <1>9, <2>2
      <3>2. H[h] \in Lists /\ Append(H[h], ch) \in Lists
        BY <1>9, AppendProperties DEF Lists
      <3>. QED  BY <3>1, <3>2
    <2>9. ASSUME NEW m \in ChannelNames
          PROVE  N2[m] = (IF ch \in NameClass(m) THEN Append(N[m], ch) ELSE N[m]) /\ N2[m] \in Lists
      <3>1. N2[m] = IF ch \in NameClass(m) THEN Append(N[m], ch) ELSE N[m]
        BY <1>10, <2>2
      <3>2. N[m] \in Lists /\ Append(N[m], ch) \in Lists
        BY <1>10, AppendProperties DEF Lists
      <3>. QED  BY <3>1, <3>2
    <2>10. ASSUME NEW h \in Hashes PROVE Index(H2[h], o2, HashClass(h))
      <3>1. Index(IF ch \in HashClass(h) THEN Append(H[h], ch) ELSE H[h], o2, HashClass(h))
        BY <1>9, <2>1, Classes, IndexAppended
      <3>. QED  BY <2>8, <3>1
    <2>11. ASSUME NEW m \in ChannelNames PROVE Index(N2[m], o2, NameClass(m))
      <3>1. Index(IF ch \in NameClass(m) THEN Append(N[m], ch) ELSE N[m], o2, NameClass(m))
        BY <1>10, <2>1, Classes, IndexAppended
      <3>. QED  BY <2>9, <3>1
    <2>12. H2 \in [Hashes -> Lists] /\ N2 \in [ChannelNames -> Lists]
      BY <2>2, <2>8, <2>9
    <2>13. PICK r2 : r2 = [order |-> o2, byHash |-> H2, byName |-> N2]
      OBVIOUS
    <2>14. r2.order = o2 /\ r2.byHash = H2 /\ r2.byName = N2 /\ RegistryTyped(r2)
      BY <2>12, <2>13 DEF RegistryTyped
    <2>15. RegistryInv(c2, r2)
      BY <2>7, <2>10, <2>11, <2>14 DEF RegistryInv, HashIndexed, NameIndexed
    <2>. QED  BY <1>5, <2>3, <2>13, <2>15
  <1>. QED  BY <1>11, <1>12

\* What callers see of the registry follows.
LEMMA RegistryIsExact ==
    ASSUME NEW cs, NEW r, RegistryInv(cs, r)
    PROVE  RegistryExact(cs, r)
  <1>. DEFINE Named(n) == {ch \in Range(r.order) : ch.name = n}
  <1>1. cs \in Lists /\ RegistryTyped(r) /\ LastAtFirst(cs, r.order) /\ HashIndexed(r) /\ NameIndexed(r)
    BY DEF RegistryInv
  <1>2. PICK o \in Lists : o = r.order
    BY <1>1 DEF RegistryTyped
  <1>3. PICK k \in Nat : k = Len(o) /\ DOMAIN o = 1 .. k
    BY RangeOf
  <1>4. \A p, q \in 1 .. k : SameChannel(o[p], o[q]) => p = q
    BY <1>1, <1>2, <1>3 DEF LastAtFirst
  <1>5. \A x \in Range(o) : x \in ChannelDefs /\ \E p \in 1 .. k : x = o[p]
    BY <1>3, RangeOf
  <1>6. \A h \in Hashes :
          Index(LookupAll(r, h), r.order, {ch \in ChannelDefs : ChannelHash(ch) = h})
    BY <1>1 DEF HashIndexed, HashClass, LookupAll
  <1>7. ASSUME NEW n \in ChannelNames
        PROVE  /\ ResolveByName(r, n) = IF \E ch \in Named(n) : Named(n) = {ch} THEN Named(n) ELSE {}
               /\ \A key \in ChannelKeys :
                    /\ LookupPair(r, n, key) = {ch \in Named(n) : ch.key = key}
                    /\ \A a, b \in LookupPair(r, n, key) : a = b
    <2>1. PICK l \in Lists : l = r.byName[n]
      BY <1>1 DEF RegistryTyped
    <2>2. PICK m \in Nat : m = Len(l) /\ DOMAIN l = 1 .. m
      BY RangeOf
    <2>3. Index(l, o, NameClass(n))
      BY <1>1, <1>2, <2>1 DEF NameIndexed
    <2>4. Range(l) = Named(n)
      <3>1. Range(l) = Range(o) \cap NameClass(n)
        BY <2>3 DEF Index
      <3>2. Range(o) \cap NameClass(n) = {ch \in Range(o) : ch.name = n}
        BY <1>5 DEF NameClass
      <3>. QED  BY <1>2, <3>1, <3>2
    <2>. HIDE DEF Named
    <2>5. \A i \in 1 .. m : l[i] \in Named(n)
      BY <2>2, <2>4 DEF Range
    <2>6. \A x \in Named(n) : \E i \in 1 .. m : x = l[i]
      BY <2>2, <2>4 DEF Range
    <2>7. ResolveByName(r, n) = IF m = 1 THEN {l[1]} ELSE {}
      BY <2>1, <2>2 DEF ResolveByName
    <2>8. ResolveByName(r, n) = IF \E ch \in Named(n) : Named(n) = {ch} THEN Named(n) ELSE {}
      <3>1. CASE m = 0
        <4>1. \A i \in 1 .. m : FALSE
          BY <3>1
        <4>2. ~ \E ch \in Named(n) : Named(n) = {ch}
          BY <2>6, <4>1
        <4>. QED  BY <2>7, <3>1, <4>2
      <3>2. CASE m = 1
        <4>1. 1 \in 1 .. m /\ \A i \in 1 .. m : i = 1
          BY <3>2
        <4>2. Named(n) = {l[1]} /\ l[1] \in Named(n)
          BY <2>5, <2>6, <4>1
        <4>. QED  BY <2>7, <3>2, <4>2
      <3>3. CASE m # 0 /\ m # 1
        <4>1. 1 \in 1 .. m /\ 2 \in 1 .. m /\ 1 < 2
          BY <3>3
        <4>2. PICK a \in 1 .. k, b \in 1 .. k : a < b /\ o[a] = l[1] /\ o[b] = l[2]
          BY <1>3, <2>2, <2>3, <4>1 DEF Index
        <4>3. l[1] # l[2]
          <5>1. ~SameChannel(o[a], o[b])
            BY <1>4, <4>2
          <5>. QED  BY <4>2, <5>1, SameEquiv
        <4>4. ~ \E ch \in Named(n) : Named(n) = {ch}
          BY <2>5, <4>1, <4>3
        <4>. QED  BY <2>7, <3>3, <4>4
      <3>. QED  BY <3>1, <3>2, <3>3
    <2>9. ASSUME NEW key \in ChannelKeys
          PROVE  /\ LookupPair(r, n, key) = {ch \in Named(n) : ch.key = key}
                 /\ \A a, b \in LookupPair(r, n, key) : a = b
      <3>1. LookupPair(r, n, key) = {ch \in Named(n) : ch.key = key}
        BY <2>1, <2>4 DEF LookupPair
      <3>2. ASSUME NEW a \in Named(n), NEW b \in Named(n), a.key = key, b.key = key PROVE a = b
        <4>1. a \in Range(o) /\ b \in Range(o) /\ a.name = n /\ b.name = n
          BY <1>2 DEF Named
        <4>2. PICK p \in 1 .. k, q \in 1 .. k : a = o[p] /\ b = o[q]
          BY <1>5, <4>1
        <4>3. SameChannel(o[p], o[q])
          BY <3>2, <4>1, <4>2 DEF SameChannel
        <4>. QED  BY <1>4, <4>2, <4>3
      <3>. QED  BY <3>1, <3>2
    <2>. QED  BY <2>8, <2>9
  <1>. QED  BY <1>1, <1>6, <1>7 DEF RegistryExact
-----------------------------------------------------------------------------
\* The invariant of the value functions: what a name was cut to, and the state of a map
\* or a registry under way.
ValuesInv ==
    /\ input.kind \in {"none", "name", "regions", "channels"}
    /\ input.kind = "name" => NameWhole(input.name, output.bytes)
    /\ input.kind = "regions" => MapInv(input.regions, output.map)
    /\ input.kind = "channels" => RegistryInv(input.channels, output.registry)

\* Every call and every round of the loop keeps it.
LEMMA ValuesStep ==
    ASSUME ValuesInv, ValuesNext
    PROVE  ValuesInv'
  <1>1. ASSUME NEW b \in Names, CutName(b) PROVE ValuesInv'
    <2>1. input' = [kind |-> "name", name |-> b] /\ output' = [bytes |-> truncateToBytes(b, MaxNameBytes)]
      BY <1>1 DEF CutName
    <2>2. input'.kind = "name" /\ input'.name = b /\ output'.bytes = truncateToBytes(b, MaxNameBytes)
      BY <2>1
    <2>. QED  BY <2>2, NameCut DEF ValuesInv
  <1>2. ASSUME StartMap PROVE ValuesInv'
    <2>1. input'.kind = "regions" /\ input'.regions = <<>> /\ output'.map = NoRegions
      BY <1>2 DEF StartMap
    <2>. QED  BY <2>1, EmptyMap DEF ValuesInv
  <1>3. ASSUME NEW r \in Regions, RegionPresetMap(r) PROVE ValuesInv'
    <2>1. /\ input.kind = "regions" /\ input'.kind = "regions"
          /\ input'.regions = Append(input.regions, r) /\ output'.map = AddRegion(output.map, r)
      BY <1>3 DEF RegionPresetMap
    <2>2. MapInv(input.regions, output.map)
      BY <2>1 DEF ValuesInv
    <2>. QED  BY <2>1, <2>2, RegionAdded DEF ValuesInv
  <1>4. ASSUME NewRegistry PROVE ValuesInv'
    <2>1. input'.kind = "channels" /\ input'.channels = <<>> /\ output'.registry = NewChannelRegistry
      BY <1>4 DEF NewRegistry
    <2>. QED  BY <2>1, EmptyRegistry DEF ValuesInv
  <1>5. ASSUME NEW ch \in ChannelDefs, RegisterChannel(ch) PROVE ValuesInv'
    <2>1. /\ input.kind = "channels" /\ input'.kind = "channels"
          /\ input'.channels = Append(input.channels, ch)
          /\ output'.registry = Register(output.registry, ch)
      BY <1>5 DEF RegisterChannel
    <2>2. RegistryInv(input.channels, output.registry)
      BY <2>1 DEF ValuesInv
    <2>. QED  BY <2>1, <2>2, RegisterKeeps DEF ValuesInv
  <1>. QED  BY <1>1, <1>2, <1>3, <1>4, <1>5 DEF ValuesNext

(***************************************************************************)
(* Names are cut at the last boundary that fits, for every limit; a region *)
(* of the map is served by the group of its profile and default, for every *)
(* table and every cap; and the registry's indexes agree with the channels *)
(* registered, for any calls of Register.                                  *)
(***************************************************************************)
THEOREM ValuesAreRight == ValuesSpec => []ValuesRight
  <1>1. ValuesInit => ValuesInv
    BY DEF ValuesInit, ValuesInv
  <1>2. ValuesInv /\ [ValuesNext]_valueVars => ValuesInv'
    <2>1. ASSUME ValuesInv, ValuesNext PROVE ValuesInv'
      BY <2>1, ValuesStep
    <2>2. ASSUME ValuesInv, UNCHANGED valueVars PROVE ValuesInv'
      BY <2>2 DEF valueVars, ValuesInv
    <2>. QED  BY <2>1, <2>2
  <1>3. ValuesInv => ValuesRight
    BY MapAdvertised, RegistryIsExact DEF ValuesInv, ValuesRight
  <1>. QED  BY <1>1, <1>2, <1>3, PTL DEF ValuesSpec
=============================================================================
