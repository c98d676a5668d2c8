-------------------------- MODULE PositionPrecision --------------------------
(***************************************************************************)
(* core/position.go and lora.TruncateCoordinate: how exactly a position    *)
(* may be sent, which depends on who can decrypt the channel it goes out   *)
(* on.  Coordinates are two's complement words of WordBits bits.           *)
(***************************************************************************)
EXTENDS Integers, Sequences, SequencesExt, FiniteSetsExt

CONSTANTS
    Nil,         \* a nil pointer
    WordBits,    \* 32 in the code
    PublicCap,   \* MaxPositionPrecisionPublicKey, 15 in the code
    MaxTable     \* bound on the length of a channel table

ASSUME PrecisionAssumption == WordBits \in Nat /\ PublicCap \in 1 .. WordBits /\ MaxTable \in Nat

\* A one shifted left by n bits.
Pow2[n \in Nat] == IF n = 0 THEN 1 ELSE 2 * Pow2[n - 1]

\* What tells keys apart here: no key, a one-byte key, a key of the default family,
\* any other key.
Psks == {"empty", "short", "family", "private"}
Roles == {"primary", "secondary", "disabled"}
Precisions == {0, 1, PublicCap, PublicCap + 1, WordBits, WordBits + 1}

\* A channel table entry: nil, or a role with settings that may be missing; settings
\* without module settings report precision 0.
Channels == {Nil} \union
            [role : Roles, settings : {Nil} \union [psk : Psks, precision : Precisions]]
Tables == UNION {[1 .. n -> Channels] : n \in 0 .. MaxTable}
Coordinates == - Pow2[WordBits - 1] .. Pow2[WordBits - 1] - 1

VARIABLES table, where, sent   \* a node's table and position; what it sends

positionVars == <<table, where, sent>>
-----------------------------------------------------------------------------
\* Nothing to look at: index out of range, nil channel or settings, disabled.
Usable(t, i) ==
    /\ i \in DOMAIN t /\ t[i] # Nil
    /\ t[i].settings # Nil /\ t[i].role # "disabled"

\* bytes.Equal against the default family; "short" and the family are published.
Published(psk) == psk \in {"short", "family"}

IsPrimary(ch) == ch # Nil /\ ch.role = "primary"

\* A channel with a key of its own, or a primary: no key means no encryption.
OwnKeyPublic(t, i) ==
    Usable(t, i) /\ (t[i].settings.psk = "empty" \/ Published(t[i].settings.psk))

\* A secondary channel without a key inherits that of the first primary in the table,
\* and counts as public when there is none.
ChannelUsesPublicKey(t, i) ==
    IF Usable(t, i) /\ t[i].settings.psk = "empty" /\ t[i].role = "secondary"
    THEN LET primaries == {j \in DOMAIN t : IsPrimary(t[j])}
         IN IF primaries = {} THEN TRUE ELSE OwnKeyPublic(t, Min(primaries))
    ELSE OwnKeyPublic(t, i)

\* Mutant: a secondary channel without a key is looked at on its own.
PositionPrecisionOwnKey(t, i) ==
    IF ~Usable(t, i) THEN 0
    ELSE LET p == t[i].settings.precision
         IN IF p > PublicCap /\ Published(t[i].settings.psk) THEN PublicCap ELSE p

PositionPrecisionForChannel(t, i) ==
    IF ~Usable(t, i) THEN 0
    ELSE LET p == t[i].settings.precision
         IN IF p > PublicCap /\ ChannelUsesPublicKey(t, i) THEN PublicCap ELSE p

\* Zero when no channel permits a position.
FindPositionChannel(t) ==
    LET open == {i \in DOMAIN t : PositionPrecisionForChannel(t, i) # 0}
    IN IF open = {} THEN 0 ELSE Min(open)

\* The mask and the half cell are added on the unsigned reinterpretation.
TruncateCoordinate(c, p) ==
    IF p = 0 \/ p >= WordBits THEN c
    ELSE LET u == c % Pow2[WordBits]
             cell == Pow2[WordBits - p]
             t == ((u - (u % cell)) + cell \div 2) % Pow2[WordBits]
         IN IF t >= Pow2[WordBits - 1] THEN t - Pow2[WordBits] ELSE t

\* A position is [lat, bits]; lat is Nil when it was never set.  Precision 0 clears all.
ApplyPositionPrecision(lat, p) ==
    IF p = 0 THEN [status |-> "cleared", lat |-> Nil, bits |-> 0]
    ELSE LET bits == Min({p, WordBits})
         IN [status |-> "sent",
             lat |-> IF lat = Nil THEN Nil ELSE TruncateCoordinate(lat, bits),
             bits |-> bits]

PositionInit == table = <<>> /\ where = Nil /\ sent = [status |-> "waiting"]

\* The rule of docs/upgrade-2.8.md: the lowest-indexed channel that permits a position,
\* at the precision that channel permits.
SendPosition(t, lat) ==
    /\ table' = t /\ where' = lat
    /\ sent' = IF FindPositionChannel(t) = 0 THEN [status |-> "off"]
               ELSE ApplyPositionPrecision(
                        lat, PositionPrecisionForChannel(t, FindPositionChannel(t)))

PositionNext ==
    /\ sent.status = "waiting"
    /\ \E t \in Tables, lat \in Coordinates \union {Nil} : SendPosition(t, lat)

PositionSpec == PositionInit /\ [][PositionNext]_positionVars
-----------------------------------------------------------------------------
\* Who can read channel i: everybody, unless the key that encrypts it is private.  A
\* secondary channel without a key is encrypted with the primary's.
ReadableByAll(i) ==
    LET inherits == table[i].settings.psk = "empty" /\ table[i].role = "secondary"
        givers == IF inherits THEN {j \in DOMAIN table : IsPrimary(table[j])} ELSE {i}
        giver == Min(givers)
    IN givers = {} \/ table[giver].settings = Nil \/ table[giver].settings.psk # "private"

\* The centre of the aligned cell of 2^(WordBits - bits) coordinates that holds c.
CellCentre(c, bits) ==
    IF bits = WordBits THEN c
    ELSE LET cell == Pow2[WordBits - bits] IN (c \div cell) * cell + cell \div 2

\* No primary without settings.
WellFormed == \A i \in DOMAIN table : IsPrimary(table[i]) => table[i].settings # Nil

Coarse ==
    sent.status \in {"sent", "cleared"} =>
        LET i == FindPositionChannel(table) IN
        /\ sent.bits \in 1 .. WordBits /\ sent.bits <= table[i].settings.precision
        /\ ReadableByAll(i) => sent.bits <= PublicCap
        /\ IF where = Nil THEN sent.lat = Nil ELSE sent.lat = CellCentre(where, sent.bits)

\* A position never leaves finer than the channel allows, nor finer than the public cap
\* when anybody can decrypt it, whatever the key is inherited from; the coordinate is
\* the centre of the cell the recorded precision names, for negative ones too, and an
\* unset one is never invented.  Premise: every primary channel has settings.
PositionCoarse == WellFormed => Coarse

\* ChannelUsesPublicKey "fails closed: a malformed table that has no primary to inherit
\* from is treated as public rather than private".
FailsClosed == Coarse
=============================================================================
