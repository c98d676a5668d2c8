----------------------------- MODULE CoreValues -----------------------------
(***************************************************************************)
(* Pure functions of core whose edges tests have missed: cutting a name to *)
(* the firmware's byte limit, and grouping the LoRa regions that share a   *)
(* preset list for the want_config handshake; and the channel registry,    *)
(* three indexes of one set of channels under one lock.                    *)
(***************************************************************************)
EXTENDS Integers, Sequences, SequencesExt, FiniteSetsExt

CONSTANTS
    MaxNameBytes,      \* 24 and 4 in the code
    MaxBytes,          \* bound on the bytes of a name
    Regions,           \* region table entries: [code, profile, default, swappable]
    Presets,           \* Presets[profile]: the presets a profile permits, a sequence
    Licensed,          \* Licensed[profile]: licensed operators only
    Superset,          \* presetsEUSuperset
    MaxRegions,        \* bound on the length of a region table
    maxPresetGroups,   \* 8 in the code
    maxRegionGroups,   \* 38 in the code
    maxGroupPresets,   \* 11 in the code
    ChannelNames, ChannelKeys,
    Copies,            \* tells definitions of one channel apart
    XorHash,           \* XorHash[name, key]: the hash of both
    MaxRegister        \* bound on the calls of Register

\* The table gives regions of one profile and default the same place among the regions
\* that advertise the union: each of the three EU profiles has one region.
ASSUME ValuesAssumption ==
    /\ MaxNameBytes \in Nat /\ MaxBytes \in Nat /\ MaxRegions \in Nat
    /\ MaxRegister \in Nat
    /\ maxPresetGroups \in Nat /\ maxRegionGroups \in Nat /\ maxGroupPresets \in Nat
    /\ \A r, q \in Regions :
         r.profile = q.profile /\ r.default = q.default => r.swappable = q.swappable

VARIABLES
    input,     \* what was asked: a name, the regions seen, the channels registered so far
    output     \* what there is for it: the name cut, the map, the registry

valueVars == <<input, output>>
-----------------------------------------------------------------------------
(* Names.  In UTF-8 a rune is a lead byte that tells its width and         *)
(* continuation bytes; a byte here is that width, or 0.                    *)

Widths == 1 .. 4
Encode(width) == [i \in 1 .. width |-> IF i = 1 THEN width ELSE 0]

\* Every lead byte has its continuation bytes and every one of these a lead byte.
Utf8(b) ==
    \A i \in DOMAIN b :
      IF b[i] = 0
      THEN \E j \in 1 .. (i - 1) : b[j] # 0 /\ i < j + b[j]
      ELSE /\ i + b[i] - 1 <= Len(b)
           /\ \A j \in (i + 1) .. (i + b[i] - 1) : b[j] = 0
           /\ i + b[i] <= Len(b) => b[i + b[i]] # 0

Names == {b \in UNION {[1 .. n -> Widths \cup {0}] : n \in 0 .. MaxBytes} : Utf8(b)}

\* utf8.DecodeLastRuneInString finds a whole rune at the end of b.
EndsWhole(b) ==
    \E w \in Widths : w <= Len(b) /\ SubSeq(b, Len(b) - w + 1, Len(b)) = Encode(w)

\* The cut is moved back, byte by byte, until a whole rune ends there.
truncateToBytes(b, max) ==
    IF Len(b) <= max THEN b
    ELSE SubSeq(b, 1, Max({n \in 0 .. max : n = 0 \/ EndsWhole(SubSeq(b, 1, n))}))
-----------------------------------------------------------------------------
(* Regions.                                                                *)

Cut(s) == SubSeq(s, 1, Min({Len(s), maxGroupPresets}))

\* Mutant: regions with equal preset lists share a group, licensed or not.
GroupKeyLists(r) == <<Presets[r.profile], r.default>>

GroupKey(r) == <<r.profile, r.default>>

\* One round of the loop; m has the groups, their keys, and the regions with the index
\* of their group.
AddRegion(m, r) ==
    IF Len(m.regions) >= maxRegionGroups THEN m
    ELSE IF Contains(m.keys, GroupKey(r))
    THEN [m EXCEPT !.regions = Append(@, [code |-> r.code,
              group |-> CHOOSE g \in DOMAIN m.keys : m.keys[g] = GroupKey(r)])]
    ELSE IF Len(m.groups) >= maxPresetGroups THEN m
    ELSE [keys |-> Append(m.keys, GroupKey(r)),
          groups |-> Append(m.groups,
              [presets |-> Cut(IF r.swappable THEN Superset ELSE Presets[r.profile]),
               default |-> r.default, licensed |-> Licensed[r.profile]]),
          regions |-> Append(m.regions, [code |-> r.code, group |-> Len(m.groups) + 1])]

NoRegions == [keys |-> <<>>, groups |-> <<>>, regions |-> <<>>]
-----------------------------------------------------------------------------
(* Channels.                                                               *)

ChannelDefs == [name : ChannelNames, key : ChannelKeys, copy : Copies]
ChannelHash(ch) == XorHash[ch.name, ch.key]
Hashes == {ChannelHash(ch) : ch \in ChannelDefs}
SameChannel(a, b) == a.name = b.name /\ a.key = b.key

NewChannelRegistry ==
    [order |-> <<>>, byHash |-> [h \in Hashes |-> <<>>],
     byName |-> [n \in ChannelNames |-> <<>>]]

replaceSame(list, ch) == [i \in DOMAIN list |-> IF SameChannel(list[i], ch) THEN ch ELSE list[i]]

\* A channel that is known is replaced in place in the three indexes, another one is
\* appended to them.
Register(r, ch) ==
    LET Put(list) == IF \E old \in Range(r.order) : SameChannel(old, ch)
                     THEN replaceSame(list, ch) ELSE Append(list, ch)
    IN [order |-> Put(r.order),
        byHash |-> [r.byHash EXCEPT ![ChannelHash(ch)] = Put(@)],
        byName |-> [r.byName EXCEPT ![ch.name] = Put(@)]]

LookupAll(r, hash) == r.byHash[hash]
ResolveByName(r, name) == IF Len(r.byName[name]) = 1 THEN {r.byName[name][1]} ELSE {}
LookupPair(r, name, key) == {ch \in Range(r.byName[name]) : ch.key = key}
-----------------------------------------------------------------------------
ValuesInit == input = [kind |-> "none"] /\ output = [none |-> TRUE]

CutName(name) ==
    /\ input' = [kind |-> "name", name |-> name]
    /\ output' = [bytes |-> truncateToBytes(name, MaxNameBytes)]

\* RegionPresetMap starts with an empty map and takes the table's regions in turn; a
\* table ends after any of them.
StartMap ==
    /\ input.kind = "none"
    /\ input' = [kind |-> "regions", regions |-> <<>>]
    /\ output' = [map |-> NoRegions]

RegionPresetMap(r) ==
    /\ input.kind = "regions" /\ Len(input.regions) < MaxRegions
    /\ input' = [kind |-> "regions", regions |-> Append(input.regions, r)]
    /\ output' = [map |-> AddRegion(output.map, r)]

NewRegistry ==
    /\ input.kind = "none"
    /\ input' = [kind |-> "channels", channels |-> <<>>]
    /\ output' = [registry |-> NewChannelRegistry]

RegisterChannel(ch) ==
    /\ input.kind = "channels" /\ Len(input.channels) < MaxRegister
    /\ input' = [kind |-> "channels", channels |-> Append(input.channels, ch)]
    /\ output' = [registry |-> Register(output.registry, ch)]

ValuesNext ==
    \/ input.kind = "none" /\ \E name \in Names : CutName(name)
    \/ StartMap \/ \E r \in Regions : RegionPresetMap(r)
    \/ NewRegistry \/ \E ch \in ChannelDefs : RegisterChannel(ch)

ValuesSpec == ValuesInit /\ [][ValuesNext]_valueVars
-----------------------------------------------------------------------------
\* The longest prefix that fits the limit and is not followed by a continuation byte.
NameWhole(name, bytes) ==
    LET Boundary(n) == n = Len(name) \/ name[n + 1] # 0
        fits == {n \in 0 .. Len(name) : n <= MaxNameBytes /\ Boundary(n)}
    IN bytes = SubSeq(name, 1, Max(fits))

\* Every region in the map points at a group with its own presets (or the union its
\* siblings share), default and licensing; regions are left out only when a cap is met.
RegionsAdvertised(t, m) ==
    LET Right(r, g) ==
            /\ g.presets = Cut(IF r.swappable THEN Superset ELSE Presets[r.profile])
            /\ g.default = r.default /\ g.licensed = Licensed[r.profile]
    IN /\ Len(m.groups) <= maxPresetGroups /\ Len(m.regions) <= maxRegionGroups
       /\ \A x \in Range(m.regions) :
             \E r \in Range(t) : r.code = x.code /\ Right(r, m.groups[x.group])
       /\ Len(m.groups) < maxPresetGroups /\ Len(t) <= maxRegionGroups =>
             Len(m.regions) = Len(t)

\* List has the channels of all that are in class, in their order.
Index(list, all, class) ==
    /\ Range(list) = Range(all) \cap class
    /\ \A p, q \in DOMAIN list : p < q =>
         \E a, b \in DOMAIN all : a < b /\ all[a] = list[p] /\ all[b] = list[q]

\* One entry per name and key, the definition registered last at the place of the first.
LastAtFirst(cs, order) ==
    /\ \A p, q \in DOMAIN order : SameChannel(order[p], order[q]) => p = q
    /\ \A i \in DOMAIN cs : \E p \in DOMAIN order : SameChannel(cs[i], order[p])
    /\ \A p \in DOMAIN order : \E i \in DOMAIN cs :
         order[p] = cs[i] /\ \A j \in (i + 1) .. Len(cs) : ~SameChannel(cs[j], cs[i])
    /\ \A p, q \in DOMAIN order : p < q =>
         \E i \in DOMAIN cs :
           SameChannel(cs[i], order[p]) /\ \A j \in 1 .. i : ~SameChannel(cs[j], order[q])

\* The registry of the channels cs is that sequence; the hash and the name find all of
\* those they stand for, in that order, and a name resolves when it stands for one.
\* Receive and Send work with this sequence.
RegistryExact(cs, r) ==
    LET Named(n) == {ch \in Range(r.order) : ch.name = n}
    IN /\ LastAtFirst(cs, r.order)
       /\ \A h \in Hashes :
            Index(LookupAll(r, h), r.order, {ch \in ChannelDefs : ChannelHash(ch) = h})
       /\ \A n \in ChannelNames :
            /\ ResolveByName(r, n) = IF \E ch \in Named(n) : Named(n) = {ch} THEN Named(n) ELSE {}
            /\ \A k \in ChannelKeys :
                 /\ LookupPair(r, n, k) = {ch \in Named(n) : ch.key = k}
                 /\ \A a, b \in LookupPair(r, n, k) : a = b

\* These functions return what their callers rely on: a validated name never holds a
\* split rune nor loses one that fits, each region in the map that RegionPresetMap sends
\* points at the group of its own profile whichever caps are met in the middle of the
\* table, and the indexes of the channel registry agree, however channels are
\* registered again.
ValuesRight ==
    /\ input.kind = "name" => NameWhole(input.name, output.bytes)
    /\ input.kind = "regions" => RegionsAdvertised(input.regions, output.map)
    /\ input.kind = "channels" => RegistryExact(input.channels, output.registry)
=============================================================================
