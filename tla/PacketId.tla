------------------------------ MODULE PacketId ------------------------------
(***************************************************************************)
(* packetIDGenerator of device/node: the low bits count, the high bits are *)
(* drawn at random.  Each next() runs under the generator's mutex, so a    *)
(* call is one step.  A receiver drops a packet whose (sender, ID) it has  *)
(* seen, and takes ID 0 for "no ID"; both matter to what is drawn here.    *)
(***************************************************************************)
EXTENDS Naturals, Sequences

CONSTANTS
    LowMod,    \* 2^10 in the code: values of the counting part
    HighMod    \* 2^22 in the code: values of the random part

ASSUME PacketIdAssumption == LowMod \in Nat \ {0} /\ HighMod \in Nat \ {0}

VARIABLES
    counter,   \* packetIDGenerator.counter, the ID drawn last
    recent     \* history: IDs drawn since the counter was last seeded, the last
               \* LowMod of them

idVars == <<counter, recent>>

Uint32 == 0 .. (LowMod * HighMod - 1)

IdInit == counter = 0 /\ recent = <<>>

\* Mutant: the mask keeps one bit too few.
NextNarrow(c) ==
    {((b + 1) % (LowMod \div 2)) + LowMod * h :
        b \in IF c = 0 THEN Uint32 ELSE {c}, h \in 0 .. (HighMod - 1)}

\* A counter of 0 is seeded at random; then it is incremented and its high part
\* replaced.
NextCounter(c) ==
    {((b + 1) % LowMod) + LowMod * h :
        b \in IF c = 0 THEN Uint32 ELSE {c}, h \in 0 .. (HighMod - 1)}

Window(s) == IF Len(s) > LowMod THEN Tail(s) ELSE s

Draw ==
    /\ counter' \in NextCounter(counter)
    /\ recent' = IF counter = 0 THEN <<counter'>> ELSE Window(Append(recent, counter'))

IdSpec == IdInit /\ [][Draw]_idVars
-----------------------------------------------------------------------------
\* Any LowMod consecutive IDs are distinct, whatever the random parts, as long as
\* the counter is not seeded in between: within that many packets a receiver
\* never takes a new packet of ours for a duplicate.
WindowDistinct ==
    \A i, j \in 1 .. Len(recent) : i # j => recent[i] # recent[j]

\* TestPacketIDGenerator_NeverZero, "packet ID should never be zero".
NeverZero == \A i \in 1 .. Len(recent) : recent[i] # 0
=============================================================================
