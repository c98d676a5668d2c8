---------------------------- MODULE FramingProofs ----------------------------
(***************************************************************************)
(* Proofs about StreamFraming, for any writers, payloads, noise, wake      *)
(* bytes and MTU that two bytes can tell: ReadBytes returns the frames     *)
(* that WriteBytes wrote, whole and in order, and loses none.              *)
(*                                                                         *)
(* The invariant looks at all bytes ever written and at the marks between  *)
(* frames and noise.  From each mark but the last one a frame or a piece   *)
(* of noise leads to another mark (Leap), and the reader, wherever it is   *)
(* in the bytes, started at a mark and has not passed the next one.        *)
(***************************************************************************)
EXTENDS StreamFraming, Integers, TLAPS, SequenceTheorems

\* The data WriteBytes lets through.
Data == {d \in Payloads : Len(d) <= PacketMTU}

\* The bytes s stand at position n of the bytes b.
Holds(b, n, s) == n + Len(s) <= Len(b) /\ \A j \in 1 .. Len(s) : b[n + j] = s[j]

\* A mark: a position, and how many frames and how many bytes of noise lie before it.
Mark == [pos : Nat, f : Nat, p : Nat]
Noisy == Contains(printed, Start1)

\* What lies between marks c and d of the bytes all: a frame, a byte of noise, a false
\* start, or a header of impossible length.
LeapFrame(all, c, d) ==
    /\ c.f + 1 <= Len(frames)
    /\ d = [pos |-> c.pos + 4 + Len(frames[c.f + 1]), f |-> c.f + 1, p |-> c.p]
    /\ Holds(all, c.pos, Header(Len(frames[c.f + 1])))
    /\ Holds(all, c.pos + 4, frames[c.f + 1])
LeapByte(all, c, d) ==
    /\ c.p + 1 <= Len(printed)
    /\ d = [pos |-> c.pos + 1, f |-> c.f, p |-> c.p + 1]
    /\ all[c.pos + 1] = printed[c.p + 1] /\ all[c.pos + 1] # Start1
LeapFalse(all, c, d) ==
    /\ Noisy /\ d.pos = c.pos + 2 /\ d.f = c.f
    /\ all[c.pos + 1] = Start1 /\ all[c.pos + 2] # Start2
LeapHeader(all, c, d) ==
    /\ Noisy /\ d.pos = c.pos + 4 /\ d.f = c.f
    /\ all[c.pos + 1] = Start1 /\ all[c.pos + 2] = Start2
    /\ 256 * all[c.pos + 3] + all[c.pos + 4] > PacketMTU
Leap(all, c, d) ==
    LeapFrame(all, c, d) \/ LeapByte(all, c, d) \/ LeapFalse(all, c, d) \/ LeapHeader(all, c, d)

\* The marks of all that was written; after the last one there is nothing, or the
\* header of a frame whose data is still to come.
Ended(all, last) ==
    /\ last.pos = Len(all) /\ last.f = Len(frames)
    /\ complete = Len(frames) \/ frames[Len(frames)] = <<>>
Halfway(all, last) ==
    /\ last.pos + 4 = Len(all) /\ last.f + 1 = Len(frames) /\ complete = last.f
    /\ frames[Len(frames)] # <<>>
    /\ Holds(all, last.pos, Header(Len(frames[Len(frames)])))
Chain(all, B, last) ==
    /\ all \in Seq(Byte) /\ B \subseteq Mark /\ last \in B
    /\ \A c \in B : c.pos <= Len(all) /\ (c = last \/ \E d \in B : Leap(all, c, d))
Tip(all, last) ==
    /\ last.p = Len(printed) /\ complete <= last.f
    /\ Ended(all, last) \/ Halfway(all, last)
Written(all, B, last) == Chain(all, B, last) /\ Tip(all, last)

\* Where ReadBytes is: how much it has of what follows the mark.
Stage ==
    \/ reader.pc = "start1" /\ reader.buf = <<>>
    \/ reader.pc = "start2" /\ Len(reader.buf) = 1 /\ reader.buf[1] = Start1
    \/ /\ reader.pc = "length" /\ Len(reader.buf) \in {2, 3}
       /\ reader.buf[1] = Start1 /\ reader.buf[2] = Start2
    \/ /\ reader.pc = "data" /\ Len(reader.buf) >= 4
       /\ reader.buf[1] = Start1 /\ reader.buf[2] = Start2
       /\ ~TooLong(reader.buf) /\ Len(reader.buf) < 4 + Length(reader.buf)
    \/ /\ reader.pc = "return" /\ Len(reader.buf) >= 4
       /\ reader.buf[1] = Start1 /\ reader.buf[2] = Start2
       /\ ~TooLong(reader.buf) /\ Len(reader.buf) = 4 + Length(reader.buf)
Reading(all, cur) ==
    /\ Stage
    /\ Len(all) = cur.pos + Len(reader.buf) + Len(wire)
    /\ Holds(all, cur.pos, reader.buf)
    /\ Holds(all, cur.pos + Len(reader.buf), wire)

\* What has come out by mark cur, and what must have when nothing is left.
Taken(cur) ==
    /\ Len(received) = cur.f /\ Holds(frames, 0, received)
    /\ ~Noisy => Len(debug) = cur.p /\ Holds(printed, 0, debug)
Drained ==
    /\ wire = <<>> /\ closed
    /\ complete <= Len(received) /\ (Noisy \/ debug = printed)

Good(all, B, last, cur) ==
    /\ Written(all, B, last) /\ cur \in B /\ Taken(cur)
    /\ IF reader.pc = "failed" THEN Drained ELSE Reading(all, cur)
Recoverable == ~stray => \E all, B, last, cur : Good(all, B, last, cur)

\* Types, and that header and data are written under writeMu.
Typed ==
    /\ wire \in Seq(Byte) /\ closed \in BOOLEAN /\ stray \in BOOLEAN
    /\ writer \in [Writers -> [pc : {"idle", "lock", "header", "data", "failed"}, data : Payloads \cup {<<>>}]]
    /\ reader \in [pc : {"start1", "start2", "length", "data", "return", "failed"}, buf : Seq(Byte)]
    /\ frames \in Seq(Data) /\ complete \in Nat /\ printed \in Seq(Byte)
    /\ received \in Seq(Seq(Byte)) /\ debug \in Seq(Byte)
Writing ==
    /\ \A w \in Writers :
          /\ writer[w].pc \in {"lock", "header", "data"} => writer[w].data \in Data
          /\ writer[w].pc \in {"header", "data"} => writeMu = w
          /\ writer[w].pc = "data" =>
                complete + 1 = Len(frames) /\ frames[Len(frames)] = writer[w].data
    /\ complete <= Len(frames)
    /\ ~closed => complete = Len(frames) \/ \E w \in Writers : writer[w].pc = "data"

\* The inductive invariant.
FramingInv == Typed /\ Writing /\ Recoverable
-----------------------------------------------------------------------------
(* Facts about sequences.                                                  *)

\* A concatenation holds its two parts, one after the other.
LEMMA ConcatHolds ==
    ASSUME NEW S, NEW s \in Seq(S), NEW t \in Seq(S)
    PROVE  /\ s \o t \in Seq(S) /\ Len(s \o t) = Len(s) + Len(t)
           /\ Holds(s \o t, 0, s) /\ Holds(s \o t, Len(s), t)
  BY DEF Holds

\* A sequence that holds another one at its start has its elements in their places.
LEMMA HoldsStart ==
    ASSUME NEW S, NEW T, NEW a \in Seq(S), NEW b \in Seq(T), Holds(b, 0, a)
    PROVE  Len(a) <= Len(b) /\ \A j \in 1 .. Len(a) : j \in 1 .. Len(b) /\ b[j] = a[j]
  <1>1. Len(a) <= Len(b)
    BY DEF Holds
  <1>2. ASSUME NEW j \in 1 .. Len(a)
        PROVE  j \in 1 .. Len(b) /\ b[j] = a[j]
    <2>1. b[0 + j] = a[j] /\ 0 + j = j
      BY DEF Holds
    <2>. QED  BY <1>1, <2>1
  <1>. QED  BY <1>1, <1>2

\* What a sequence holds, its extensions hold at the same place.
LEMMA HoldsGrows ==
    ASSUME NEW S, NEW T, NEW a \in Seq(S), NEW b \in Seq(S), NEW s \in Seq(T), NEW n \in Nat,
           Holds(b, 0, a), Holds(a, n, s)
    PROVE  Holds(b, n, s)
  BY DEF Holds

\* A sequence holds the two parts of a concatenation it holds.
LEMMA HoldsConcat ==
    ASSUME NEW S, NEW a \in Seq(S), NEW s \in Seq(S), NEW t \in Seq(S), NEW n \in Nat,
           Holds(a, n, s), Holds(a, n + Len(s), t)
    PROVE  Holds(a, n, s \o t)
  <1>. SUFFICES ASSUME NEW j \in 1 .. Len(s \o t)
                PROVE  a[n + j] = (s \o t)[j]
    BY DEF Holds
  <1>1. CASE j <= Len(s)
    BY <1>1 DEF Holds
  <1>2. CASE j > Len(s)
    <2>1. j - Len(s) \in 1 .. Len(t) /\ (s \o t)[j] = t[j - Len(s)]
      BY <1>2
    <2>2. a[(n + Len(s)) + (j - Len(s))] = t[j - Len(s)]
      BY <2>1 DEF Holds
    <2>. QED  BY <2>1, <2>2
  <1>. QED  BY <1>1, <1>2

\* The bytes of a header of n after position k.
Headed(all, k, n) ==
    /\ k + 4 <= Len(all)
    /\ all[k + 1] = Start1 /\ all[k + 2] = Start2
    /\ all[k + 3] = n \div 256 /\ all[k + 4] = n % 256

\* What a header of n looks like at position k of the bytes: Length finds n again.
LEMMA HeaderAt ==
    ASSUME NEW n \in Nat, n < 65536
    PROVE  /\ Header(n) \in Seq(Byte) /\ Len(Header(n)) = 4
           /\ \A all \in Seq(Byte), k \in Nat : Holds(all, k, Header(n)) <=> Headed(all, k, n)
           /\ 256 * (n \div 256) + (n % 256) = n
  <1>1. n \div 256 \in Byte /\ n % 256 \in Byte /\ 256 * (n \div 256) + (n % 256) = n
    BY DEF Byte
  <1>2. Header(n) \in Seq(Byte) /\ Len(Header(n)) = 4
        /\ Header(n)[1] = Start1 /\ Header(n)[2] = Start2
        /\ Header(n)[3] = n \div 256 /\ Header(n)[4] = n % 256
    BY <1>1 DEF Header, Start1, Start2, Byte
  <1>3. ASSUME NEW all \in Seq(Byte), NEW k \in Nat
        PROVE  Holds(all, k, Header(n)) <=> Headed(all, k, n)
    <2>1. 1 .. Len(Header(n)) = {1, 2, 3, 4}
      BY <1>2
    <2>2. Holds(all, k, Header(n)) <=>
            k + 4 <= Len(all) /\ \A j \in {1, 2, 3, 4} : all[k + j] = Header(n)[j]
      BY <1>2, <2>1 DEF Holds
    <2>. QED  BY <1>2, <2>2 DEF Headed
  <1>4. \A all \in Seq(Byte), k \in Nat : Holds(all, k, Header(n)) <=> Headed(all, k, n)
    BY <1>3
  <1>. QED  BY <1>1, <1>2, <1>4
-----------------------------------------------------------------------------
(* Writing: bytes are added at the end, and marks with them.               *)

\* The histories only get longer.
Extends ==
    /\ frames \in Seq(Data) /\ frames' \in Seq(Data) /\ Holds(frames', 0, frames)
    /\ printed \in Seq(Byte) /\ printed' \in Seq(Byte) /\ Holds(printed', 0, printed)

\* The data that is written is bytes, and their number fits the two bytes of a header.
LEMMA DataBytes ==
    ASSUME NEW d \in Data
    PROVE  /\ d \in Payloads /\ d \in Seq(Byte)
           /\ Len(d) \in Nat /\ Len(d) < 65536 /\ Len(d) <= PacketMTU /\ PacketMTU \in Nat
  <1>1. d \in Payloads /\ d \in Seq(Byte) /\ Len(d) <= PacketMTU
    BY FramingAssumption DEF Data
  <1>2. PacketMTU \in Nat /\ PacketMTU < 65536
    BY FramingAssumption
  <1>. QED  BY <1>1, <1>2

\* So frames are sequences of sequences of bytes.
LEMMA FramesBytes ==
    ASSUME NEW s \in Seq(Data)
    PROVE  s \in Seq(Seq(Byte))
  <1>1. \A d \in Data : d \in Seq(Byte)
    BY DataBytes
  <1>. HIDE DEF Data, Byte
  <1>. QED  BY <1>1, SeqMonotonic

\* Noise stays noise.
LEMMA NoisyGrows ==
    ASSUME Extends, Noisy
    PROVE  Noisy'
  BY DEF Extends, Noisy, Contains, Holds

\* A leap stays one when bytes and histories get longer.
LEMMA LeapGrows ==
    ASSUME NEW all \in Seq(Byte), NEW more \in Seq(Byte), Holds(more, 0, all), Extends,
           NEW c \in Mark, NEW d \in Mark, d.pos <= Len(all), Leap(all, c, d)
    PROVE  Leap(more, c, d)'
  <1>1. CASE LeapFrame(all, c, d)
    <2>1. c.f + 1 <= Len(frames) /\ c.f + 1 \in 1 .. Len(frames) /\ c.f + 1 <= Len(frames')
          /\ frames'[c.f + 1] = frames[c.f + 1]
      <3>1. c.f + 1 \in 1 .. Len(frames)
        BY <1>1 DEF LeapFrame, Extends, Mark
      <3>. QED  BY <3>1, HoldsStart DEF Extends
    <2>2. frames[c.f + 1] \in Data
      BY <2>1 DEF Extends
    <2>3. /\ Header(Len(frames[c.f + 1])) \in Seq(Byte)
          /\ frames[c.f + 1] \in Seq(Byte)
      <3>1. frames[c.f + 1] \in Seq(Byte) /\ Len(frames[c.f + 1]) \in Nat
            /\ Len(frames[c.f + 1]) < 65536
        BY <2>2, DataBytes
      <3>. QED  BY <3>1, HeaderAt
    <2>4. Holds(more, c.pos, Header(Len(frames[c.f + 1]))) /\ Holds(more, c.pos + 4, frames[c.f + 1])
      BY <1>1, <2>3, HoldsGrows DEF LeapFrame, Mark
    <2>. QED  BY <1>1, <2>1, <2>4 DEF LeapFrame, Leap
  <1>2. CASE LeapByte(all, c, d)
    <2>1. c.pos + 1 \in 1 .. Len(all) /\ c.p + 1 \in 1 .. Len(printed) /\ c.p + 1 <= Len(printed')
      BY <1>2 DEF LeapByte, Mark, Extends, Holds
    <2>2. more[c.pos + 1] = all[c.pos + 1] /\ printed'[c.p + 1] = printed[c.p + 1]
      BY <2>1 DEF Extends, Holds
    <2>. QED  BY <1>2, <2>1, <2>2 DEF LeapByte, Leap
  <1>3. CASE LeapFalse(all, c, d)
    <2>1. c.pos + 1 \in 1 .. Len(all) /\ c.pos + 2 \in 1 .. Len(all)
      BY <1>3 DEF LeapFalse, Mark
    <2>2. more[c.pos + 1] = all[c.pos + 1] /\ more[c.pos + 2] = all[c.pos + 2]
      BY <2>1 DEF Holds
    <2>. QED  BY <1>3, <2>2, NoisyGrows DEF LeapFalse, Leap
  <1>4. CASE LeapHeader(all, c, d)
    <2>1. \A i \in {1, 2, 3, 4} : c.pos + i \in 1 .. Len(all)
      BY <1>4, SMTT(30) DEF LeapHeader, Mark
    <2>2. \A i \in {1, 2, 3, 4} : more[c.pos + i] = all[c.pos + i]
      BY <2>1 DEF Holds
    <2>. QED  BY <1>4, <2>2, NoisyGrows DEF LeapHeader, Leap
  <1>. QED  BY <1>1, <1>2, <1>3, <1>4 DEF Leap

\* New marks N after the last one, up to last2, continue the chain of marks.
LEMMA ChainGrows ==
    ASSUME NEW all, NEW B, NEW last, Chain(all, B, last), Extends,
           NEW more \in Seq(Byte), Holds(more, 0, all),
           NEW N \in SUBSET Mark, NEW last2 \in N \cup {last},
           \A c \in N \cup {last} :
              c.pos <= Len(more) /\ (c = last2 \/ \E d \in N : Leap(more, c, d)')
    PROVE  Chain(more, B \cup N, last2)'
  <1>1. all \in Seq(Byte) /\ B \subseteq Mark /\ last \in B /\ B \cup N \subseteq Mark
        /\ last2 \in B \cup N
    BY DEF Chain
  <1>2. ASSUME NEW c \in B \cup N
        PROVE  c.pos <= Len(more) /\ (c = last2 \/ \E d \in B \cup N : Leap(more, c, d)')
    <2>1. CASE c \in N \cup {last}
      BY <2>1
    <2>2. CASE c \in B /\ c # last
      <3>1. PICK d \in B : Leap(all, c, d)
        BY <2>2 DEF Chain
      <3>2. c \in Mark /\ d \in Mark /\ c.pos <= Len(all) /\ d.pos <= Len(all)
        BY <1>1, <2>2 DEF Chain
      <3>3. Leap(more, c, d)'
        BY <1>1, <3>1, <3>2, LeapGrows
      <3>4. c.pos <= Len(more)
        BY <1>1, <3>2 DEF Holds, Mark
      <3>. QED  BY <3>3, <3>4
    <2>. QED  BY <2>1, <2>2
  <1>. QED  BY <1>1, <1>2 DEF Chain

\* Whatever a writer adds, the reader is where it was.
LEMMA GoodGrows ==
    ASSUME NEW all, NEW B, NEW last, NEW cur, Good(all, B, last, cur), Typed, Extends, ~closed,
           NEW h \in Seq(Byte), wire' = wire \o h,
           UNCHANGED <<reader, received, debug>>,
           NEW N \in SUBSET Mark, NEW last2 \in N \cup {last},
           \A c \in N \cup {last} :
              c.pos <= Len(all \o h) /\ (c = last2 \/ \E d \in N : Leap(all \o h, c, d)'),
           Tip(all \o h, last2)'
    PROVE  Good(all \o h, B \cup N, last2, cur)'
  <1>1. all \in Seq(Byte) /\ cur \in B /\ cur \in Mark /\ cur \in B \cup N
    BY DEF Good, Written, Chain
  <1>2. /\ all \o h \in Seq(Byte) /\ Len(all \o h) = Len(all) + Len(h)
        /\ Holds(all \o h, 0, all) /\ Holds(all \o h, Len(all), h)
    BY <1>1, ConcatHolds
  <1>3. Chain(all \o h, B \cup N, last2)'
    BY <1>2, ChainGrows DEF Good, Written
  <1>4. Taken(cur)'
    <2>1. received \in Seq(Seq(Byte)) /\ debug \in Seq(Byte)
      BY DEF Typed
    <2>2. Holds(frames', 0, received)
      <3>1. frames \in Seq(Seq(Byte)) /\ frames' \in Seq(Seq(Byte))
        BY FramesBytes DEF Extends
      <3>2. Holds(frames', 0, frames) /\ Holds(frames, 0, received)
        BY DEF Extends, Good, Taken
      <3>. QED  BY <2>1, <3>1, <3>2, HoldsGrows
    <2>3. ~Noisy' => Len(debug) = cur.p /\ Holds(printed', 0, debug)
      BY <2>1, NoisyGrows, HoldsGrows DEF Good, Taken, Extends
    <2>. QED  BY <2>2, <2>3 DEF Good, Taken
  <1>5. reader.pc # "failed" /\ Reading(all, cur)
    BY DEF Good, Drained
  <1>6. Reading(all \o h, cur)'
    <2>1. wire \in Seq(Byte) /\ reader.buf \in Seq(Byte) /\ cur.pos \in Nat
      BY <1>1 DEF Typed, Mark
    <2>2. wire \o h \in Seq(Byte) /\ Len(wire \o h) = Len(wire) + Len(h)
      BY <2>1, ConcatHolds
    <2>3. Len(all) = cur.pos + Len(reader.buf) + Len(wire)
      BY <1>5 DEF Reading
    <2>4. Holds(all \o h, cur.pos, reader.buf)
      BY <1>1, <1>2, <1>5, <2>1, HoldsGrows DEF Reading
    <2>. DEFINE k == cur.pos + Len(reader.buf)
    <2>8. k \in Nat /\ Len(all) = k + Len(wire) /\ Holds(all, k, wire)
      BY <1>5, <2>1, <2>3 DEF Reading
    <2>. HIDE DEF k
    <2>5. Holds(all \o h, k, wire)
      BY <1>1, <1>2, <2>1, <2>8, HoldsGrows
    <2>6. Holds(all \o h, k, wire \o h)
      BY <1>2, <2>1, <2>5, <2>8, HoldsConcat
    <2>7. Stage'
      BY <1>5 DEF Reading, Stage, TooLong, Length
    <2>. QED  BY <1>2, <2>1, <2>2, <2>3, <2>4, <2>6, <2>7 DEF Reading, k
  <1>. QED  BY <1>1, <1>3, <1>4, <1>5, <1>6 DEF Good, Written

\* One header after the last mark: a frame without data is whole with it.
LEMMA HeaderGood ==
    ASSUME NEW w \in Writers, Typed, Typed', Writing, Recoverable, ~stray, WriteHeader(w)
    PROVE  Recoverable'
  <1>1. PICK all, B, last, cur : Good(all, B, last, cur)
    BY DEF Recoverable
  <1>2. PICK v \in Data : v = writer[w].data
    BY DEF WriteHeader, Writing
  <1>3. v \in Seq(Byte) /\ Len(v) \in Nat /\ Len(v) < 65536
    BY DataBytes
  <1>4. PICK h \in Seq(Byte) : h = Header(Len(v))
    BY <1>3, HeaderAt
  <1>5. Len(h) = 4 /\ wire' = wire \o h /\ frames' = Append(frames, v)
    BY <1>2, <1>3, <1>4, HeaderAt DEF WriteHeader
  <1>6. /\ frames \in Seq(Data) /\ Len(frames') = Len(frames) + 1
        /\ frames'[Len(frames)+1] = v /\ \A j \in 1 .. Len(frames) : frames'[j] = frames[j]
    BY <1>5 DEF Typed
  <1>7. Extends
    BY <1>6 DEF Extends, Typed, WriteHeader, Holds
  <1>8. complete = Len(frames) /\ Ended(all, last)
    <2>1. \A u \in Writers : writer[u].pc # "data"
      BY DEF WriteHeader, Writing
    <2>2. complete = Len(frames)
      BY <2>1 DEF WriteHeader, Writing
    <2>. QED  BY <1>1, <1>6, <2>2 DEF Good, Written, Tip, Halfway, Chain, Mark
  <1>9. all \in Seq(Byte) /\ last \in Mark /\ last.pos = Len(all) /\ last.f = Len(frames)
        /\ last.p = Len(printed)
    BY <1>1, <1>8 DEF Good, Written, Chain, Tip, Ended
  <1>10. all \o h \in Seq(Byte) /\ Len(all \o h) = last.pos + 4
         /\ Holds(all \o h, last.pos, Header(Len(v)))
    <2>1. all \o h \in Seq(Byte) /\ Len(all \o h) = Len(all) + Len(h)
          /\ Holds(all \o h, Len(all), h)
      BY <1>9, ConcatHolds
    <2>. QED  BY <1>4, <1>5, <1>9, <2>1
  <1>11. CASE v = <<>>
    <2>. DEFINE new == [pos |-> last.pos + 4, f |-> last.f + 1, p |-> last.p]
    <2>1. new \in Mark /\ new.pos = last.pos + 4 /\ new.f = last.f + 1 /\ new.p = last.p
      BY <1>9 DEF Mark
    <2>2. LeapFrame(all \o h, last, new)'
      <3>1. Holds(all \o h, last.pos + 4, <<>>)
        BY <1>9, <1>10 DEF Holds, Mark
      <3>2. last.f + 1 = Len(frames') /\ frames'[last.f + 1] = v /\ Len(v) = 0
        BY <1>6, <1>9, <1>11
      <3>3. last.pos + 4 + 0 = last.pos + 4
        BY <1>9 DEF Mark
      <3>. QED  BY <1>10, <1>11, <3>1, <3>2, <3>3 DEF LeapFrame
    <2>. HIDE DEF new
    <2>3. Tip(all \o h, new)'
      BY <1>6, <1>8, <1>9, <1>10, <1>11, <2>1 DEF Tip, Ended, WriteHeader, Mark
    <2>4. Good(all \o h, B \cup {new}, new, cur)'
      <3>1. \A c \in {new} \cup {last} :
               c.pos <= Len(all \o h) /\ (c = new \/ \E d \in {new} : Leap(all \o h, c, d)')
        BY <1>9, <1>10, <2>1, <2>2 DEF Leap, Mark
      <3>. QED  BY <1>1, <1>5, <1>7, <2>1, <2>3, <3>1, GoodGrows DEF WriteHeader
    <2>. QED  BY <2>4 DEF Recoverable
  <1>12. CASE v # <<>>
    <2>1. Tip(all \o h, last)'
      BY <1>6, <1>8, <1>9, <1>10, <1>12 DEF Tip, Halfway, WriteHeader, Mark
    <2>2. Good(all \o h, B \cup {}, last, cur)'
      <3>1. \A c \in {} \cup {last} :
               c.pos <= Len(all \o h) /\ (c = last \/ \E d \in {} : Leap(all \o h, c, d)')
        BY <1>9, <1>10 DEF Mark
      <3>. QED  BY <1>1, <1>5, <1>7, <2>1, <3>1, GoodGrows DEF WriteHeader
    <2>. QED  BY <2>2 DEF Recoverable
  <1>. QED  BY <1>11, <1>12

\* The data completes the frame whose header is the last thing written.
LEMMA DataGood ==
    ASSUME NEW w \in Writers, Typed, Typed', Writing, Recoverable, ~stray, WriteData(w)
    PROVE  Recoverable'
  <1>1. PICK all, B, last, cur : Good(all, B, last, cur)
    BY DEF Recoverable
  <1>2. PICK v \in Seq(Byte) : v = writer[w].data /\ v \in Data
    BY DataBytes DEF WriteData, Writing
  <1>3. Len(v) \in Nat /\ Len(v) < 65536
    BY <1>2, DataBytes
  <1>4. /\ frames \in Seq(Data) /\ frames' = frames /\ complete + 1 = Len(frames)
        /\ frames[Len(frames)] = v /\ complete' = Len(frames) /\ complete \in Nat
        /\ wire' = wire \o v
    BY <1>2 DEF WriteData, Writing, Typed
  <1>5. Extends
    BY <1>4 DEF Extends, Typed, WriteData, Holds
  <1>6. /\ all \in Seq(Byte) /\ last \in Mark /\ last.p = Len(printed)
        /\ Ended(all, last) \/ Halfway(all, last)
    BY <1>1 DEF Good, Written, Chain, Tip
  <1>10. ~closed /\ wire' = wire \o v /\ UNCHANGED <<reader, received, debug>>
    BY <1>2 DEF WriteData
  <1>7. all \o v \in Seq(Byte) /\ Len(all \o v) = Len(all) + Len(v)
        /\ Holds(all \o v, 0, all) /\ Holds(all \o v, Len(all), v)
    BY <1>3, <1>6, ConcatHolds
  <1>8. CASE v = <<>>
    <2>1. last.pos = Len(all) /\ last.f = Len(frames) /\ Len(all \o v) = Len(all)
      BY <1>4, <1>6, <1>7, <1>8 DEF Ended, Halfway
    <2>2. Tip(all \o v, last)'
      BY <1>4, <1>6, <2>1 DEF Tip, Ended, WriteData
    <2>3. Good(all \o v, B \cup {}, last, cur)'
      <3>1. \A c \in {} \cup {last} :
               c.pos <= Len(all \o v) /\ (c = last \/ \E d \in {} : Leap(all \o v, c, d)')
        BY <1>6, <2>1 DEF Mark
      <3>. QED  BY <1>1, <1>5, <1>10, <2>2, <3>1, GoodGrows
    <2>. QED  BY <2>3 DEF Recoverable
  <1>9. CASE v # <<>>
    <2>1. /\ last.pos + 4 = Len(all) /\ last.f + 1 = Len(frames)
          /\ Holds(all, last.pos, Header(Len(v)))
      BY <1>4, <1>6, <1>9 DEF Ended, Halfway
    <2>. DEFINE new == [pos |-> last.pos + 4 + Len(v), f |-> last.f + 1, p |-> last.p]
    <2>2. new \in Mark /\ new.pos = last.pos + 4 + Len(v) /\ new.f = last.f + 1 /\ new.p = last.p
      BY <1>3, <1>6 DEF Mark
    <2>3. LeapFrame(all \o v, last, new)'
      <3>1. Holds(all \o v, last.pos, Header(Len(v)))
        <4>1. Header(Len(v)) \in Seq(Byte) /\ last.pos \in Nat
          BY <1>3, <1>6, HeaderAt DEF Mark
        <4>. QED  BY <1>6, <1>7, <2>1, <4>1, HoldsGrows
      <3>2. Holds(all \o v, last.pos + 4, v)
        BY <1>7, <2>1
      <3>. QED  BY <1>4, <2>1, <3>1, <3>2 DEF LeapFrame
    <2>. HIDE DEF new
    <2>4. Tip(all \o v, new)'
      <3>1. new.pos = Len(all \o v) /\ new.f = Len(frames) /\ printed' = printed
        BY <1>3, <1>6, <1>7, <2>1, <2>2, SMTT(30) DEF WriteData, Mark
      <3>. QED  BY <1>4, <1>6, <2>2, <3>1 DEF Tip, Ended
    <2>5. Good(all \o v, B \cup {new}, new, cur)'
      <3>1. \A c \in {new} \cup {last} :
               c.pos <= Len(all \o v) /\ (c = new \/ \E d \in {new} : Leap(all \o v, c, d)')
        BY <1>3, <1>6, <1>7, <2>1, <2>2, <2>3 DEF Leap, Mark
      <3>. QED  BY <1>1, <1>5, <1>10, <2>2, <2>4, <3>1, GoodGrows
    <2>. QED  BY <2>5 DEF Recoverable
  <1>. QED  BY <1>8, <1>9

\* Noise without a Start1 puts a mark after each of its bytes; a false start and an
\* impossible header put one after themselves.
LEMMA NoiseGood ==
    ASSUME NEW n \in Noise, Typed, Typed', Writing, Recoverable, ~stray', PrintNoise(n)
    PROVE  Recoverable'
  <1>0. ~stray /\ SelfContained(n)
    BY DEF PrintNoise, Typed
  <1>1. PICK all, B, last, cur : Good(all, B, last, cur)
    BY <1>0 DEF Recoverable
  <1>2. PICK h \in Seq(Byte) : h = n
    BY FramingAssumption
  <1>3. /\ wire' = wire \o h /\ printed' = printed \o h /\ ~closed
        /\ UNCHANGED <<reader, received, debug>> /\ frames' = frames /\ complete' = complete
    BY <1>2 DEF PrintNoise
  <1>4. printed \in Seq(Byte) /\ frames \in Seq(Data) /\ printed \o h \in Seq(Byte)
        /\ Len(printed \o h) = Len(printed) + Len(h) /\ Holds(printed \o h, 0, printed)
        /\ Holds(printed \o h, Len(printed), h)
    BY ConcatHolds DEF Typed
  <1>5. Extends
    BY <1>3, <1>4 DEF Extends, Holds
  <1>6. complete = Len(frames) /\ Ended(all, last)
    <2>1. \A u \in Writers : writer[u].pc # "data"
      BY FramingAssumption DEF PrintNoise, Writing
    <2>2. complete = Len(frames)
      BY <1>3, <2>1 DEF Writing
    <2>. QED  BY <1>1, <1>4, <2>2 DEF Good, Written, Tip, Halfway, Chain, Mark
  <1>7. all \in Seq(Byte) /\ last \in Mark /\ last.pos = Len(all) /\ last.f = Len(frames)
        /\ last.p = Len(printed)
    BY <1>1, <1>6 DEF Good, Written, Chain, Tip, Ended
  <1>8. all \o h \in Seq(Byte) /\ Len(all \o h) = last.pos + Len(h)
        /\ Holds(all \o h, last.pos, h)
    <2>1. all \o h \in Seq(Byte) /\ Len(all \o h) = Len(all) + Len(h)
          /\ Holds(all \o h, Len(all), h)
      BY <1>7, ConcatHolds
    <2>. QED  BY <1>7, <2>1
  <1>. DEFINE M(i) == [pos |-> last.pos + i, f |-> last.f, p |-> last.p + i]
  <1>9. \A i \in 0 .. Len(h) : /\ M(i) \in Mark /\ M(i).pos = last.pos + i
                               /\ M(i).f = last.f /\ M(i).p = last.p + i
    BY <1>7 DEF Mark
  <1>10. last = M(0) /\ Len(h) \in 0 .. Len(h)
    BY <1>7 DEF Mark
  <1>11. M(Len(h)).pos = Len(all \o h) /\ Tip(all \o h, M(Len(h)))'
    <2>1. M(Len(h)).pos = last.pos + Len(h) /\ M(Len(h)).f = last.f
          /\ M(Len(h)).p = last.p + Len(h)
      BY <1>9, <1>10
    <2>. HIDE DEF M
    <2>2. M(Len(h)).p = Len(printed') /\ M(Len(h)).pos = Len(all \o h)
      BY <1>3, <1>4, <1>7, <1>8, <2>1
    <2>. QED  BY <1>3, <1>4, <1>6, <1>7, <2>1, <2>2 DEF Tip, Ended
  <1>12. CASE ~Contains(h, Start1)
    <2>. DEFINE N == {M(i) : i \in 0 .. Len(h)}
    <2>1. N \in SUBSET Mark /\ M(Len(h)) \in N /\ last \in N
      <3>1. 0 \in 0 .. Len(h) /\ Len(h) \in 0 .. Len(h)
        OBVIOUS
      <3>. HIDE DEF M
      <3>. QED  BY <1>9, <1>10, <3>1
    <2>2. ASSUME NEW i \in 0 .. (Len(h) - 1)
          PROVE  LeapByte(all \o h, M(i), M(i + 1))'
      <3>1. i + 1 \in 1 .. Len(h) /\ i \in 0 .. Len(h) /\ i + 1 \in 0 .. Len(h)
        OBVIOUS
      <3>2. /\ (all \o h)[last.pos + (i + 1)] = h[i + 1]
            /\ (printed \o h)[Len(printed) + (i + 1)] = h[i + 1]
        BY <1>4, <1>8, <3>1 DEF Holds
      <3>3. h[i + 1] # Start1
        BY <1>12, <3>1 DEF Contains
      <3>4. /\ last.pos + (i + 1) = M(i).pos + 1 /\ Len(printed) + (i + 1) = M(i).p + 1
            /\ M(i + 1) = [pos |-> M(i).pos + 1, f |-> M(i).f, p |-> M(i).p + 1]
        BY <1>7, <3>1 DEF Mark
      <3>5. M(i).p + 1 <= Len(printed')
        BY <1>3, <1>4, <1>7, <3>1
      <3>. HIDE DEF M
      <3>. QED  BY <1>3, <3>2, <3>3, <3>4, <3>5 DEF LeapByte
    <2>3. \A c \in N \cup {last} :
             c.pos <= Len(all \o h) /\ (c = M(Len(h)) \/ \E d \in N : Leap(all \o h, c, d)')
      <3>1. SUFFICES ASSUME NEW i \in 0 .. Len(h)
                     PROVE  /\ M(i).pos <= Len(all \o h)
                            /\ M(i) = M(Len(h)) \/ \E d \in N : Leap(all \o h, M(i), d)'
        BY <2>1
      <3>2. M(i).pos <= Len(all \o h)
        BY <1>7, <1>8 DEF Mark
      <3>3. CASE i < Len(h)
        <4>1. i \in 0 .. (Len(h) - 1) /\ M(i + 1) \in N
          BY <3>3
        <4>2. Leap(all \o h, M(i), M(i + 1))'
          BY <2>2, <4>1 DEF Leap
        <4>. HIDE DEF M, N
        <4>. QED  BY <3>2, <4>1, <4>2
      <3>4. CASE i = Len(h)
        BY <3>2, <3>4
      <3>. QED  BY <3>3, <3>4
    <2>. HIDE DEF M, N
    <2>4. Good(all \o h, B \cup N, M(Len(h)), cur)'
      BY <1>1, <1>3, <1>5, <1>11, <2>1, <2>3, GoodGrows
    <2>. QED  BY <2>4 DEF Recoverable
  <1>13. CASE Contains(h, Start1)
    <2>1. Noisy'
      <3>1. PICK i \in 1 .. Len(h) : h[i] = Start1
        BY <1>13 DEF Contains
      <3>2. Len(printed) + i \in 1 .. Len(printed \o h) /\ (printed \o h)[Len(printed) + i] = Start1
        BY <1>4, <3>1 DEF Holds
      <3>. QED  BY <1>3, <3>2 DEF Noisy, Contains
    <2>2. \A i \in 1 .. Len(h) : (all \o h)[last.pos + i] = h[i]
      BY <1>8 DEF Holds
    <2>. HIDE DEF M
    <2>3. Leap(all \o h, last, M(Len(h)))'
      <3>1. M(Len(h)).pos = last.pos + Len(h) /\ M(Len(h)).f = last.f
        BY <1>9, <1>10
      <3>2. CASE Len(h) = 2 /\ h[1] = Start1 /\ h[2] # Start2
        <4>1. (all \o h)[last.pos + 1] = Start1 /\ (all \o h)[last.pos + 2] # Start2
          <5>1. 1 \in 1 .. Len(h) /\ 2 \in 1 .. Len(h)
            BY <3>2
          <5>. QED  BY <2>2, <3>2, <5>1, Zenon
        <4>. QED  BY <2>1, <3>1, <3>2, <4>1 DEF Leap, LeapFalse
      <3>3. CASE Len(h) = 4 /\ h[1] = Start1 /\ h[2] = Start2 /\ 256 * h[3] + h[4] > PacketMTU
        <4>1. /\ (all \o h)[last.pos + 1] = Start1 /\ (all \o h)[last.pos + 2] = Start2
              /\ (all \o h)[last.pos + 3] = h[3] /\ (all \o h)[last.pos + 4] = h[4]
          <5>1. 1 \in 1 .. Len(h) /\ 2 \in 1 .. Len(h) /\ 3 \in 1 .. Len(h) /\ 4 \in 1 .. Len(h)
            BY <3>3
          <5>. QED  BY <2>2, <3>3, <5>1, Zenon
        <4>. QED  BY <2>1, <3>1, <3>3, <4>1 DEF Leap, LeapHeader
      <3>. QED  BY <1>0, <1>2, <1>13, <3>2, <3>3 DEF SelfContained
    <2>4. M(Len(h)) \in Mark /\ last.pos <= Len(all \o h) /\ M(Len(h)).pos <= Len(all \o h)
      BY <1>7, <1>8, <1>9, <1>10, <1>11 DEF Mark
    <2>5. \A c \in {M(Len(h))} \cup {last} :
             /\ c.pos <= Len(all \o h)
             /\ c = M(Len(h)) \/ \E d \in {M(Len(h))} : Leap(all \o h, c, d)'
      BY <2>3, <2>4
    <2>6. {M(Len(h))} \in SUBSET Mark
      BY <2>4
    <2>7. Good(all \o h, B \cup {M(Len(h))}, M(Len(h)), cur)'
      BY <1>1, <1>3, <1>5, <1>11, <2>5, <2>6, GoodGrows
    <2>. QED  BY <2>7 DEF Recoverable
  <1>. QED  BY <1>12, <1>13
-----------------------------------------------------------------------------
(* Reading.                                                                *)

\* From a frame's mark the reader sees the header of the frame.
LEMMA FrameSeen ==
    ASSUME NEW all \in Seq(Byte), NEW c \in Mark, NEW v \in Data, NEW buf \in Seq(Byte),
           Holds(all, c.pos, Header(Len(v))), Holds(all, c.pos, buf)
    PROVE  /\ Len(buf) >= 1 => buf[1] = Start1
           /\ Len(buf) >= 2 => buf[2] = Start2
           /\ Len(buf) >= 4 => Length(buf) = Len(v) /\ ~TooLong(buf)
  <1>1. Len(v) \in Nat /\ Len(v) < 65536 /\ Len(v) <= PacketMTU /\ PacketMTU \in Nat
    BY DataBytes
  <1>2. c.pos \in Nat
    BY DEF Mark
  <1>3. /\ all[c.pos + 1] = Start1 /\ all[c.pos + 2] = Start2
        /\ all[c.pos + 3] = Len(v) \div 256 /\ all[c.pos + 4] = Len(v) % 256
        /\ 256 * (Len(v) \div 256) + (Len(v) % 256) = Len(v)
    <2>1. Headed(all, c.pos, Len(v)) /\ 256 * (Len(v) \div 256) + (Len(v) % 256) = Len(v)
      BY <1>1, <1>2, HeaderAt
    <2>. QED  BY <2>1 DEF Headed
  <1>4. Len(buf) \in Nat /\ \A j \in 1 .. Len(buf) : all[c.pos + j] = buf[j]
    BY DEF Holds
  <1>5. Len(buf) >= 1 => buf[1] = Start1
    BY <1>3, <1>4
  <1>6. Len(buf) >= 2 => buf[2] = Start2
    BY <1>3, <1>4
  <1>7. Len(buf) >= 4 => buf[3] = Len(v) \div 256 /\ buf[4] = Len(v) % 256
    BY <1>3, <1>4
  <1>8. Len(buf) >= 4 => Length(buf) = Len(v)
    BY <1>3, <1>7 DEF Length
  <1>. QED  BY <1>1, <1>5, <1>6, <1>8 DEF TooLong

\* Nothing is left to read and ReadBytes waits: it waits at the last mark.
LEMMA AtEnd ==
    ASSUME NEW all, NEW B, NEW last, NEW cur, Good(all, B, last, cur), Typed,
           wire = <<>>, reader.pc \notin {"return", "failed"}
    PROVE  cur = last
  <1>1. SUFFICES ASSUME cur # last PROVE FALSE
    OBVIOUS
  <1>2. PICK d \in B : Leap(all, cur, d)
    BY <1>1 DEF Good, Written, Chain
  <1>3. /\ all \in Seq(Byte) /\ cur \in Mark /\ d \in Mark /\ d.pos <= Len(all)
        /\ Reading(all, cur)
    BY DEF Good, Written, Chain
  <1>. DEFINE buf == reader.buf
  <1>4. buf \in Seq(Byte) /\ frames \in Seq(Data) /\ cur.pos \in Nat /\ d.pos \in Nat
    BY <1>3 DEF Typed, Mark
  <1>5. Len(all) = cur.pos + Len(buf) /\ Holds(all, cur.pos, buf) /\ Stage
    BY <1>3, <1>4 DEF Reading
  <1>6. Len(buf) \in Nat /\ \A j \in 1 .. Len(buf) : all[cur.pos + j] = buf[j]
    BY <1>4, <1>5 DEF Holds
  <1>7. CASE LeapFrame(all, cur, d)
    <2>1. PICK v \in Data : v = frames[cur.f + 1]
      <3>1. cur.f + 1 \in 1 .. Len(frames)
        BY <1>3, <1>4, <1>7 DEF LeapFrame, Mark
      <3>. QED  BY <1>4, <3>1
    <2>2. d.pos = cur.pos + 4 + Len(v) /\ Holds(all, cur.pos, Header(Len(v))) /\ Len(v) \in Nat
      BY <1>7, <2>1, DataBytes DEF LeapFrame
    <2>3. Len(buf) >= 4 + Len(v)
      BY <1>3, <1>4, <1>5, <1>6, <2>2
    <2>4. Length(buf) = Len(v)
      BY <1>3, <1>4, <1>5, <1>6, <2>2, <2>3, FrameSeen
    <2>. QED  BY <1>5, <1>6, <2>2, <2>3, <2>4 DEF Stage
  <1>8. CASE LeapByte(all, cur, d)
    <2>1. Len(buf) >= 1
      BY <1>3, <1>4, <1>5, <1>6, <1>8 DEF LeapByte
    <2>2. buf[1] # Start1
      BY <1>6, <1>8, <2>1 DEF LeapByte
    <2>. QED  BY <1>5, <2>1, <2>2 DEF Stage
  <1>9. CASE LeapFalse(all, cur, d)
    <2>1. Len(buf) >= 2
      BY <1>3, <1>4, <1>5, <1>6, <1>9 DEF LeapFalse
    <2>2. buf[2] # Start2
      BY <1>6, <1>9, <2>1 DEF LeapFalse
    <2>. QED  BY <1>5, <2>1, <2>2 DEF Stage
  <1>10. CASE LeapHeader(all, cur, d)
    <2>1. Len(buf) >= 4
      BY <1>3, <1>4, <1>5, <1>6, <1>10 DEF LeapHeader
    <2>2. all[cur.pos + 3] = buf[3] /\ all[cur.pos + 4] = buf[4]
      BY <1>6, <2>1
    <2>3. TooLong(buf)
      BY <1>10, <2>2 DEF LeapHeader, TooLong, Length
    <2>. QED  BY <1>5, <1>6, <2>1, <2>3 DEF Stage
  <1>. QED  BY <1>2, <1>7, <1>8, <1>9, <1>10 DEF Leap

\* At the last mark everything has come out.
LEMMA AllOut ==
    ASSUME NEW all, NEW B, NEW last, Good(all, B, last, last), Typed
    PROVE  complete <= Len(received) /\ (Noisy \/ debug = printed)
  <1>1. complete <= Len(received) /\ last.p = Len(printed)
    BY DEF Good, Written, Tip, Taken
  <1>2. CASE ~Noisy
    <2>1. debug \in Seq(Byte) /\ printed \in Seq(Byte)
      BY DEF Typed
    <2>2. Len(debug) = Len(printed) /\ Holds(printed, 0, debug)
      BY <1>1, <1>2 DEF Good, Taken
    <2>3. \A j \in 1 .. Len(debug) : printed[j] = debug[j]
      BY <2>1, <2>2, HoldsStart
    <2>. QED  BY <1>1, <2>1, <2>2, <2>3, SeqEqual
  <1>. QED  BY <1>1, <1>2

\* ReadBytes fails: the stream is drained.
LEMMA FailsGood ==
    ASSUME Typed, Recoverable, ~stray, ReadFails
    PROVE  Recoverable'
  <1>1. PICK all, B, last, cur : Good(all, B, last, cur)
    BY DEF Recoverable
  <1>2. cur = last
    BY <1>1, AtEnd DEF ReadFails
  <1>3. complete <= Len(received) /\ (Noisy \/ debug = printed)
    BY <1>1, <1>2, AllOut
  <1>4. /\ wire = <<>> /\ closed /\ reader'.pc = "failed"
        /\ UNCHANGED <<wire, closed, frames, complete, printed, received, debug>>
    BY DEF ReadFails
  <1>5. Drained'
    BY <1>3, <1>4 DEF Drained, Noisy
  <1>6. Written(all, B, last)' /\ Taken(cur)' /\ cur \in B
    BY <1>1, <1>4 DEF Good, Written, Chain, Tip, Ended, Halfway, Leap, LeapFrame, LeapByte,
                      LeapFalse, LeapHeader, Taken, Noisy
  <1>7. Good(all, B, last, cur)'
    BY <1>4, <1>5, <1>6 DEF Good
  <1>. QED  BY <1>7 DEF Recoverable

\* Where ReadBytes goes on, by the number of bytes it has.
LEMMA AdvanceTo ==
    ASSUME NEW buf \in Seq(Byte), NEW n \in Nat, n = Len(buf), n >= 1
    PROVE  /\ n = 1 => Advance(buf) = IF buf[1] = Start1 THEN "start2" ELSE "start1"
           /\ n = 2 => Advance(buf) = IF buf[2] = Start2 THEN "length" ELSE "start1"
           /\ n = 3 => Advance(buf) = "length"
           /\ n >= 4 =>
                 Advance(buf) = IF TooLong(buf) THEN "start1"
                                ELSE IF n = 4 + Length(buf) THEN "return" ELSE "data"
  <1>1. n = 1 => Advance(buf) = IF buf[1] = Start1 THEN "start2" ELSE "start1"
    BY DEF Advance
  <1>2. n = 2 => Advance(buf) = IF buf[2] = Start2 THEN "length" ELSE "start1"
    BY DEF Advance
  <1>3. n = 3 => Advance(buf) = "length"
    BY DEF Advance
  <1>4. ASSUME n >= 4
        PROVE  Advance(buf) = IF TooLong(buf) THEN "start1"
                              ELSE IF n = 4 + Length(buf) THEN "return" ELSE "data"
    <2>1. n # 1 /\ n # 2 /\ n # 3
      BY <1>4
    <2>2. Len(buf) # 1 /\ Len(buf) # 2 /\ Len(buf) # 3 /\ Len(buf) >= 4
      BY <1>4, <2>1, Zenon
    <2>. QED  BY <2>2, Zenon DEF Advance
  <1>. QED  BY <1>1, <1>2, <1>3, <1>4, Zenon

\* From position k on, all is s and then t.
Split(all, k, s, t) ==
    Len(all) = k + Len(s) + Len(t) /\ Holds(all, k, s) /\ Holds(all, k + Len(s), t)

\* A byte moves from the wire to what the reader has.
LEMMA MoveByte ==
    ASSUME NEW all \in Seq(Byte), NEW k \in Nat, NEW old \in Seq(Byte), NEW w \in Seq(Byte),
           w # <<>>, Split(all, k, old, w)
    PROVE  Split(all, k, Append(old, Head(w)), Tail(w))
  <1>0. PICK buf \in Seq(Byte), rest \in Seq(Byte) : buf = Append(old, Head(w)) /\ rest = Tail(w)
    BY HeadTailProperties, AppendProperties
  <1>1. /\ Len(old) \in Nat /\ Len(rest) \in Nat
        /\ Len(buf) = Len(old) + 1 /\ Len(w) = Len(rest) + 1
        /\ \A j \in 1 .. Len(old) : buf[j] = old[j]
        /\ buf[Len(old) + 1] = w[1] /\ \A j \in 1 .. Len(rest) : rest[j] = w[j + 1]
    BY <1>0
  <1>2. ASSUME NEW j \in 1 .. Len(buf)
        PROVE  all[k + j] = buf[j]
    <2>1. CASE j = Len(old) + 1
      <3>1. all[(k + Len(old)) + 1] = w[1] /\ (k + Len(old)) + 1 = k + j
        BY <1>1, <2>1 DEF Split, Holds
      <3>. QED  BY <1>1, <2>1, <3>1
    <2>2. CASE j \in 1 .. Len(old)
      BY <1>1, <2>2 DEF Split, Holds
    <2>. QED  BY <1>1, <2>1, <2>2
  <1>3. ASSUME NEW j \in 1 .. Len(rest)
        PROVE  all[(k + Len(buf)) + j] = rest[j]
    <2>1. j + 1 \in 1 .. Len(w) /\ (k + Len(buf)) + j = (k + Len(old)) + (j + 1)
      BY <1>1
    <2>2. all[(k + Len(old)) + (j + 1)] = w[j + 1]
      BY <2>1 DEF Split, Holds
    <2>. QED  BY <1>1, <2>1, <2>2
  <1>4. Split(all, k, buf, rest)
    BY <1>1, <1>2, <1>3 DEF Split, Holds
  <1>. QED  BY <1>0, <1>4, Zenon

\* Where a reader that has not returned was, so is what it has, up to the next byte.
LEMMA StageKept ==
    ASSUME Typed, Stage, reader.pc \notin {"return", "failed"},
           NEW buf \in Seq(Byte), NEW n \in Nat, n = Len(buf), n = Len(reader.buf) + 1,
           \A j \in 1 .. Len(reader.buf) : buf[j] = reader.buf[j]
    PROVE  /\ n >= 1
           /\ n >= 2 => buf[1] = Start1
           /\ n >= 3 => buf[2] = Start2
           /\ n >= 5 => ~TooLong(buf) /\ n <= 4 + Length(buf)
           /\ n >= 4 => Length(buf) \in Nat
  <1>1. PICK m \in Nat : m = Len(reader.buf)
    BY DEF Typed
  <1>2. reader.buf \in Seq(Byte)
    BY DEF Typed
  <1>3. n = m + 1 /\ \A j \in 1 .. m : buf[j] = reader.buf[j]
    BY <1>1
  <1>4. /\ m >= 1 => reader.buf[1] = Start1
        /\ m >= 2 => reader.buf[2] = Start2
        /\ m >= 4 => ~TooLong(reader.buf) /\ m < 4 + Length(reader.buf)
    BY <1>1 DEF Stage
  <1>5. n >= 4 => Length(buf) \in Nat
    <2>1. ASSUME n >= 4 PROVE buf[3] \in Byte /\ buf[4] \in Byte
      <3>1. 3 \in 1 .. Len(buf) /\ 4 \in 1 .. Len(buf)
        BY <2>1
      <3>. QED  BY <3>1, ElementOfSeq
    <2>2. Byte \subseteq Nat
      BY DEF Byte
    <2>3. ASSUME n >= 4 PROVE buf[3] \in Nat /\ buf[4] \in Nat
      BY <2>1, <2>2, <2>3, Zenon
    <2>. QED  BY <2>3 DEF Length
  <1>6. m >= 4 => Length(buf) = Length(reader.buf)
    BY <1>3 DEF Length
  <1>7. (m >= 1 => buf[1] = Start1) /\ (m >= 2 => buf[2] = Start2)
    BY <1>3, <1>4
  <1>8. (m >= 1 <=> n >= 2) /\ (m >= 2 <=> n >= 3) /\ (m >= 4 <=> n >= 5) /\ n >= 1
    BY <1>3
  <1>9. m >= 4 => ~TooLong(buf) /\ m < 4 + Length(buf)
    BY <1>4, <1>6 DEF TooLong
  <1>10. n >= 5 => n <= 4 + Length(buf)
    BY <1>3, <1>5, <1>8, <1>9
  <1>. QED  BY <1>5, <1>7, <1>8, <1>9, <1>10

\* A byte is read.  It belongs to what the reader is in, or ends a piece of noise.
LEMMA ByteGood ==
    ASSUME Typed, Recoverable, ~stray, ReadByte
    PROVE  Recoverable'
  <1>1. PICK all, B, last, cur : Good(all, B, last, cur)
    BY DEF Recoverable
  <1>4. /\ wire \in Seq(Byte) /\ wire # <<>> /\ reader.buf \in Seq(Byte)
        /\ frames \in Seq(Data) /\ printed \in Seq(Byte) /\ debug \in Seq(Byte)
    BY DEF Typed, ReadByte
  <1>2. PICK buf \in Seq(Byte) : buf = Append(reader.buf, Head(wire))
    BY <1>4, HeadTailProperties, AppendProperties
  <1>3. PICK rest \in Seq(Byte) : rest = Tail(wire)
    BY <1>4, HeadTailProperties
  <1>17. PICK n \in Nat : n = Len(buf)
    OBVIOUS
  <1>5. /\ wire' = rest
        /\ reader' = [pc |-> Advance(buf), buf |-> IF Advance(buf) = "start1" THEN <<>> ELSE buf]
        /\ debug' = IF Len(buf) = 1 /\ buf[1] # Start1 THEN debug \o buf ELSE debug
        /\ UNCHANGED <<closed, frames, complete, printed, received>>
        /\ reader.pc \notin {"return", "failed"}
    BY <1>2, <1>3 DEF ReadByte
  <1>6. all \in Seq(Byte) /\ cur \in Mark /\ cur \in B /\ Reading(all, cur) /\ Taken(cur)
    BY <1>1, <1>5 DEF Good, Written, Chain
  <1>7. cur.pos \in Nat /\ cur.f \in Nat /\ cur.p \in Nat
    BY <1>6 DEF Mark
  <1>8. Stage /\ Len(all) = cur.pos + Len(reader.buf) + Len(wire)
        /\ Holds(all, cur.pos, reader.buf) /\ Holds(all, cur.pos + Len(reader.buf), wire)
    BY <1>6 DEF Reading
  <1>9. /\ Len(buf) = Len(reader.buf) + 1 /\ Len(all) = cur.pos + Len(buf) + Len(rest)
        /\ Holds(all, cur.pos, buf) /\ Holds(all, cur.pos + Len(buf), rest)
        /\ \A j \in 1 .. Len(reader.buf) : buf[j] = reader.buf[j]
    <2>1. Split(all, cur.pos, reader.buf, wire)
      BY <1>8 DEF Split
    <2>2. Split(all, cur.pos, buf, rest)
      BY <1>2, <1>3, <1>4, <1>6, <1>7, <2>1, MoveByte, Zenon
    <2>3. Len(buf) = Len(reader.buf) + 1 /\ \A j \in 1 .. Len(reader.buf) : buf[j] = reader.buf[j]
      BY <1>2, <1>4, HeadTailProperties, AppendProperties
    <2>. QED  BY <2>2, <2>3 DEF Split
  <1>11. Written(all, B, last)'
    BY <1>1, <1>5 DEF Good, Written, Chain, Tip, Ended, Halfway, Leap, LeapFrame, LeapByte,
                      LeapFalse, LeapHeader, Noisy
  <1>12. \A j \in 1 .. n : all[cur.pos + j] = buf[j]
    BY <1>9, <1>17 DEF Holds
  <1>16. /\ n >= 1
         /\ n >= 2 => buf[1] = Start1
         /\ n >= 3 => buf[2] = Start2
         /\ n >= 5 => ~TooLong(buf) /\ n <= 4 + Length(buf)
         /\ n >= 4 => Length(buf) \in Nat
    BY <1>5, <1>8, <1>9, <1>17, StageKept
  <1>15. all[cur.pos + 1] = buf[1] /\ (n >= 2 => all[cur.pos + 2] = buf[2])
    BY <1>12, <1>16
  <1>18. /\ n = 1 => Advance(buf) = IF buf[1] = Start1 THEN "start2" ELSE "start1"
         /\ n = 2 => Advance(buf) = IF buf[2] = Start2 THEN "length" ELSE "start1"
         /\ n = 3 => Advance(buf) = "length"
         /\ n >= 4 => Advance(buf) = IF TooLong(buf) THEN "start1"
                                     ELSE IF n = 4 + Length(buf) THEN "return" ELSE "data"
    BY <1>16, <1>17, AdvanceTo
  <1>13. CASE Advance(buf) # "start1"
    <2>1. reader'.pc = Advance(buf) /\ reader'.buf = buf /\ debug' = debug
      BY <1>5, <1>13, <1>17, <1>18
    <2>2. Stage' /\ reader'.pc # "failed"
      <3>0. reader'.pc = Advance(buf) /\ reader'.buf = buf /\ Len(reader'.buf) = n
        BY <1>17, <2>1
      <3>1. CASE n = 1
        BY <1>13, <1>18, <3>0, <3>1 DEF Stage
      <3>2. CASE n = 2 \/ n = 3
        <4>1. Advance(buf) = "length" /\ buf[1] = Start1 /\ buf[2] = Start2
          BY <1>13, <1>16, <1>18, <3>2
        <4>. QED  BY <3>0, <3>2, <4>1, Zenon DEF Stage
      <3>3. CASE n >= 4
        <4>1. /\ buf[1] = Start1 /\ buf[2] = Start2 /\ ~TooLong(buf)
              /\ \/ Advance(buf) = "return" /\ n = 4 + Length(buf)
                 \/ Advance(buf) = "data" /\ n < 4 + Length(buf)
          BY <1>13, <1>16, <1>18, <3>3
        <4>2. reader'.pc # "failed" /\ \/ reader'.pc = "return" /\ n = 4 + Length(buf)
                                       \/ reader'.pc = "data" /\ n < 4 + Length(buf)
          BY <3>0, <4>1
        <4>. QED  BY <3>0, <3>3, <4>1, <4>2, Zenon DEF Stage
      <3>. QED  BY <1>16, <3>1, <3>2, <3>3
    <2>3. Reading(all, cur)'
      BY <1>5, <1>9, <2>1, <2>2 DEF Reading
    <2>4. Good(all, B, last, cur)'
      BY <1>5, <1>6, <1>11, <2>1, <2>2, <2>3 DEF Good, Taken, Noisy
    <2>. QED  BY <2>4 DEF Recoverable
  <1>14. CASE Advance(buf) = "start1"
    <2>1. reader'.pc = "start1" /\ reader'.buf = <<>>
      BY <1>5, <1>14
    <2>2. \/ n = 1 /\ buf[1] # Start1
          \/ n = 2 /\ buf[1] = Start1 /\ buf[2] # Start2
          \/ n = 4 /\ buf[1] = Start1 /\ buf[2] = Start2 /\ TooLong(buf)
      BY <1>14, <1>16, <1>18
    <2>3. \E d \in B : d.pos = cur.pos + n /\ Taken(d)'
      <3>1. ASSUME NEW v \in Data, Holds(all, cur.pos, Header(Len(v))) PROVE FALSE
        BY <1>6, <1>9, <1>17, <2>2, <3>1, FrameSeen
      <3>2. cur # last
        <4>1. SUFFICES ASSUME cur = last PROVE FALSE
          OBVIOUS
        <4>2. Halfway(all, last)
          BY <1>1, <1>7, <1>9, <1>16, <1>17, <4>1 DEF Good, Written, Tip, Ended
        <4>3. PICK v \in Data : v = frames[Len(frames)]
          <5>1. Len(frames) \in 1 .. Len(frames)
            BY <1>4, <1>7, <4>1, <4>2 DEF Halfway
          <5>. QED  BY <1>4, <5>1
        <4>. QED  BY <3>1, <4>1, <4>2, <4>3 DEF Halfway
      <3>3. PICK d \in B : Leap(all, cur, d)
        BY <1>1, <1>6, <3>2 DEF Good, Written, Chain
      <3>4. ~LeapFrame(all, cur, d)
        <4>1. SUFFICES ASSUME LeapFrame(all, cur, d) PROVE FALSE
          OBVIOUS
        <4>2. PICK v \in Data : v = frames[cur.f + 1]
          <5>1. cur.f + 1 \in 1 .. Len(frames)
            BY <1>4, <1>7, <4>1, SMTT(30) DEF LeapFrame
          <5>. QED  BY <1>4, <5>1
        <4>. QED  BY <3>1, <4>1, <4>2 DEF LeapFrame
      <3>5. CASE LeapByte(all, cur, d)
        <4>1. all[cur.pos + 1] = buf[1] /\ buf[1] # Start1
          BY <1>15, <1>16, <2>2, <3>5 DEF LeapByte
        <4>2. n = 1 /\ debug' = debug \o buf
          BY <1>5, <1>17, <2>2, <4>1
        <4>3. /\ d.pos = cur.pos + 1 /\ d.f = cur.f /\ d.p = cur.p + 1
              /\ printed[cur.p + 1] = buf[1] /\ cur.p + 1 <= Len(printed)
          BY <3>5, <4>1 DEF LeapByte
        <4>4. ASSUME ~Noisy PROVE Len(debug') = d.p /\ Holds(printed, 0, debug')
          <5>1. Len(debug) = cur.p /\ Holds(printed, 0, debug)
            BY <1>6, <4>4 DEF Taken
          <5>2. Len(debug \o buf) = cur.p + 1 /\ (debug \o buf)[cur.p + 1] = buf[1]
                /\ \A j \in 1 .. Len(debug) : (debug \o buf)[j] = debug[j]
            <6>1. /\ Len(debug \o buf) = Len(debug) + n
                  /\ \A j \in 1 .. Len(debug) + n : (debug \o buf)[j] =
                        IF j <= Len(debug) THEN debug[j] ELSE buf[j - Len(debug)]
              BY <1>4, <1>17, ConcatProperties
            <6>2. cur.p + 1 \in 1 .. cur.p + n /\ ~(cur.p + 1 <= cur.p) /\ (cur.p + 1) - cur.p = 1
                  /\ \A j \in 1 .. cur.p : j \in 1 .. cur.p + n /\ j <= cur.p
              BY <1>7, <4>2
            <6>. QED  BY <4>2, <5>1, <6>1, <6>2
          <5>3. \A j \in 1 .. Len(debug) : printed[j] = debug[j]
            BY <1>4, <5>1, HoldsStart
          <5>4. ASSUME NEW j \in 1 .. Len(debug \o buf)
                PROVE  printed[0 + j] = (debug \o buf)[j]
            <6>1. j \in 1 .. Len(debug) \/ j = cur.p + 1
              BY <1>7, <5>1, <5>2
            <6>. QED  BY <4>3, <5>2, <5>3, <6>1
          <5>. QED  BY <4>2, <4>3, <5>2, <5>4 DEF Holds
        <4>5. Taken(d)'
          BY <1>5, <1>6, <4>3, <4>4 DEF Taken, Noisy
        <4>. QED  BY <4>2, <4>3, <4>5
      <3>6. CASE LeapFalse(all, cur, d)
        <4>1. n = 2
          <5>1. buf[1] = Start1
            BY <1>15, <1>16, <2>2, <3>6 DEF LeapFalse
          <5>2. n # 4
            BY <1>15, <1>16, <2>2, <3>6 DEF LeapFalse
          <5>. QED  BY <2>2, <5>1, <5>2
        <4>2. d.pos = cur.pos + 2 /\ d.f = cur.f /\ Noisy
          BY <3>6 DEF LeapFalse
        <4>3. Taken(d)'
          BY <1>5, <1>6, <4>2 DEF Taken, Noisy
        <4>. QED  BY <4>1, <4>2, <4>3
      <3>7. CASE LeapHeader(all, cur, d)
        <4>1. n = 4
          <5>1. buf[1] = Start1
            BY <1>15, <1>16, <2>2, <3>7 DEF LeapHeader
          <5>2. n # 2
            BY <1>15, <1>16, <2>2, <3>7 DEF LeapHeader
          <5>. QED  BY <2>2, <5>1, <5>2
        <4>2. d.pos = cur.pos + 4 /\ d.f = cur.f /\ Noisy
          BY <3>7 DEF LeapHeader
        <4>3. Taken(d)'
          BY <1>5, <1>6, <4>2 DEF Taken, Noisy
        <4>. QED  BY <4>1, <4>2, <4>3
      <3>. QED  BY <3>3, <3>4, <3>5, <3>6, <3>7 DEF Leap
    <2>4. PICK d \in B : d.pos = cur.pos + n /\ Taken(d)'
      BY <2>3
    <2>5. Reading(all, d)'
      <3>1. Stage'
        BY <2>1 DEF Stage
      <3>2. Len(all) = d.pos + 0 + Len(rest) /\ d.pos + 0 = d.pos /\ d.pos \in Nat
        BY <1>7, <1>9, <1>17, <2>4
      <3>3. Holds(all, d.pos, <<>>)
        BY <3>2 DEF Holds
      <3>. QED  BY <1>5, <1>9, <1>17, <2>1, <2>4, <3>1, <3>2, <3>3 DEF Reading
    <2>6. Good(all, B, last, d)'
      BY <1>11, <2>1, <2>4, <2>5 DEF Good
    <2>. QED  BY <2>6 DEF Recoverable
  <1>. QED  BY <1>13, <1>14

\* One more element at the end of a sequence leaves the others where they are.
LEMMA AppendOne ==
    ASSUME NEW S, NEW s \in Seq(S), NEW v \in S
    PROVE  /\ Len(Append(s, v)) = Len(s) + 1
           /\ \A j \in 1 .. Len(s) : Append(s, v)[j] = s[j]
           /\ Append(s, v)[Len(s) + 1] = v
BY AppendProperties

\* ReadBytes returns: what it has is the header and the data of the next frame.
LEMMA ReturnGood ==
    ASSUME Typed, Recoverable, ~stray, ReadReturns
    PROVE  Recoverable'
  <1>1. PICK all, B, last, cur : Good(all, B, last, cur)
    BY DEF Recoverable
  <1>2. PICK buf \in Seq(Byte) : buf = reader.buf
    BY DEF Typed
  <1>3. PICK n \in Nat : n = Len(buf)
    OBVIOUS
  <1>4. /\ frames \in Seq(Data) /\ received \in Seq(Seq(Byte)) /\ wire \in Seq(Byte)
        /\ reader' = Scan /\ received' = Append(received, SubSeq(buf, 5, n))
        /\ UNCHANGED <<wire, closed, frames, complete, printed, debug>>
        /\ reader.pc = "return"
    BY <1>2, <1>3 DEF Typed, ReadReturns
  <1>5. all \in Seq(Byte) /\ cur \in Mark /\ cur \in B /\ Reading(all, cur) /\ Taken(cur)
    BY <1>1, <1>4 DEF Good, Written, Chain
  <1>6. cur.pos \in Nat /\ cur.f \in Nat /\ cur.p \in Nat
    BY <1>5 DEF Mark
  <1>7. /\ Len(all) = cur.pos + n + Len(wire)
        /\ Holds(all, cur.pos, buf) /\ Holds(all, cur.pos + n, wire)
    BY <1>2, <1>3, <1>5 DEF Reading
  <1>8. n >= 4 /\ buf[1] = Start1 /\ buf[2] = Start2 /\ ~TooLong(buf) /\ n = 4 + Length(buf)
    BY <1>2, <1>3, <1>4, <1>5 DEF Reading, Stage
  <1>9. /\ \A j \in 1 .. n : all[cur.pos + j] = buf[j]
        /\ all[cur.pos + 1] = buf[1] /\ all[cur.pos + 2] = buf[2]
        /\ all[cur.pos + 3] = buf[3] /\ all[cur.pos + 4] = buf[4]
    <2>1. \A j \in 1 .. n : all[cur.pos + j] = buf[j]
      BY <1>3, <1>7 DEF Holds
    <2>. QED  BY <1>8, <2>1
  <1>10. ASSUME NEW v \in Data, Holds(all, cur.pos, Header(Len(v)))
         PROVE  Length(buf) = Len(v)
    BY <1>3, <1>5, <1>7, <1>8, <1>10, FrameSeen
  <1>11. cur # last
    <2>1. SUFFICES ASSUME cur = last PROVE FALSE
      OBVIOUS
    <2>2. Halfway(all, last)
      BY <1>1, <1>4, <1>6, <1>7, <1>8, <2>1 DEF Good, Written, Tip, Ended
    <2>3. PICK v \in Data : v = frames[Len(frames)]
      <3>1. Len(frames) \in 1 .. Len(frames)
        BY <1>4, <1>6, <2>1, <2>2 DEF Halfway
      <3>. QED  BY <1>4, <3>1
    <2>4. Len(v) = Length(buf) /\ v # <<>> /\ Len(all) = cur.pos + 4
      BY <1>10, <2>1, <2>2, <2>3 DEF Halfway
    <2>5. v \in Seq(Byte) /\ Len(wire) \in Nat /\ Len(v) \in Nat
      BY <1>4, DataBytes
    <2>6. Len(v) = 0
      BY <1>3, <1>6, <1>7, <1>8, <2>4, <2>5
    <2>. QED  BY <2>4, <2>5, <2>6
  <1>12. PICK d \in B : Leap(all, cur, d)
    BY <1>1, <1>5, <1>11 DEF Good, Written, Chain
  <1>13. LeapFrame(all, cur, d)
    BY <1>8, <1>9, <1>12 DEF Leap, LeapByte, LeapFalse, LeapHeader, TooLong, Length
  <1>14. PICK v \in Data : v = frames[cur.f + 1] /\ cur.f + 1 <= Len(frames)
    <2>1. cur.f + 1 \in 1 .. Len(frames)
      BY <1>4, <1>6, <1>13, SMTT(30) DEF LeapFrame
    <2>. QED  BY <1>4, <2>1
  <1>15. /\ d.pos = cur.pos + 4 + Len(v) /\ d.f = cur.f + 1 /\ d.p = cur.p
         /\ Holds(all, cur.pos, Header(Len(v))) /\ Holds(all, cur.pos + 4, v)
    BY <1>13, <1>14 DEF LeapFrame
  <1>16. v \in Seq(Byte) /\ Len(v) \in Nat /\ Length(buf) = Len(v) /\ n = 4 + Len(v)
    BY <1>8, <1>10, <1>15, DataBytes
  <1>17. SubSeq(buf, 5, n) = v
    <2>1. \A i \in 5 .. n : buf[i] \in Byte
      BY <1>3
    <2>2. /\ SubSeq(buf, 5, n) \in Seq(Byte) /\ Len(SubSeq(buf, 5, n)) = IF 5 <= n THEN n - 5 + 1 ELSE 0
          /\ \A i \in 1 .. n - 5 + 1 : SubSeq(buf, 5, n)[i] = buf[5 + i - 1]
      BY <2>1, SubSeqProperties
    <2>3. Len(SubSeq(buf, 5, n)) = Len(v) /\ n - 5 + 1 = Len(v)
      BY <1>16, <2>2
    <2>4. ASSUME NEW i \in 1 .. Len(v)
          PROVE  SubSeq(buf, 5, n)[i] = v[i]
      <3>1. SubSeq(buf, 5, n)[i] = buf[5 + i - 1] /\ 5 + i - 1 = 4 + i /\ 4 + i \in 1 .. n
        BY <1>16, <2>2, <2>3
      <3>2. all[cur.pos + (4 + i)] = buf[4 + i] /\ cur.pos + (4 + i) = (cur.pos + 4) + i
        <4>1. i \in Nat
          BY <1>16
        <4>2. all[cur.pos + (4 + i)] = buf[4 + i]
          BY <1>9, <3>1, Zenon
        <4>. QED  BY <1>6, <4>1, <4>2, SMTT(30)
      <3>3. all[(cur.pos + 4) + i] = v[i]
        BY <1>15 DEF Holds
      <3>. QED  BY <3>1, <3>2, <3>3
    <2>. QED  BY <1>16, <2>2, <2>3, <2>4, SeqEqual
  <1>18. Taken(d)'
    <2>1. Len(received) = cur.f /\ Holds(frames, 0, received)
      BY <1>5 DEF Taken
    <2>2. /\ Len(received') = cur.f + 1 /\ received'[cur.f + 1] = v
          /\ \A j \in 1 .. cur.f : received'[j] = received[j]
      <3>1. received' = Append(received, v)
        BY <1>4, <1>17, Zenon
      <3>2. /\ Len(Append(received, v)) = Len(received) + 1
            /\ \A j \in 1 .. Len(received) : Append(received, v)[j] = received[j]
            /\ Append(received, v)[Len(received) + 1] = v
        BY <1>4, <1>16, AppendOne, Zenon
      <3>. QED  BY <2>1, <3>1, <3>2, Zenon
    <2>3. \A j \in 1 .. cur.f : frames[j] = received[j]
      BY <1>4, <2>1, HoldsStart, SMTT(30)
    <2>4. ASSUME NEW j \in 1 .. cur.f + 1
          PROVE  frames[0 + j] = received'[j]
      <3>1. j \in 1 .. cur.f \/ j = cur.f + 1
        BY <1>6
      <3>. QED  BY <1>14, <2>2, <2>3, <3>1
    <2>. QED  BY <1>4, <1>5, <1>14, <1>15, <2>2, <2>4, SMTT(30) DEF Taken, Holds, Noisy
  <1>19. Reading(all, d)'
    <2>1. reader'.pc = "start1" /\ reader'.buf = <<>> /\ wire' = wire
      BY <1>4 DEF Scan
    <2>2. d.pos = cur.pos + n /\ d.pos + 0 = d.pos /\ d.pos \in Nat /\ Len(wire) \in Nat
      <3>1. d.pos = cur.pos + 4 + Len(v) /\ Len(v) \in Nat /\ n = 4 + Len(v)
        BY <1>15, <1>16
      <3>2. PICK m \in Nat : m = Len(v)
        BY <3>1
      <3>3. d.pos = cur.pos + n
        BY <1>6, <3>1, <3>2
      <3>4. Len(wire) \in Nat
        BY <1>4
      <3>. QED  BY <1>6, <3>3, <3>4
    <2>3. Len(all) = d.pos + 0 + Len(wire) /\ Holds(all, d.pos + 0, wire) /\ Holds(all, d.pos, <<>>)
      BY <1>7, <2>2 DEF Holds
    <2>. QED  BY <2>1, <2>3 DEF Reading, Stage
  <1>20. Written(all, B, last)'
    BY <1>1, <1>4 DEF Good, Written, Chain, Tip, Ended, Halfway, Leap, LeapFrame, LeapByte,
                      LeapFalse, LeapHeader, Noisy
  <1>21. Good(all, B, last, d)'
    BY <1>4, <1>18, <1>19, <1>20 DEF Good, Scan
  <1>. QED  BY <1>21 DEF Recoverable
-----------------------------------------------------------------------------
(* The invariant.                                                          *)

\* A step keeps the types.
LEMMA TypedStep ==
    ASSUME Typed, Writing, FramingNext
    PROVE  Typed'
  <1>1. ASSUME NEW w \in Writers, NEW d \in Payloads, Submit(w, d) PROVE Typed'
    BY <1>1 DEF Typed, Submit
  <1>2. ASSUME NEW w \in Writers, Lock(w) PROVE Typed'
    BY <1>2 DEF Typed, Lock
  <1>3. ASSUME NEW w \in Writers, WriteHeader(w) PROVE Typed'
    <2>1. PICK v \in Data : v = writer[w].data
      BY <1>3 DEF WriteHeader, Writing
    <2>2. Header(Len(v)) \in Seq(Byte)
      BY DataBytes, HeaderAt
    <2>3. wire \o Header(Len(v)) \in Seq(Byte)
      BY <2>2, ConcatProperties DEF Typed
    <2>4. wire' \in Seq(Byte) /\ frames' \in Seq(Data)
      BY <1>3, <2>1, <2>3 DEF Typed, WriteHeader
    <2>5. writer' = [writer EXCEPT ![w].pc = "data"]
      BY <1>3 DEF WriteHeader
    <2>6. writer' \in [Writers -> [pc : {"idle", "lock", "header", "data", "failed"},
                                   data : Payloads \cup {<<>>}]]
      BY <2>5 DEF Typed
    <2>. QED  BY <1>3, <2>4, <2>6 DEF Typed, WriteHeader
  <1>4. ASSUME NEW w \in Writers, WriteData(w) PROVE Typed'
    <2>1. writer[w].data \in Seq(Byte)
      BY <1>4, DataBytes DEF WriteData, Writing
    <2>2. wire' \in Seq(Byte)
      BY <1>4, <2>1, ConcatProperties DEF Typed, WriteData
    <2>3. writer' \in [Writers -> [pc : {"idle", "lock", "header", "data", "failed"},
                                   data : Payloads \cup {<<>>}]]
      BY <1>4 DEF Typed, WriteData, Idle
    <2>. QED  BY <1>4, <2>2, <2>3 DEF Typed, WriteData
  <1>5. ASSUME NEW w \in Writers, WriteFails(w) PROVE Typed'
    BY <1>5 DEF Typed, WriteFails
  <1>6. ASSUME NEW n \in Noise, PrintNoise(n) PROVE Typed'
    <2>1. n \in Seq(Byte)
      BY FramingAssumption
    <2>2. wire' \in Seq(Byte) /\ printed' \in Seq(Byte)
      BY <1>6, <2>1, ConcatProperties DEF Typed, PrintNoise
    <2>3. stray' \in BOOLEAN
      BY <1>6 DEF PrintNoise
    <2>. QED  BY <1>6, <2>2, <2>3 DEF Typed, PrintNoise
  <1>7. ASSUME CloseStream PROVE Typed'
    BY <1>7 DEF Typed, CloseStream
  <1>8. ASSUME ReadByte PROVE Typed'
    <2>1. wire \in Seq(Byte) /\ wire # <<>> /\ reader.buf \in Seq(Byte) /\ debug \in Seq(Byte)
      BY <1>8 DEF Typed, ReadByte
    <2>2. PICK buf \in Seq(Byte) : buf = Append(reader.buf, Head(wire))
      BY <2>1, HeadTailProperties, AppendProperties
    <2>3. PICK n \in Nat : n = Len(buf)
      OBVIOUS
    <2>4. n >= 1
      BY <2>1, <2>2, <2>3, HeadTailProperties, AppendProperties
    <2>5. Advance(buf) \in {"start1", "start2", "length", "data", "return", "failed"}
      <3>1. n = 1 \/ n = 2 \/ n = 3 \/ n >= 4
        BY <2>4
      <3>. QED  BY <2>3, <2>4, <3>1, AdvanceTo
    <2>6. /\ reader' = [pc |-> Advance(buf), buf |-> IF Advance(buf) = "start1" THEN <<>> ELSE buf]
          /\ debug' = IF Len(buf) = 1 /\ buf[1] # Start1 THEN debug \o buf ELSE debug
          /\ wire' = Tail(wire)
      BY <1>8, <2>2 DEF ReadByte
    <2>7. debug' \in Seq(Byte)
      BY <2>1, <2>6, ConcatProperties
    <2>8. wire' \in Seq(Byte)
      BY <2>1, <2>6, HeadTailProperties
    <2>9. (IF Advance(buf) = "start1" THEN <<>> ELSE buf) \in Seq(Byte)
      BY EmptySeq
    <2>. QED  BY <1>8, <2>5, <2>6, <2>7, <2>8, <2>9 DEF Typed, ReadByte
  <1>9. ASSUME ReadReturns PROVE Typed'
    <2>1. reader.buf \in Seq(Byte) /\ received \in Seq(Seq(Byte))
      BY DEF Typed
    <2>2. SubSeq(reader.buf, 5, Len(reader.buf)) \in Seq(Byte)
      <3>1. \A i \in 5 .. Len(reader.buf) : reader.buf[i] \in Byte
        BY <2>1
      <3>. QED  BY <2>1, <3>1, SubSeqProperties
    <2>3. received' \in Seq(Seq(Byte))
      BY <1>9, <2>1, <2>2, AppendProperties DEF ReadReturns
    <2>. QED  BY <1>9, <2>3 DEF Typed, ReadReturns, Scan
  <1>10. ASSUME ReadFails PROVE Typed'
    BY <1>10 DEF Typed, ReadFails
  <1>. QED  BY <1>1, <1>2, <1>3, <1>4, <1>5, <1>6, <1>7, <1>8, <1>9, <1>10 DEF FramingNext

\* Header and data of one frame are written by the holder of writeMu.
LEMMA WritingStep ==
    ASSUME Typed, Writing, FramingNext
    PROVE  Writing'
  <1>0. frames \in Seq(Data) /\ complete \in Nat /\ Len(frames) \in Nat
        /\ writer \in [Writers -> [pc : {"idle", "lock", "header", "data", "failed"},
                                   data : Payloads \cup {<<>>}]]
    BY DEF Typed
  <1>1. ASSUME NEW w \in Writers, NEW d \in Payloads, Submit(w, d) PROVE Writing'
    <2>1. \A u \in Writers : u # w => writer'[u] = writer[u]
      BY <1>0, <1>1 DEF Submit
    <2>2. /\ writer'[w].pc = "failed" \/ (writer'[w].pc = "lock" /\ writer'[w].data \in Data)
          /\ writer[w].pc = "idle"
      <3>1. ~(Len(d) > PacketMTU) => d \in Data
        <4>1. d \in Seq(Byte) /\ PacketMTU \in Nat
          BY FramingAssumption
        <4>. QED  BY <4>1 DEF Data
      <3>2. writer'[w] = IF Len(d) > PacketMTU THEN [pc |-> "failed", data |-> d]
                                               ELSE [pc |-> "lock", data |-> d]
        BY <1>0, <1>1 DEF Submit
      <3>3. CASE Len(d) > PacketMTU
        <4>1. writer'[w] = [pc |-> "failed", data |-> d]
          BY <3>2, <3>3, Zenon
        <4>. QED  BY <1>1, <4>1 DEF Submit
      <3>4. CASE ~(Len(d) > PacketMTU)
        <4>1. writer'[w] = [pc |-> "lock", data |-> d]
          BY <3>2, <3>4, Zenon
        <4>. QED  BY <1>1, <3>1, <3>4, <4>1 DEF Submit
      <3>. QED  BY <3>3, <3>4
    <2>3. UNCHANGED <<closed, writeMu, frames, complete>>
      BY <1>1 DEF Submit
    <2>. QED  BY <2>1, <2>2, <2>3 DEF Writing
  <1>2. ASSUME NEW w \in Writers, Lock(w) PROVE Writing'
    BY <1>0, <1>2, FramingAssumption DEF Writing, Lock
  <1>3. ASSUME NEW w \in Writers, WriteHeader(w) PROVE Writing'
    <2>1. \A u \in Writers : u # w => writer[u].pc \notin {"header", "data"}
      BY <1>3 DEF WriteHeader, Writing
    <2>2. complete = Len(frames)
      BY <1>3, <2>1 DEF WriteHeader, Writing
    <2>3. Len(frames') = Len(frames) + 1 /\ frames'[Len(frames) + 1] = writer[w].data
      <3>1. writer[w].data \in Data
        BY <1>3 DEF WriteHeader, Writing
      <3>. QED  BY <1>0, <1>3, <3>1, AppendProperties DEF WriteHeader
    <2>4. \A u \in Writers : /\ writer'[u].data = writer[u].data
                             /\ writer'[u].pc = IF u = w THEN "data" ELSE writer[u].pc
      BY <1>0, <1>3 DEF WriteHeader
    <2>5. writeMu' = writeMu /\ complete' = complete /\ closed' = closed /\ writer[w].pc = "header"
      BY <1>3 DEF WriteHeader
    <2>. QED  BY <1>0, <2>1, <2>2, <2>3, <2>4, <2>5 DEF Writing
  <1>4. ASSUME NEW w \in Writers, WriteData(w) PROVE Writing'
    <2>1. \A u \in Writers : u # w => writer[u].pc \notin {"header", "data"}
      BY <1>4 DEF WriteData, Writing
    <2>2. complete' = Len(frames) /\ frames' = frames /\ closed' = closed
      BY <1>4 DEF WriteData, Writing
    <2>3. \A u \in Writers : writer'[u] = IF u = w THEN Idle ELSE writer[u]
      BY <1>0, <1>4 DEF WriteData
    <2>. QED  BY <1>0, <2>1, <2>2, <2>3 DEF Writing, Idle
  <1>5. ASSUME NEW w \in Writers, WriteFails(w) PROVE Writing'
    BY <1>0, <1>5 DEF Writing, WriteFails
  <1>6. ASSUME NEW n \in Noise, PrintNoise(n) PROVE Writing'
    BY <1>6 DEF Writing, PrintNoise
  <1>7. ASSUME CloseStream PROVE Writing'
    BY <1>7 DEF Writing, CloseStream
  <1>8. ASSUME ReadByte \/ ReadReturns \/ ReadFails PROVE Writing'
    BY <1>8 DEF Writing, ReadByte, ReadReturns, ReadFails
  <1>. QED  BY <1>1, <1>2, <1>3, <1>4, <1>5, <1>6, <1>7, <1>8 DEF FramingNext

\* The wake bytes, or nothing, are on the wire: a mark after each of them.
LEMMA InitGood ==
    ASSUME FramingInit
    PROVE  FramingInv
  <1>1. PICK all \in Seq(Byte) : all = wire /\ printed = wire /\ ~Contains(all, Start1)
    <2>1. CASE wire = <<>> /\ printed = wire
      <3>1. <<>> \in Seq(Byte) /\ ~Contains(<<>>, Start1)
        BY DEF Contains
      <3>. QED  BY <2>1, <3>1
    <2>2. CASE wire = writeWake /\ printed = wire
      <3>1. WakeLen \in Nat /\ Start2 \in Byte /\ Start1 # Start2
        BY FramingAssumption DEF Start2, Start1, Byte
      <3>2. writeWake \in Seq(Byte) /\ Len(writeWake) = WakeLen
            /\ \A i \in 1 .. WakeLen : writeWake[i] = Start2
        BY <3>1 DEF writeWake
      <3>. QED  BY <2>2, <3>1, <3>2 DEF Contains
    <2>. QED  BY <2>1, <2>2 DEF FramingInit
  <1>2. /\ frames = <<>> /\ complete = 0 /\ received = <<>> /\ debug = <<>>
        /\ reader.pc = "start1" /\ reader.buf = <<>> /\ Len(frames) = 0 /\ Len(received) = 0
        /\ Len(debug) = 0 /\ Len(reader.buf) = 0
    BY DEF FramingInit, Scan
  <1>3. Typed
    <2>1. writer \in [Writers -> [pc : {"idle", "lock", "header", "data", "failed"},
                                  data : Payloads \cup {<<>>}]]
      BY DEF FramingInit, Idle
    <2>2. reader \in [pc : {"start1", "start2", "length", "data", "return", "failed"}, buf : Seq(Byte)]
      BY DEF FramingInit, Scan
    <2>3. /\ frames \in Seq(Data) /\ complete \in Nat /\ received \in Seq(Seq(Byte))
          /\ debug \in Seq(Byte)
      BY <1>2
    <2>4. closed \in BOOLEAN /\ stray \in BOOLEAN
      BY DEF FramingInit
    <2>. QED  BY <1>1, <2>1, <2>2, <2>3, <2>4 DEF Typed
  <1>4. Writing
    BY <1>2 DEF Writing, FramingInit, Idle
  <1>. DEFINE M(i) == [pos |-> i, f |-> 0, p |-> i]
              B == {M(i) : i \in 0 .. Len(all)}
  <1>5. \A i \in 0 .. Len(all) : M(i) \in Mark /\ M(i).pos = i /\ M(i).f = 0 /\ M(i).p = i
    BY DEF Mark
  <1>6. M(0) \in B /\ M(Len(all)) \in B /\ B \subseteq Mark /\ 0 \in 0 .. Len(all)
        /\ Len(all) \in 0 .. Len(all)
    <2>1. 0 \in 0 .. Len(all) /\ Len(all) \in 0 .. Len(all)
      OBVIOUS
    <2>. HIDE DEF M
    <2>. QED  BY <1>5, <2>1
  <1>7. ASSUME NEW i \in 0 .. (Len(all) - 1)
        PROVE  LeapByte(all, M(i), M(i + 1)) /\ M(i + 1) \in B
    <2>1. i + 1 \in 1 .. Len(all) /\ i \in 0 .. Len(all) /\ i + 1 \in 0 .. Len(all)
      OBVIOUS
    <2>2. all[i + 1] # Start1 /\ printed[i + 1] = all[i + 1] /\ i + 1 <= Len(printed)
      BY <1>1, <2>1 DEF Contains
    <2>. QED  BY <2>1, <2>2 DEF LeapByte
  <1>8. Chain(all, B, M(Len(all)))
    <2>1. ASSUME NEW i \in 0 .. Len(all)
          PROVE  M(i).pos <= Len(all) /\ (M(i) = M(Len(all)) \/ \E d \in B : Leap(all, M(i), d))
      <3>1. CASE i = Len(all)
        BY <3>1
      <3>2. CASE i < Len(all)
        <4>1. i \in 0 .. (Len(all) - 1)
          BY <3>2
        <4>. HIDE DEF M, B
        <4>2. LeapByte(all, M(i), M(i + 1)) /\ M(i + 1) \in B
          BY <1>7, <4>1
        <4>. QED  BY <1>5, <4>2 DEF Leap
      <3>. QED  BY <3>1, <3>2
    <2>2. ASSUME NEW c \in B
          PROVE  c.pos <= Len(all) /\ (c = M(Len(all)) \/ \E d \in B : Leap(all, c, d))
      <3>1. PICK i \in 0 .. Len(all) : c = M(i)
        OBVIOUS
      <3>. HIDE DEF M, B
      <3>. QED  BY <2>1, <3>1
    <2>. HIDE DEF M, B
    <2>. QED  BY <1>6, <2>2 DEF Chain
  <1>. HIDE DEF M, B
  <1>9. Tip(all, M(Len(all)))
    BY <1>1, <1>2, <1>5, <1>6 DEF Tip, Ended
  <1>10. Taken(M(0))
    BY <1>2, <1>5, <1>6 DEF Taken, Holds
  <1>11. Reading(all, M(0))
    <2>1. M(0).pos = 0
      BY <1>5, <1>6
    <2>2. Len(all) = 0 + 0 + Len(wire) /\ Holds(all, 0, <<>>) /\ Holds(all, 0 + 0, wire)
      BY <1>1 DEF Holds
    <2>. QED  BY <1>2, <2>1, <2>2 DEF Reading, Stage
  <1>12. Good(all, B, M(Len(all)), M(0))
    BY <1>2, <1>6, <1>8, <1>9, <1>10, <1>11 DEF Good, Written
  <1>. QED  BY <1>3, <1>4, <1>12 DEF FramingInv, Recoverable

\* Steps that neither write nor read leave everything where it is.
LEMMA Unmoved ==
    ASSUME NEW all, NEW B, NEW last, NEW cur, Good(all, B, last, cur), closed => closed',
           UNCHANGED <<wire, reader, frames, complete, printed, received, debug>>
    PROVE  Good(all, B, last, cur)'
  <1>1. Written(all, B, last)' /\ Taken(cur)'
    BY DEF Good, Written, Chain, Tip, Ended, Halfway, Leap, LeapFrame, LeapByte, LeapFalse,
        LeapHeader, Taken, Noisy
  <1>2. IF reader'.pc = "failed" THEN Drained' ELSE Reading(all, cur)'
    BY DEF Good, Drained, Noisy, Reading, Stage
  <1>. QED  BY <1>1, <1>2 DEF Good

\* A step keeps the invariant.
LEMMA FramingStep ==
    ASSUME FramingInv, [FramingNext]_framingVars
    PROVE  FramingInv'
  <1>1. CASE UNCHANGED framingVars
    <2>1. Typed' /\ Writing'
      BY <1>1 DEF FramingInv, framingVars, Typed, Writing
    <2>2. UNCHANGED <<wire, reader, frames, complete, printed, received, debug>>
          /\ closed' = closed /\ stray' = stray
      BY <1>1 DEF framingVars
    <2>3. Recoverable'
      BY <2>2, Unmoved DEF FramingInv, Recoverable
    <2>. QED  BY <2>1, <2>3 DEF FramingInv
  <1>2. CASE FramingNext
    <2>1. Typed /\ Writing /\ Recoverable /\ Typed' /\ Writing'
      BY <1>2, TypedStep, WritingStep DEF FramingInv
    <2>2. SUFFICES ASSUME ~stray' PROVE Recoverable'
      <3>1. stray' => Recoverable'
        BY DEF Recoverable
      <3>. QED  BY <2>1, <2>2, <3>1 DEF FramingInv
    <2>3. ~stray
      BY <1>2, <2>2 DEF FramingNext, Submit, Lock, WriteHeader, WriteData, WriteFails, PrintNoise,
          CloseStream, ReadByte, ReadReturns, ReadFails
    <2>4. ASSUME UNCHANGED <<wire, reader, frames, complete, printed, received, debug>>,
                 closed => closed'
          PROVE  Recoverable'
      BY <2>1, <2>3, <2>4, Unmoved DEF Recoverable
    <2>5. ASSUME NEW w \in Writers, NEW d \in Payloads, Submit(w, d) PROVE Recoverable'
      BY <2>4, <2>5 DEF Submit
    <2>6. ASSUME NEW w \in Writers, Lock(w) \/ WriteFails(w) PROVE Recoverable'
      BY <2>4, <2>6 DEF Lock, WriteFails
    <2>7. ASSUME NEW w \in Writers, WriteHeader(w) PROVE Recoverable'
      BY <2>1, <2>3, <2>7, HeaderGood
    <2>8. ASSUME NEW w \in Writers, WriteData(w) PROVE Recoverable'
      BY <2>1, <2>3, <2>8, DataGood
    <2>9. ASSUME NEW n \in Noise, PrintNoise(n) PROVE Recoverable'
      BY <2>1, <2>2, <2>9, NoiseGood
    <2>10. CASE CloseStream
      BY <2>4, <2>10 DEF CloseStream
    <2>11. CASE ReadByte
      BY <2>1, <2>3, <2>11, ByteGood
    <2>12. CASE ReadReturns
      BY <2>1, <2>3, <2>12, ReturnGood
    <2>13. CASE ReadFails
      BY <2>1, <2>3, <2>13, FailsGood
    <2>. QED  BY <1>2, <2>5, <2>6, <2>7, <2>8, <2>9, <2>10, <2>11, <2>12, <2>13 DEF FramingNext
  <1>. QED  BY <1>1, <1>2

\* The invariant says what the property says.
LEMMA FramingImplies ==
    ASSUME FramingInv
    PROVE  FramesRecovered
  <1>1. SUFFICES ASSUME ~stray
                 PROVE  /\ IsPrefix(received, frames)
                        /\ wire = <<>> /\ reader.pc \in {"start1", "failed"} =>
                               /\ complete <= Len(received)
                               /\ Contains(printed, Start1) \/ debug = printed
    BY DEF FramesRecovered
  <1>2. PICK all, B, last, cur : Good(all, B, last, cur)
    BY <1>1 DEF FramingInv, Recoverable
  <1>3. Typed /\ received \in Seq(Seq(Byte)) /\ frames \in Seq(Seq(Byte))
    BY FramesBytes DEF FramingInv, Typed
  <1>4. IsPrefix(received, frames)
    <2>1. Holds(frames, 0, received)
      BY <1>2 DEF Good, Taken
    <2>2. Len(received) \in Nat /\ Len(received) <= Len(frames)
          /\ \A j \in 1 .. Len(received) : j \in 1 .. Len(frames) /\ frames[j] = received[j]
      BY <1>3, <2>1, HoldsStart
    <2>3. SubSeq(received, 1, Len(received)) = received
      BY <1>3, SubSeqFull
    <2>4. PICK n \in Nat : n = Len(received)
      BY <2>2
    <2>5. \A i \in 1 .. n : frames[i] \in Seq(Byte)
      BY <1>3, <2>2, <2>4
    <2>6. /\ SubSeq(frames, 1, n) \in Seq(Seq(Byte))
          /\ Len(SubSeq(frames, 1, n)) = IF 1 <= n THEN n - 1 + 1 ELSE 0
          /\ \A i \in 1 .. n - 1 + 1 : SubSeq(frames, 1, n)[i] = frames[1 + i - 1]
      <3>. HIDE DEF Byte
      <3>. QED  BY <2>5, SubSeqProperties
    <2>7. Len(SubSeq(frames, 1, n)) = n /\ \A i \in 1 .. n : SubSeq(frames, 1, n)[i] = frames[i]
      <3>1. n - 1 + 1 = n /\ (IF 1 <= n THEN n - 1 + 1 ELSE 0) = n
            /\ \A i \in 1 .. n : 1 + i - 1 = i
        OBVIOUS
      <3>. QED  BY <2>6, <3>1
    <2>8. SubSeq(frames, 1, n) = received
      BY <1>3, <2>2, <2>4, <2>6, <2>7, SeqEqual
    <2>. QED  BY <2>2, <2>3, <2>4, <2>8 DEF IsPrefix
  <1>5. ASSUME wire = <<>>, reader.pc = "failed"
        PROVE  complete <= Len(received) /\ (Contains(printed, Start1) \/ debug = printed)
    BY <1>2, <1>5 DEF Good, Drained, Noisy
  <1>6. ASSUME wire = <<>>, reader.pc = "start1"
        PROVE  complete <= Len(received) /\ (Contains(printed, Start1) \/ debug = printed)
    <2>1. cur = last
      BY <1>2, <1>3, <1>6, AtEnd
    <2>. QED  BY <1>2, <1>3, <2>1, AllOut DEF Noisy
  <1>. QED  BY <1>4, <1>5, <1>6

\* Whatever is written, printed and read, and in whatever order, ReadBytes returns the
\* frames of WriteBytes whole and in order, and none is missing in the end, unless noise
\* left a false header open.
THEOREM FramesAreRecovered == FramingSpec => []FramesRecovered
  <1>1. FramingInit => FramingInv
    BY InitGood
  <1>2. FramingInv /\ [FramingNext]_framingVars => FramingInv'
    BY FramingStep
  <1>3. FramingInv => FramesRecovered
    BY FramingImplies
  <1>. QED  BY <1>1, <1>2, <1>3, PTL DEF FramingSpec
=============================================================================
