--------------------------- MODULE McsParserProofs ---------------------------
(***************************************************************************)
(* Theorems of McsParser, for any digits, frames, chunks and connections.  *)
(***************************************************************************)
EXTENDS McsParser, SequenceTheorems, TLAPS

Length(f) == Varint(Len(f.body))

\* The bytes of a frame.
Size(f) == 1 + Len(Length(f)) + Len(f.body)

\* Frame f lies in the stream s behind its first n bytes.
FrameAt(s, n, f) ==
  /\ s[n + 1] = f.tag
  /\ \A i \in 1 .. Len(Length(f)) : s[n + 1 + i] = Length(f)[i]
  /\ \A i \in 1 .. Len(f.body) : s[n + 1 + Len(Length(f)) + i] = f.body[i]

\* s is a version v and then the frames of q, of which number n ends at ends[n].
Layout(q, v, s, ends) ==
  /\ s \in Seq(Bytes) /\ ends \in [0 .. Len(q) -> 1 .. Len(s)]
  /\ s[1] = v /\ ends[0] = 1 /\ ends[Len(q)] = Len(s)
  /\ \A n \in 1 .. Len(q) :
       /\ ends[n] = ends[n - 1] + Size(q[n])
       /\ FrameAt(s, ends[n - 1], q[n])

\* s is all that was sent on this connection.
Sent(s, ends) == Layout(sent, version, s, ends)

\* d and w together are what follows the first n bytes of s.
Left(s, n, d, w) ==
  /\ n + Len(d) + Len(w) = Len(s)
  /\ \A i \in 1 .. Len(d) : d[i] = s[n + i]
  /\ \A i \in 1 .. Len(w) : w[i] = s[n + Len(d) + i]

Expected == sent[Len(delivered) + 1]

\* What the parser has taken from the stream, and what it knows of the next frame.
Taken(s, ends) ==
  /\ state = "VERSION_TAG_AND_SIZE" => delivered = <<>> /\ Left(s, 0, data, wire)
  /\ state = "TAG_AND_SIZE" => Left(s, ends[Len(delivered)], data, wire)
  /\ state = "SIZE" =>
       /\ Len(delivered) < Len(sent)
       /\ messageTag = Expected.tag /\ sizePacketSoFar < 4
       /\ Left(s, ends[Len(delivered)] + 1, data, wire)
  /\ state = "PROTO_BYTES" =>
       /\ Len(delivered) < Len(sent)
       /\ messageTag = Expected.tag /\ messageSize = Len(Expected.body)
       /\ Left(s, ends[Len(delivered)] + 1 + Len(Length(Expected)), data, wire)

InOrder ==
  /\ Len(delivered) <= Len(sent)
  /\ \A n \in 1 .. Len(delivered) : delivered[n] = sent[n]

InStep == ~destroyed => \E s, ends : Sent(s, ends) /\ Taken(s, ends)

\* Between two chunks there is too little to go on with.
Waits == ~running /\ ~destroyed => Len(data) < MinBytesNeeded

Stopped == destroyed => ~running

ParserInv == ParserTypeOK /\ InOrder /\ InStep /\ Waits /\ Stopped /\ EndsForAReason

-----------------------------------------------------------------------------
(***************************************************************************)
(* Lengths.                                                                *)
(***************************************************************************)

LEMMA DigitTypes == Digits \in Nat /\ Digits > 1 /\ Bytes = 0 .. 2 * Digits - 1
  BY DigitsAssumption DEF Bytes

Limit == Digits * Digits * Digits * Digits

LEMMA FrameTypes ==
  ASSUME NEW f \in Frames
  PROVE  /\ f.tag \in Bytes /\ f.body \in Seq(Bytes) /\ Len(f.body) \in Nat
         /\ Len(f.body) < Limit
         /\ f = [tag |-> f.tag, body |-> f.body]
  BY FramesAssumption, SizesAssumption DEF Limit

\* The lowest digit of a number and what is above it.
LEMMA DigitOf ==
  ASSUME NEW n \in Nat
  PROVE  /\ High(n) \in Nat /\ Low(n) \in Digits .. 2 * Digits - 1
         /\ Value(Low(n), High(n)) = n
         /\ High(n) = 0 => n < Digits
         /\ \A m \in Nat : n < Digits * m => High(n) < m
<1> DEFINE h == High(n)
           r == n % Digits
<1>1. r \in 0 .. Digits - 1 /\ h \in Int /\ n = Digits * h + r
  BY DigitTypes DEF High
<1>2. Low(n) = Digits + r
  BY DEF Low
<1> HIDE DEF h, r
<1>3. h >= 0
  <2>1. SUFFICES ASSUME h <= -1 PROVE FALSE
    BY <1>1
  <2>2. Digits * h <= -Digits
    BY <1>1, <2>1, DigitTypes
  <2> QED BY <1>1, <2>2, DigitTypes
<1>4. ASSUME NEW m \in Nat, n < Digits * m PROVE h < m
  <2>1. SUFFICES ASSUME h >= m PROVE FALSE
    BY <1>1
  <2>2. Digits * h >= Digits * m
    BY <1>1, <2>1, DigitTypes
  <2>3. Digits * h \in Int /\ Digits * m \in Int /\ Digits * h <= n
    BY <1>1, DigitTypes
  <2> QED BY <1>4, <2>2, <2>3
<1>5. h = 0 => n < Digits
  BY <1>1, DigitTypes
<1>6. Digits + r - Digits + Digits * h = n
  BY <1>1, DigitTypes
<1> QED BY <1>1, <1>2, <1>3, <1>4, <1>5, <1>6, DigitTypes DEF h, Value

\* The number in the first k bytes of d.
ReadAs(d, k) ==
  CASE k = 1 -> d[1]
    [] k = 2 -> Value(d[1], d[2])
    [] k = 3 -> Value(d[1], Value(d[2], d[3]))
    [] OTHER -> Value(d[1], Value(d[2], Value(d[3], d[4])))

\* Only the last byte of a varint has no continuation bit.
LEMMA VarintShape ==
  ASSUME NEW n \in Nat, n < Limit
  PROVE  /\ Varint(n) \in Seq(Bytes) /\ Len(Varint(n)) \in 1 .. 4
         /\ \A i \in 1 .. Len(Varint(n)) : Varint(n)[i] < Digits <=> i = Len(Varint(n))
         /\ ReadAs(Varint(n), Len(Varint(n))) = n
<1> DEFINE a == High(n)
           b == High(a)
           c == High(b)
           x == Low(n)
           y == Low(a)
           z == Low(b)
<1>1. /\ a \in Nat /\ x \in Digits .. 2 * Digits - 1 /\ Value(x, a) = n
      /\ a = 0 => n < Digits
      /\ \A m \in Nat : n < Digits * m => a < m
  BY DigitOf
<1>2. /\ b \in Nat /\ y \in Digits .. 2 * Digits - 1 /\ Value(y, b) = a
      /\ b = 0 => a < Digits
      /\ \A m \in Nat : a < Digits * m => b < m
  <2> HIDE DEF a
  <2> QED BY <1>1, DigitOf
<1>3. /\ c \in Nat /\ z \in Digits .. 2 * Digits - 1 /\ Value(z, c) = b
      /\ c = 0 => b < Digits
      /\ \A m \in Nat : b < Digits * m => c < m
  <2> HIDE DEF b
  <2> QED BY <1>2, DigitOf
<1>4. Varint(n) = CASE a = 0 -> <<n>>
                    [] a # 0 /\ b = 0 -> <<x, a>>
                    [] b # 0 /\ c = 0 -> <<x, y, b>>
                    [] OTHER -> <<x, y, z, c>>
  BY DEF Varint
<1>5. a = 0 => b = 0
  <2>1. a = 0 => a < Digits * 1
    BY DigitTypes
  <2> QED BY <1>2, <2>1
<1>6. b = 0 => c = 0
  <2>1. b = 0 => b < Digits * 1
    BY DigitTypes
  <2> QED BY <1>3, <2>1
<1>7. c < Digits
  <2>1. /\ Digits \in Nat /\ Digits * Digits \in Nat /\ Digits * Digits * Digits \in Nat
        /\ Limit = Digits * (Digits * Digits * Digits)
        /\ Digits * Digits * Digits = Digits * (Digits * Digits)
    BY DigitTypes DEF Limit
  <2>2. a < Digits * Digits * Digits
    BY <1>1, <2>1
  <2>3. b < Digits * Digits
    BY <1>2, <2>1, <2>2
  <2> QED BY <1>3, <2>1, <2>3
<1> HIDE DEF a, b, c, x, y, z
<1>8. {x, y, z} \subseteq Bytes /\ \A d \in Nat : d < Digits => d \in Bytes
  BY <1>1, <1>2, <1>3, DigitTypes
<1>9. CASE a = 0
  <2>1. Varint(n) = <<n>>
    BY <1>4, <1>5, <1>9
  <2> QED BY <1>1, <1>8, <1>9, <2>1 DEF ReadAs
<1>10. CASE a # 0 /\ b = 0
  <2>1. Varint(n) = <<x, a>>
    BY <1>4, <1>10
  <2> QED BY <1>1, <1>2, <1>8, <1>10, <2>1, DigitTypes DEF ReadAs
<1>11. CASE b # 0 /\ c = 0
  <2>1. Varint(n) = <<x, y, b>>
    BY <1>4, <1>5, <1>11
  <2> QED BY <1>1, <1>2, <1>3, <1>8, <1>11, <2>1, DigitTypes DEF ReadAs
<1>12. CASE c # 0
  <2>1. Varint(n) = <<x, y, z, c>>
    BY <1>4, <1>5, <1>6, <1>12
  <2> QED BY <1>1, <1>2, <1>3, <1>7, <1>8, <2>1, DigitTypes DEF ReadAs
<1> QED BY <1>9, <1>10, <1>11, <1>12

\* Of bytes that begin as a varint does, the parser reads that varint and no more, or
\* finds that it is not complete.
LEMMA LengthRead ==
  ASSUME NEW n \in Nat, n < Limit, NEW d \in Seq(Bytes),
         \A i \in 1 .. Len(d) : i <= Len(Varint(n)) => d[i] = Varint(n)[i]
  PROVE  /\ Len(d) >= Len(Varint(n)) =>
              VarintEnds(d) # {} /\ VarintLength(d) = Len(Varint(n)) /\ VarintValue(d) = n
         /\ Len(d) < Len(Varint(n)) => VarintEnds(d) = {} /\ Len(d) < 4
<1> DEFINE v == Varint(n)
           k == Len(v)
<1>1. /\ k \in 1 .. 4 /\ \A i \in 1 .. k : v[i] < Digits <=> i = k
      /\ ReadAs(v, k) = n
  BY VarintShape
<1>2. \A i \in 1 .. Len(d) : i <= k => d[i] = v[i]
  OBVIOUS
<1> HIDE DEF v, k
<1>3. ASSUME Len(d) >= k
      PROVE  VarintEnds(d) # {} /\ VarintLength(d) = k /\ VarintValue(d) = n
  <2>1. \A i \in 1 .. k : i \in 1 .. Len(d) /\ d[i] = v[i]
    BY <1>1, <1>2, <1>3
  <2>2. k \in VarintEnds(d)
    BY <1>1, <2>1 DEF VarintEnds
  <2>3. ASSUME NEW j \in VarintEnds(d) PROVE k <= j
    <3>1. j \in 1 .. Len(d) /\ d[j] < Digits
      BY DEF VarintEnds
    <3> QED BY <1>1, <2>1, <3>1
  <2>4. VarintLength(d) = k
    <3>1. VarintEnds(d) \subseteq Nat
      BY DEF VarintEnds
    <3> QED BY <1>1, <2>2, <2>3, <3>1 DEF VarintLength
  <2>5. VarintValue(d) = ReadAs(d, k)
    BY <2>4 DEF VarintValue, ReadAs
  <2>6. ReadAs(d, k) = ReadAs(v, k)
    BY <1>1, <2>1 DEF ReadAs
  <2> QED BY <1>1, <2>2, <2>4, <2>5, <2>6
<1>4. ASSUME Len(d) < k
      PROVE  VarintEnds(d) = {} /\ Len(d) < 4
  <2>1. ASSUME NEW j \in VarintEnds(d) PROVE FALSE
    <3>1. j \in 1 .. Len(d) /\ d[j] < Digits
      BY DEF VarintEnds
    <3>2. j \in 1 .. k /\ j # k /\ d[j] = v[j]
      BY <1>1, <1>2, <1>4, <3>1
    <3> QED BY <1>1, <3>1, <3>2
  <2> QED BY <1>1, <1>4, <2>1
<1> QED BY <1>3, <1>4 DEF k, v

-----------------------------------------------------------------------------
(***************************************************************************)
(* Frames in the stream.                                                   *)
(***************************************************************************)

\* A sequence behind another.
LEMMA Joined ==
  ASSUME NEW S, NEW a \in Seq(S), NEW b \in Seq(S)
  PROVE  /\ a \o b \in Seq(S) /\ Len(a \o b) = Len(a) + Len(b)
         /\ \A i \in 1 .. Len(a) : (a \o b)[i] = a[i]
         /\ \A i \in 1 .. Len(b) : \A j : j = Len(a) + i => (a \o b)[j] = b[i]
<1>1. /\ a \o b \in Seq(S) /\ Len(a \o b) = Len(a) + Len(b)
      /\ \A i \in 1 .. Len(a) + Len(b) :
           (a \o b)[i] = IF i <= Len(a) THEN a[i] ELSE b[i - Len(a)]
      /\ Len(a) \in Nat /\ Len(b) \in Nat
  BY ConcatProperties
<1>2. ASSUME NEW i \in 1 .. Len(b), NEW j, j = Len(a) + i
      PROVE  (a \o b)[j] = b[i]
  <2>1. j \in 1 .. Len(a) + Len(b) /\ ~(j <= Len(a)) /\ j - Len(a) = i
    BY <1>1, <1>2
  <2> QED BY <1>1, <2>1
<1>3. ASSUME NEW i \in 1 .. Len(a)
      PROVE  (a \o b)[i] = a[i]
  <2>1. i \in 1 .. Len(a) + Len(b) /\ i <= Len(a)
    BY <1>1
  <2> QED BY <1>1, <2>1
<1> QED BY <1>1, <1>2, <1>3

LEMMA LengthTypes ==
  ASSUME NEW f \in Frames
  PROVE  Length(f) \in Seq(Bytes) /\ Len(Length(f)) \in 1 .. 4
  BY FrameTypes, VarintShape DEF Length

LEMMA SizeType ==
  ASSUME NEW f \in Frames
  PROVE  Size(f) \in Nat /\ Size(f) > 0
<1> DEFINE x == Len(Length(f))
           y == Len(f.body)
<1>1. x \in Nat /\ y \in Nat
  BY LengthTypes, FrameTypes
<1>2. Size(f) = 1 + x + y
  BY DEF Size
<1> HIDE DEF x, y
<1> QED BY <1>1, <1>2

LEMMA EncodedParts ==
  ASSUME NEW f \in Frames
  PROVE  /\ Encoded(f) \in Seq(Bytes)
         /\ Len(Encoded(f)) = Size(f)
         /\ Encoded(f)[1] = f.tag
         /\ \A i \in 1 .. Len(Length(f)) : Encoded(f)[1 + i] = Length(f)[i]
         /\ \A i \in 1 .. Len(f.body) : Encoded(f)[1 + Len(Length(f)) + i] = f.body[i]
<1>1. /\ f.tag \in Bytes /\ f.body \in Seq(Bytes)
      /\ Length(f) \in Seq(Bytes) /\ Len(Length(f)) \in 1 .. 4
  BY FrameTypes, LengthTypes
<1> DEFINE head == <<f.tag>> \o Length(f)
<1>2. /\ head \in Seq(Bytes) /\ Len(head) = 1 + Len(Length(f)) /\ head[1] = f.tag
      /\ \A i \in 1 .. Len(Length(f)) : head[1 + i] = Length(f)[i]
  BY <1>1
<1>3. Encoded(f) = head \o f.body
  BY <1>1, ConcatAssociative DEF Encoded, Length
<1> HIDE DEF head
<1>4. /\ head \o f.body \in Seq(Bytes) /\ Len(head \o f.body) = Len(head) + Len(f.body)
      /\ \A i \in 1 .. Len(head) : (head \o f.body)[i] = head[i]
      /\ \A i \in 1 .. Len(f.body) : (head \o f.body)[Len(head) + i] = f.body[i]
  <2>1. head \in Seq(Bytes) /\ f.body \in Seq(Bytes)
    BY <1>1, <1>2
  <2> QED BY ONLY <2>1, Joined
<1> QED BY <1>1, <1>2, <1>3, <1>4 DEF Size

\* The parser takes k bytes.
LEMMA LeftRest ==
  ASSUME NEW s \in Seq(Bytes), NEW d \in Seq(Bytes), NEW w \in Seq(Bytes), NEW n \in Nat,
         Left(s, n, d, w), NEW k \in 0 .. Len(d), NEW m, m = n + k
  PROVE  /\ Rest(d, k) \in Seq(Bytes) /\ Len(Rest(d, k)) = Len(d) - k
         /\ Left(s, m, Rest(d, k), w)
<1>1. /\ Rest(d, k) \in Seq(Bytes) /\ Len(Rest(d, k)) = Len(d) - k
      /\ \A i \in 1 .. Len(d) - k : Rest(d, k)[i] = d[k + i]
  BY DEF Rest
<1>2. /\ n + Len(d) + Len(w) = Len(s)
      /\ \A i \in 1 .. Len(d) : d[i] = s[n + i]
      /\ \A i \in 1 .. Len(w) : w[i] = s[n + Len(d) + i]
  BY DEF Left
<1>3. ASSUME NEW i \in 1 .. Len(Rest(d, k))
      PROVE  Rest(d, k)[i] = s[n + k + i]
  <2>1. k + i \in 1 .. Len(d) /\ n + (k + i) = n + k + i
    BY <1>1
  <2>2. Rest(d, k)[i] = d[k + i] /\ d[k + i] = s[n + (k + i)]
    BY <1>1, <1>2, <2>1
  <2> QED BY <2>1, <2>2
<1>4. n + k + Len(Rest(d, k)) = n + Len(d)
  BY <1>1
<1> QED BY <1>1, <1>2, <1>3, <1>4 DEF Left

\* A chunk moves n bytes from those on their way to those that have come.
LEMMA LeftArrived ==
  ASSUME NEW s \in Seq(Bytes), NEW d \in Seq(Bytes), NEW w \in Seq(Bytes), NEW p \in Nat,
         Left(s, p, d, w), NEW n \in 1 .. Len(w)
  PROVE  Left(s, p, d \o SubSeq(w, 1, n), Rest(w, n))
<1> DEFINE c == SubSeq(w, 1, n)
           e == d \o c
           r == Rest(w, n)
           x == Len(d)
           y == Len(w)
           z == Len(s)
<1>0. x \in Nat /\ y \in Nat /\ z \in Nat /\ n \in 1 .. y
  OBVIOUS
<1>1. /\ c \in Seq(Bytes) /\ Len(c) = n /\ \A i \in 1 .. n : c[i] = w[i]
      /\ r \in Seq(Bytes) /\ Len(r) = y - n /\ \A i \in 1 .. y - n : r[i] = w[n + i]
  BY DEF Rest
<1>3. /\ p + x + y = z
      /\ \A i \in 1 .. x : d[i] = s[p + i]
      /\ \A i \in 1 .. y : w[i] = s[p + x + i]
  BY DEF Left
<1> HIDE DEF c, r
<1>2. /\ e \in Seq(Bytes) /\ Len(e) = x + n
      /\ \A i \in 1 .. x : e[i] = d[i]
      /\ \A i \in 1 .. n : \A j : j = x + i => e[j] = c[i]
  <2>1. c \in Seq(Bytes) /\ Len(c) = n
    BY <1>1
  <2>2. \A b \in Seq(Bytes) :
          /\ d \o b \in Seq(Bytes) /\ Len(d \o b) = x + Len(b)
          /\ \A i \in 1 .. x : (d \o b)[i] = d[i]
          /\ \A i \in 1 .. Len(b) : \A j : j = x + i => (d \o b)[j] = b[i]
    BY Joined
  <2> QED BY <2>1, <2>2
<1> HIDE DEF e, x, y, z
<1>4. ASSUME NEW i \in 1 .. x + n
      PROVE  e[i] = s[p + i]
  <2>1. CASE i <= x
    <3>1. i \in 1 .. x
      BY <1>0, <2>1
    <3> QED BY <1>2, <1>3, <3>1
  <2>2. CASE ~(i <= x)
    <3>1. /\ i - x \in 1 .. n /\ i = x + (i - x) /\ i - x \in 1 .. y
          /\ p + x + (i - x) = p + i
      BY <1>0, <2>2
    <3>2. e[i] = c[i - x] /\ c[i - x] = w[i - x]
      BY <1>1, <1>2, <3>1
    <3>3. w[i - x] = s[p + x + (i - x)]
      BY <1>3, <3>1
    <3> QED BY <3>1, <3>2, <3>3
  <2> QED BY <2>1, <2>2
<1>5. ASSUME NEW i \in 1 .. y - n
      PROVE  r[i] = s[p + (x + n) + i]
  <2>1. n + i \in 1 .. y /\ p + x + (n + i) = p + (x + n) + i
    BY <1>0
  <2>2. r[i] = w[n + i] /\ w[n + i] = s[p + x + (n + i)]
    BY <1>1, <1>3, <2>1
  <2> QED BY <2>1, <2>2
<1>6. p + (x + n) + (y - n) = z
  <2>1. p + x + y = z
    BY <1>3
  <2> QED BY <1>0, <2>1
<1>7. Left(s, p, e, r)
  BY <1>1, <1>2, <1>4, <1>5, <1>6 DEF Left, z
<1> QED BY <1>7 DEF c, e, r

\* The stream grows by what is sent: what lay in it still lies there, and what follows
\* the first p bytes grows as the stream does.
LEMMA FrameStays ==
  ASSUME NEW s \in Seq(Bytes), NEW e \in Seq(Bytes), NEW g \in Frames, NEW n \in Nat,
         n + Size(g) <= Len(s), FrameAt(s, n, g)
  PROVE  FrameAt(s \o e, n, g)
<1> DEFINE t == s \o e
           x == Len(Length(g))
           y == Len(g.body)
           z == Len(s)
<1>1. \A i \in 1 .. z : t[i] = s[i]
  BY Joined
<1>2. x \in Nat /\ y \in Nat /\ z \in Nat /\ n + (1 + x + y) <= z
  <2>1. x \in Nat /\ y \in Nat
    BY LengthTypes, FrameTypes
  <2>2. Size(g) = 1 + x + y
    BY DEF Size
  <2>3. n + Size(g) <= z /\ z \in Nat
    OBVIOUS
  <2> HIDE DEF x, y, z
  <2> QED BY <2>1, <2>2, <2>3
<1>3. /\ s[n + 1] = g.tag
      /\ \A i \in 1 .. x : s[n + 1 + i] = Length(g)[i]
      /\ \A i \in 1 .. y : s[n + 1 + x + i] = g.body[i]
  BY DEF FrameAt
<1> HIDE DEF t, x, y, z
<1>4. t[n + 1] = g.tag
  <2>1. n + 1 \in 1 .. z
    BY <1>2
  <2> QED BY <1>1, <1>3, <2>1
<1>5. ASSUME NEW i \in 1 .. x PROVE t[n + 1 + i] = Length(g)[i]
  <2>1. n + 1 + i \in 1 .. z
    BY <1>2
  <2> QED BY <1>1, <1>3, <2>1
<1>6. ASSUME NEW i \in 1 .. y PROVE t[n + 1 + x + i] = g.body[i]
  <2>1. n + 1 + x + i \in 1 .. z
    BY <1>2
  <2> QED BY <1>1, <1>3, <2>1
<1>7. FrameAt(t, n, g)
  BY <1>4, <1>5, <1>6 DEF FrameAt, x, y
<1> QED BY <1>7 DEF t

LEMMA FrameComes ==
  ASSUME NEW s \in Seq(Bytes), NEW f \in Frames
  PROVE  FrameAt(s \o Encoded(f), Len(s), f)
<1> DEFINE e == Encoded(f)
           t == s \o e
           x == Len(Length(f))
           y == Len(f.body)
           z == Len(s)
<1>1. /\ e \in Seq(Bytes) /\ Len(e) = 1 + x + y
      /\ e[1] = f.tag
      /\ \A i \in 1 .. x : e[1 + i] = Length(f)[i]
      /\ \A i \in 1 .. y : e[1 + x + i] = f.body[i]
  BY EncodedParts DEF Size
<1>2. x \in Nat /\ y \in Nat /\ z \in Nat
  BY LengthTypes, FrameTypes
<1> HIDE DEF e
<1>3. \A i \in 1 .. 1 + x + y : \A j : j = z + i => t[j] = e[i]
  <2>1. e \in Seq(Bytes) /\ Len(e) = 1 + x + y
    BY <1>1
  <2>2. \A b \in Seq(Bytes) : \A i \in 1 .. Len(b) : \A j : j = z + i => (s \o b)[j] = b[i]
    BY Joined
  <2> QED BY <2>1, <2>2
<1> HIDE DEF t, x, y, z
<1>4. t[z + 1] = f.tag
  <2>1. 1 \in 1 .. 1 + x + y
    BY <1>2
  <2> QED BY <1>1, <1>3, <2>1
<1>5. ASSUME NEW i \in 1 .. x PROVE t[z + 1 + i] = Length(f)[i]
  <2>1. 1 + i \in 1 .. 1 + x + y /\ z + 1 + i = z + (1 + i)
    BY <1>2
  <2>2. t[z + 1 + i] = e[1 + i]
    BY <1>3, <2>1
  <2> QED BY <1>1, <2>2
<1>6. ASSUME NEW i \in 1 .. y PROVE t[z + 1 + x + i] = f.body[i]
  <2>1. 1 + x + i \in 1 .. 1 + x + y /\ z + 1 + x + i = z + (1 + x + i)
    BY <1>2
  <2>2. t[z + 1 + x + i] = e[1 + x + i]
    BY <1>3, <2>1
  <2> QED BY <1>1, <2>2
<1>7. FrameAt(t, z, f)
  BY <1>4, <1>5, <1>6 DEF FrameAt, x, y
<1> QED BY <1>7 DEF e, t, z

LEMMA LeftGrows ==
  ASSUME NEW s \in Seq(Bytes), NEW d \in Seq(Bytes), NEW w \in Seq(Bytes), NEW e \in Seq(Bytes),
         NEW p \in Nat, Left(s, p, d, w)
  PROVE  Left(s \o e, p, d, w \o e)
<1> DEFINE t == s \o e
           v == w \o e
           x == Len(d)
           y == Len(w)
           z == Len(s)
           k == Len(e)
<1>0. x \in Nat /\ y \in Nat /\ z \in Nat /\ k \in Nat
  OBVIOUS
<1>1. /\ Len(t) = z + k /\ \A i \in 1 .. z : t[i] = s[i]
      /\ \A i \in 1 .. k : \A j : j = z + i => t[j] = e[i]
  BY Joined
<1>2. /\ Len(v) = y + k /\ \A i \in 1 .. y : v[i] = w[i]
      /\ \A i \in 1 .. k : \A j : j = y + i => v[j] = e[i]
  BY Joined
<1>3. /\ p + x + y = z
      /\ \A i \in 1 .. x : d[i] = s[p + i]
      /\ \A i \in 1 .. y : w[i] = s[p + x + i]
  BY DEF Left
<1> HIDE DEF t, v, x, y, z, k
<1>4. ASSUME NEW i \in 1 .. x PROVE d[i] = t[p + i]
  <2>1. p + i \in 1 .. z
    BY <1>0, <1>3
  <2> QED BY <1>1, <1>3, <2>1
<1>5. ASSUME NEW i \in 1 .. y + k PROVE v[i] = t[p + x + i]
  <2>1. CASE i <= y
    <3>1. i \in 1 .. y /\ p + x + i \in 1 .. z
      BY <1>0, <1>3, <2>1
    <3> QED BY <1>1, <1>2, <1>3, <3>1
  <2>2. CASE ~(i <= y)
    <3>1. i - y \in 1 .. k /\ i = y + (i - y) /\ p + x + i = z + (i - y)
      <4>1. p + x + y = z
        BY <1>3
      <4> QED BY <1>0, <2>2, <4>1
    <3>2. v[i] = e[i - y]
      BY <1>2, <3>1
    <3>3. t[p + x + i] = e[i - y]
      BY <1>1, <3>1
    <3> QED BY <3>2, <3>3
  <2> QED BY <2>1, <2>2
<1>6. p + x + (y + k) = z + k
  <2>1. p + x + y = z
    BY <1>3
  <2> QED BY <1>0, <2>1
<1>7. Left(t, p, d, v)
  BY <1>1, <1>2, <1>4, <1>5, <1>6 DEF Left, x
<1> QED BY <1>7 DEF t, v

\* The parser ends the connection because of the next frame, or goes on in step with
\* the stream; then it has handed on that frame or nothing.
Reason ==
  /\ Len(delivered) < Len(sent)
  /\ Expected \in Malformed \/ Len(Expected.body) > MaxFrameBytes

GoesOn(s, ends) ==
  /\ \/ UNCHANGED delivered
     \/ Len(delivered) < Len(sent) /\ delivered' = Append(delivered, Expected)
  /\ UNCHANGED <<running, destroyed, wire, link>>
  /\ ParserTypeOK'
  /\ Taken(s, ends)'

\* The body of the next frame is there.
LEMMA BodyRead ==
  ASSUME ParserTypeOK, Len(delivered) < Len(sent), Len(Expected.body) <= MaxFrameBytes,
         NEW s, NEW ends, Sent(s, ends),
         NEW d \in Seq(Bytes), Len(d) <= Len(data), Len(d) >= Len(Expected.body),
         Left(s, ends[Len(delivered)] + 1 + Len(Length(Expected)), d, wire),
         EmitMessage(Expected.tag, d, Len(Expected.body))
  PROVE  (Throw /\ Reason) \/ GoesOn(s, ends)
<1> DEFINE k == Len(delivered)
           at == ends[k] + 1 + Len(Length(Expected))
           size == Len(Expected.body)
<1>1. /\ k \in Nat /\ k + 1 \in 1 .. Len(sent) /\ Expected \in Frames
      /\ s \in Seq(Bytes) /\ ends[k] \in Nat /\ ends[k + 1] = at + size
      /\ FrameAt(s, ends[k], Expected)
  <2>1. k \in Nat /\ Len(sent) \in Nat /\ k + 1 \in 1 .. Len(sent) /\ k \in 0 .. Len(sent)
    BY DEF ParserTypeOK
  <2>2. Expected \in Frames
    BY <2>1, ElementOfSeq DEF ParserTypeOK, Expected
  <2>3. s \in Seq(Bytes) /\ ends[k] \in Nat
    BY <2>1 DEF Sent, Layout
  <2>4. ends[k + 1] = ends[k] + Size(Expected) /\ FrameAt(s, ends[k], Expected)
    <3>1. k + 1 - 1 = k
      BY <2>1
    <3> HIDE DEF k
    <3> QED BY <2>1, <3>1 DEF Sent, Layout, Expected, k
  <2>5. ends[k + 1] = at + size
    <3> DEFINE x == Len(Length(Expected))
               m == ends[k]
    <3>1. x \in Nat /\ size \in Nat /\ m \in Nat /\ at = m + 1 + x
      BY <2>2, <2>3, LengthTypes, FrameTypes
    <3>2. ends[k + 1] = m + (1 + x + size)
      BY <2>4 DEF Size
    <3> HIDE DEF x, m, size, at
    <3> QED BY <3>1, <3>2
  <2> QED BY <2>1, <2>2, <2>3, <2>4, <2>5
<1>2. /\ Expected.body \in Seq(Bytes) /\ Expected.tag \in Bytes /\ size \in 0 .. MaxFrameBytes
      /\ Expected = [tag |-> Expected.tag, body |-> Expected.body] /\ at \in Nat
  <2>1. /\ Expected.tag \in Bytes /\ Expected.body \in Seq(Bytes)
        /\ Expected = [tag |-> Expected.tag, body |-> Expected.body]
    BY <1>1, FrameTypes
  <2>2. Len(Length(Expected)) \in 1 .. 4 /\ at \in Nat
    BY <1>1, LengthTypes
  <2>3. size \in 0 .. MaxFrameBytes
    BY <2>1, BoundsAssumption
  <2> QED BY <2>1, <2>2, <2>3
<1>3. SubSeq(d, 1, size) = Expected.body
  <2>1. \A i \in 1 .. size : d[i] = Expected.body[i]
    BY <1>1, <1>2 DEF Left, FrameAt
  <2>2. SubSeq(d, 1, size) \in Seq(Bytes) /\ Len(SubSeq(d, 1, size)) = size
        /\ \A i \in 1 .. size : SubSeq(d, 1, size)[i] = d[i]
    BY <1>2
  <2> QED BY <1>2, <2>1, <2>2, SeqEqual
<1>4. CASE Expected \in Malformed
  BY <1>2, <1>3, <1>4 DEF EmitMessage, Reason
<1>5. CASE Expected \notin Malformed
  <2>1. /\ delivered' = Append(delivered, Expected) /\ data' = Rest(d, size)
        /\ state' = "TAG_AND_SIZE" /\ messageTag' = Expected.tag /\ messageSize' = size
        /\ sizePacketSoFar' = 0
        /\ UNCHANGED <<running, destroyed, wire, link>>
    BY <1>2, <1>3, <1>5 DEF EmitMessage
  <2>2. /\ data' \in Seq(Bytes) /\ Len(data') <= Len(data)
        /\ Left(s, ends[k + 1], data', wire)
    <3>1. wire \in Seq(Bytes) /\ size \in 0 .. Len(d) /\ Left(s, at, d, wire)
      BY <1>2 DEF ParserTypeOK
    <3>2. /\ Rest(d, size) \in Seq(Bytes) /\ Len(Rest(d, size)) = Len(d) - size
          /\ Left(s, at + size, Rest(d, size), wire)
      BY <1>1, <1>2, <3>1, LeftRest
    <3> QED BY <1>1, <1>2, <2>1, <3>2 DEF ParserTypeOK
  <2>3. Len(delivered') = k + 1 /\ delivered' \in Seq(Frames)
    BY <1>1, <2>1, AppendProperties DEF ParserTypeOK
  <2>4. ParserTypeOK'
    <3>1. /\ data' \in Seq(Bytes) /\ Len(data') <= MaxBufferBytes
          /\ delivered' \in Seq(Frames)
      <4>1. MaxBufferBytes \in Nat
        BY BoundsAssumption
      <4>2. Len(data) <= MaxBufferBytes /\ Len(data) \in Nat
        BY DEF ParserTypeOK
      <4>3. Len(data') \in Nat
        BY <2>2
      <4> QED BY <2>2, <2>3, <4>1, <4>2, <4>3
    <3>2. /\ state' = "TAG_AND_SIZE" /\ messageTag' \in Bytes
          /\ messageSize' \in 0 .. MaxFrameBytes /\ sizePacketSoFar' \in Nat
      BY <1>2, <2>1
    <3> QED BY <2>1, <3>1, <3>2 DEF ParserTypeOK, link
  <2>5. Taken(s, ends)'
    BY <2>1, <2>2, <2>3 DEF Taken, Left
  <2> QED BY <2>1, <2>4, <2>5 DEF GoesOn
<1> QED BY <1>4, <1>5

\* What is known of the next frame.
LEMMA NextFrame ==
  ASSUME ParserTypeOK, Len(delivered) < Len(sent), NEW s, NEW ends, Sent(s, ends)
  PROVE  /\ Expected \in Frames /\ Length(Expected) = Varint(Len(Expected.body))
         /\ Expected.body \in Seq(Bytes) /\ Expected.tag \in Bytes
         /\ Len(Expected.body) \in Nat /\ Len(Expected.body) < Limit
         /\ Len(Length(Expected)) \in 1 .. 4
         /\ s \in Seq(Bytes) /\ ends[Len(delivered)] \in Nat
         /\ FrameAt(s, ends[Len(delivered)], Expected)
<1>1. /\ Len(delivered) \in 0 .. Len(sent) /\ Len(delivered) + 1 \in 1 .. Len(sent)
      /\ Len(delivered) + 1 - 1 = Len(delivered)
  BY DEF ParserTypeOK
<1>2. Expected \in Frames
  BY <1>1, ElementOfSeq DEF ParserTypeOK, Expected
<1>3. s \in Seq(Bytes) /\ ends[Len(delivered)] \in Nat
  BY <1>1 DEF Sent, Layout
<1>4. FrameAt(s, ends[Len(delivered)], Expected)
  BY <1>1 DEF Sent, Layout, Expected
<1>5. Length(Expected) = Varint(Len(Expected.body))
  BY DEF Length
<1>6. /\ Expected.body \in Seq(Bytes) /\ Expected.tag \in Bytes
      /\ Len(Expected.body) \in Nat /\ Len(Expected.body) < Limit
  BY <1>2, FrameTypes
<1> QED BY <1>2, <1>3, <1>4, <1>5, <1>6, LengthTypes

\* The tag of the next frame is read.
LEMMA HeaderRead ==
  ASSUME ParserTypeOK, Len(delivered) < Len(sent), NEW s, NEW ends, Sent(s, ends),
         NEW d \in Seq(Bytes), Len(d) <= Len(data),
         Left(s, ends[Len(delivered)] + 1, d, wire),
         OnSize(Expected.tag, d)
  PROVE  (Throw /\ Reason) \/ GoesOn(s, ends)
<1> DEFINE at == ends[Len(delivered)] + 1
           size == Len(Expected.body)
           length == Length(Expected)
<1>1. /\ Expected \in Frames /\ length = Varint(size)
      /\ Expected.tag \in Bytes /\ size \in Nat /\ size < Limit
      /\ Len(length) \in 1 .. 4
      /\ s \in Seq(Bytes) /\ at \in Nat
      /\ FrameAt(s, ends[Len(delivered)], Expected)
  BY NextFrame
<1>2. \A i \in 1 .. Len(d) : i <= Len(Varint(size)) => d[i] = Varint(size)[i]
  BY <1>1 DEF Left, FrameAt
<1> HIDE DEF at, size, length
<1>3. CASE Len(d) < Len(length)
  <2>1. VarintEnds(d) = {} /\ Len(d) < 4
    BY <1>1, <1>2, <1>3, LengthRead
  <2>2. /\ data' = d /\ state' = "SIZE" /\ sizePacketSoFar' = Len(d)
        /\ messageTag' = Expected.tag
        /\ UNCHANGED <<messageSize, running, destroyed, wire, delivered, link>>
    BY <2>1 DEF OnSize, SizeIncomplete
  <2>3. ParserTypeOK'
    BY <1>1, <2>2, BoundsAssumption DEF ParserTypeOK, link
  <2>4. Taken(s, ends)'
    BY <2>1, <2>2 DEF Taken, Left, Expected, link
  <2> QED BY <2>2, <2>3, <2>4 DEF GoesOn
<1>4. CASE Len(d) >= Len(length)
  <2>1. VarintEnds(d) # {} /\ VarintLength(d) = Len(length) /\ VarintValue(d) = size
    BY <1>1, <1>2, <1>4, LengthRead
  <2>2. CASE size > MaxFrameBytes
    BY <2>1, <2>2 DEF OnSize, Reason, size
  <2>3. CASE size <= MaxFrameBytes
    <3> DEFINE rest == Rest(d, Len(length))
    <3>1. Sized(Expected.tag, rest, size)
      BY <1>1, <2>1, <2>3, BoundsAssumption DEF OnSize
    <3>2. /\ rest \in Seq(Bytes) /\ Len(rest) <= Len(d)
          /\ Left(s, at + Len(length), rest, wire)
      <4>1. Len(length) \in 0 .. Len(d) /\ wire \in Seq(Bytes) /\ Left(s, at, d, wire)
        BY <1>1, <1>4 DEF ParserTypeOK, at
      <4> QED BY <1>1, <4>1, LeftRest
    <3> HIDE DEF rest
    <3>3. CASE size = 0
      <4>1. EmitMessage(Expected.tag, rest, Len(Expected.body))
        BY <3>1, <3>3 DEF Sized, size
      <4>2. /\ Len(Expected.body) <= MaxFrameBytes /\ Len(rest) >= Len(Expected.body)
            /\ Len(rest) <= Len(data)
            /\ Left(s, ends[Len(delivered)] + 1 + Len(Length(Expected)), rest, wire)
        BY <2>3, <3>2, <3>3 DEF size, at, length, ParserTypeOK
      <4> QED BY <3>2, <4>1, <4>2, BodyRead
    <3>4. CASE size # 0
      <4>1. /\ data' = rest /\ state' = "PROTO_BYTES" /\ sizePacketSoFar' = 0
            /\ messageTag' = Expected.tag /\ messageSize' = size
            /\ UNCHANGED <<running, destroyed, wire, delivered, link>>
        BY <3>1, <3>4 DEF Sized
      <4>2. ParserTypeOK'
        <5>1. MaxFrameBytes \in Nat /\ MaxBufferBytes \in Nat
          BY BoundsAssumption
        <5>2. /\ Len(data) \in Nat /\ Len(data) <= MaxBufferBytes
              /\ Len(d) \in Nat /\ Len(rest) \in Nat
          BY <3>2 DEF ParserTypeOK
        <5>3. Len(data') <= MaxBufferBytes /\ data' \in Seq(Bytes)
          BY <3>2, <4>1, <5>1, <5>2
        <5>4. messageSize' \in 0 .. MaxFrameBytes /\ messageTag' \in Bytes
          BY <1>1, <2>3, <4>1, <5>1
        <5> QED BY <4>1, <5>3, <5>4 DEF ParserTypeOK, link
      <4>3. Taken(s, ends)'
        BY <3>2, <4>1 DEF Taken, Left, Expected, link, at, size, length
      <4> QED BY <4>1, <4>2, <4>3 DEF GoesOn
    <3> QED BY <1>1, <3>3, <3>4
  <2> QED BY <1>1, <2>2, <2>3, BoundsAssumption
<1> QED BY <1>1, <1>3, <1>4

\* A step of the parser: it ends the connection for a reason, or goes on.
LEMMA ParserReads ==
  ASSUME ParserTypeOK, InOrder, NEW s, NEW ends, Sent(s, ends), Taken(s, ends),
         ReadVersion \/ ReadTag \/ ReadSize \/ ReadBody
  PROVE  (Throw /\ (version < MinVersion \/ Reason)) \/ GoesOn(s, ends)
<1> DEFINE k == Len(delivered)
<1>0. /\ s \in Seq(Bytes) /\ Len(s) \in Nat /\ s[1] = version
      /\ k \in 0 .. Len(sent) /\ ends[k] \in Nat
      /\ ends[0] = 1 /\ ends[Len(sent)] = Len(s)
      /\ data \in Seq(Bytes) /\ wire \in Seq(Bytes) /\ Len(data) \in Nat /\ Len(wire) \in Nat
  BY DEF Sent, Layout, InOrder, ParserTypeOK
\* Behind the last frame there is nothing to read.
<1>1. ASSUME ends[k] + 1 < Len(s) + 1
      PROVE  k < Len(sent)
  BY <1>0, <1>1
<1>2. CASE ReadVersion
  <2>1. Len(data) >= 3 /\ delivered = <<>> /\ Left(s, 0, data, wire) /\ k = 0
    BY <1>2 DEF ReadVersion, Parsing, MinBytesNeeded, Taken
  <2>2. data[1] = version /\ data[2] = s[2] /\ Len(s) >= 3
    BY <1>0, <2>1 DEF Left
  <2>3. CASE version < MinVersion
    BY <1>2, <2>2, <2>3 DEF ReadVersion
  <2>4. CASE ~(version < MinVersion)
    <3>1. k < Len(sent)
      BY <1>0, <1>1, <2>1, <2>2
    <3>2. data[2] = Expected.tag
      BY <1>0, <2>1, <2>2, <3>1, NextFrame DEF FrameAt
    <3>3. /\ Rest(data, 2) \in Seq(Bytes) /\ Len(Rest(data, 2)) = Len(data) - 2
          /\ Left(s, 2, Rest(data, 2), wire)
      BY <1>0, <2>1, 2 \in 0 .. Len(data), 2 = 0 + 2, LeftRest
    <3>4. OnSize(Expected.tag, Rest(data, 2))
      BY <1>2, <2>2, <2>4, <3>2 DEF ReadVersion
    <3>5. Len(Rest(data, 2)) <= Len(data) /\ Left(s, ends[Len(delivered)] + 1, Rest(data, 2), wire)
      BY <1>0, <2>1, <3>3
    <3> QED BY <3>1, <3>3, <3>4, <3>5, HeaderRead
  <2> QED BY <2>3, <2>4
<1>3. CASE ReadTag
  <2>1. Len(data) >= 2 /\ Left(s, ends[k], data, wire) /\ OnSize(data[1], Rest(data, 1))
    BY <1>3 DEF ReadTag, Parsing, MinBytesNeeded, Taken
  <2>2. k < Len(sent) /\ data[1] = s[ends[k] + 1]
    BY <1>0, <1>1, <2>1 DEF Left
  <2>3. data[1] = Expected.tag
    BY <2>2, NextFrame DEF FrameAt
  <2>4. /\ Rest(data, 1) \in Seq(Bytes) /\ Len(Rest(data, 1)) = Len(data) - 1
        /\ Left(s, ends[k] + 1, Rest(data, 1), wire)
    <3>1. 1 \in 0 .. Len(data)
      BY <1>0, <2>1
    <3> HIDE DEF k
    <3> QED BY <1>0, <2>1, <3>1, LeftRest
  <2>5. Len(Rest(data, 1)) <= Len(data) /\ OnSize(Expected.tag, Rest(data, 1))
    BY <1>0, <2>1, <2>3, <2>4
  <2> QED BY <2>2, <2>4, <2>5, HeaderRead
<1>4. CASE ReadSize
  <2>1. /\ k < Len(sent) /\ messageTag = Expected.tag /\ Left(s, ends[k] + 1, data, wire)
        /\ OnSize(messageTag, data)
    BY <1>4 DEF ReadSize, Taken
  <2> QED BY <1>0, <2>1, HeaderRead
<1>5. CASE ReadBody
  <2>1. /\ k < Len(sent) /\ messageTag = Expected.tag /\ messageSize = Len(Expected.body)
        /\ Left(s, ends[k] + 1 + Len(Length(Expected)), data, wire)
        /\ EmitMessage(messageTag, data, messageSize) /\ Len(data) >= messageSize
    BY <1>5 DEF ReadBody, Parsing, MinBytesNeeded, Taken
  <2>2. Len(Expected.body) <= MaxFrameBytes /\ Len(data) >= Len(Expected.body)
        /\ EmitMessage(Expected.tag, data, Len(Expected.body)) /\ Len(data) <= Len(data)
    BY <1>0, <2>1, BoundsAssumption DEF ParserTypeOK
  <2> QED BY <1>0, <2>1, <2>2, BodyRead
<1> QED BY <1>2, <1>3, <1>4, <1>5

-----------------------------------------------------------------------------
(***************************************************************************)
(* The invariant.                                                          *)
(***************************************************************************)

\* A connection begins: nothing has been sent but the version.
Fresh ==
  /\ version \in Versions /\ wire = <<version>> /\ sent = <<>> /\ delivered = <<>>
  /\ data = <<>> /\ state = "VERSION_TAG_AND_SIZE"
  /\ messageTag = 0 /\ messageSize = 0 /\ sizePacketSoFar = 0
  /\ ~running /\ running \in BOOLEAN /\ ~destroyed /\ destroyed \in BOOLEAN
  /\ connections \in Nat

LEMMA FreshStream == Fresh => ParserInv
<1> SUFFICES ASSUME Fresh PROVE ParserInv
  OBVIOUS
<1> USE DEF Fresh
<1>1. 0 \in Bytes /\ version \in Bytes /\ MaxFrameBytes \in Nat /\ MaxBufferBytes \in Nat
  BY DigitTypes, InputsAssumption, BoundsAssumption
<1>2. ParserTypeOK
  <2>1. data \in Seq(Bytes) /\ sent \in Seq(Frames) /\ delivered \in Seq(Frames) /\ Len(data) = 0
    BY EmptySeq
  <2>2. wire \in Seq(Bytes)
    BY <1>1
  <2> QED BY <1>1, <2>1, <2>2 DEF ParserTypeOK
<1>3. InStep
  <2> DEFINE s == <<version>>
             ends == [n \in {0} |-> 1]
  <2>1. s \in Seq(Bytes) /\ Len(s) = 1 /\ s[1] = version
    BY <1>1
  <2>2. ends \in [0 .. Len(sent) -> 1 .. Len(s)] /\ ends[0] = 1
    BY <2>1
  <2>3. Sent(s, ends)
    BY <2>1, <2>2 DEF Sent, Layout
  <2>4. Taken(s, ends)
    BY <2>1, <2>2 DEF Taken, Left
  <2> QED BY <2>1, <2>2, <2>3, <2>4 DEF InStep
<1>4. Waits /\ Stopped /\ EndsForAReason /\ InOrder
  BY DEF Waits, Stopped, EndsForAReason, InOrder, MinBytesNeeded
<1> QED BY <1>2, <1>3, <1>4 DEF ParserInv

LEMMA FreshNext == Fresh' => ParserInv'
  BY FreshStream, PTL

LEMMA InitInv == Init => ParserInv
<1> SUFFICES ASSUME Init PROVE Fresh
  BY FreshStream
<1>1. connections \in Nat /\ ~running /\ ~destroyed /\ running \in BOOLEAN /\ destroyed \in BOOLEAN
  BY DEF Init
<1> QED BY <1>1 DEF Init, Fresh

LEMMA GoesOnKeeps ==
  ASSUME ParserInv, running, ~destroyed, NEW s, NEW ends, Sent(s, ends), GoesOn(s, ends)
  PROVE  ParserInv'
<1> USE DEF ParserInv, GoesOn
<1>1. InOrder'
  <2>1. CASE UNCHANGED delivered
    BY <2>1 DEF InOrder, link
  <2>2. CASE Len(delivered) < Len(sent) /\ delivered' = Append(delivered, Expected)
    <3>1. Len(delivered) \in Nat /\ Len(sent) \in Nat /\ Expected \in Frames
      BY <2>2, ElementOfSeq DEF ParserTypeOK, Expected
    <3>2. /\ Len(delivered') = Len(delivered) + 1
          /\ \A n \in 1 .. Len(delivered) : delivered'[n] = delivered[n]
          /\ delivered'[Len(delivered) + 1] = Expected
      BY <2>2, <3>1, AppendProperties DEF ParserTypeOK
    <3> QED BY <2>2, <3>1, <3>2 DEF InOrder, Expected, link
  <2> QED BY <2>1, <2>2
<1>2. InStep'
  <2>1. Sent(s, ends)'
    BY DEF Sent, Layout, link
  <2> QED BY <2>1 DEF InStep, link
<1>3. Waits' /\ Stopped' /\ EndsForAReason'
  BY DEF Waits, Stopped, EndsForAReason
<1> QED BY <1>1, <1>2, <1>3

LEMMA ThrowKeeps ==
  ASSUME ParserInv, Throw, version < MinVersion \/ Reason
  PROVE  ParserInv'
<1> USE DEF ParserInv, Throw
<1>1. ParserTypeOK'
  BY EmptySeq DEF ParserTypeOK, parser, link
<1>2. InOrder' /\ InStep' /\ Waits' /\ Stopped'
  BY DEF InOrder, InStep, Waits, Stopped, parser, link
<1>3. EndsForAReason'
  <2>1. UNCHANGED <<version, delivered, sent>>
    BY DEF link
  <2>2. MinVersion \in Nat /\ version \in Nat
    BY BoundsAssumption, InputsAssumption, DigitTypes DEF ParserTypeOK
  <2> QED BY <2>1, <2>2 DEF EndsForAReason, Reason, Expected
<1> QED BY <1>1, <1>2, <1>3
\* A chunk always finds room: nothing but the start of a header or of one legal body
\* waits in the buffer.
LEMMA ChunkKeeps ==
  ASSUME ParserInv, ChunkArrives
  PROVE  ParserInv'
<1>1. /\ ~running /\ ~destroyed /\ Len(data) < MinBytesNeeded
      /\ ParserTypeOK /\ InOrder
  BY DEF ParserInv, ChunkArrives, Waits
<1>2. PICK s, ends : Sent(s, ends) /\ Taken(s, ends)
  BY <1>1 DEF ParserInv, InStep
<1>3. PICK n \in 1 .. Len(wire) :
        /\ n <= MaxChunk
        /\ IF Len(data) + n > MaxBufferBytes THEN Throw
           ELSE /\ data' = data \o SubSeq(wire, 1, n)
                /\ wire' = Rest(wire, n)
                /\ running' = TRUE
                /\ UNCHANGED <<state, messageTag, messageSize, sizePacketSoFar,
                               destroyed, delivered, link>>
  BY DEF ChunkArrives
<1>4. /\ data \in Seq(Bytes) /\ wire \in Seq(Bytes) /\ s \in Seq(Bytes)
      /\ Len(data) \in Nat /\ Len(wire) \in Nat
  BY <1>1, <1>2 DEF ParserTypeOK, Sent, Layout
<1>5. Len(data) + n <= MaxBufferBytes
  <2>1. /\ 3 + MaxChunk <= MaxBufferBytes /\ MaxFrameBytes + MaxChunk <= MaxBufferBytes
        /\ MaxChunk \in Nat /\ MaxFrameBytes \in Nat /\ MaxBufferBytes \in Nat
    BY RoomAssumption, BoundsAssumption
  <2>2. Len(data) <= 3 \/ Len(data) <= MaxFrameBytes
    <3>1. MinBytesNeeded <= 4 \/ MinBytesNeeded = messageSize
      BY <1>1, <1>2 DEF MinBytesNeeded, Taken, ParserTypeOK
    <3>2. messageSize \in Nat /\ messageSize <= MaxFrameBytes
      BY <1>1, <2>1 DEF ParserTypeOK
    <3>3. MinBytesNeeded \in Nat
      <4>1. sizePacketSoFar + 1 \in Nat
        BY <1>1 DEF ParserTypeOK
      <4> QED BY <1>1, <3>2, <4>1 DEF MinBytesNeeded, ParserTypeOK
    <3> QED BY <1>1, <1>4, <2>1, <3>1, <3>2, <3>3
  <2> QED BY <1>3, <1>4, <2>1, <2>2
<1>6. /\ data' = data \o SubSeq(wire, 1, n) /\ wire' = Rest(wire, n) /\ running' = TRUE
      /\ UNCHANGED <<state, messageTag, messageSize, sizePacketSoFar, destroyed,
                     delivered, link>>
  BY <1>3, <1>4, <1>5, BoundsAssumption
<1>7. ASSUME NEW p \in Nat, Left(s, p, data, wire)
      PROVE  Left(s, p, data', wire')
  BY <1>4, <1>6, <1>7, LeftArrived
<1>8. data' \in Seq(Bytes) /\ Len(data') = Len(data) + n /\ wire' \in Seq(Bytes)
  <2>1. SubSeq(wire, 1, n) \in Seq(Bytes) /\ Len(SubSeq(wire, 1, n)) = n
    BY <1>4
  <2>2. Rest(wire, n) \in Seq(Bytes)
    BY <1>4 DEF Rest
  <2> QED BY <1>4, <1>6, <2>1, <2>2
<1>9. ParserTypeOK'
  BY <1>1, <1>5, <1>6, <1>8 DEF ParserTypeOK, link
<1>10. InStep'
  <2>1. Sent(s, ends)'
    BY <1>2, <1>6 DEF Sent, Layout, link
  <2>2. Taken(s, ends)'
    <3>1. CASE state = "VERSION_TAG_AND_SIZE"
      BY <1>2, <1>6, <1>7, <3>1 DEF Taken, link
    <3>2. CASE state = "TAG_AND_SIZE"
      <4>1. ends[Len(delivered)] \in Nat
        BY <1>1, <1>2 DEF Sent, Layout, InOrder, ParserTypeOK
      <4> QED BY <1>2, <1>6, <1>7, <3>2, <4>1 DEF Taken, link
    <3>3. CASE state = "SIZE"
      <4>1. Len(delivered) < Len(sent)
        BY <1>2, <3>3 DEF Taken
      <4>2. ends[Len(delivered)] + 1 \in Nat
        BY <1>1, <1>2, <4>1, NextFrame
      <4> QED BY <1>2, <1>6, <1>7, <3>3, <4>2 DEF Taken, Expected, link
    <3>4. CASE state = "PROTO_BYTES"
      <4>1. Len(delivered) < Len(sent)
        BY <1>2, <3>4 DEF Taken
      <4>2. ends[Len(delivered)] + 1 + Len(Length(Expected)) \in Nat
        BY <1>1, <1>2, <4>1, NextFrame
      <4> QED BY <1>2, <1>6, <1>7, <3>4, <4>2 DEF Taken, Expected, link
    <3> QED BY <1>1, <3>1, <3>2, <3>3, <3>4 DEF ParserTypeOK
  <2> QED BY <2>1, <2>2 DEF InStep
<1>11. InOrder' /\ Waits' /\ Stopped' /\ EndsForAReason'
  BY <1>1, <1>6 DEF InOrder, Waits, Stopped, EndsForAReason, link
<1> QED BY <1>9, <1>10, <1>11 DEF ParserInv

LEMMA WaitKeeps ==
  ASSUME ParserInv, Wait
  PROVE  ParserInv'
<1> USE DEF Wait, parser, link
<1>1. ParserTypeOK'
  BY DEF ParserInv, ParserTypeOK
<1>2. InStep'
  <2>1. ASSUME NEW s, NEW ends, Sent(s, ends), Taken(s, ends)
        PROVE  Sent(s, ends)' /\ Taken(s, ends)'
    BY <2>1 DEF Sent, Layout, Taken, Expected
  <2> QED BY <2>1 DEF ParserInv, InStep
<1>3. InOrder' /\ Waits' /\ Stopped' /\ EndsForAReason'
  <2>1. Len(data) \in Nat /\ ~(Len(data) >= MinBytesNeeded)
    BY DEF Parsing, ParserInv, ParserTypeOK
  <2>2. MinBytesNeeded \in Nat
    BY BoundsAssumption DEF ParserInv, ParserTypeOK, MinBytesNeeded
  <2>3. MinBytesNeeded' = MinBytesNeeded
    BY DEF MinBytesNeeded
  <2>4. Waits'
    BY <2>1, <2>2, <2>3 DEF Waits
  <2> QED BY <2>4 DEF ParserInv, InOrder, Stopped, EndsForAReason
<1> QED BY <1>1, <1>2, <1>3 DEF ParserInv
\* The layout of a stream, and then of the frame sent on it.
LEMMA LayoutGrows ==
  ASSUME NEW q \in Seq(Frames), NEW v, NEW s, NEW ends, Layout(q, v, s, ends),
         NEW f \in Frames
  PROVE  \E more : /\ Layout(Append(q, f), v, s \o Encoded(f), more)
                   /\ \A n \in 0 .. Len(q) : more[n] = ends[n]
<1> PICK r, t : r = Append(q, f) /\ t = s \o Encoded(f)
  OBVIOUS
<1> DEFINE k == Len(q)
           z == Len(s)
           y == Size(f)
<1>1. /\ k \in Nat /\ z \in Nat /\ s \in Seq(Bytes)
      /\ ends \in [0 .. k -> 1 .. z] /\ ends[0] = 1 /\ ends[k] = z /\ s[1] = v
  BY DEF Layout
<1>2. \A n \in 1 .. k : /\ q[n] \in Frames
                        /\ ends[n] = ends[n - 1] + Size(q[n])
                        /\ FrameAt(s, ends[n - 1], q[n])
  BY ElementOfSeq DEF Layout
<1>3. /\ t \in Seq(Bytes) /\ Len(t) = z + y /\ y \in Nat
      /\ \A i \in 1 .. z : t[i] = s[i]
  <2>1. \A b \in Seq(Bytes) : /\ s \o b \in Seq(Bytes) /\ Len(s \o b) = z + Len(b)
                              /\ \A i \in 1 .. z : (s \o b)[i] = s[i]
    BY <1>1, Joined
  <2>2. Encoded(f) \in Seq(Bytes) /\ Len(Encoded(f)) = y /\ y \in Nat
    BY EncodedParts, SizeType
  <2> QED BY <2>1, <2>2
<1>4. FrameAt(t, z, f)
  BY <1>1, FrameComes
<1>5. /\ Len(r) = k + 1 /\ \A n \in 1 .. k : r[n] = q[n]
      /\ r[k + 1] = f
  BY AppendProperties
<1> HIDE DEF k, z, y
<1>6. \A n \in 1 .. k : FrameAt(t, ends[n - 1], q[n])
  <2> SUFFICES ASSUME NEW n \in 1 .. k PROVE FrameAt(t, ends[n - 1], q[n])
    OBVIOUS
  <2>1. n \in 0 .. k /\ n - 1 \in 0 .. k
    BY <1>1
  <2>2. ends[n] \in 1 .. z /\ ends[n - 1] \in 1 .. z
    BY <1>1, <2>1
  <2>3. ends[n - 1] + Size(q[n]) <= Len(s) /\ ends[n - 1] \in Nat
    BY <1>1, <1>2, <2>2 DEF z
  <2>4. \A b \in Seq(Bytes) : FrameAt(s \o b, ends[n - 1], q[n])
    BY <1>1, <1>2, <2>3, FrameStays
  <2> QED BY <2>4, EncodedParts
<1> PICK more : more = [n \in 0 .. k + 1 |-> IF n <= k THEN ends[n] ELSE z + y]
  OBVIOUS
<1>7. /\ \A n \in 0 .. k : more[n] = ends[n]
      /\ more[k + 1] = z + y /\ more \in [0 .. k + 1 -> 1 .. z + y]
  <2>1. \A n \in 0 .. k : ends[n] \in 1 .. z + y
    BY <1>1, <1>3
  <2>2. z + y \in 1 .. z + y
    <3>1. 0 \in 0 .. k
      BY <1>1
    <3>2. ends[0] \in 1 .. z
      BY <1>1, <3>1
    <3> QED BY <1>1, <1>3, <3>2
  <2> QED BY <1>1, <2>1, <2>2
<1>8. ASSUME NEW n \in 1 .. k + 1
      PROVE  /\ more[n] = more[n - 1] + Size(r[n])
             /\ FrameAt(t, more[n - 1], r[n])
  <2>1. CASE n \in 1 .. k
    <3>1. n - 1 \in 0 .. k /\ n \in 0 .. k
      BY <1>1, <2>1
    <3> QED BY <1>2, <1>5, <1>6, <1>7, <2>1, <3>1
  <2>2. CASE n = k + 1
    <3>1. k \in 0 .. k /\ n - 1 = k
      BY <1>1, <2>2
    <3>2. more[n - 1] = z /\ more[n] = z + y /\ r[n] = f
      BY <1>1, <1>5, <1>7, <2>2, <3>1
    <3> QED BY <1>4, <3>2 DEF y
  <2>3. n \in 1 .. k \/ n = k + 1
    BY <1>1
  <2> QED BY <2>1, <2>2, <2>3
<1>9. t[1] = v /\ more[0] = 1 /\ more[k + 1] = z + y
  <2>1. 1 \in 1 .. z /\ 0 \in 0 .. k
    <3>1. 0 \in 0 .. k
      BY <1>1
    <3>2. ends[0] \in 1 .. z
      BY <1>1, <3>1
    <3> QED BY <1>1, <3>1, <3>2
  <2> QED BY <1>1, <1>3, <1>7, <2>1
<1>10. Layout(r, v, t, more)
  <2>1. more \in [0 .. Len(r) -> 1 .. Len(t)] /\ more[Len(r)] = Len(t)
    BY <1>3, <1>5, <1>7
  <2>2. \A n \in 1 .. Len(r) : /\ more[n] = more[n - 1] + Size(r[n])
                                   /\ FrameAt(t, more[n - 1], r[n])
    BY <1>5, <1>8
  <2>3. /\ t \in Seq(Bytes) /\ more \in [0 .. Len(r) -> 1 .. Len(t)]
        /\ t[1] = v /\ more[0] = 1 /\ more[Len(r)] = Len(t)
    BY <1>3, <1>9, <2>1
  <2> QED BY ONLY <2>2, <2>3 DEF Layout
<1>11. \A n \in 0 .. Len(q) : more[n] = ends[n]
  BY <1>7 DEF k
<1> QED BY <1>10, <1>11

LEMMA SendKeeps ==
  ASSUME ParserInv, ServerSends
  PROVE  ParserInv'
<1>1. ParserTypeOK /\ InOrder /\ Waits /\ Stopped /\ ~running /\ ~destroyed
  BY DEF ParserInv, ServerSends
<1>2. PICK s, ends : Sent(s, ends) /\ Taken(s, ends)
  BY <1>1 DEF ParserInv, InStep
<1>3. PICK f \in Frames : sent' = Append(sent, f) /\ wire' = wire \o Encoded(f)
  BY DEF ServerSends
<1>4. UNCHANGED <<data, state, messageTag, messageSize, sizePacketSoFar, running, destroyed,
                  delivered, version, connections>>
  BY DEF ServerSends, parser
<1>5. /\ Encoded(f) \in Seq(Bytes) /\ s \in Seq(Bytes) /\ data \in Seq(Bytes)
      /\ wire \in Seq(Bytes) /\ sent \in Seq(Frames) /\ delivered \in Seq(Frames)
      /\ Len(delivered) \in Nat /\ Len(sent) \in Nat /\ Len(delivered) <= Len(sent)
  <2>1. Encoded(f) \in Seq(Bytes)
    BY EncodedParts
  <2> QED BY <1>1, <1>2, <2>1 DEF ParserTypeOK, Sent, Layout, InOrder
<1>6. /\ sent' \in Seq(Frames) /\ Len(sent') = Len(sent) + 1
      /\ \A n \in 1 .. Len(sent) : sent'[n] = sent[n]
  BY <1>3, <1>5, AppendProperties
<1>7. ParserTypeOK'
  BY <1>1, <1>3, <1>4, <1>5, <1>6 DEF ParserTypeOK
<1>8. InOrder'
  <2>1. Len(delivered) <= Len(sent')
    BY <1>5, <1>6
  <2>2. \A n \in 1 .. Len(delivered) : delivered[n] = sent'[n]
    BY <1>1, <1>5, <1>6 DEF InOrder
  <2> QED BY <1>4, <2>1, <2>2 DEF InOrder
<1>9. InStep'
  <2>1. PICK more : /\ Sent(s \o Encoded(f), more)'
                    /\ \A n \in 0 .. Len(sent) : more[n] = ends[n]
    <3> PICK u : u = s \o Encoded(f)
      OBVIOUS
    <3>1. PICK more : Layout(sent', version, u, more) /\ \A n \in 0 .. Len(sent) : more[n] = ends[n]
      <4>1. Layout(sent, version, s, ends)
        BY <1>2 DEF Sent
      <4> QED BY <1>3, <1>5, <4>1, LayoutGrows
    <3>2. Layout(sent', version', u, more)
      BY <1>4, <3>1
    <3>3. Sent(u, more)'
      BY <3>2 DEF Sent
    <3> QED BY <3>1, <3>3
  <2>2. more[Len(delivered)] = ends[Len(delivered)] /\ ends[Len(delivered)] \in Nat
    <3>1. Len(delivered) \in 0 .. Len(sent)
      BY <1>5
    <3> QED BY <1>2, <2>1, <3>1 DEF Sent, Layout
  <2>3. ASSUME NEW p \in Nat, Left(s, p, data, wire)
        PROVE  Left(s \o Encoded(f), p, data, wire')
    BY <1>3, <1>5, <2>3, LeftGrows
  <2>4. ASSUME Len(delivered) < Len(sent)
        PROVE  Expected' = Expected /\ Len(Length(Expected)) \in Nat
    <3>1. Len(delivered) + 1 \in 1 .. Len(sent)
      BY <1>5, <2>4
    <3>2. Expected \in Frames
      BY <1>5, <3>1, ElementOfSeq DEF Expected
    <3> QED BY <1>4, <1>6, <3>1, <3>2, LengthTypes DEF Expected
  <2>5. Taken(s \o Encoded(f), more)'
    <3>1. CASE state = "VERSION_TAG_AND_SIZE"
      BY <1>2, <1>4, <2>3, <3>1 DEF Taken
    <3>2. CASE state = "TAG_AND_SIZE"
      BY <1>2, <1>4, <2>2, <2>3, <3>2 DEF Taken
    <3>3. CASE state = "SIZE"
      <4>1. /\ Len(delivered) < Len(sent) /\ messageTag = Expected.tag /\ sizePacketSoFar < 4
            /\ Left(s, ends[Len(delivered)] + 1, data, wire)
        BY <1>2, <3>3 DEF Taken
      <4>2. Left(s \o Encoded(f), more[Len(delivered)] + 1, data, wire')
        BY <2>2, <2>3, <4>1
      <4>3. Len(delivered) < Len(sent')
        BY <1>5, <1>6, <4>1
      <4> QED BY <1>4, <2>4, <3>3, <4>1, <4>2, <4>3 DEF Taken
    <3>4. CASE state = "PROTO_BYTES"
      <4>1. /\ Len(delivered) < Len(sent) /\ messageTag = Expected.tag
            /\ messageSize = Len(Expected.body)
            /\ Left(s, ends[Len(delivered)] + 1 + Len(Length(Expected)), data, wire)
        BY <1>2, <3>4 DEF Taken
      <4>2. Left(s \o Encoded(f), more[Len(delivered)] + 1 + Len(Length(Expected)), data, wire')
        BY <2>2, <2>3, <2>4, <4>1
      <4>3. Len(delivered) < Len(sent')
        BY <1>5, <1>6, <4>1
      <4>4. Length(Expected)' = Length(Expected)
        BY <2>4, <4>1 DEF Length
      <4> QED BY <1>4, <2>4, <3>4, <4>1, <4>2, <4>3, <4>4 DEF Taken
    <3> QED BY <1>1, <3>1, <3>2, <3>3, <3>4 DEF ParserTypeOK
  <2> QED BY <2>1, <2>5 DEF InStep
<1>10. Waits' /\ Stopped' /\ EndsForAReason'
  BY <1>1, <1>4 DEF Waits, Stopped, EndsForAReason, MinBytesNeeded
<1> QED BY <1>7, <1>8, <1>9, <1>10 DEF ParserInv
\* What the parser does, once a step of it has been read.
LEMMA Reads ==
  ASSUME ParserInv, ReadVersion \/ ReadTag \/ ReadSize \/ ReadBody
  PROVE  /\ running /\ ~destroyed
         /\ \/ Throw /\ (version < MinVersion \/ Reason)
            \/ \E s, ends : Sent(s, ends) /\ GoesOn(s, ends)
<1>1. running /\ ~destroyed
  BY DEF ReadVersion, ReadTag, ReadSize, ReadBody, Parsing, ParserInv, Stopped
<1>2. PICK s, ends : Sent(s, ends) /\ Taken(s, ends)
  BY <1>1 DEF ParserInv, InStep
<1>3. ParserTypeOK /\ InOrder
  BY DEF ParserInv
<1>4. (Throw /\ (version < MinVersion \/ Reason)) \/ GoesOn(s, ends)
  BY <1>2, <1>3, ParserReads
<1> QED BY <1>1, <1>2, <1>4

LEMMA NextInv == ParserInv /\ [Next]_vars => ParserInv'
<1> SUFFICES ASSUME ParserInv, [Next]_vars PROVE ParserInv'
  OBVIOUS
<1>1. CASE ReadVersion \/ ReadTag \/ ReadSize \/ ReadBody
  BY <1>1, Reads, ThrowKeeps, GoesOnKeeps
<1>2. CASE Wait
  BY <1>2, WaitKeeps
<1>3. CASE ChunkArrives
  BY <1>3, ChunkKeeps
<1>4. CASE ServerSends
  BY <1>4, SendKeeps
<1>5. CASE Connect
  <2>1. running' = FALSE /\ connections' \in Nat
    <3>1. ~running /\ running \in BOOLEAN /\ connections \in Nat
      BY <1>5 DEF Connect, ParserInv, ParserTypeOK
    <3>2. connections' = connections + 1 /\ running' = running
      BY <1>5 DEF Connect
    <3> QED BY <3>1, <3>2
  <2>2. Fresh'
    <3>1. version' \in Versions /\ wire' = <<version'>>
      BY <1>5 DEF Connect
    <3>2. /\ data' = <<>> /\ state' = "VERSION_TAG_AND_SIZE"
          /\ messageTag' = 0 /\ messageSize' = 0 /\ sizePacketSoFar' = 0
          /\ destroyed' = FALSE /\ sent' = <<>> /\ delivered' = <<>>
      BY <1>5 DEF Connect
    <3> QED BY <2>1, <3>1, <3>2, Zenon DEF Fresh
  <2> QED BY <2>2, FreshNext
<1>6. CASE UNCHANGED vars
  <2> USE <1>6 DEF vars, parser, link
  <2>1. ParserTypeOK' /\ InOrder' /\ Stopped' /\ EndsForAReason'
    BY DEF ParserInv, ParserTypeOK, InOrder, Stopped, EndsForAReason
  <2>2. InStep'
    <3>1. ASSUME NEW s, NEW ends, Sent(s, ends), Taken(s, ends)
          PROVE  Sent(s, ends)' /\ Taken(s, ends)'
      BY <3>1 DEF Sent, Taken, Expected
    <3> QED BY <3>1 DEF ParserInv, InStep
  <2>3. MinBytesNeeded' = MinBytesNeeded
    BY DEF MinBytesNeeded
  <2> QED BY <2>1, <2>2, <2>3 DEF ParserInv, Waits
<1> QED BY <1>1, <1>2, <1>3, <1>4, <1>5, <1>6 DEF Next, Parser

LEMMA InvInvariant == Spec => []ParserInv
  BY InitInv, NextInv, PTL DEF Spec

-----------------------------------------------------------------------------
(***************************************************************************)
(* The theorems.                                                           *)
(***************************************************************************)

\* What the parser keeps of a stream is well formed: the buffer and the size of the
\* frame stay within the limits that parser.ts checks.
THEOREM ParserTypesHold == Spec => []ParserTypeOK
<1>1. ParserInv => ParserTypeOK
  BY DEF ParserInv
<1> QED BY <1>1, InvInvariant, PTL

\* A connection ends for a wrong version, a frame over the limit or one that does not
\* decode, and for nothing else: no cut of the stream fills the buffer.
THEOREM EndsForAReasonHolds == Spec => []EndsForAReason
<1>1. ParserInv => EndsForAReason
  BY DEF ParserInv
<1> QED BY <1>1, InvInvariant, PTL

\* A step of the parser, the server or the network is one of the stream of frames.
LEMMA StepImplements ==
  ParserInv /\ [Next]_vars => [Stream!Next]_(Stream!stream)
<1> SUFFICES ASSUME ParserInv, [Next]_vars PROVE [Stream!Next]_(Stream!stream)
  OBVIOUS
<1> USE DEF Stream!Next, Stream!stream
<1>1. ASSUME ~destroyed, Throw
      PROVE  Stream!GiveUp
  BY <1>1 DEF Throw, Stream!GiveUp
<1>2. CASE ReadVersion \/ ReadTag \/ ReadSize \/ ReadBody
  <2>1. CASE Throw
    BY <1>1, <1>2, <2>1, Reads
  <2>2. CASE \E s, ends : Sent(s, ends) /\ GoesOn(s, ends)
    <3>1. /\ ~destroyed /\ UNCHANGED <<destroyed, sent>>
          /\ \/ UNCHANGED delivered
             \/ Len(delivered) < Len(sent) /\ delivered' = Append(delivered, Expected)
      BY <1>2, <2>2, Reads DEF GoesOn, link
    <3> QED BY <3>1 DEF Stream!Deliver, Expected
  <2> QED BY <1>2, <2>1, <2>2, Reads
<1>3. CASE Wait
  BY <1>3 DEF Wait, link
<1>4. CASE ChunkArrives
  BY <1>1, <1>4 DEF ChunkArrives, link
<1>5. CASE ServerSends
  BY <1>5 DEF ServerSends, Stream!Send
<1>6. CASE Connect
  BY <1>6 DEF Connect, Stream!NewConnection
<1>7. CASE UNCHANGED vars
  BY <1>7 DEF vars, link
<1> QED BY <1>2, <1>3, <1>4, <1>5, <1>6, <1>7 DEF Next, Parser

\* However the bytes are cut into chunks, and wherever connections break, the parser
\* hands on the frames that were sent: whole, in order and once.
THEOREM ParserImplements == Spec => Stream!Safety
<1>1. Init => Stream!Init
  BY DEF Init, Stream!Init
<1> QED BY <1>1, InvInvariant, StepImplements, PTL DEF Spec, Stream!Safety
=============================================================================
