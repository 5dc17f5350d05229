---------------------------- MODULE Services_proofs ----------------------------
(***************************************************************************)
(* What holds of the services beside the data path: of the collectors and  *)
(* the wire protocol for any links, payloads, datagrams and bounds, and of *)
(* the configuration manager for any callers, configurations and values.   *)
(***************************************************************************)
EXTENDS TelemetryMC, ConfigurationMC, SequenceTheorems, Aggregates

-----------------------------------------------------------------------------
(* Datagrams *)

\* The value of a digit, by its recursive definition.
LEMMA PlaceTyped ==
    /\ Place \in [Nat -> Nat \ {0}]
    /\ Place[0] = 1 /\ \A k \in Nat : Place[k + 1] = ByteBase * Place[k]
<1> DEFINE Defines(f) == f = [k \in Nat |-> IF k = 0 THEN 1 ELSE ByteBase * f[k - 1]]
           step == [k \in Nat |-> [x \in Nat \ {0} |-> ByteBase * x]]
<1>1. ByteBase \in Nat \ {0}
  BY WireAssumption
<1>2. step \in [Nat -> [Nat \ {0} -> Nat \ {0}]]
  BY <1>1
<1>3. PICK f \in [Nat -> Nat \ {0}] : f[0] = 1 /\ \A k \in Nat : f[k + 1] = step[k][f[k]]
  <2> DEFINE X == Nat \ {0}
  <2>1. 1 \in X /\ step \in [Nat -> [X -> X]]
    BY <1>2
  <2> HIDE DEF step, X
  <2>2. \E f \in [Nat -> X] : Recurs(f, 1, step)
    BY <2>1, RecursionExists
  <2> QED
    BY <2>2 DEF X, Recurs
<1>4. \A k \in Nat : f[k + 1] = ByteBase * f[k]
  BY <1>3
<1>5. f = [k \in Nat |-> IF k = 0 THEN 1 ELSE ByteBase * f[k - 1]]
  <2>1. ASSUME NEW k \in Nat PROVE f[k] = IF k = 0 THEN 1 ELSE ByteBase * f[k - 1]
    <3>1. CASE k = 0
      BY <1>3, <3>1
    <3>2. CASE k # 0
      <4>1. k - 1 \in Nat /\ (k - 1) + 1 = k
        BY <3>2
      <4> QED
        BY <1>4, <3>2, <4>1
    <3> QED BY <3>1, <3>2
  <2> QED
    BY <1>3, <2>1
<1>6. Place = CHOOSE g : Defines(g)
  BY DEF Place
<1>7. Defines(Place)
  <2>1. Defines(f)
    BY <1>5
  <2> HIDE DEF Defines
  <2> QED
    BY <1>6, <2>1
<1>8. /\ DOMAIN Place = Nat /\ Place[0] = 1
      /\ \A k \in Nat : Place[k + 1] = ByteBase * Place[k]
  <2>1. \A k \in Nat : Place[k] = IF k = 0 THEN 1 ELSE ByteBase * Place[k - 1]
    BY <1>7
  <2>2. ASSUME NEW k \in Nat PROVE Place[k + 1] = ByteBase * Place[k]
    <3>1. k + 1 \in Nat /\ k + 1 # 0 /\ (k + 1) - 1 = k
      OBVIOUS
    <3> QED
      BY <2>1, <3>1
  <2> QED
    BY <1>7, <2>1, <2>2
<1> DEFINE Good == {k \in Nat : Place[k] \in Nat \ {0}}
<1>9. Good = Nat
  <2>1. 0 \in Good
    BY <1>8
  <2>2. ASSUME NEW k \in Good PROVE k + 1 \in Good
    <3>1. k \in Nat /\ Place[k] \in Nat \ {0} /\ Place[k + 1] = ByteBase * Place[k]
      BY <1>8
    <3> QED
      BY <1>1, <3>1
  <2>3. Good \in SUBSET Nat
    OBVIOUS
  <2> HIDE DEF Good
  <2> QED
    BY <2>1, <2>2, <2>3, Counting
<1>10. Place = [k \in Nat |-> Place[k]]
  BY <1>7
<1>11. \A k \in Nat : Place[k] \in Nat \ {0}
  BY <1>9
<1> HIDE DEF Good, Defines
<1>12. Place \in [Nat -> Nat \ {0}]
  BY <1>10, <1>11
<1> QED
  BY <1>8, <1>12

\* The integers of one, two, four and eight bytes
LEMMA Widths ==
    /\ Unsigned(1) = Byte /\ Unsigned(2) \subseteq Unsigned(4)
    /\ \A width \in Nat : Unsigned(width) \subseteq Nat /\ 0 \in Unsigned(width)
<1>1. /\ Place[0] = 1 /\ \A k \in Nat : Place[k + 1] = ByteBase * Place[k] /\ Place[k] \in Nat \ {0}
  BY PlaceTyped
<1>2. ByteBase \in Nat \ {0}
  BY WireAssumption
<1>3. Unsigned(1) = Byte
  <2>1. Place[0 + 1] = ByteBase * Place[0] /\ 0 + 1 = 1
    BY <1>1
  <2>2. Place[1] = ByteBase
    BY <1>1, <1>2, <2>1
  <2> QED
    BY <2>2 DEF Unsigned, Byte
<1>4. ASSUME NEW k \in Nat PROVE Place[k] <= Place[k + 1]
  <2>1. 1 * Place[k] <= ByteBase * Place[k] /\ 1 * Place[k] = Place[k]
    BY <1>1, <1>2, Scaled
  <2> QED
    BY <1>1, <2>1
<1>5. Unsigned(2) \subseteq Unsigned(4)
  <2>1. Place[2] <= Place[2 + 1] /\ Place[3] <= Place[3 + 1] /\ 2 + 1 = 3 /\ 3 + 1 = 4
    BY <1>4
  <2>2. Place[2] <= Place[4] /\ Place[2] \in Nat /\ Place[4] \in Nat
    BY <1>1, <2>1
  <2> QED
    BY <2>2 DEF Unsigned
<1>6. ASSUME NEW width \in Nat PROVE Unsigned(width) \subseteq Nat /\ 0 \in Unsigned(width)
  BY <1>1 DEF Unsigned
<1> QED
  BY <1>3, <1>5, <1>6

\* A number is written in as many bytes as its field has,
LEMMA BytesOfNumber ==
    ASSUME NEW n \in Int, NEW width \in Nat
    PROVE  ToBytes(n, width) \in Seq(Byte) /\ Len(ToBytes(n, width)) = width
<1>1. ASSUME NEW i \in 1 .. width PROVE (n \div Place[width - i]) % ByteBase \in Byte
  <2>1. width - i \in Nat
    OBVIOUS
  <2>2. Place[width - i] \in Nat \ {0} /\ ByteBase \in Nat \ {0}
    BY <2>1, PlaceTyped, WireAssumption
  <2>3. n \div Place[width - i] \in Int
    BY <2>2
  <2> QED
    BY <2>2, <2>3 DEF Byte
<1> QED
  BY <1>1 DEF ToBytes

\* A first byte counts for its place in front of the others.
LEMMA FirstByte ==
    ASSUME NEW d \in Byte, NEW s \in Seq(Byte)
    PROVE  FromBytes(<<d>> \o s) = d * Place[Len(s)] + FromBytes(s)
<1> DEFINE t == <<d>> \o s
           n == Len(s)
           worth(u) == [i \in DOMAIN u |-> u[i] * Place[Len(u) - i]]
<1>1. DOMAIN s = 1 .. n /\ n \in Nat
  BY LenProperties
<1>2. /\ t \in Seq(Byte) /\ Len(t) = n + 1 /\ t[1] = d
      /\ \A i \in 1 .. n : t[i + 1] = s[i]
  <2>1. <<d>> \in Seq(Byte) /\ Len(<<d>>) = 1 /\ <<d>>[1] = d
    OBVIOUS
  <2> QED
    BY <1>1, <2>1, ConcatProperties
<1>3. DOMAIN t = 1 .. n + 1
  BY <1>2, LenProperties
<1> HIDE DEF t, n
<1>4. Byte \subseteq Nat
  BY WireAssumption DEF Byte
<1>5. ASSUME NEW u \in Seq(Byte)
      PROVE  worth(u) \in Seq(Nat) /\ Len(worth(u)) = Len(u)
  <2>1. DOMAIN u = 1 .. Len(u) /\ Len(u) \in Nat
    BY LenProperties
  <2>2. ASSUME NEW i \in 1 .. Len(u) PROVE u[i] * Place[Len(u) - i] \in Nat
    <3>1. u[i] \in Nat
      BY <1>4, ElementOfSeq
    <3>2. Len(u) - i \in Nat
      BY <2>1
    <3>3. Place[Len(u) - i] \in Nat
      BY <3>2, PlaceTyped
    <3> QED
      BY <3>1, <3>3
  <2> QED
    BY <2>1, <2>2
<1>6. worth(t) \in Seq(Nat) /\ Len(worth(t)) = n + 1 /\ worth(s) \in Seq(Nat) /\ Len(worth(s)) = n
  BY <1>2, <1>5 DEF n
<1>7. worth(t)[1] = d * Place[n] /\ \A i \in 1 .. n : worth(t)[i + 1] = worth(s)[i]
  <2>1. worth(t)[1] = d * Place[n]
    BY <1>1, <1>2, <1>3
  <2>2. ASSUME NEW i \in 1 .. n PROVE worth(t)[i + 1] = worth(s)[i]
    <3>1. (n + 1) - (i + 1) = n - i /\ i + 1 \in 1 .. n + 1 /\ i \in 1 .. n
      BY <1>1
    <3>2. worth(t)[i + 1] = t[i + 1] * Place[(n + 1) - (i + 1)]
      BY <1>2, <1>3, <3>1
    <3>3. worth(s)[i] = s[i] * Place[n - i]
      BY <1>1 DEF n
    <3> QED
      BY <1>2, <3>1, <3>2, <3>3
  <2> QED BY <2>1, <2>2
<1>8. FromBytes(t) = SumFunction(worth(t)) /\ FromBytes(s) = SumFunction(worth(s))
  BY DEF FromBytes
<1> HIDE DEF worth
<1>9. worth(t) # <<>>
  BY <1>1, <1>6, EmptySeq
<1>10. Tail(worth(t)) = worth(s)
  <2> DEFINE u == worth(t)
             v == Tail(u)
  <2>1. u \in Seq(Nat) /\ Len(u) = n + 1 /\ u # <<>>
    BY <1>6, <1>9
  <2> HIDE DEF u
  <2>2. v \in Seq(Nat) /\ Len(v) = n /\ \A i \in 1 .. n : v[i] = u[i + 1]
    BY <1>1, <2>1
  <2> HIDE DEF v
  <2>3. v = worth(s)
    BY <1>1, <1>6, <1>7, <2>2, SeqEqual DEF u
  <2> QED
    BY <2>3 DEF u, v
<1>11. SumFunction(worth(t)) = worth(t)[1] + SumFunction(Tail(worth(t)))
  BY <1>6, <1>9, SeqSumTail
<1> QED
  BY <1>7, <1>8, <1>10, <1>11 DEF t, n

\* A number is read as it was written, up to the digits its field has no room for.
LEMMA WrittenAndRead ==
    ASSUME NEW n \in Nat, NEW width \in Nat
    PROVE  FromBytes(ToBytes(n, width)) = n % Place[width]
<1> DEFINE Good == {w \in Nat : FromBytes(ToBytes(n, w)) = n % Place[w]}
<1>1. 0 \in Good
  <2>1. ToBytes(n, 0) \in Seq(Byte) /\ Len(ToBytes(n, 0)) = 0
    BY BytesOfNumber
  <2> DEFINE s == ToBytes(n, 0)
             digits == [i \in DOMAIN s |-> s[i] * Place[Len(s) - i]]
  <2>2. DOMAIN s = {}
    BY <2>1, LenProperties
  <2>3. FromBytes(s) = SumFunction(digits) /\ DOMAIN digits = {}
    BY <2>2 DEF FromBytes
  <2> HIDE DEF digits, s
  <2>4. FromBytes(s) = 0
    BY <2>3, SeqSumEmpty
  <2>5. n % Place[0] = 0
    BY PlaceTyped
  <2> QED
    BY <2>4, <2>5 DEF s
<1>2. ASSUME NEW w \in Good PROVE w + 1 \in Good
  <2> DEFINE s == ToBytes(n, w)
             t == ToBytes(n, w + 1)
             d == (n \div Place[w]) % ByteBase
  <2>1. w \in Nat /\ FromBytes(s) = n % Place[w]
    OBVIOUS
  <2> HIDE DEF Good
  <2>2. s \in Seq(Byte) /\ Len(s) = w /\ t \in Seq(Byte) /\ Len(t) = w + 1
    BY <2>1, BytesOfNumber
  <2>3. t[1] = d /\ \A i \in 1 .. w : t[i + 1] = s[i]
    <3>1. t[1] = d
      BY <2>1 DEF ToBytes
    <3>2. ASSUME NEW i \in 1 .. w PROVE t[i + 1] = s[i]
      <4>1. (w + 1) - (i + 1) = w - i /\ i + 1 \in 1 .. w + 1
        BY <2>1
      <4> QED
        BY <4>1 DEF ToBytes
    <3> QED BY <3>1, <3>2
  <2>4. d \in Byte
    BY <2>1, <2>2, <2>3, ElementOfSeq
  <2> HIDE DEF s, t
  <2>5. t = <<d>> \o s
    <3> DEFINE u == <<d>> \o s
    <3>1. <<d>> \in Seq(Byte) /\ Len(<<d>>) = 1 /\ <<d>>[1] = d
      BY <2>4
    <3>2. u \in Seq(Byte) /\ Len(u) = w + 1 /\ u[1] = d /\ \A i \in 1 .. w : u[i + 1] = s[i]
      BY <2>1, <2>2, <3>1, ConcatProperties
    <3> HIDE DEF u
    <3>3. ASSUME NEW i \in 1 .. w + 1 PROVE t[i] = u[i]
      <4>1. CASE i = 1
        BY <2>3, <3>2, <4>1
      <4>2. CASE i # 1
        <5>1. i - 1 \in 1 .. w /\ (i - 1) + 1 = i
          BY <2>1, <4>2
        <5> QED
          BY <2>3, <3>2, <5>1
      <4> QED BY <4>1, <4>2
    <3>4. t = u
      BY <2>2, <3>2, <3>3, SeqEqual
    <3> QED
      BY <3>4 DEF u
  <2>6. FromBytes(t) = d * Place[w] + FromBytes(s)
    BY <2>2, <2>4, <2>5, FirstByte
  <2>7. n % Place[w + 1] = d * Place[w] + (n % Place[w])
    <3>1. Place[w + 1] = ByteBase * Place[w] /\ Place[w] \in Nat \ {0} /\ ByteBase \in Nat \ {0}
      BY <2>1, PlaceTyped, WireAssumption
    <3>2. n % (ByteBase * Place[w]) = ((n \div Place[w]) % ByteBase) * Place[w] + (n % Place[w])
      BY <3>1, RemainderOfMore
    <3> QED
      BY <3>1, <3>2
  <2> HIDE DEF d
  <2>8. FromBytes(t) = n % Place[w + 1]
    BY <2>1, <2>6, <2>7
  <2> QED
    BY <2>1, <2>8 DEF t, Good
<1> HIDE DEF Good
<1>3. Good = Nat
  <2>1. Good \in SUBSET Nat
    BY DEF Good
  <2> QED
    BY <1>1, <1>2, <2>1, Counting
<1> QED
  BY <1>3 DEF Good

\* A number that fits its field is what it was.
LEMMA NumberSurvives ==
    ASSUME NEW width \in Nat, NEW n \in Unsigned(width)
    PROVE  n \in Nat /\ FromBytes(ToBytes(n, width)) = n
<1>1. Place[width] \in Nat \ {0}
  BY PlaceTyped
<1>2. n \in Nat /\ n < Place[width]
  BY <1>1 DEF Unsigned
<1>3. n % Place[width] = n
  BY <1>1, <1>2
<1> QED
  BY <1>2, <1>3, WrittenAndRead

\* Bytes make a number that fits into as many.
LEMMA BytesFit ==
    ASSUME NEW bytes \in Seq(Byte)
    PROVE  FromBytes(bytes) \in Unsigned(Len(bytes))
<1> DEFINE Good == {w \in Nat : \A s \in Seq(Byte) : Len(s) = w => FromBytes(s) \in Unsigned(w)}
<1>1. 0 \in Good
  <2> SUFFICES ASSUME NEW s \in Seq(Byte), Len(s) = 0 PROVE FromBytes(s) \in Unsigned(0)
    OBVIOUS
  <2> DEFINE digits == [i \in DOMAIN s |-> s[i] * Place[Len(s) - i]]
  <2>2. DOMAIN s = {}
    BY LenProperties
  <2>3. FromBytes(s) = SumFunction(digits) /\ DOMAIN digits = {}
    BY <2>2 DEF FromBytes
  <2> HIDE DEF digits
  <2>4. FromBytes(s) = 0
    BY <2>3, SeqSumEmpty
  <2> QED
    BY <2>4, PlaceTyped DEF Unsigned
<1>2. ASSUME NEW w \in Good PROVE w + 1 \in Good
  <2>1. SUFFICES ASSUME NEW s \in Seq(Byte), Len(s) = w + 1 PROVE FromBytes(s) \in Unsigned(w + 1)
    OBVIOUS
  <2>2. w \in Nat /\ s # <<>>
    BY <2>1, EmptySeq
  <2> DEFINE d == s[1]
             t == Tail(s)
  <2>3. d \in Byte /\ t \in Seq(Byte) /\ Len(t) = w
    BY <2>1, <2>2, ElementOfSeq
  <2>4. s = <<d>> \o t
    <3> DEFINE u == <<d>> \o t
    <3>1. <<d>> \in Seq(Byte) /\ Len(<<d>>) = 1 /\ <<d>>[1] = d
      BY <2>3
    <3>2. \A i \in 1 .. w : t[i] = s[i + 1]
      BY <2>1, <2>2
    <3> HIDE DEF d, t
    <3>3. u \in Seq(Byte) /\ Len(u) = w + 1 /\ u[1] = d /\ \A i \in 1 .. w : u[i + 1] = t[i]
      BY <2>2, <2>3, <3>1, ConcatProperties
    <3> HIDE DEF u
    <3>4. ASSUME NEW i \in 1 .. w + 1 PROVE s[i] = u[i]
      <4>1. CASE i = 1
        BY <3>3, <4>1 DEF d
      <4>2. CASE i # 1
        <5>1. i - 1 \in 1 .. w /\ (i - 1) + 1 = i
          BY <2>2, <4>2
        <5> QED
          BY <3>2, <3>3, <5>1
      <4> QED BY <4>1, <4>2
    <3>5. s = u
      BY <2>1, <3>3, <3>4, SeqEqual
    <3> QED
      BY <3>5 DEF u
  <2> HIDE DEF d, t
  <2>5. FromBytes(s) = d * Place[w] + FromBytes(t) /\ FromBytes(t) \in Unsigned(w)
    BY <2>2, <2>3, <2>4, FirstByte
  <2> HIDE DEF Good
  <2>6. Place[w + 1] = ByteBase * Place[w] /\ Place[w] \in Nat \ {0} /\ ByteBase \in Nat \ {0}
    <3>1. w \in Nat
      BY <2>2
    <3> QED
      BY <3>1, PlaceTyped, WireAssumption
  <2>7. d \in Nat /\ d <= ByteBase - 1
    BY <2>3, <2>6 DEF Byte
  <2>8. d * Place[w] <= (ByteBase - 1) * Place[w] /\ d * Place[w] \in Nat
    <3>1. ByteBase - 1 \in Nat
      BY <2>6
    <3> QED
      BY <2>6, <2>7, <3>1, Scaled
  <2>9. (ByteBase - 1) * Place[w] = ByteBase * Place[w] - Place[w] /\ ByteBase * Place[w] \in Nat
    BY <2>6
  <2> QED
    BY <2>5, <2>6, <2>8, <2>9, SMTT(30) DEF Unsigned
<1> HIDE DEF Good
<1>3. Good = Nat
  <2>1. Good \in SUBSET Nat
    BY DEF Good
  <2> QED
    BY <1>1, <1>2, <2>1, Counting
<1>4. Len(bytes) \in Nat
  BY LenProperties
<1> QED
  BY <1>3, <1>4 DEF Good

\* The fields of a layout are names with widths.
FieldName ==
    {"chunk_id", "link_id", "total_size", "expected_size", "offset", "payload_len", "json_len",
     "timestamp_us", "echo_timestamp_us", "recv_timestamp_us", "seq", "tx_bytes", "tx_packets",
     "rx_bytes", "rx_packets", "loss_ratio", "path_state", "reserved"}

FieldSpec == FieldName \X Nat

\* Every layout is a sequence of them.
LEMMA LayoutTyped ==
    ASSUME NEW kind \in Kind
    PROVE  Layout(kind) \in Seq(FieldSpec)
<1>1. kind \in {"Data", "Announce", "Ack", "Stats", "Keepalive", "Probe"}
  BY DEF Kind, MessageType
<1>2. CASE kind = "Data"
  BY <1>2 DEF Layout, LengthWidth, FieldSpec, FieldName
<1>3. CASE kind = "Announce"
  BY <1>3 DEF Layout, LengthWidth, FieldSpec, FieldName
<1>4. CASE kind = "Ack"
  BY <1>4 DEF Layout, LengthWidth, FieldSpec, FieldName
<1>5. CASE kind = "Stats"
  BY <1>5 DEF Layout, LengthWidth, FieldSpec, FieldName
<1>6. CASE kind = "Keepalive"
  BY <1>6 DEF Layout, LengthWidth, FieldSpec, FieldName
<1>7. CASE kind = "Probe"
  BY <1>7 DEF Layout, LengthWidth, FieldSpec, FieldName
<1> QED
  BY <1>1, <1>2, <1>3, <1>4, <1>5, <1>6, <1>7

\* A field and those before it fit into the width of them all.
LEMMA WidthTyped ==
    ASSUME NEW fields \in Seq(FieldSpec)
    PROVE  WidthOf(fields) \in Nat
<1> DEFINE widths == [i \in DOMAIN fields |-> fields[i][2]]
<1>1. DOMAIN fields = 1 .. Len(fields) /\ Len(fields) \in Nat
  BY LenProperties
<1>2. ASSUME NEW i \in 1 .. Len(fields) PROVE fields[i][2] \in Nat
  <2>1. fields[i] \in FieldSpec
    BY ElementOfSeq
  <2> QED
    BY <2>1 DEF FieldSpec
<1>3. widths \in Seq(Nat)
  BY <1>1, <1>2
<1> HIDE DEF widths
<1>4. SumFunction(widths) \in Nat
  BY <1>3, SeqSumIsNat
<1> QED
  BY <1>4 DEF WidthOf, widths

\* The width of a field
FieldWidth == [f \in FieldSpec |-> f[2]]

\* The fields before one have their widths together.
LEMMA WidthsAdd ==
    ASSUME NEW fields \in Seq(FieldSpec)
    PROVE  /\ SubSeq(fields, 1, Len(fields)) = fields
           /\ WidthOf(SubSeq(fields, 1, 0)) = 0
           /\ \A i \in 1 .. Len(fields) :
                 /\ WidthOf(SubSeq(fields, 1, i - 1)) \in Nat /\ fields[i][2] \in Nat
                 /\ WidthOf(SubSeq(fields, 1, i)) = WidthOf(SubSeq(fields, 1, i - 1)) + fields[i][2]
<1>1. ASSUME NEW s \in Seq(FieldSpec) PROVE WidthOf(s) = SumFunction(Over(s, FieldWidth))
  <2>1. \A i \in DOMAIN s : s[i] \in FieldSpec
    BY ElementOfSeq, LenProperties
  <2>2. [i \in DOMAIN s |-> s[i][2]] = Over(s, FieldWidth)
    BY <2>1 DEF Over, FieldWidth
  <2> QED
    BY <2>2 DEF WidthOf
<1>2. FieldWidth \in [FieldSpec -> Nat]
  BY DEF FieldWidth, FieldSpec
<1>3. Len(fields) \in Nat /\ \A i \in 1 .. Len(fields) : fields[i] \in FieldSpec
  BY LenProperties, ElementOfSeq
<1>4. ASSUME NEW i \in 0 .. Len(fields)
      PROVE  /\ SubSeq(fields, 1, i) \in Seq(FieldSpec) /\ Len(SubSeq(fields, 1, i)) = i
             /\ \A j \in 1 .. i : SubSeq(fields, 1, i)[j] = fields[j]
  BY <1>3
<1>5. SubSeq(fields, 1, Len(fields)) = fields
  <2> DEFINE s == SubSeq(fields, 1, Len(fields))
  <2>1. s \in Seq(FieldSpec) /\ Len(s) = Len(fields) /\ \A j \in 1 .. Len(fields) : s[j] = fields[j]
    BY <1>3, <1>4
  <2> HIDE DEF s
  <2>2. s = fields
    BY <2>1, SeqEqual
  <2> QED
    BY <2>2 DEF s
<1>6. WidthOf(SubSeq(fields, 1, 0)) = 0
  <2>1. SubSeq(fields, 1, 0) = <<>> /\ <<>> \in Seq(FieldSpec)
    OBVIOUS
  <2>2. WidthOf(<<>>) = SumFunction(Over(<<>>, FieldWidth))
    BY <1>1, <2>1
  <2> QED
    BY <2>1, <2>2, OverEmpty
<1>7. ASSUME NEW i \in 1 .. Len(fields)
      PROVE  /\ WidthOf(SubSeq(fields, 1, i - 1)) \in Nat /\ fields[i][2] \in Nat
             /\ WidthOf(SubSeq(fields, 1, i)) = WidthOf(SubSeq(fields, 1, i - 1)) + fields[i][2]
  <2> DEFINE s == SubSeq(fields, 1, i - 1)
             t == SubSeq(fields, 1, i)
             e == fields[i]
  <2>1. s \in Seq(FieldSpec) /\ Len(s) = i - 1 /\ \A j \in 1 .. i - 1 : s[j] = fields[j]
    BY <1>3, <1>4
  <2>2. t \in Seq(FieldSpec) /\ Len(t) = i /\ \A j \in 1 .. i : t[j] = fields[j]
    BY <1>3, <1>4
  <2>3. e \in FieldSpec
    BY <1>3
  <2> HIDE DEF s, t
  <2>4. t = Append(s, e)
    <3> DEFINE u == Append(s, e)
    <3>1. u \in Seq(FieldSpec) /\ Len(u) = i /\ u[i] = e /\ \A j \in 1 .. i - 1 : u[j] = s[j]
      BY <2>1, <2>3, AppendProperties
    <3> HIDE DEF u
    <3>2. ASSUME NEW j \in 1 .. i PROVE t[j] = u[j]
      <4>1. CASE j = i
        BY <2>2, <3>1, <4>1
      <4>2. CASE j # i
        <5>1. j \in 1 .. i - 1
          BY <4>2
        <5> QED
          BY <2>1, <2>2, <3>1, <5>1
      <4> QED BY <4>1, <4>2
    <3>3. t = u
      BY <2>2, <3>1, <3>2, SeqEqual
    <3> QED
      BY <3>3 DEF u
  <2>5. SumFunction(Over(t, FieldWidth)) = SumFunction(Over(s, FieldWidth)) + FieldWidth[e]
    BY <1>2, <2>1, <2>3, <2>4, OverAppend
  <2>6. WidthOf(t) = WidthOf(s) + FieldWidth[e]
    BY <1>1, <2>1, <2>2, <2>5
  <2>7. WidthOf(s) \in Nat
    BY <2>1, WidthTyped
  <2>8. FieldWidth[e] = e[2] /\ e[2] \in Nat
    BY <2>3 DEF FieldWidth, FieldSpec
  <2> QED
    BY <2>6, <2>7, <2>8 DEF s, t
<1> QED
  BY <1>5, <1>6, <1>7

\* A field ends where its layout does, or before.
LEMMA FieldsFit ==
    ASSUME NEW fields \in Seq(FieldSpec), NEW i \in DOMAIN fields
    PROVE  /\ fields[i][2] \in Nat /\ WidthOf(SubSeq(fields, 1, i - 1)) \in Nat
           /\ WidthOf(SubSeq(fields, 1, i - 1)) + fields[i][2] <= WidthOf(fields)
<1> DEFINE n == Len(fields)
           widths == [j \in DOMAIN fields |-> fields[j][2]]
           before == SubSeq(fields, 1, i - 1)
           first == [j \in DOMAIN before |-> before[j][2]]
<1>1. DOMAIN fields = 1 .. n /\ n \in Nat /\ i \in 1 .. n
  BY LenProperties
<1>2. \A j \in 1 .. n : fields[j] \in FieldSpec /\ fields[j][2] \in Nat
  <2> TAKE j \in 1 .. n
  <2>1. fields[j] \in FieldSpec
    BY ElementOfSeq
  <2> QED
    BY <2>1 DEF FieldSpec
<1>3. before \in Seq(FieldSpec) /\ Len(before) = i - 1 /\ \A j \in 1 .. i - 1 : before[j] = fields[j]
  BY <1>1, <1>2
<1>4. DOMAIN before = 1 .. i - 1
  BY <1>3, LenProperties
<1> HIDE DEF before
<1>5. DOMAIN first = 1 .. i - 1 /\ \A j \in 1 .. i - 1 : first[j] = widths[j]
  BY <1>1, <1>3, <1>4
<1>6. DOMAIN widths = 1 .. n /\ \A j \in 1 .. n : widths[j] \in Nat /\ widths[j] = fields[j][2]
  BY <1>1, <1>2
<1>7. WidthOf(before) = SumFunction(first) /\ WidthOf(fields) = SumFunction(widths)
  BY DEF WidthOf
<1> HIDE DEF first, widths, n
<1>8. /\ IsFiniteSet(1 .. i - 1) /\ IsFiniteSet(1 .. n) /\ i \notin 1 .. i - 1
      /\ (1 .. i - 1) \cup {i} = 1 .. i /\ 1 .. i \subseteq 1 .. n /\ 1 .. i - 1 \subseteq 1 .. n
  <2>1. i \in Nat /\ i - 1 \in Int /\ i <= n /\ 1 <= i
    BY <1>1
  <2>2. IsFiniteSet(1 .. i - 1) /\ IsFiniteSet(1 .. n)
    BY <1>1, <2>1, FS_Interval
  <2>3. i \notin 1 .. i - 1 /\ (1 .. i - 1) \cup {i} = 1 .. i
    BY <2>1
  <2>4. 1 .. i \subseteq 1 .. n /\ 1 .. i - 1 \subseteq 1 .. n
    BY <1>1, <2>1
  <2> QED
    BY <2>2, <2>3, <2>4
<1>9. WidthOf(before) = SumFunctionOnSet(widths, 1 .. i - 1)
  <2>1. SumFunctionOnSet(first, 1 .. i - 1) = SumFunctionOnSet(widths, 1 .. i - 1)
    BY <1>5, <1>8, SumSame
  <2> QED
    BY <1>5, <1>7, <2>1 DEF SumFunction
<1>10. SumFunctionOnSet(widths, 1 .. i) = widths[i] + SumFunctionOnSet(widths, 1 .. i - 1)
  <2>1. \A j \in 1 .. i - 1 : widths[j] \in Int
    BY <1>6, <1>8
  <2>2. widths[i] \in Int
    BY <1>1, <1>6
  <2>3. SumFunctionOnSet(widths, (1 .. i - 1) \cup {i}) = widths[i] + SumFunctionOnSet(widths, 1 .. i - 1)
    BY <1>8, <2>1, <2>2, SumWithOneMore
  <2> QED
    BY <1>8, <2>3
<1>11. SumFunctionOnSet(widths, 1 .. i) <= SumFunctionOnSet(widths, 1 .. n)
  BY <1>6, <1>8, SumOfPart
<1>12. WidthOf(fields) = SumFunctionOnSet(widths, 1 .. n)
  BY <1>6, <1>7 DEF SumFunction
<1>13. WidthOf(before) \in Nat
  BY <1>3, WidthTyped
<1>14. widths[i] = fields[i][2] /\ fields[i][2] \in Nat
  BY <1>1, <1>6
<1>15. WidthOf(before) + fields[i][2] <= WidthOf(fields)
  BY <1>9, <1>10, <1>11, <1>12, <1>13, <1>14
<1> QED
  BY <1>13, <1>14, <1>15 DEF before

\* The fields of a datagram that has its header are numbers.
LEMMA FieldTyped ==
    ASSUME NEW buf \in Seq(Byte), NEW kind \in Kind, Len(buf) >= HeaderSize(kind),
           NEW i \in DOMAIN Layout(kind)
    PROVE  FieldAt(buf, kind, i) \in Unsigned(Layout(kind)[i][2])
<1> DEFINE from == 1 + WidthOf(SubSeq(Layout(kind), 1, i - 1))
           width == Layout(kind)[i][2]
           bytes == SubSeq(buf, from + 1, from + width)
<1>1. Layout(kind) \in Seq(FieldSpec)
  BY LayoutTyped
<1>2. from \in Nat \ {0} /\ width \in Nat /\ from + width <= HeaderSize(kind)
  <2>1. /\ width \in Nat /\ WidthOf(SubSeq(Layout(kind), 1, i - 1)) \in Nat
        /\ WidthOf(SubSeq(Layout(kind), 1, i - 1)) + width <= WidthOf(Layout(kind))
    BY <1>1, FieldsFit
  <2>2. WidthOf(Layout(kind)) \in Nat
    BY <1>1, WidthTyped
  <2> QED
    BY <2>1, <2>2 DEF HeaderSize
<1>3. HeaderSize(kind) \in Nat
  BY <1>1, WidthTyped DEF HeaderSize
<1>4. FieldAt(buf, kind, i) = FromBytes(bytes)
  BY DEF FieldAt
<1> HIDE DEF from, width
<1>5. Len(buf) \in Nat
  BY LenProperties
<1>6. ASSUME NEW j \in from + 1 .. from + width PROVE buf[j] \in Byte
  <2>1. j \in 1 .. Len(buf)
    BY <1>2, <1>3, <1>5
  <2> QED
    BY <2>1, ElementOfSeq
<1>7. bytes \in Seq(Byte) /\ Len(bytes) = width
  <2>1. from + 1 \in Int /\ from + width \in Int
    BY <1>2
  <2>2. bytes \in Seq(Byte)
    BY <1>6, <2>1, SubSeqProperties
  <2>3. Len(bytes) = width
    BY <1>2
  <2> QED
    BY <2>2, <2>3
<1> HIDE DEF bytes
<1> QED
  BY <1>4, <1>7, BytesFit DEF width

\* No layout has two fields of one name, so that a field is found by its name.
LEMMA FoundByName ==
    ASSUME NEW buf, NEW kind \in Kind, NEW i \in DOMAIN Layout(kind)
    PROVE  FieldOf(buf, kind, Layout(kind)[i][1]) = FieldAt(buf, kind, i)
<1>1. ASSUME NEW j \in DOMAIN Layout(kind), Layout(kind)[j][1] = Layout(kind)[i][1]
      PROVE  i = j
  <2>1. kind \in {"Data", "Announce", "Ack", "Stats", "Keepalive", "Probe"}
    BY DEF Kind, MessageType
  <2>2. CASE kind = "Data"
    BY <1>1, <2>2 DEF Layout
  <2>3. CASE kind = "Announce"
    BY <1>1, <2>3 DEF Layout
  <2>4. CASE kind = "Ack"
    BY <1>1, <2>4 DEF Layout
  <2>5. CASE kind = "Stats"
    BY <1>1, <2>5 DEF Layout
  <2>6. CASE kind = "Keepalive"
    BY <1>1, <2>6 DEF Layout
  <2>7. CASE kind = "Probe"
    BY <1>1, <2>7 DEF Layout
  <2> QED
    BY <2>1, <2>2, <2>3, <2>4, <2>5, <2>6, <2>7
<1> DEFINE at == CHOOSE j \in DOMAIN Layout(kind) : Layout(kind)[j][1] = Layout(kind)[i][1]
<1>2. at \in DOMAIN Layout(kind) /\ Layout(kind)[at][1] = Layout(kind)[i][1]
  OBVIOUS
<1>3. FieldOf(buf, kind, Layout(kind)[i][1]) = FieldAt(buf, kind, at)
  BY DEF FieldOf
<1> HIDE DEF at
<1>4. at = i
  BY <1>1, <1>2
<1> QED
  BY <1>3, <1>4

\* Reading a field by its name gives a number of its width.
LEMMA NamedFieldTyped ==
    ASSUME NEW buf \in Seq(Byte), NEW kind \in Kind, Len(buf) >= HeaderSize(kind),
           NEW i \in DOMAIN Layout(kind)
    PROVE  FieldOf(buf, kind, Layout(kind)[i][1]) \in Unsigned(Layout(kind)[i][2])
BY FieldTyped, FoundByName

\* The fields that the receivers read
LEMMA ReceivedFields ==
    ASSUME NEW buf \in Seq(Byte)
    PROVE  /\ Len(buf) >= HeaderSize("Data") =>
                 /\ FieldOf(buf, "Data", "chunk_id") \in Unsigned(8)
                 /\ FieldOf(buf, "Data", "payload_len") \in Nat
           /\ Len(buf) >= HeaderSize("Ack") => FieldOf(buf, "Ack", "echo_timestamp_us") \in Nat
           /\ "chunk_id" \in Fields("Data") /\ "payload" \in Fields("Data")
           /\ "echo_timestamp_us" \in Fields("Ack")
<1>1. 1 \in DOMAIN Layout("Data") /\ 5 \in DOMAIN Layout("Data") /\ 3 \in DOMAIN Layout("Ack")
  BY DEF Layout
<1>2. /\ Layout("Data")[1][1] = "chunk_id" /\ Layout("Data")[1][2] = 8
      /\ Layout("Data")[5][1] = "payload_len" /\ Layout("Data")[5][2] = 2
      /\ Layout("Ack")[3][1] = "echo_timestamp_us" /\ Layout("Ack")[3][2] = 8
  BY DEF Layout, LengthWidth
<1>3. "Data" \in Kind /\ "Ack" \in Kind
  BY DEF Kind, MessageType
<1>4. ASSUME Len(buf) >= HeaderSize("Data")
      PROVE  FieldOf(buf, "Data", "chunk_id") \in Unsigned(8) /\ FieldOf(buf, "Data", "payload_len") \in Nat
  <2>1. FieldOf(buf, "Data", "chunk_id") \in Unsigned(8)
    BY <1>1, <1>2, <1>3, <1>4, NamedFieldTyped
  <2>2. FieldOf(buf, "Data", "payload_len") \in Unsigned(2)
    BY <1>1, <1>2, <1>3, <1>4, NamedFieldTyped
  <2> QED
    BY <2>1, <2>2, Widths
<1>5. ASSUME Len(buf) >= HeaderSize("Ack") PROVE FieldOf(buf, "Ack", "echo_timestamp_us") \in Nat
  <2>1. FieldOf(buf, "Ack", "echo_timestamp_us") \in Unsigned(8)
    BY <1>1, <1>2, <1>3, <1>5, NamedFieldTyped
  <2> QED
    BY <2>1, Widths
<1>6. /\ "chunk_id" \in Fields("Data") /\ "payload" \in Fields("Data")
      /\ "echo_timestamp_us" \in Fields("Ack")
  BY <1>1, <1>2 DEF Fields
<1> QED
  BY <1>4, <1>5, <1>6

\* Every header has a byte at least: the one that says its kind.
LEMMA HeaderTyped ==
    ASSUME NEW kind \in Kind
    PROVE  HeaderSize(kind) \in Nat \ {0}
<1>1. WidthOf(Layout(kind)) \in Nat
  BY LayoutTyped, WidthTyped
<1> QED
  BY <1>1 DEF HeaderSize

\* A payload that is decoded is a sequence of bytes.
LEMMA BodyTyped ==
    ASSUME NEW buf \in Seq(Byte), Len(buf) >= HeaderSize("Data"), BodyOf(buf, "Data") # NoPacket
    PROVE  BodyOf(buf, "Data") \in Seq(Byte)
<1> DEFINE length == FieldOf(buf, "Data", "payload_len")
           header == HeaderSize("Data")
<1>1. "Data" \in Kind
  BY DEF Kind, MessageType
<1>2. length \in Nat /\ header \in Nat
  BY <1>1, ReceivedFields, HeaderTyped
<1>3. BodyOf(buf, "Data") =
        IF Len(buf) < header + length THEN NoPacket ELSE SubSeq(buf, header + 1, header + length)
  BY DEF BodyOf
<1> HIDE DEF length, header
<1>4. Len(buf) \in Nat
  BY LenProperties
<1>5. ~(Len(buf) < header + length) /\ BodyOf(buf, "Data") = SubSeq(buf, header + 1, header + length)
  BY <1>3
<1>6. ASSUME NEW j \in header + 1 .. header + length PROVE buf[j] \in Byte
  <2>1. j \in 1 .. Len(buf)
    BY <1>2, <1>4, <1>5
  <2> QED
    BY <2>1, ElementOfSeq
<1>7. header + 1 \in Int /\ header + length \in Int
  BY <1>2
<1>8. SubSeq(buf, header + 1, header + length) \in Seq(Byte)
  BY <1>6, <1>7, SubSeqProperties
<1> QED
  BY <1>5, <1>8

\* What the receivers take from the packets that they decode
LEMMA DecodedTyped ==
    ASSUME NEW buf \in Seq(Byte), NEW p, p = Decode(buf), p # NoPacket
    PROVE  /\ p.kind = "Data" => p.payload \in Seq(Byte) /\ p.chunk_id \in Unsigned(8)
           /\ p.kind = "Ack" => p.echo_timestamp_us \in Nat
<1> DEFINE kind == CHOOSE k \in Kind : MessageType[k] = Head(buf)
<1>1. kind \in Kind /\ p = DecodeAs(buf, kind)
  <2>1. Head(buf) \in {MessageType[k] : k \in Kind} /\ p = DecodeAs(buf, kind)
    BY DEF Decode
  <2> QED
    BY <2>1
<1> HIDE DEF kind
<1>2. Len(buf) >= HeaderSize(kind) /\ p.kind = kind
  BY <1>1 DEF DecodeAs
<1>3. CASE kind = "Data"
  <2>1. "chunk_id" \in Fields(kind) /\ "payload" \in Fields(kind)
    BY <1>3, ReceivedFields
  <2>2. BodyOf(buf, kind) # NoPacket
    BY <1>1, <1>3 DEF DecodeAs
  <2>3. p.payload = BodyOf(buf, kind) /\ p.chunk_id = FieldOf(buf, kind, "chunk_id")
    BY <1>1, <1>3, <2>1 DEF DecodeAs
  <2>4. p.payload \in Seq(Byte)
    BY <1>2, <1>3, <2>2, <2>3, BodyTyped
  <2>5. p.chunk_id \in Unsigned(8)
    BY <1>2, <1>3, <2>3, ReceivedFields
  <2> QED
    BY <1>2, <1>3, <2>4, <2>5
<1>4. CASE kind = "Ack"
  <2>1. "echo_timestamp_us" \in Fields(kind)
    BY <1>4, ReceivedFields
  <2>2. p.echo_timestamp_us = FieldOf(buf, kind, "echo_timestamp_us")
    BY <1>1, <1>4, <2>1 DEF DecodeAs
  <2>3. p.echo_timestamp_us \in Nat
    BY <1>2, <1>4, <2>2, ReceivedFields
  <2> QED
    BY <1>2, <1>4, <2>3
<1> QED
  BY <1>2, <1>3, <1>4

\* Every kind of packet has a field.
LEMMA LayoutNotEmpty ==
    ASSUME NEW kind \in Kind
    PROVE  Layout(kind) # <<>>
<1>1. kind \in {"Data", "Announce", "Ack", "Stats", "Keepalive", "Probe"}
  BY DEF Kind, MessageType
<1> QED
  BY <1>1 DEF Layout

\* What an encoder makes of a packet whose fields are numbers: its type, each field
\* where the decoder looks for it, and its body.
LEMMA Encoded ==
    ASSUME NEW p, p.kind \in Kind, Body(p) \in Seq(Byte),
           \A i \in DOMAIN Layout(p.kind) : Number(p, Layout(p.kind)[i][1]) \in Int
    PROVE  /\ Encode(p) \in Seq(Byte) /\ Len(Encode(p)) = HeaderSize(p.kind) + Len(Body(p))
           /\ Encode(p) # <<>> /\ Head(Encode(p)) = MessageType[p.kind]
           /\ \A i \in DOMAIN Layout(p.kind) :
                 FieldAt(Encode(p), p.kind, i)
                   = FromBytes(ToBytes(Number(p, Layout(p.kind)[i][1]), Layout(p.kind)[i][2]))
           /\ SubSeq(Encode(p), HeaderSize(p.kind) + 1, HeaderSize(p.kind) + Len(Body(p))) = Body(p)
<1> DEFINE layout == Layout(p.kind)
           n == Len(layout)
           number(i) == Number(p, layout[i][1])
           width(i) == layout[i][2]
           fields == [i \in DOMAIN layout |-> ToBytes(number(i), width(i))]
           at == [i \in 1 .. n |-> WidthOf(SubSeq(layout, 1, i - 1))]
           type == MessageType[p.kind]
           middle == FlattenSeq(fields)
           body == Body(p)
           buf == Encode(p)
           header == HeaderSize(p.kind)
<1>1. layout \in Seq(FieldSpec) /\ layout # <<>>
  BY LayoutTyped, LayoutNotEmpty
<1>2. DOMAIN layout = 1 .. n /\ n \in Nat \ {0}
  BY <1>1, LenProperties, EmptySeq
<1>3. type \in Byte
  BY WireAssumption DEF Kind, MessageType, Byte
<1>4. buf = <<type>> \o middle \o body /\ header = 1 + WidthOf(layout)
  BY DEF Encode, HeaderSize
<1>5. \A i \in 1 .. n : number(i) \in Int
  BY <1>2
<1> HIDE DEF layout, type, body, buf, header, number
<1>6. /\ SubSeq(layout, 1, n) = layout /\ WidthOf(SubSeq(layout, 1, 0)) = 0
      /\ \A i \in 1 .. n :
            /\ WidthOf(SubSeq(layout, 1, i - 1)) \in Nat /\ width(i) \in Nat
            /\ WidthOf(SubSeq(layout, 1, i)) = WidthOf(SubSeq(layout, 1, i - 1)) + width(i)
  BY <1>1, WidthsAdd
<1> HIDE DEF n
<1>7. /\ fields \in Seq(Seq(Byte)) /\ Len(fields) = n
      /\ \A i \in 1 .. n : fields[i] = ToBytes(number(i), width(i)) /\ Len(fields[i]) = width(i)
  <2>1. ASSUME NEW i \in 1 .. n
        PROVE  /\ fields[i] = ToBytes(number(i), width(i))
               /\ fields[i] \in Seq(Byte) /\ Len(fields[i]) = width(i)
    <3>1. fields[i] = ToBytes(number(i), width(i))
      BY <1>2
    <3>2. number(i) \in Int /\ width(i) \in Nat
      BY <1>5, <1>6
    <3> HIDE DEF fields, width
    <3> QED
      BY <3>1, <3>2, BytesOfNumber
  <2>2. DOMAIN fields = 1 .. n
    BY <1>2
  <2>3. fields = [i \in 1 .. n |-> fields[i]]
    BY <1>2
  <2> HIDE DEF fields
  <2>4. fields \in Seq(Seq(Byte)) /\ Len(fields) = n
    BY <1>2, <2>1, <2>3
  <2> QED
    BY <2>1, <2>4
<1>8. fields # <<>>
  BY <1>2, <1>7, EmptySeq
<1>9. /\ at \in [1 .. n -> Nat] /\ at[1] = 0
      /\ \A i \in 1 .. n - 1 : at[i + 1] = at[i] + Len(fields[i])
      /\ at[n] + width(n) = WidthOf(layout)
  <2>1. at \in [1 .. n -> Nat]
    BY <1>6
  <2>2. at[1] = 0
    BY <1>2, <1>6
  <2>3. ASSUME NEW i \in 1 .. n - 1 PROVE at[i + 1] = at[i] + Len(fields[i])
    <3>1. i \in 1 .. n /\ i + 1 \in 1 .. n /\ (i + 1) - 1 = i
      BY <1>2
    <3>2. at[i + 1] = WidthOf(SubSeq(layout, 1, i)) /\ at[i] = WidthOf(SubSeq(layout, 1, i - 1))
      BY <3>1
    <3> HIDE DEF at, fields
    <3> QED
      BY <1>6, <1>7, <3>1, <3>2
  <2>4. at[n] + width(n) = WidthOf(layout)
    <3>1. n \in 1 .. n
      BY <1>2
    <3> QED
      BY <1>6, <3>1
  <2> QED
    BY <2>1, <2>2, <2>3, <2>4
<1>10. \A i \in 1 .. n : at[i] = WidthOf(SubSeq(layout, 1, i - 1))
  OBVIOUS
<1> HIDE DEF fields, at
<1>11. /\ Len(middle) = WidthOf(layout)
       /\ \A i \in 1 .. n : \A j \in 1 .. width(i) :
             at[i] + j \in 1 .. Len(middle) /\ middle[at[i] + j] = fields[i][j]
  <2>1. /\ Len(middle) = at[n] + Len(fields[n])
        /\ \A i \in 1 .. n : \A j \in 1 .. Len(fields[i]) :
              at[i] + j \in 1 .. Len(middle) /\ middle[at[i] + j] = fields[i][j]
    BY <1>7, <1>8, <1>9, PartsOfJoined
  <2>2. n \in 1 .. n
    BY <1>2
  <2> HIDE DEF middle, width
  <2> QED
    BY <1>7, <1>9, <2>1, <2>2
<1>12. middle \in Seq(Byte)
  BY <1>7, FlattenTyped
<1> HIDE DEF middle
<1>13. header \in Nat \ {0} /\ header = 1 + Len(middle) /\ body \in Seq(Byte) /\ Len(body) \in Nat /\ Len(middle) \in Nat
  BY <1>4, <1>11, <1>12, HeaderTyped, LenProperties DEF header, body
<1>14. /\ buf \in Seq(Byte) /\ Len(buf) = header + Len(body) /\ buf[1] = type
       /\ \A j \in 1 .. Len(middle) : buf[1 + j] = middle[j]
       /\ \A j \in 1 .. Len(body) : buf[header + j] = body[j]
  <2> DEFINE first == <<type>>
             head == first \o middle
  <2>1. first \in Seq(Byte) /\ Len(first) = 1 /\ first[1] = type
    BY <1>3
  <2> HIDE DEF first
  <2>2. /\ head \in Seq(Byte) /\ Len(head) = header
        /\ \A j \in 1 .. header : head[j] = IF j <= 1 THEN first[j] ELSE middle[j - 1]
    <3>1. /\ head \in Seq(Byte) /\ Len(head) = Len(first) + Len(middle)
          /\ \A j \in 1 .. Len(first) + Len(middle) :
                head[j] = IF j <= Len(first) THEN first[j] ELSE middle[j - Len(first)]
      BY <1>12, <2>1, ConcatProperties
    <3> HIDE DEF head
    <3>2. Len(first) + Len(middle) = header
      BY <1>13, <2>1
    <3> QED
      BY <2>1, <3>1, <3>2
  <2> HIDE DEF head
  <2>3. buf = head \o body
    BY <1>4 DEF head, first
  <2>4. /\ buf \in Seq(Byte) /\ Len(buf) = header + Len(body)
        /\ \A j \in 1 .. header + Len(body) : buf[j] = IF j <= header THEN head[j] ELSE body[j - header]
    <3>1. /\ head \o body \in Seq(Byte) /\ Len(head \o body) = Len(head) + Len(body)
          /\ \A j \in 1 .. Len(head) + Len(body) :
                (head \o body)[j] = IF j <= Len(head) THEN head[j] ELSE body[j - Len(head)]
      BY <1>13, <2>2, ConcatProperties
    <3> QED
      BY <2>2, <2>3, <3>1
  <2>5. buf[1] = type
    <3>1. 1 \in 1 .. header /\ 1 \in 1 .. header + Len(body) /\ 1 <= header /\ 1 <= 1
      BY <1>13
    <3> QED
      BY <2>1, <2>2, <2>4, <3>1
  <2>6. ASSUME NEW j \in 1 .. Len(middle) PROVE buf[1 + j] = middle[j]
    <3>1. /\ 1 + j \in 1 .. header /\ 1 + j \in 1 .. header + Len(body) /\ 1 + j <= header
          /\ ~(1 + j <= 1) /\ (1 + j) - 1 = j
      BY <1>13
    <3> QED
      BY <2>2, <2>4, <3>1
  <2>7. ASSUME NEW j \in 1 .. Len(body) PROVE buf[header + j] = body[j]
    <3>1. header + j \in 1 .. header + Len(body) /\ ~(header + j <= header) /\ (header + j) - header = j
      BY <1>13
    <3> QED
      BY <2>4, <3>1
  <2> QED
    BY <2>4, <2>5, <2>6, <2>7
<1>15. buf # <<>> /\ Head(buf) = type
  BY <1>13, <1>14, EmptySeq
<1>16. ASSUME NEW i \in 1 .. n
       PROVE  FieldAt(buf, p.kind, i) = FromBytes(ToBytes(number(i), width(i)))
  <2> DEFINE from == 1 + at[i]
             part == SubSeq(buf, from + 1, from + width(i))
  <2>1. FieldAt(buf, p.kind, i) = FromBytes(part)
    BY <1>10 DEF FieldAt, layout
  <2>2. at[i] \in Nat /\ width(i) \in Nat /\ at[i] + width(i) <= Len(middle)
    <3>1. at[i] \in Nat /\ width(i) \in Nat
      BY <1>6, <1>9
    <3>2. WidthOf(SubSeq(layout, 1, i - 1)) + width(i) <= WidthOf(layout)
      BY <1>1, <1>2, FieldsFit
    <3>3. Len(middle) = WidthOf(layout)
      BY <1>11
    <3> HIDE DEF width
    <3> QED
      BY <1>10, <3>1, <3>2, <3>3
  <2> HIDE DEF width
  <2>3. ASSUME NEW j \in 1 .. width(i)
        PROVE  from + j \in 1 .. Len(buf) /\ buf[from + j] = fields[i][j]
    <3>1. at[i] + j \in 1 .. Len(middle) /\ middle[at[i] + j] = fields[i][j]
      BY <1>11
    <3>2. from + j = 1 + (at[i] + j)
      BY <2>2
    <3>3. buf[1 + (at[i] + j)] = middle[at[i] + j]
      BY <1>14, <3>1
    <3>4. 1 + (at[i] + j) \in 1 .. Len(buf)
      BY <1>13, <1>14, <3>1
    <3> QED
      BY <3>1, <3>2, <3>3, <3>4
  <2>4. from \in Nat /\ Len(buf) \in Nat
    BY <1>13, <1>14, <2>2
  <2> HIDE DEF from
  <2>5. part \in Seq(Byte) /\ Len(part) = width(i) /\ \A j \in 1 .. width(i) : part[j] = buf[from + j]
    <3>1. ASSUME NEW k \in from + 1 .. from + width(i) PROVE buf[k] \in Byte
      <4>1. k - from \in 1 .. width(i) /\ from + (k - from) = k
        BY <2>2, <2>4
      <4>2. k \in 1 .. Len(buf)
        BY <2>3, <4>1
      <4> QED
        BY <1>14, <4>2, ElementOfSeq
    <3>2. from + 1 \in Int /\ from + width(i) \in Int
      BY <2>2, <2>4
    <3>3. part \in Seq(Byte)
      BY <3>1, <3>2, SubSeqProperties
    <3>4. /\ Len(part) = width(i)
          /\ \A j \in 1 .. width(i) : part[j] = buf[from + j]
      <4>1. (from + width(i)) - (from + 1) + 1 = width(i) /\ from + 1 <= (from + width(i)) + 1
        BY <2>2, <2>4
      <4>2. /\ Len(part) = (from + width(i)) - (from + 1) + 1
            /\ \A j \in 1 .. (from + width(i)) - (from + 1) + 1 : part[j] = buf[from + 1 + j - 1]
        BY <3>1, <3>2, <4>1, SubSeqProperties
      <4>3. \A j \in 1 .. width(i) : from + 1 + j - 1 = from + j
        BY <2>2, <2>4
      <4> HIDE DEF part
      <4> QED
        BY <4>1, <4>2, <4>3
    <3> QED
      BY <3>3, <3>4
  <2> HIDE DEF part
  <2>6. fields[i] \in Seq(Byte) /\ Len(fields[i]) = width(i) /\ fields[i] = ToBytes(number(i), width(i))
    BY <1>7, ElementOfSeq DEF width
  <2>7. part = fields[i]
    BY <2>3, <2>5, <2>6, SeqEqual
  <2> QED
    BY <2>1, <2>6, <2>7
<1>17. SubSeq(buf, header + 1, header + Len(body)) = body
  <2> DEFINE part == SubSeq(buf, header + 1, header + Len(body))
  <2>1. ASSUME NEW k \in header + 1 .. header + Len(body) PROVE buf[k] \in Byte
    <3>1. k \in 1 .. Len(buf)
      BY <1>13, <1>14
    <3> QED
      BY <1>14, <3>1, ElementOfSeq
  <2>2. header + 1 \in Int /\ header + Len(body) \in Int
    BY <1>13
  <2>3. part \in Seq(Byte)
    BY <2>1, <2>2, SubSeqProperties
  <2>4. Len(part) = Len(body) /\ \A j \in 1 .. Len(body) : part[j] = buf[header + j]
    BY <1>13
  <2> HIDE DEF part
  <2>5. part = body
    BY <1>13, <1>14, <2>3, <2>4, SeqEqual
  <2> QED
    BY <2>5 DEF part
<1> QED
  BY <1>2, <1>14, <1>15, <1>16, <1>17 DEF layout, number, type, body, buf, header

\* The datagrams that the endpoints send are sequences of bytes.
LEMMA SentTyped ==
    /\ \A l \in Links, id \in Nat, payload \in Payloads : Encode(DataOf(l, id, payload)) \in Seq(Byte)
    /\ \A l \in Links, id \in Nat, now \in Times : Encode(AckOf(l, id, now)) \in Seq(Byte)
    /\ \A l \in Links, now \in Times :
          Encode([kind |-> "Keepalive", link_id |-> l, timestamp_us |-> now]) \in Seq(Byte)
    /\ \A probe \in Probes : Encode(probe) \in Seq(Byte)
<1>1. /\ Links \subseteq Nat /\ Times \subseteq Nat /\ Byte \subseteq Nat
      /\ \A payload \in Payloads : payload \in Seq(Byte) /\ Len(payload) \in Nat
  <2>1. Links \subseteq Byte /\ Byte \subseteq Nat
    BY DatagramAssumption, WireAssumption DEF Byte
  <2>2. Unsigned(8) \subseteq Nat
    BY PlaceTyped DEF Unsigned
  <2>3. Payloads \subseteq Seq(Byte) /\ Times \subseteq Unsigned(8)
    BY DatagramAssumption
  <2>4. \A payload \in Payloads : payload \in Seq(Byte) /\ Len(payload) \in Nat
    BY <2>3, LenProperties
  <2> QED
    BY <2>1, <2>2, <2>3, <2>4
<1>2. <<>> \in Seq(Byte) /\ Len(<<>>) = 0
  OBVIOUS
<1>3. ASSUME NEW l \in Links, NEW id \in Nat, NEW payload \in Payloads
      PROVE  Encode(DataOf(l, id, payload)) \in Seq(Byte)
  <2> DEFINE p == DataOf(l, id, payload)
  <2>1. p.kind = "Data" /\ Body(p) = payload
    BY DEF DataOf, Body
  <2>2. ASSUME NEW i \in DOMAIN Layout("Data") PROVE Number(p, Layout("Data")[i][1]) \in Int
    <3>1. Layout("Data")[i][1] \in {"chunk_id", "link_id", "total_size", "offset", "payload_len"}
      BY DEF Layout
    <3> QED
      BY <1>1, <2>1, <3>1 DEF Number, DataOf
  <2>3. "Data" \in Kind /\ Body(p) \in Seq(Byte)
    BY <1>1, <2>1 DEF Kind, MessageType
  <2> HIDE DEF p
  <2> QED
    BY <2>1, <2>2, <2>3, Encoded DEF p
<1>4. ASSUME NEW l \in Links, NEW id \in Nat, NEW now \in Times
      PROVE  Encode(AckOf(l, id, now)) \in Seq(Byte)
  <2> DEFINE p == AckOf(l, id, now)
  <2>1. p.kind = "Ack" /\ Body(p) = <<>>
    BY DEF AckOf, Body
  <2>2. ASSUME NEW i \in DOMAIN Layout("Ack") PROVE Number(p, Layout("Ack")[i][1]) \in Int
    <3>1. Layout("Ack")[i][1] \in {"chunk_id", "link_id", "echo_timestamp_us", "recv_timestamp_us"}
      BY DEF Layout
    <3> QED
      BY <1>1, <2>1, <3>1 DEF Number, AckOf
  <2>3. "Ack" \in Kind /\ Body(p) \in Seq(Byte)
    BY <1>2, <2>1 DEF Kind, MessageType
  <2> HIDE DEF p
  <2> QED
    BY <2>1, <2>2, <2>3, Encoded DEF p
<1>5. ASSUME NEW l \in Links, NEW now \in Times
      PROVE  Encode([kind |-> "Keepalive", link_id |-> l, timestamp_us |-> now]) \in Seq(Byte)
  <2> DEFINE p == [kind |-> "Keepalive", link_id |-> l, timestamp_us |-> now]
  <2>1. p.kind = "Keepalive" /\ Body(p) = <<>>
    BY DEF Body
  <2>2. ASSUME NEW i \in DOMAIN Layout("Keepalive") PROVE Number(p, Layout("Keepalive")[i][1]) \in Int
    <3>1. Layout("Keepalive")[i][1] \in {"link_id", "timestamp_us"}
      BY DEF Layout
    <3> QED
      BY <1>1, <2>1, <3>1 DEF Number
  <2>3. "Keepalive" \in Kind /\ Body(p) \in Seq(Byte)
    BY <1>2, <2>1 DEF Kind, MessageType
  <2> HIDE DEF p
  <2> QED
    BY <2>1, <2>2, <2>3, Encoded DEF p
<1>6. ASSUME NEW p \in Probes PROVE Encode(p) \in Seq(Byte)
  <2>1. p \in ProbePacket
    BY DatagramAssumption
  <2>2. p.kind = "Probe" /\ Body(p) = <<>>
    BY <2>1 DEF Body, ProbePacket
  <2>3. /\ p.link_id \in Int /\ p.seq \in Int /\ p.timestamp_us \in Int
        /\ p.echo_timestamp_us \in Int /\ p.tx_bytes \in Int /\ p.tx_packets \in Int
        /\ p.rx_bytes \in Int /\ p.rx_packets \in Int /\ p.loss_ratio \in Int
    <3>1. Byte \subseteq Int /\ Unsigned(4) \subseteq Int /\ Unsigned(8) \subseteq Int
      BY <1>1, PlaceTyped DEF Unsigned
    <3> QED
      BY <2>1, <3>1 DEF ProbePacket
  <2>4. StateCode(p.path_state) \in Int
    <3>1. p.path_state \in Range(States)
      BY <2>1 DEF ProbePacket
    <3>2. \E i \in DOMAIN States : States[i] = p.path_state
      BY <3>1 DEF Range
    <3>3. DOMAIN States = 1 .. 4
      BY DEF States
    <3> QED
      BY <3>2, <3>3 DEF StateCode
  <2>5. ASSUME NEW i \in DOMAIN Layout("Probe") PROVE Number(p, Layout("Probe")[i][1]) \in Int
    <3>1. Layout("Probe")[i][1] \in {"link_id", "seq", "timestamp_us", "echo_timestamp_us",
                                     "tx_bytes", "tx_packets", "rx_bytes", "rx_packets",
                                     "loss_ratio", "path_state", "reserved"}
      BY DEF Layout
    <3> QED
      BY <2>3, <2>4, <3>1 DEF Number
  <2>6. "Probe" \in Kind /\ Body(p) \in Seq(Byte)
    BY <1>2, <2>2 DEF Kind, MessageType
  <2> QED
    BY <2>2, <2>5, <2>6, Encoded
<1> QED
  BY <1>3, <1>4, <1>5, <1>6

\* A path state is what its code stands for, and the code fits a byte.
LEMMA StateSurvives ==
    ASSUME NEW state \in Range(States)
    PROVE  StateCode(state) \in Byte /\ StateOf(StateCode(state)) = state
<1> DEFINE i == CHOOSE j \in DOMAIN States : States[j] = state
<1>1. DOMAIN States = 1 .. 4 /\ Len(States) = 4
  BY DEF States
<1>2. \E j \in DOMAIN States : States[j] = state
  BY DEF Range
<1>3. i \in 1 .. 4 /\ States[i] = state
  BY <1>1, <1>2
<1>4. StateCode(state) = i - 1
  BY DEF StateCode
<1> HIDE DEF i
<1>5. i - 1 \in Byte
  BY <1>3, WireAssumption DEF Byte
<1>6. (i - 1) < Len(States) /\ (i - 1) + 1 = i
  BY <1>1, <1>3
<1>7. StateOf(i - 1) = States[(i - 1) + 1]
  BY <1>6 DEF StateOf
<1> QED
  BY <1>3, <1>4, <1>5, <1>6, <1>7

\* The packets that an encoder can write into their fields
Writable(p) ==
    /\ p.kind \in Kind \ {"Stats"}
    /\ DOMAIN p = Fields(p.kind) \cup {"kind"} /\ p = [f \in DOMAIN p |-> p[f]]
    /\ Body(p) \in Seq(Byte)
    /\ \A i \in DOMAIN Layout(p.kind) :
          Number(p, Layout(p.kind)[i][1]) \in Unsigned(Layout(p.kind)[i][2])
    /\ p.kind = "Probe" => p.path_state \in Range(States)

\* Such a packet is decoded as it was.
LEMMA RoundTrip ==
    ASSUME NEW p, Writable(p), NoPacket \notin Seq(Byte)
    PROVE  Decode(Encode(p)) = p
<1> DEFINE kind == p.kind
           buf == Encode(p)
<1>1. kind \in Kind /\ kind # "Stats" /\ Body(p) \in Seq(Byte) /\ Layout(kind) \in Seq(FieldSpec)
  BY LayoutTyped DEF Writable
<1>2. ASSUME NEW i \in DOMAIN Layout(kind)
      PROVE  /\ Number(p, Layout(kind)[i][1]) \in Int
             /\ FromBytes(ToBytes(Number(p, Layout(kind)[i][1]), Layout(kind)[i][2]))
                  = Number(p, Layout(kind)[i][1])
  <2>1. Layout(kind)[i][2] \in Nat
    BY <1>1, FieldsFit
  <2>2. Number(p, Layout(kind)[i][1]) \in Unsigned(Layout(kind)[i][2])
    BY DEF Writable
  <2> QED
    BY <2>1, <2>2, NumberSurvives
<1>3. /\ buf \in Seq(Byte) /\ Len(buf) = HeaderSize(kind) + Len(Body(p))
      /\ buf # <<>> /\ Head(buf) = MessageType[kind]
      /\ \A i \in DOMAIN Layout(kind) :
            FieldAt(buf, kind, i)
              = FromBytes(ToBytes(Number(p, Layout(kind)[i][1]), Layout(kind)[i][2]))
      /\ SubSeq(buf, HeaderSize(kind) + 1, HeaderSize(kind) + Len(Body(p))) = Body(p)
  BY <1>1, <1>2, Encoded
<1>4. ASSUME NEW i \in DOMAIN Layout(kind)
      PROVE  FieldOf(buf, kind, Layout(kind)[i][1]) = Number(p, Layout(kind)[i][1])
  BY <1>1, <1>2, <1>3, FoundByName
<1>5. DOMAIN p = Fields(kind) \cup {"kind"} /\ p = [f \in DOMAIN p |-> p[f]]
  BY DEF Writable
<1>6. kind = "Probe" => p.path_state \in Range(States)
  BY DEF Writable
<1>7. Len(buf) >= HeaderSize(kind) /\ ~(Len(buf) < HeaderSize(kind) + Len(Body(p)))
  BY <1>1, <1>3, HeaderTyped, LenProperties
<1> HIDE DEF buf
<1>8. kind = "Data" => BodyOf(buf, kind) = p.payload /\ BodyOf(buf, kind) # NoPacket
  <2>1. SUFFICES ASSUME kind = "Data"
                 PROVE  BodyOf(buf, kind) = p.payload /\ BodyOf(buf, kind) # NoPacket
    OBVIOUS
  <2>2. Body(p) = p.payload
    BY <2>1 DEF Body
  <2>3. 5 \in DOMAIN Layout(kind) /\ Layout(kind)[5][1] = "payload_len"
    BY <2>1 DEF Layout
  <2>4. FieldOf(buf, kind, "payload_len") = Len(Body(p))
    BY <1>4, <2>3 DEF Number
  <2>5. BodyOf(buf, kind) = Body(p)
    BY <1>3, <1>7, <2>1, <2>4 DEF BodyOf
  <2> QED
    BY <1>1, <2>2, <2>5
<1>9. ASSUME NEW f \in Fields(kind), f # "payload"
      PROVE  /\ f \notin {"kind", "json", "payload_len", "json_len", "reserved"}
             /\ FieldOf(buf, kind, f) = Number(p, f)
  <2>1. PICK i \in DOMAIN Layout(kind) : f = Layout(kind)[i][1]
    BY <1>1, <1>9 DEF Fields
  <2>2. f \in FieldName
    <3>1. DOMAIN Layout(kind) = 1 .. Len(Layout(kind))
      BY <1>1, LenProperties
    <3>2. Layout(kind)[i] \in FieldSpec
      BY <1>1, <3>1, ElementOfSeq
    <3> QED
      BY <2>1, <3>2 DEF FieldSpec
  <2>3. f \notin {"payload_len", "json_len", "reserved"}
    BY <1>1, <1>9 DEF Fields
  <2>4. f \notin {"kind", "json"}
    BY <2>2 DEF FieldName
  <2> QED
    BY <1>4, <2>1, <2>3, <2>4
<1> DEFINE value(f) ==
               CASE f = "kind" -> kind
                 [] f \in {"payload", "json"} -> BodyOf(buf, kind)
                 [] f = "path_state" -> StateOf(FieldOf(buf, kind, f))
                 [] OTHER -> FieldOf(buf, kind, f)
<1>10. ASSUME NEW f \in Fields(kind) \cup {"kind"} PROVE value(f) = p[f]
  <2>1. CASE f = "kind"
    BY <2>1
  <2>2. CASE f = "payload"
    <3>1. kind = "Data"
      <4>1. \A i \in DOMAIN Layout(kind) : Layout(kind)[i][1] # "payload"
        <5>1. ASSUME NEW i \in DOMAIN Layout(kind) PROVE Layout(kind)[i][1] \in FieldName
          <6>1. DOMAIN Layout(kind) = 1 .. Len(Layout(kind))
            BY <1>1, LenProperties
          <6>2. Layout(kind)[i] \in FieldSpec
            BY <1>1, <6>1, ElementOfSeq
          <6> QED
            BY <6>2 DEF FieldSpec
        <5> QED
          BY <5>1 DEF FieldName
      <4>2. "payload" \in Fields(kind)
        BY <2>2
      <4> QED
        BY <1>1, <4>1, <4>2 DEF Fields
    <3> QED
      BY <1>8, <2>2, <3>1
  <2>3. CASE f \notin {"kind", "payload"}
    <3>1. /\ f \notin {"kind", "json", "payload", "payload_len", "json_len", "reserved"}
          /\ FieldOf(buf, kind, f) = Number(p, f)
      BY <1>9, <2>3
    <3>2. CASE f = "path_state"
      <4>1. Number(p, f) = StateCode(p.path_state)
        BY <3>2 DEF Number
      <4>2. value(f) = StateOf(FieldOf(buf, kind, f))
        BY <3>2
      <4>3. p.path_state \in Range(States)
        <5>1. kind = "Probe"
          <6>1. PICK i \in DOMAIN Layout(kind) : Layout(kind)[i][1] = "path_state"
            BY <1>1, <2>3, <3>2 DEF Fields
          <6>2. kind \in {"Data", "Announce", "Ack", "Keepalive", "Probe"}
            BY <1>1 DEF Kind, MessageType
          <6> QED
            BY <6>1, <6>2 DEF Layout
        <5> QED
          BY <1>6, <5>1
      <4> QED
        BY <3>1, <3>2, <4>1, <4>2, <4>3, StateSurvives
    <3>3. CASE f # "path_state"
      <4>1. Number(p, f) = p[f]
        BY <3>1, <3>3 DEF Number
      <4>2. value(f) = FieldOf(buf, kind, f)
        BY <3>1, <3>3
      <4> QED
        BY <3>1, <4>1, <4>2
    <3> QED BY <3>2, <3>3
  <2> QED BY <2>1, <2>2, <2>3
<1>11. DecodeAs(buf, kind) = [f \in Fields(kind) \cup {"kind"} |-> value(f)]
  <2>1. IF kind = "Data" THEN BodyOf(buf, kind) # NoPacket ELSE kind # "Stats"
    BY <1>1, <1>8
  <2> QED
    BY <1>7, <2>1 DEF DecodeAs
<1>12. DecodeAs(buf, kind) = [f \in Fields(kind) \cup {"kind"} |-> p[f]]
  <2> HIDE DEF value
  <2> QED
    BY <1>10, <1>11
<1>13. DecodeAs(buf, kind) = p
  BY <1>5, <1>12
<1>14. Decode(buf) = DecodeAs(buf, kind)
  <2> DEFINE found == CHOOSE k \in Kind : MessageType[k] = Head(buf)
  <2>1. Head(buf) \in {MessageType[k] : k \in Kind} /\ buf # <<>>
    BY <1>1, <1>3
  <2>2. Decode(buf) = DecodeAs(buf, found)
    BY <2>1 DEF Decode
  <2>3. found \in Kind /\ MessageType[found] = MessageType[kind]
    BY <1>1, <1>3
  <2> HIDE DEF found
  <2>4. \A k, m \in Kind : MessageType[k] = MessageType[m] => k = m
    BY DEF Kind, MessageType
  <2>5. found = kind
    BY <1>1, <2>3, <2>4
  <2> QED
    BY <2>2, <2>5
<1> QED
  BY <1>13, <1>14 DEF buf

\* CHUNK_HEADER_SIZE
LEMMA DataHeader == HeaderSize("Data") = 20
<1> DEFINE layout == Layout("Data")
           upTo(i) == WidthOf(SubSeq(layout, 1, i))
<1>1. layout \in Seq(FieldSpec) /\ Len(layout) = 5
  <2>1. "Data" \in Kind
    BY DEF Kind, MessageType
  <2> QED
    BY <2>1, LayoutTyped DEF Layout
<1>2. /\ layout[1][2] = 8 /\ layout[2][2] = 1 /\ layout[3][2] = 4 /\ layout[4][2] = 4
      /\ layout[5][2] = 2
  BY DEF Layout, LengthWidth
<1> HIDE DEF layout
<1>3. /\ SubSeq(layout, 1, 5) = layout /\ upTo(0) = 0
      /\ \A i \in 1 .. 5 : upTo(i - 1) \in Nat /\ upTo(i) = upTo(i - 1) + layout[i][2]
  BY <1>1, WidthsAdd
<1> HIDE DEF upTo
<1>4. upTo(1) = 8 /\ upTo(2) = 9
  <2>1. upTo(1) = upTo(1 - 1) + layout[1][2] /\ upTo(2) = upTo(2 - 1) + layout[2][2]
    BY <1>3
  <2> QED
    BY <1>2, <1>3, <2>1
<1>5. upTo(3) = 13 /\ upTo(4) = 17
  <2>1. upTo(3) = upTo(3 - 1) + layout[3][2] /\ upTo(4) = upTo(4 - 1) + layout[4][2]
    BY <1>3
  <2> QED
    BY <1>2, <1>4, <2>1
<1>6. upTo(5) = 19
  <2>1. upTo(5) = upTo(5 - 1) + layout[5][2]
    BY <1>3
  <2> QED
    BY <1>2, <1>5, <2>1
<1>7. WidthOf(Layout("Data")) = 19
  BY <1>3, <1>6 DEF upTo, layout
<1> QED
  BY <1>7 DEF HeaderSize

\* Every datagram that a socket takes is decoded as the packet it was made from.
LEMMA SentDecodes ==
    /\ \A l \in Links, id \in Unsigned(8), payload \in Payloads :
          Len(Encode(DataOf(l, id, payload))) <= MaxDatagram
            => Decode(Encode(DataOf(l, id, payload))) = DataOf(l, id, payload)
    /\ \A l \in Links, id \in Unsigned(8), now \in Times :
          Decode(Encode(AckOf(l, id, now))) = AckOf(l, id, now)
    /\ \A l \in Links, now \in Times :
          LET p == [kind |-> "Keepalive", link_id |-> l, timestamp_us |-> now]
          IN Decode(Encode(p)) = p
    /\ \A probe \in Probes : Decode(Encode(probe)) = probe
<1>1. /\ Links \subseteq Byte /\ Times \subseteq Unsigned(8) /\ Unsigned(1) = Byte
      /\ Probes \subseteq ProbePacket /\ Payloads \subseteq Seq(Byte)
      /\ MaxDatagram \in Nat /\ MaxDatagram < 20 + Place[2]
  BY DatagramAssumption, Widths
<1>2. /\ <<>> \in Seq(Byte) /\ 0 \in Unsigned(3) /\ 0 \in Unsigned(4) /\ 0 \in Unsigned(8)
      /\ Unsigned(8) \subseteq Nat /\ Byte \subseteq Nat
  BY Widths, WireAssumption DEF Byte
<1>3. NoPacket \notin Seq(Byte)
  BY NoPacketAssumption
<1>4. ASSUME NEW l \in Links, NEW id \in Unsigned(8), NEW payload \in Payloads,
             Len(Encode(DataOf(l, id, payload))) <= MaxDatagram
      PROVE  Decode(Encode(DataOf(l, id, payload))) = DataOf(l, id, payload)
  <2> DEFINE p == DataOf(l, id, payload)
             layout == Layout("Data")
  <2>1. p.kind = "Data" /\ Body(p) = payload /\ payload \in Seq(Byte) /\ Len(payload) \in Nat
    BY <1>1, LenProperties DEF DataOf, Body
  <2>2. DOMAIN layout = 1 .. 5
    BY DEF Layout
  <2>3. /\ Number(p, layout[1][1]) = id /\ layout[1][2] = 8
        /\ Number(p, layout[2][1]) = l /\ layout[2][2] = 1
        /\ Number(p, layout[3][1]) = Len(payload) /\ layout[3][2] = 4
        /\ Number(p, layout[4][1]) = 0 /\ layout[4][2] = 4
        /\ Number(p, layout[5][1]) = Len(payload) /\ layout[5][2] = 2
    BY <2>1 DEF Layout, LengthWidth, Number, DataOf
  <2>4. "Data" \in Kind \ {"Stats"}
    BY DEF Kind, MessageType
  <2>5. DOMAIN p = Fields("Data") \cup {"kind"} /\ p = [f \in DOMAIN p |-> p[f]]
    <3>1. Fields("Data") = {"chunk_id", "link_id", "total_size", "offset", "payload"}
      <4>1. {layout[i][1] : i \in DOMAIN layout} =
              {"chunk_id", "link_id", "total_size", "offset", "payload_len"}
        <5>1. /\ layout[1][1] = "chunk_id" /\ layout[2][1] = "link_id" /\ layout[3][1] = "total_size"
              /\ layout[4][1] = "offset" /\ layout[5][1] = "payload_len"
          BY DEF Layout
        <5>2. 1 .. 5 = {1, 2, 3, 4, 5}
          OBVIOUS
        <5> HIDE DEF layout
        <5> QED
          BY <2>2, <5>1, <5>2
      <4> QED
        BY <4>1 DEF Fields
    <3> QED
      BY <3>1 DEF DataOf
  <2> HIDE DEF p, layout
  <2>6. \A i \in DOMAIN layout : Number(p, layout[i][1]) \in Int
    <3>1. id \in Int /\ l \in Int /\ Len(payload) \in Int
      BY <1>1, <1>2, <2>1
    <3>2. \A i \in 1 .. 5 : i = 1 \/ i = 2 \/ i = 3 \/ i = 4 \/ i = 5
      OBVIOUS
    <3> QED
      BY <2>2, <2>3, <3>1, <3>2
  <2>7. Len(Encode(p)) = 20 + Len(payload)
    BY <2>1, <2>4, <2>6, Encoded, DataHeader DEF layout
  <2>8. Len(payload) \in Unsigned(2) /\ Len(payload) \in Unsigned(4)
    <3>1. Place[2] \in Nat
      BY PlaceTyped
    <3>2. Len(payload) < Place[2]
      BY <1>1, <1>4, <2>1, <2>7, <3>1 DEF p
    <3> QED
      BY <2>1, <3>1, <3>2, Widths DEF Unsigned
  <2>9. \A i \in DOMAIN layout : Number(p, layout[i][1]) \in Unsigned(layout[i][2])
    <3>1. l \in Unsigned(1)
      BY <1>1
    <3>2. \A i \in 1 .. 5 : i = 1 \/ i = 2 \/ i = 3 \/ i = 4 \/ i = 5
      OBVIOUS
    <3> QED
      BY <1>2, <2>2, <2>3, <2>8, <3>1, <3>2
  <2>10. Writable(p)
    BY <2>1, <2>4, <2>5, <2>9 DEF Writable, layout
  <2> QED
    BY <1>3, <2>10, RoundTrip DEF p
<1>5. ASSUME NEW l \in Links, NEW id \in Unsigned(8), NEW now \in Times
      PROVE  Decode(Encode(AckOf(l, id, now))) = AckOf(l, id, now)
  <2> DEFINE p == AckOf(l, id, now)
             layout == Layout("Ack")
  <2>1. p.kind = "Ack" /\ Body(p) = <<>> /\ "Ack" \in Kind \ {"Stats"}
    BY DEF AckOf, Body, Kind, MessageType
  <2>2. DOMAIN layout = 1 .. 4
    BY DEF Layout
  <2>3. /\ Number(p, layout[1][1]) = id /\ layout[1][2] = 8
        /\ Number(p, layout[2][1]) = l /\ layout[2][2] = 1
        /\ Number(p, layout[3][1]) = 0 /\ layout[3][2] = 8
        /\ Number(p, layout[4][1]) = now /\ layout[4][2] = 8
    BY <2>1 DEF Layout, Number, AckOf
  <2>4. DOMAIN p = Fields("Ack") \cup {"kind"} /\ p = [f \in DOMAIN p |-> p[f]]
    <3>1. Fields("Ack") = {"chunk_id", "link_id", "echo_timestamp_us", "recv_timestamp_us"}
      <4>1. {layout[i][1] : i \in DOMAIN layout} =
              {"chunk_id", "link_id", "echo_timestamp_us", "recv_timestamp_us"}
        <5>1. /\ layout[1][1] = "chunk_id" /\ layout[2][1] = "link_id"
              /\ layout[3][1] = "echo_timestamp_us" /\ layout[4][1] = "recv_timestamp_us"
          BY DEF Layout
        <5>2. 1 .. 4 = {1, 2, 3, 4}
          OBVIOUS
        <5> HIDE DEF layout
        <5> QED
          BY <2>2, <5>1, <5>2
      <4> QED
        BY <4>1 DEF Fields
    <3> QED
      BY <3>1 DEF AckOf
  <2> HIDE DEF p, layout
  <2>5. \A i \in DOMAIN layout : Number(p, layout[i][1]) \in Unsigned(layout[i][2])
    <3>1. l \in Unsigned(1) /\ now \in Unsigned(8)
      BY <1>1
    <3>2. \A i \in 1 .. 4 : i = 1 \/ i = 2 \/ i = 3 \/ i = 4
      OBVIOUS
    <3> QED
      BY <1>2, <2>2, <2>3, <3>1, <3>2
  <2>6. Writable(p)
    BY <1>2, <2>1, <2>4, <2>5 DEF Writable, layout
  <2> QED
    BY <1>3, <2>6, RoundTrip DEF p
<1>6. ASSUME NEW l \in Links, NEW now \in Times,
             NEW p, p = [kind |-> "Keepalive", link_id |-> l, timestamp_us |-> now]
      PROVE  Decode(Encode(p)) = p
  <2> DEFINE layout == Layout("Keepalive")
  <2>1. p.kind = "Keepalive" /\ Body(p) = <<>> /\ "Keepalive" \in Kind \ {"Stats"}
    BY <1>6 DEF Body, Kind, MessageType
  <2>2. DOMAIN layout = 1 .. 2
    BY DEF Layout
  <2>3. /\ Number(p, layout[1][1]) = l /\ layout[1][2] = 1
        /\ Number(p, layout[2][1]) = now /\ layout[2][2] = 8
    BY <1>6 DEF Layout, Number
  <2>4. DOMAIN p = Fields("Keepalive") \cup {"kind"} /\ p = [f \in DOMAIN p |-> p[f]]
    <3>1. Fields("Keepalive") = {"link_id", "timestamp_us"}
      <4>1. {layout[i][1] : i \in DOMAIN layout} = {"link_id", "timestamp_us"}
        <5>1. layout[1][1] = "link_id" /\ layout[2][1] = "timestamp_us"
          BY DEF Layout
        <5>2. 1 .. 2 = {1, 2}
          OBVIOUS
        <5> HIDE DEF layout
        <5> QED
          BY <2>2, <5>1, <5>2
      <4> QED
        BY <4>1 DEF Fields
    <3> QED
      BY <1>6, <3>1
  <2> HIDE DEF layout
  <2>5. \A i \in DOMAIN layout : Number(p, layout[i][1]) \in Unsigned(layout[i][2])
    <3>1. l \in Unsigned(1) /\ now \in Unsigned(8)
      BY <1>1
    <3>2. \A i \in 1 .. 2 : i = 1 \/ i = 2
      OBVIOUS
    <3> QED
      BY <2>2, <2>3, <3>1, <3>2
  <2>6. Writable(p)
    BY <1>2, <2>1, <2>4, <2>5 DEF Writable, layout
  <2> QED
    BY <1>3, <2>6, RoundTrip
<1>7. ASSUME NEW p \in Probes PROVE Decode(Encode(p)) = p
  <2> DEFINE layout == Layout("Probe")
  <2>1. p \in ProbePacket
    BY <1>1
  <2>2. p.kind = "Probe" /\ Body(p) = <<>> /\ "Probe" \in Kind \ {"Stats"} /\ p.path_state \in Range(States)
    BY <2>1 DEF ProbePacket, Body, Kind, MessageType
  <2>3. DOMAIN layout = 1 .. 11
    BY DEF Layout
  <2>4. /\ layout[1] = <<"link_id", 1>> /\ layout[2] = <<"seq", 4>> /\ layout[3] = <<"timestamp_us", 8>>
        /\ layout[4] = <<"echo_timestamp_us", 8>> /\ layout[5] = <<"tx_bytes", 8>>
        /\ layout[6] = <<"tx_packets", 4>> /\ layout[7] = <<"rx_bytes", 8>>
        /\ layout[8] = <<"rx_packets", 4>> /\ layout[9] = <<"loss_ratio", 1>>
        /\ layout[10] = <<"path_state", 1>> /\ layout[11] = <<"reserved", 3>>
    BY DEF Layout
  <2>5. 1 .. 11 = {1, 2, 3, 4, 5, 6, 7, 8, 9, 10, 11}
    OBVIOUS
  <2>6. DOMAIN p = Fields("Probe") \cup {"kind"} /\ p = [f \in DOMAIN p |-> p[f]]
    <3> DEFINE names == {"link_id", "seq", "timestamp_us", "echo_timestamp_us", "tx_bytes", "tx_packets",
                         "rx_bytes", "rx_packets", "loss_ratio", "path_state"}
    <3>1. Fields("Probe") = names
      <4>1. {layout[i][1] : i \in DOMAIN layout} = names \cup {"reserved"}
        <5> HIDE DEF layout
        <5> QED
          BY <2>3, <2>4, <2>5
      <4> QED
        BY <4>1 DEF Fields
    <3> QED
      BY <2>1, <3>1 DEF ProbePacket
  <2> HIDE DEF layout
  <2>7. \A i \in DOMAIN layout : Number(p, layout[i][1]) \in Unsigned(layout[i][2])
    <3>1. /\ p.link_id \in Unsigned(1) /\ p.seq \in Unsigned(4) /\ p.timestamp_us \in Unsigned(8)
          /\ p.echo_timestamp_us \in Unsigned(8) /\ p.tx_bytes \in Unsigned(8)
          /\ p.tx_packets \in Unsigned(4) /\ p.rx_bytes \in Unsigned(8)
          /\ p.rx_packets \in Unsigned(4) /\ p.loss_ratio \in Unsigned(1)
      BY <1>1, <2>1 DEF ProbePacket
    <3>2. StateCode(p.path_state) \in Unsigned(1)
      BY <1>1, <2>2, StateSurvives
    <3>3. /\ Number(p, "link_id") = p.link_id /\ Number(p, "seq") = p.seq
          /\ Number(p, "timestamp_us") = p.timestamp_us
          /\ Number(p, "echo_timestamp_us") = p.echo_timestamp_us
          /\ Number(p, "tx_bytes") = p.tx_bytes /\ Number(p, "tx_packets") = p.tx_packets
          /\ Number(p, "rx_bytes") = p.rx_bytes /\ Number(p, "rx_packets") = p.rx_packets
          /\ Number(p, "loss_ratio") = p.loss_ratio
          /\ Number(p, "path_state") = StateCode(p.path_state) /\ Number(p, "reserved") = 0
      BY DEF Number
    <3> QED
      BY <1>2, <2>3, <2>4, <2>5, <3>1, <3>2, <3>3
  <2>8. Writable(p)
    BY <1>2, <2>2, <2>6, <2>7 DEF Writable, layout
  <2> QED
    BY <1>3, <2>8, RoundTrip
<1> QED
  BY <1>4, <1>5, <1>6, <1>7

-----------------------------------------------------------------------------
(* Types *)

\* What the history variables hold
GhostTypeOK ==
    /\ happened \in RawCounters /\ forgotten \in RawCounters
    /\ handed \in [Links -> Nat] /\ reported \in [Links -> Nat] /\ rounded \in [Links -> Nat]
    /\ samples \in [Links -> SUBSET (Nat \ {0})]

\* Only the chunk sender records what was sent.
OnlySenderRecords ==
    \A t \in Task \ {ChunkSender} : \A i \in DOMAIN todo[t] : todo[t][i].do # "record_tx"

TelemetryInv == TelemetryTypeOK /\ GhostTypeOK /\ OnlySenderRecords

\* The statistics of the links keep their types,
LEMMA StatsUpdated ==
    ASSUME NEW s \in StatsOfLink, NEW a \in Nat, NEW b \in Nat, NEW c \in Nat, NEW h \in BOOLEAN
    PROVE  /\ [s EXCEPT !.tx_bytes = a, !.tx_packets = b, !.pending_bytes = c] \in StatsOfLink
           /\ [s EXCEPT !.rx_bytes = a, !.rx_packets = b] \in StatsOfLink
           /\ [s EXCEPT !.healthy = h] \in StatsOfLink
BY DEF StatsOfLink

\* The collector's counters stay numbers when it records what was sent,
LEMMA RecordTxTyped ==
    ASSUME TelemetryTypeOK, NEW l \in Links, NEW bytes \in Nat, RecordTx(l, bytes)
    PROVE  stats' \in [Links -> StatsOfLink] /\ elapsed' \in Nat
<1>1. stats \in [Links -> StatsOfLink] /\ elapsed \in Nat
  BY DEF TelemetryTypeOK
<1>2. stats[l] \in StatsOfLink
  BY <1>1
<1>5. /\ stats[l].tx_bytes + bytes \in Nat /\ stats[l].tx_packets + 1 \in Nat
      /\ stats[l].pending_bytes + bytes \in Nat
  BY <1>2 DEF StatsOfLink
<1>3. [stats[l] EXCEPT !.tx_bytes = @ + bytes, !.tx_packets = @ + 1, !.pending_bytes = @ + bytes]
        \in StatsOfLink
  BY <1>2, <1>5, StatsUpdated
<1>4. stats' = [stats EXCEPT ![l] = [stats[l] EXCEPT !.tx_bytes = @ + bytes,
                                       !.tx_packets = @ + 1, !.pending_bytes = @ + bytes]]
  BY <1>1 DEF RecordTx
<1> QED
  BY <1>1, <1>3, <1>4 DEF RecordTx

\* what was received,
LEMMA RecordRxTyped ==
    ASSUME TelemetryTypeOK, NEW l \in Links, NEW bytes \in Nat, RecordRx(l, bytes)
    PROVE  stats' \in [Links -> StatsOfLink] /\ elapsed' \in Nat
<1>1. stats \in [Links -> StatsOfLink] /\ elapsed \in Nat
  BY DEF TelemetryTypeOK
<1>2. stats[l] \in StatsOfLink
  BY <1>1
<1>5. stats[l].rx_bytes + bytes \in Nat /\ stats[l].rx_packets + 1 \in Nat
  BY <1>2 DEF StatsOfLink
<1>3. [stats[l] EXCEPT !.rx_bytes = @ + bytes, !.rx_packets = @ + 1] \in StatsOfLink
  BY <1>2, <1>5, StatsUpdated
<1>4. stats' = [stats EXCEPT ![l] = [stats[l] EXCEPT !.rx_bytes = @ + bytes, !.rx_packets = @ + 1]]
  BY <1>1 DEF RecordRx
<1> QED
  BY <1>1, <1>3, <1>4 DEF RecordRx

\* a smoothed RTT lies between the one before and the sample,
LEMMA SmoothedBetween ==
    ASSUME NEW rtt \in Nat, NEW sample \in Nat
    PROVE  /\ Smoothed(rtt, sample) \in Nat
           /\ rtt = 0 => Smoothed(rtt, sample) = sample
           /\ rtt <= Smoothed(rtt, sample) \/ sample <= Smoothed(rtt, sample)
           /\ rtt # 0 => Smoothed(rtt, sample) <= rtt \/ Smoothed(rtt, sample) <= sample
<1> DEFINE n == (100 - Alpha) * rtt + Alpha * sample
<1>1. CASE rtt = 0
  BY <1>1 DEF Smoothed
<1>2. CASE rtt # 0
  <2>1. Alpha \in 1 .. 99
    BY StatsAssumption
  <2>2. (100 - Alpha) * rtt \in Nat /\ Alpha * sample \in Nat
    BY <2>1
  <2>3. Smoothed(rtt, sample) = n \div 100
    BY <1>2 DEF Smoothed
  <2>4. CASE rtt <= sample
    <3>1. PICK d \in Nat : sample = rtt + d
      <4>1. sample - rtt \in Nat /\ sample = rtt + (sample - rtt)
        BY <2>4
      <4> QED BY <4>1
    <3>2. Alpha * d \in Nat /\ Alpha * d <= 100 * d
      BY <2>1
    <3>3. Alpha * sample = Alpha * rtt + Alpha * d /\ (100 - Alpha) * rtt = 100 * rtt - Alpha * rtt
      BY <2>1, <3>1
    <3>4. Alpha * rtt \in Nat
      BY <2>1
    <3>5. n = 100 * rtt + Alpha * d
      BY <3>2, <3>3, <3>4
    <3> HIDE DEF n
    <3>6. 100 * rtt <= n /\ n <= 100 * sample
      BY <3>1, <3>2, <3>5
    <3>7. n \in Nat
      BY <3>2, <3>5
    <3>8. rtt <= n \div 100 /\ n \div 100 <= sample /\ n \div 100 \in Nat
      BY <3>6, <3>7
    <3> QED
      BY <1>2, <2>3, <3>8
  <2>5. CASE sample <= rtt
    <3>1. PICK d \in Nat : rtt = sample + d
      <4>1. rtt - sample \in Nat /\ rtt = sample + (rtt - sample)
        BY <2>5
      <4> QED BY <4>1
    <3>2. (100 - Alpha) * d \in Nat /\ (100 - Alpha) * d <= 100 * d
      BY <2>1
    <3>3. /\ (100 - Alpha) * rtt = (100 - Alpha) * sample + (100 - Alpha) * d
          /\ (100 - Alpha) * sample = 100 * sample - Alpha * sample
      BY <2>1, <3>1
    <3>4. n = 100 * sample + (100 - Alpha) * d
      BY <2>2, <3>2, <3>3
    <3> HIDE DEF n
    <3>5. 100 * sample <= n /\ n <= 100 * rtt
      BY <3>1, <3>2, <3>4
    <3>6. n \in Nat
      BY <3>2, <3>4
    <3>7. sample <= n \div 100 /\ n \div 100 <= rtt /\ n \div 100 \in Nat
      BY <3>5, <3>6
    <3> QED
      BY <1>2, <2>3, <3>7
  <2> QED BY <2>4, <2>5
<1> QED
  BY <1>1, <1>2

\* or how long a round trip took.
LEMMA RecordRttTyped ==
    ASSUME TelemetryTypeOK, NEW l \in Links, NEW sample \in Nat, RecordRtt(l, sample)
    PROVE  stats' \in [Links -> StatsOfLink] /\ elapsed' \in Nat
<1>1. stats \in [Links -> StatsOfLink] /\ elapsed \in Nat
  BY DEF TelemetryTypeOK
<1>2. stats[l] \in StatsOfLink /\ stats[l].smoothed_rtt_us \in Nat
  BY <1>1 DEF StatsOfLink
<1>3. Smoothed(stats[l].smoothed_rtt_us, sample) \in Nat
  BY <1>2, SmoothedBetween
<1>4. [stats[l] EXCEPT !.smoothed_rtt_us = Smoothed(@, sample)] \in StatsOfLink
  BY <1>2, <1>3 DEF StatsOfLink
<1>5. stats' = [stats EXCEPT ![l] = [stats[l] EXCEPT !.smoothed_rtt_us = Smoothed(@, sample)]]
  BY <1>1 DEF RecordRtt
<1> QED
  BY <1>1, <1>4, <1>5 DEF RecordRtt

\* and what closing a window makes of a link's statistics is of their type.
LEMMA TickTyped ==
    ASSUME TelemetryTypeOK, StatsTick
    PROVE  /\ stats' \in [Links -> StatsOfLink] /\ elapsed' \in Nat
           /\ \A l \in Links : stats'[l].smoothed_rtt_us = stats[l].smoothed_rtt_us
           /\ elapsed >= Window => \A l \in Links : stats'[l].tx_bytes = 0
                  /\ stats'[l].bandwidth_bps = stats[l].tx_bytes \div elapsed
           /\ elapsed < Window => \A l \in Links : stats'[l].tx_bytes = stats[l].tx_bytes
<1>1. stats \in [Links -> StatsOfLink] /\ elapsed \in Nat
  BY DEF TelemetryTypeOK
<1>2. HighRtt \in Nat /\ Window \in Nat \ {0}
  BY StatsAssumption
<1>3. ASSUME NEW s \in StatsOfLink
      PROVE  /\ Judged(s) \in StatsOfLink /\ Judged(s).tx_bytes = s.tx_bytes
             /\ Judged(s).bandwidth_bps = s.bandwidth_bps
             /\ Judged(s).smoothed_rtt_us = s.smoothed_rtt_us
  <2>1. (s.smoothed_rtt_us <= HighRtt) \in BOOLEAN
    <3>1. CASE s.smoothed_rtt_us <= HighRtt
      BY <3>1
    <3>2. CASE ~(s.smoothed_rtt_us <= HighRtt)
      BY <3>2
    <3> QED BY <3>1, <3>2
  <2>2. Judged(s) \in StatsOfLink
    BY <2>1, StatsUpdated DEF Judged
  <2>3. /\ Judged(s).tx_bytes = s.tx_bytes /\ Judged(s).bandwidth_bps = s.bandwidth_bps
        /\ Judged(s).smoothed_rtt_us = s.smoothed_rtt_us
    BY DEF Judged, StatsOfLink
  <2> QED
    BY <2>2, <2>3
<1>4. ASSUME NEW s \in StatsOfLink, elapsed >= Window
      PROVE  /\ WindowClosed(s) \in StatsOfLink /\ WindowClosed(s).tx_bytes = 0
             /\ WindowClosed(s).bandwidth_bps = s.tx_bytes \div elapsed
             /\ WindowClosed(s).smoothed_rtt_us = s.smoothed_rtt_us
  <2>1. s.tx_bytes \in Nat /\ elapsed \in Nat \ {0}
    BY <1>1, <1>2, <1>4 DEF StatsOfLink
  <2>2. s.tx_bytes \div elapsed \in Nat
    BY <2>1
  <2> QED
    BY <2>2 DEF WindowClosed, Reopened, StatsOfLink
<1>5. CASE elapsed >= Window
  <2>1. stats' = [l \in Links |-> Judged(WindowClosed(stats[l]))] /\ elapsed' = 0
    BY <1>5 DEF StatsTick
  <2>2. \A l \in Links : stats[l] \in StatsOfLink /\ WindowClosed(stats[l]) \in StatsOfLink
    BY <1>1, <1>4, <1>5
  <2> QED
    BY <1>1, <1>2, <1>3, <1>4, <1>5, <2>1, <2>2
<1>6. CASE elapsed < Window
  <2>1. stats' = [l \in Links |-> Judged(stats[l])] /\ elapsed' = elapsed
    BY <1>1, <1>2, <1>6 DEF StatsTick
  <2>2. \A l \in Links : stats[l] \in StatsOfLink
    BY <1>1
  <2> QED
    BY <1>1, <1>2, <1>3, <1>6, <2>1, <2>2
<1> QED
  BY <1>1, <1>2, <1>5, <1>6

\* Recorders are the keys of both tables of counters.
LEMMA RecorderNames ==
    /\ Recorder = {"record_packet_tx", "record_packet_rx", "record_chunk_tx", "record_chunk_rx"}
    /\ \A r \in Recorder : Counts[r] \in Counter /\ Volumes[r] \in Counter /\ Counts[r] # Volumes[r]
BY DEF Recorder, Counts, Volumes, Counter

\* A recorder adds to counters what it adds to zeros.
LEMMA AdvancedAdds ==
    ASSUME NEW cs \in RawCounters, NEW r \in Recorder, NEW bytes \in Nat
    PROVE  /\ Advanced(cs, r, bytes) \in RawCounters
           /\ Advanced(ZeroCounters, r, bytes) \in RawCounters
           /\ \A c \in Counter :
                 Advanced(cs, r, bytes)[c] = cs[c] + Advanced(ZeroCounters, r, bytes)[c]
<1>1. Counts[r] \in Counter /\ Volumes[r] \in Counter /\ Counts[r] # Volumes[r]
  BY RecorderNames
<1>2. ZeroCounters \in RawCounters /\ \A c \in Counter : ZeroCounters[c] = 0
  BY DEF ZeroCounters, RawCounters
<1>3. ASSUME NEW ds \in RawCounters
      PROVE  /\ Advanced(ds, r, bytes) \in RawCounters
             /\ Advanced(ds, r, bytes)[Counts[r]] = ds[Counts[r]] + 1
             /\ Advanced(ds, r, bytes)[Volumes[r]] = ds[Volumes[r]] + bytes
             /\ \A c \in Counter \ {Counts[r], Volumes[r]} : Advanced(ds, r, bytes)[c] = ds[c]
  BY <1>1 DEF Advanced, RawCounters
<1>4. \A c \in Counter : cs[c] \in Nat
  BY DEF RawCounters
<1>5. ASSUME NEW c \in Counter
      PROVE  Advanced(cs, r, bytes)[c] = cs[c] + Advanced(ZeroCounters, r, bytes)[c]
  <2>1. CASE c = Counts[r]
    BY <1>2, <1>3, <1>4, <2>1
  <2>2. CASE c = Volumes[r]
    BY <1>2, <1>3, <1>4, <2>2
  <2>3. CASE c \notin {Counts[r], Volumes[r]}
    BY <1>2, <1>3, <1>4, <2>3
  <2> QED BY <2>1, <2>2, <2>3
<1> QED
  BY <1>2, <1>3, <1>5

\* What a task has to do is changed for one task at a time.
LEMMA TodoTyped ==
    ASSUME TelemetryInv, NEW t \in Task, NEW steps \in Seq(Todos), Len(steps) <= 3,
           todo' = [todo EXCEPT ![t] = steps],
           t # ChunkSender => \A i \in DOMAIN steps : steps[i].do # "record_tx"
    PROVE  /\ todo' \in [Task -> Seq(Todos)] /\ \A u \in Task : Len(todo'[u]) <= 3
           /\ OnlySenderRecords'
<1>1. todo \in [Task -> Seq(Todos)] /\ \A u \in Task : Len(todo[u]) <= 3
  BY DEF TelemetryInv, TelemetryTypeOK
<1>2. todo'[t] = steps /\ \A u \in Task \ {t} : todo'[u] = todo[u]
  BY <1>1
<1>3. ASSUME NEW u \in Task \ {ChunkSender}, NEW i \in DOMAIN todo'[u]
      PROVE  todo'[u][i].do # "record_tx"
  <2>1. CASE u = t
    BY <1>2, <2>1
  <2>2. CASE u # t
    BY <1>2, <2>2 DEF TelemetryInv, OnlySenderRecords
  <2> QED BY <2>1, <2>2
<1> QED
  BY <1>1, <1>2, <1>3 DEF OnlySenderRecords

\* A task that has something to do is done with it.
LEMMA FinishTyped ==
    ASSUME TelemetryInv, NEW t \in Task, ~Idle(t), Finish(t)
    PROVE  /\ todo' \in [Task -> Seq(Todos)] /\ \A u \in Task : Len(todo'[u]) <= 3
           /\ OnlySenderRecords'
           /\ todo[t] \in Seq(Todos) /\ todo[t] # <<>> /\ Due(t) = todo[t][1] /\ Due(t) \in Todos
           /\ todo'[t] = Tail(todo[t]) /\ \A u \in Task \ {t} : todo'[u] = todo[u]
           /\ t # ChunkSender => Due(t).do # "record_tx"
<1>1. todo \in [Task -> Seq(Todos)] /\ \A u \in Task : Len(todo[u]) <= 3
  BY DEF TelemetryInv, TelemetryTypeOK
<1>2. todo[t] \in Seq(Todos) /\ todo[t] # <<>>
  BY <1>1 DEF Idle
<1>3. /\ Tail(todo[t]) \in Seq(Todos) /\ Len(Tail(todo[t])) = Len(todo[t]) - 1
      /\ \A i \in 1 .. Len(todo[t]) - 1 : Tail(todo[t])[i] = todo[t][i + 1]
      /\ Head(todo[t]) = todo[t][1] /\ Len(todo[t]) \in Nat \ {0}
  BY <1>2
<1>4. DOMAIN Tail(todo[t]) = 1 .. Len(todo[t]) - 1 /\ DOMAIN todo[t] = 1 .. Len(todo[t])
  BY <1>2, <1>3, LenProperties
<1>5. Len(Tail(todo[t])) <= 3
  BY <1>1, <1>3
<1>6. ASSUME t # ChunkSender
      PROVE  /\ \A i \in DOMAIN Tail(todo[t]) : Tail(todo[t])[i].do # "record_tx"
             /\ todo[t][1].do # "record_tx"
  <2>1. \A i \in DOMAIN todo[t] : todo[t][i].do # "record_tx"
    BY <1>6 DEF TelemetryInv, OnlySenderRecords
  <2>2. \A i \in DOMAIN Tail(todo[t]) : i + 1 \in DOMAIN todo[t] /\ Tail(todo[t])[i] = todo[t][i + 1]
    BY <1>3, <1>4
  <2>3. 1 \in DOMAIN todo[t]
    BY <1>3, <1>4
  <2> QED
    BY <2>1, <2>2, <2>3
<1>7. todo' = [todo EXCEPT ![t] = Tail(todo[t])]
  BY DEF Finish
<1>8. /\ todo' \in [Task -> Seq(Todos)] /\ \A u \in Task : Len(todo'[u]) <= 3
      /\ OnlySenderRecords'
  BY <1>3, <1>5, <1>6, <1>7, TodoTyped
<1>9. todo[t][1] \in Todos
  <2>1. 1 \in 1 .. Len(todo[t])
    BY <1>3
  <2> QED
    BY <1>2, <2>1, ElementOfSeq
<1>10. todo'[t] = Tail(todo[t]) /\ \A u \in Task \ {t} : todo'[u] = todo[u]
  BY <1>1, <1>7
<1> QED
  BY <1>2, <1>3, <1>6, <1>8, <1>9, <1>10 DEF Due

\* What is due has the fields that its recording reads.
LEMMA TodoFields ==
    ASSUME NEW step \in Todos
    PROVE  /\ step.do \in {"record_tx", "record_rx"} => step.link \in Links /\ step.bytes \in Nat
           /\ step.do \in Recorder => step.bytes \in Nat
           /\ step.do = "acknowledge" => step.chunk_id \in Unsigned(8)
           /\ step.do \in {"record_tx", "record_rx", "acknowledge"} => step.do \notin Recorder
BY RecorderNames DEF Todos

\* Every step keeps the types, and leaves what was sent to the chunk sender.
LEMMA TelemetryInvariant == FairSpec => []TelemetryInv
<1>1. ASSUME MCInit PROVE TelemetryInv
  <2>1. NewStats \in StatsOfLink
    BY DEF NewStats, StatsOfLink
  <2>2. stats \in [Links -> StatsOfLink] /\ elapsed \in Nat
    BY <1>1, <2>1 DEF MCInit, TelemetryInit, StatsInit
  <2>3. ZeroCounters \in RawCounters
    BY DEF ZeroCounters, RawCounters
  <2>4. counters \in RawCounters /\ taken = NoSnapshot /\ history = <<>>
    BY <1>1, <2>3 DEF MCInit, TelemetryInit, MetricsInit
  <2>5. history \in Seq(RawCounters) /\ Len(history) = 0
    BY <2>4
  <2>6. <<>> \in Seq(Todos) /\ Len(<<>>) = 0 /\ DOMAIN <<>> = {}
    OBVIOUS
  <2>7. \A t \in Task : todo[t] = <<>>
    BY <1>1 DEF MCInit, TelemetryInit
  <2>8. todo \in [Task -> Seq(Todos)]
    BY <1>1, <2>6 DEF MCInit, TelemetryInit
  <2>9. \A t \in Task : Len(todo[t]) <= 3
    BY <2>6, <2>7
  <2>10. round = "tick" /\ sent = NothingSent
    BY <1>1 DEF MCInit, TelemetryInit
  <2>11. MaxHistory \in Nat
    BY MetricsAssumption
  <2>12. TelemetryTypeOK
    BY <2>2, <2>4, <2>5, <2>8, <2>9, <2>10, <2>11 DEF TelemetryTypeOK, RoundSteps
  <2>13. GhostTypeOK
    BY <1>1, <2>3 DEF MCInit, GhostTypeOK, NoBytes
  <2>14. OnlySenderRecords
    BY <2>6, <2>7 DEF OnlySenderRecords
  <2> QED
    BY <2>12, <2>13, <2>14 DEF TelemetryInv
<1>2. ASSUME TelemetryInv, [MCNext]_mcvars PROVE TelemetryInv'
  <2> USE <1>2
  <2> DEFINE StatsKept == stats' \in [Links -> StatsOfLink] /\ elapsed' \in Nat
             MetricsKept == /\ counters' \in RawCounters /\ taken' \in RawCounters \cup {NoSnapshot}
                            /\ history' \in Seq(RawCounters) /\ Len(history') <= MaxHistory
             TodoKept == /\ todo' \in [Task -> Seq(Todos)] /\ \A t \in Task : Len(todo'[t]) <= 3
                         /\ OnlySenderRecords'
             RoundKept == round' \in RoundSteps /\ (round' = "store" <=> taken' # NoSnapshot)
             SentKept == sent' = NothingSent \/ sent'.datagram \in Seq(Byte)
             GhostsKept == GhostTypeOK'
  <2>0. SUFFICES StatsKept /\ MetricsKept /\ TodoKept /\ RoundKept /\ SentKept /\ GhostsKept
    BY DEF TelemetryInv, TelemetryTypeOK
  <2>1. UNCHANGED statsVars => StatsKept
    BY DEF TelemetryInv, TelemetryTypeOK, statsVars
  <2>2. UNCHANGED metricsVars => MetricsKept
    BY DEF TelemetryInv, TelemetryTypeOK, metricsVars
  <2>3. UNCHANGED todo => TodoKept
    BY DEF TelemetryInv, TelemetryTypeOK, OnlySenderRecords
  <2>4. UNCHANGED <<metricsVars, round>> => RoundKept
    BY DEF TelemetryInv, TelemetryTypeOK, metricsVars
  <2>5. UNCHANGED ghosts => GhostsKept
    BY DEF TelemetryInv, GhostTypeOK, ghosts
  <2>6. ASSUME NEW r \in Recorder, NEW bytes \in Nat, Happens(r, bytes)
        PROVE  happened' \in RawCounters
    BY <2>6, AdvancedAdds DEF Happens, TelemetryInv, GhostTypeOK
  <2>7. ASSUME NEW bytes \in Nat, NEW r \in Recorder, NEW t \in Task,
               Todo(t, <<[do |-> r, bytes |-> bytes]>>)
        PROVE  TodoKept
    <3> DEFINE steps == <<[do |-> r, bytes |-> bytes]>>
    <3>1. steps \in Seq(Todos) /\ Len(steps) <= 3 /\ DOMAIN steps = 1 .. 1
      BY DEF Todos
    <3>2. \A i \in DOMAIN steps : steps[i].do # "record_tx"
      BY <3>1, RecorderNames
    <3>3. todo' = [todo EXCEPT ![t] = steps]
      BY <2>7 DEF Todo
    <3> HIDE DEF steps
    <3> QED
      BY <3>1, <3>2, <3>3, TodoTyped
  <2>8. PacketSizes \subseteq Nat /\ Payloads \subseteq Seq(Byte) /\ Datagrams \subseteq Seq(Byte)
    BY DatagramAssumption
  <2>9. TunReader \in Task /\ TunWriter \in Task /\ ChunkSender \in Task
    BY DEF Task
  <2>10. \A l \in Links : Receiver(l) \in Task /\ Receiver(l) # ChunkSender
    BY DEF Task, Receiver, ChunkSender
  <2>11. happened \in RawCounters /\ Events \in Int
    BY DEF TelemetryInv, GhostTypeOK, RawCounters, Counter, Events
  <2> HIDE DEF StatsKept, MetricsKept, TodoKept, RoundKept, SentKept, GhostsKept
  <2>12. ASSUME NEW bytes \in PacketSizes, MCForwardPacket(bytes) \/ MCWritePacket(bytes)
         PROVE  StatsKept /\ MetricsKept /\ TodoKept /\ RoundKept /\ SentKept /\ GhostsKept
    <3>1. UNCHANGED statsVars /\ UNCHANGED metricsVars /\ UNCHANGED round /\ sent' = NothingSent
      BY <2>12 DEF MCForwardPacket, MCWritePacket, ForwardPacket, WritePacket
    <3>2. \E r \in Recorder, t \in Task : Todo(t, <<[do |-> r, bytes |-> bytes]>>)
      BY <2>12, <2>9, RecorderNames
         DEF MCForwardPacket, MCWritePacket, ForwardPacket, WritePacket
    <3>3. TodoKept
      BY <2>7, <2>8, <3>2
    <3>4. /\ \E r \in Recorder : Happens(r, bytes)
          /\ UNCHANGED <<forgotten, handed, reported, rounded, samples>>
      BY <2>12, RecorderNames DEF MCForwardPacket, MCWritePacket
    <3>5. GhostsKept
      BY <2>6, <2>8, <3>4 DEF GhostsKept, TelemetryInv, GhostTypeOK
    <3> QED
      BY <2>1, <2>2, <2>4, <3>1, <3>3, <3>5 DEF SentKept
  <2>13. ASSUME NEW l \in Links, NEW payload \in Payloads, MCSendChunk(l, payload)
         PROVE  StatsKept /\ MetricsKept /\ TodoKept /\ RoundKept /\ SentKept /\ GhostsKept
    <3> DEFINE datagram == Encode(DataOf(l, Events, payload))
               steps == <<[do |-> "record_tx", link |-> l, bytes |-> Len(datagram)],
                          [do |-> "record_chunk_tx", bytes |-> Len(payload)]>>
    <3>1. /\ Happens("record_chunk_tx", Len(payload)) /\ SendChunk(l, Events, payload)
          /\ handed' = [handed EXCEPT ![l] = @ + Len(sent'.datagram)]
          /\ UNCHANGED <<forgotten, reported, rounded, samples>>
      BY <2>13 DEF MCSendChunk
    <3>2. Events \in Nat
      BY <2>11 DEF RawCounters, Counter, Events
    <3>3. datagram \in Seq(Byte) /\ Len(datagram) \in Nat
      <4>1. datagram \in Seq(Byte)
        BY <3>2, SentTyped
      <4> HIDE DEF datagram
      <4> QED
        BY <4>1, LenProperties
    <3>4. /\ UNCHANGED statsVars /\ UNCHANGED metricsVars /\ UNCHANGED round
          /\ sent'.datagram = datagram /\ todo' = [todo EXCEPT ![ChunkSender] = steps]
      BY <3>1 DEF SendChunk, Sends, Todo
    <3>5. Len(payload) \in Nat
      BY <2>8, LenProperties
    <3> HIDE DEF datagram
    <3>6. steps \in Seq(Todos) /\ Len(steps) <= 3
      <4>1. "record_chunk_tx" \in Recorder
        BY RecorderNames
      <4>2. [do |-> "record_tx", link |-> l, bytes |-> Len(datagram)] \in Todos
        BY <3>3 DEF Todos
      <4>3. [do |-> "record_chunk_tx", bytes |-> Len(payload)] \in Todos
        BY <3>5, <4>1 DEF Todos
      <4> QED
        BY <4>2, <4>3
    <3> HIDE DEF steps
    <3>7. TodoKept
      BY <2>9, <3>4, <3>6, TodoTyped DEF TodoKept
    <3>8. GhostsKept
      <4>1. happened' \in RawCounters
        BY <2>6, <3>1, <3>5, RecorderNames
      <4>2. handed' \in [Links -> Nat]
        BY <3>1, <3>3, <3>4 DEF TelemetryInv, GhostTypeOK
      <4> QED
        BY <3>1, <4>1, <4>2 DEF GhostsKept, TelemetryInv, GhostTypeOK
    <3> QED
      BY <2>1, <2>2, <2>4, <3>3, <3>4, <3>7, <3>8 DEF SentKept
  <2>14. ASSUME NEW l \in Links, NEW buf \in Datagrams, MCReceiveData(l, buf)
         PROVE  StatsKept /\ MetricsKept /\ TodoKept /\ RoundKept /\ SentKept /\ GhostsKept
    <3> DEFINE p == Decoded[buf]
               steps == <<[do |-> "record_rx", link |-> l, bytes |-> Len(buf)],
                          [do |-> "record_chunk_rx", bytes |-> Len(p.payload)],
                          [do |-> "acknowledge", chunk_id |-> p.chunk_id]>>
    <3>1. /\ ReceiveData(l, buf) /\ Happens("record_chunk_rx", Len(p.payload))
          /\ UNCHANGED <<forgotten, handed, reported, rounded, samples>>
      BY <2>14 DEF MCReceiveData
    <3>2. buf \in Seq(Byte) /\ p = Decode(buf) /\ p # NoPacket /\ p.kind = "Data"
      BY <2>8, <3>1 DEF ReceiveData, Decoded
    <3>3. /\ UNCHANGED statsVars /\ UNCHANGED metricsVars /\ UNCHANGED round /\ sent' = NothingSent
          /\ todo' = [todo EXCEPT ![Receiver(l)] = steps]
      BY <3>1 DEF ReceiveData, Todo
    <3> HIDE DEF p
    <3>4. p.payload \in Seq(Byte) /\ p.chunk_id \in Unsigned(8)
      BY <3>2, DecodedTyped
    <3>5. Len(p.payload) \in Nat /\ Len(buf) \in Nat
      BY <3>2, <3>4, LenProperties
    <3>6. steps \in Seq(Todos) /\ Len(steps) <= 3 /\ \A i \in DOMAIN steps : steps[i].do # "record_tx"
      <4>1. "record_chunk_rx" \in Recorder
        BY RecorderNames
      <4>2. [do |-> "record_rx", link |-> l, bytes |-> Len(buf)] \in Todos
        BY <3>5 DEF Todos
      <4>3. [do |-> "record_chunk_rx", bytes |-> Len(p.payload)] \in Todos
        BY <3>5, <4>1 DEF Todos
      <4>4. [do |-> "acknowledge", chunk_id |-> p.chunk_id] \in Todos
        BY <3>4 DEF Todos
      <4>5. steps \in Seq(Todos) /\ Len(steps) <= 3
        BY <4>2, <4>3, <4>4
      <4>6. DOMAIN steps = 1 .. 3
        OBVIOUS
      <4>7. \A i \in 1 .. 3 : steps[i].do # "record_tx"
        OBVIOUS
      <4> QED
        BY <4>5, <4>6, <4>7
    <3> HIDE DEF steps
    <3>7. TodoKept
      BY <2>10, <3>3, <3>6, TodoTyped DEF TodoKept
    <3>8. GhostsKept
      <4>1. happened' \in RawCounters
        BY <2>6, <3>1, <3>5, RecorderNames
      <4> QED
        BY <3>1, <4>1 DEF GhostsKept, TelemetryInv, GhostTypeOK
    <3> QED
      BY <2>1, <2>2, <2>4, <3>3, <3>7, <3>8 DEF SentKept
  <2>15. ASSUME NEW l \in Links, NEW buf \in Datagrams, NEW now \in Times, MCReceiveAck(l, buf, now)
         PROVE  StatsKept /\ MetricsKept /\ TodoKept /\ RoundKept /\ SentKept /\ GhostsKept
    <3> DEFINE p == Decoded[buf]
               sample == now - p.echo_timestamp_us
    <3>1. /\ ReceiveAck(l, buf, now) /\ samples' = [samples EXCEPT ![l] = @ \cup {sample}]
          /\ UNCHANGED <<happened, forgotten, handed, reported, rounded>>
      BY <2>15 DEF MCReceiveAck
    <3>2. /\ buf \in Seq(Byte) /\ p = Decode(buf) /\ p # NoPacket /\ p.kind = "Ack"
          /\ now > p.echo_timestamp_us /\ RecordRtt(l, sample)
          /\ UNCHANGED metricsVars /\ UNCHANGED todo /\ UNCHANGED round /\ sent' = NothingSent
      BY <2>8, <3>1 DEF ReceiveAck, Decoded
    <3> HIDE DEF p
    <3>3. sample \in Nat \ {0}
      <4>1. p.echo_timestamp_us \in Nat
        BY <3>2, DecodedTyped
      <4>2. now \in Nat
        BY DatagramAssumption, PlaceTyped DEF Unsigned
      <4> QED
        BY <3>2, <4>1, <4>2
    <3> HIDE DEF sample
    <3>4. StatsKept
      BY <3>2, <3>3, RecordRttTyped DEF StatsKept, TelemetryInv
    <3>5. GhostsKept
      BY <3>1, <3>3 DEF GhostsKept, TelemetryInv, GhostTypeOK
    <3> QED
      BY <2>2, <2>3, <2>4, <3>2, <3>4, <3>5 DEF SentKept
  <2>16. CASE MCCloseWindows
    <3>1. /\ StatsTick /\ UNCHANGED metricsVars /\ UNCHANGED todo /\ sent' = NothingSent
          /\ round = "tick" /\ round' = "take"
      BY <2>16 DEF MCCloseWindows, CloseWindows, Continue
    <3>2. StatsKept
      BY <3>1, TickTyped DEF StatsKept, TelemetryInv
    <3>3. RoundKept
      BY <3>1 DEF RoundKept, RoundSteps, TelemetryInv, TelemetryTypeOK, metricsVars
    <3>4. GhostsKept
      <4>1. UNCHANGED <<happened, forgotten, handed, samples>>
        BY <2>16 DEF MCCloseWindows
      <4>2. /\ elapsed \in Nat /\ Window \in Nat \ {0}
            /\ \A l \in Links : stats'[l].bandwidth_bps \in Nat /\ stats[l].tx_bytes \in Nat
        BY <3>2, StatsAssumption DEF StatsKept, StatsOfLink, TelemetryInv, TelemetryTypeOK
      <4>3. CASE elapsed < Window
        <5>1. UNCHANGED <<reported, rounded>>
          BY <2>16, <4>3 DEF MCCloseWindows
        <5> QED
          BY <4>1, <5>1 DEF GhostsKept, TelemetryInv, GhostTypeOK
      <4>4. CASE ~(elapsed < Window)
        <5>1. /\ reported' = [l \in Links |-> reported[l] + stats'[l].bandwidth_bps * elapsed]
              /\ rounded' = [l \in Links |-> rounded[l] + (stats[l].tx_bytes % elapsed)]
          BY <2>16, <4>4 DEF MCCloseWindows
        <5>2. elapsed \in Nat \ {0}
          BY <4>2, <4>4
        <5>3. ASSUME NEW l \in Links
              PROVE  /\ reported[l] + stats'[l].bandwidth_bps * elapsed \in Nat
                     /\ rounded[l] + (stats[l].tx_bytes % elapsed) \in Nat
          <6>1. reported[l] \in Nat /\ rounded[l] \in Nat
            BY DEF TelemetryInv, GhostTypeOK
          <6>2. stats'[l].bandwidth_bps * elapsed \in Nat /\ stats[l].tx_bytes % elapsed \in Nat
            BY <4>2, <5>2
          <6> QED
            BY <6>1, <6>2
        <5> QED
          BY <4>1, <5>1, <5>3 DEF GhostsKept, TelemetryInv, GhostTypeOK
      <4> QED BY <4>3, <4>4
    <3> QED
      BY <2>2, <2>3, <3>1, <3>2, <3>3, <3>4 DEF SentKept
  <2>17. CASE MCStoreMetrics
    <3> DEFINE kept == IF Len(history) >= MaxHistory THEN Tail(history) ELSE history
    <3>1. /\ taken # NoSnapshot /\ history' = Append(kept, taken) /\ taken' = NoSnapshot
          /\ UNCHANGED counters /\ UNCHANGED statsVars /\ UNCHANGED todo
          /\ round' = "tick" /\ sent' = NothingSent
          /\ forgotten' = IF Len(history) < MaxHistory THEN forgotten
                          ELSE Plus(forgotten, Head(history))
          /\ UNCHANGED <<happened, handed, reported, rounded, samples>>
      BY <2>17 DEF MCStoreMetrics, StoreMetrics, StoreSnapshot, Continue
    <3>2. /\ counters \in RawCounters /\ taken \in RawCounters /\ history \in Seq(RawCounters)
          /\ Len(history) \in Nat /\ Len(history) <= MaxHistory /\ MaxHistory \in Nat \ {0}
      BY <3>1, MetricsAssumption, LenProperties DEF TelemetryInv, TelemetryTypeOK
    <3>3. kept \in Seq(RawCounters) /\ Len(kept) + 1 <= MaxHistory /\ Len(kept) \in Nat
      <4>1. CASE Len(history) >= MaxHistory
        <5>1. history # <<>> /\ kept = Tail(history)
          BY <3>2, <4>1, EmptySeq
        <5> QED
          BY <3>2, <5>1, HeadTailProperties
      <4>2. CASE ~(Len(history) >= MaxHistory)
        BY <3>2, <4>2
      <4> QED BY <4>1, <4>2
    <3> HIDE DEF kept
    <3>4. MetricsKept
      BY <3>1, <3>2, <3>3 DEF MetricsKept
    <3>5. GhostsKept
      <4>1. CASE Len(history) < MaxHistory
        BY <3>1, <4>1 DEF GhostsKept, TelemetryInv, GhostTypeOK
      <4>2. CASE ~(Len(history) < MaxHistory)
        <5>1. Head(history) \in RawCounters /\ forgotten \in RawCounters
          <6>1. history # <<>>
            BY <3>2, <4>2, EmptySeq
          <6> QED
            BY <3>2, <6>1, HeadTailProperties DEF TelemetryInv, GhostTypeOK
        <5>2. forgotten' \in RawCounters
          BY <3>1, <4>2, <5>1 DEF Plus, RawCounters
        <5> QED
          BY <3>1, <5>2 DEF GhostsKept, TelemetryInv, GhostTypeOK
      <4> QED BY <4>1, <4>2
    <3> QED
      BY <2>1, <2>3, <3>1, <3>4, <3>5 DEF SentKept, RoundKept, RoundSteps
  <2>18. CASE MCClockTicks
    <3>1. /\ TimePasses /\ sent' = NothingSent /\ UNCHANGED metricsVars /\ UNCHANGED todo
          /\ UNCHANGED round /\ UNCHANGED ghosts
      BY <2>18 DEF MCClockTicks, ClockTicks
    <3>2. StatsKept
      BY <3>1 DEF StatsKept, TimePasses, TelemetryInv, TelemetryTypeOK
    <3> QED
      BY <2>2, <2>3, <2>4, <2>5, <3>1, <3>2 DEF SentKept
  <2>19. ASSUME NEW t \in Task, RecordStats(t), UNCHANGED ghosts
         PROVE  StatsKept /\ MetricsKept /\ TodoKept /\ RoundKept /\ SentKept /\ GhostsKept
    <3>1. ~Idle(t) /\ Finish(t) /\ UNCHANGED metricsVars /\ UNCHANGED round /\ sent' = NothingSent
      BY <2>19 DEF RecordStats
    <3>2. TodoKept /\ Due(t) \in Todos
      BY <3>1, FinishTyped DEF TodoKept
    <3>3. \/ Due(t).do = "record_tx" /\ RecordTx(Due(t).link, Due(t).bytes)
          \/ Due(t).do = "record_rx" /\ RecordRx(Due(t).link, Due(t).bytes)
      BY <2>19 DEF RecordStats
    <3>4. Due(t).link \in Links /\ Due(t).bytes \in Nat
      BY <3>2, <3>3, TodoFields
    <3>5. StatsKept
      BY <3>3, <3>4, RecordTxTyped, RecordRxTyped DEF StatsKept, TelemetryInv
    <3> QED
      BY <2>2, <2>4, <2>5, <2>19, <3>1, <3>2, <3>5 DEF SentKept
  <2>20. ASSUME NEW t \in Task, RecordMetrics(t), UNCHANGED ghosts
         PROVE  StatsKept /\ MetricsKept /\ TodoKept /\ RoundKept /\ SentKept /\ GhostsKept
    <3>1. /\ ~Idle(t) /\ Finish(t) /\ UNCHANGED statsVars /\ UNCHANGED round /\ sent' = NothingSent
          /\ Due(t).do \in Recorder /\ counters' = Advanced(counters, Due(t).do, Due(t).bytes)
          /\ UNCHANGED <<taken, history>>
      BY <2>20 DEF RecordMetrics, Record
    <3>2. TodoKept /\ Due(t) \in Todos
      BY <3>1, FinishTyped DEF TodoKept
    <3>3. Due(t).bytes \in Nat
      BY <3>1, <3>2, TodoFields
    <3>4. counters' \in RawCounters
      BY <3>1, <3>3, AdvancedAdds DEF TelemetryInv, TelemetryTypeOK
    <3>5. MetricsKept /\ RoundKept
      BY <3>1, <3>4 DEF MetricsKept, RoundKept, TelemetryInv, TelemetryTypeOK
    <3> QED
      BY <2>1, <2>5, <2>20, <3>1, <3>2, <3>5 DEF SentKept
  <2>21. ASSUME NEW l \in Links, NEW now \in Times, Acknowledge(l, now), UNCHANGED ghosts
         PROVE  StatsKept /\ MetricsKept /\ TodoKept /\ RoundKept /\ SentKept /\ GhostsKept
    <3>1. /\ ~Idle(Receiver(l)) /\ Due(Receiver(l)).do = "acknowledge" /\ Finish(Receiver(l))
          /\ Sends(AckOf(l, Due(Receiver(l)).chunk_id, now)) \/ sent' = NothingSent
          /\ UNCHANGED statsVars /\ UNCHANGED metricsVars /\ UNCHANGED round
      BY <2>21 DEF Acknowledge
    <3>2. TodoKept /\ Due(Receiver(l)) \in Todos
      BY <2>10, <3>1, FinishTyped DEF TodoKept
    <3>3. Due(Receiver(l)).chunk_id \in Nat
      BY <3>1, <3>2, TodoFields, Widths
    <3>4. Encode(AckOf(l, Due(Receiver(l)).chunk_id, now)) \in Seq(Byte)
      BY <3>3, SentTyped
    <3>5. SentKept
      BY <3>1, <3>4 DEF SentKept, Sends
    <3> QED
      BY <2>1, <2>2, <2>4, <2>5, <2>21, <3>1, <3>2, <3>5
  <2>22. ASSUME NEW l \in Links, NEW now \in Times, SendKeepalive(l, now), UNCHANGED ghosts
         PROVE  StatsKept /\ MetricsKept /\ TodoKept /\ RoundKept /\ SentKept /\ GhostsKept
    <3>1. UNCHANGED statsVars /\ UNCHANGED metricsVars /\ UNCHANGED todo /\ UNCHANGED round
      BY <2>22 DEF SendKeepalive
    <3>2. SentKept
      BY <2>22, SentTyped DEF SentKept, SendKeepalive, Sends
    <3> QED
      BY <2>1, <2>2, <2>3, <2>4, <2>5, <2>22, <3>1, <3>2
  <2>23. ASSUME NEW probe \in Probes, SendProbe(probe), UNCHANGED ghosts
         PROVE  StatsKept /\ MetricsKept /\ TodoKept /\ RoundKept /\ SentKept /\ GhostsKept
    <3>1. UNCHANGED statsVars /\ UNCHANGED metricsVars /\ UNCHANGED todo /\ UNCHANGED round
      BY <2>23 DEF SendProbe
    <3>2. SentKept
      BY <2>23, SentTyped DEF SentKept, SendProbe, Sends
    <3> QED
      BY <2>1, <2>2, <2>3, <2>4, <2>5, <2>23, <3>1, <3>2
  <2>24. ASSUME TakeMetrics, UNCHANGED ghosts
         PROVE  StatsKept /\ MetricsKept /\ TodoKept /\ RoundKept /\ SentKept /\ GhostsKept
    <3>1. /\ taken' = counters /\ counters' = ZeroCounters /\ UNCHANGED history
          /\ UNCHANGED statsVars /\ UNCHANGED todo /\ sent' = NothingSent /\ round' = "store"
      BY <2>24 DEF TakeMetrics, TakeCounters, Continue
    <3>2. counters \in RawCounters /\ ZeroCounters \in RawCounters /\ counters # NoSnapshot
      BY DatagramAssumption DEF TelemetryInv, TelemetryTypeOK, ZeroCounters, RawCounters
    <3>3. MetricsKept /\ RoundKept
      BY <3>1, <3>2 DEF MetricsKept, RoundKept, RoundSteps, TelemetryInv, TelemetryTypeOK
    <3> QED
      BY <2>1, <2>3, <2>5, <2>24, <3>1, <3>3 DEF SentKept
  <2>25. ASSUME UNCHANGED mcvars
         PROVE  StatsKept /\ MetricsKept /\ TodoKept /\ RoundKept /\ SentKept /\ GhostsKept
    <3>1. /\ UNCHANGED statsVars /\ UNCHANGED metricsVars /\ UNCHANGED todo /\ UNCHANGED round
          /\ UNCHANGED sent /\ UNCHANGED ghosts
      BY <2>25 DEF mcvars, telemetryVars
    <3> QED
      BY <2>1, <2>2, <2>3, <2>4, <2>5, <3>1 DEF SentKept, TelemetryInv, TelemetryTypeOK
  <2> QED
    BY <2>12, <2>13, <2>14, <2>15, <2>16, <2>17, <2>18, <2>19, <2>20, <2>21, <2>22, <2>23,
       <2>24, <2>25 DEF MCNext, Unobserved
<1> QED
  BY <1>1, <1>2, PTL DEF FairSpec

\* TelemetryTypeOK for any links, payloads, datagrams and bounds: no recorder is ever given
\* what is not a number, however a datagram was cut short, and the history keeps its bound.
THEOREM TelemetryTypes == FairSpec => []TelemetryTypeOK
<1>1. TelemetryInv => TelemetryTypeOK
  BY DEF TelemetryInv
<1> QED
  BY <1>1, TelemetryInvariant, PTL

\* WhatIsSentDecodes for any links, payloads, probes and bounds: the remote decodes what the
\* endpoint sends to the packet it was made from.  A chunk's total and its payload's length
\* are cut to four and to two bytes, but one that they do not hold is too long to send.
THEOREM DatagramsDecode == FairSpec => []WhatIsSentDecodes
<1>1. MCInit => WhatIsSentDecodes
  BY DEF MCInit, TelemetryInit, WhatIsSentDecodes
<1>2. TelemetryInv /\ WhatIsSentDecodes /\ [MCNext]_mcvars => WhatIsSentDecodes'
  <2> SUFFICES ASSUME TelemetryInv, WhatIsSentDecodes, [MCNext]_mcvars
               PROVE  WhatIsSentDecodes'
    OBVIOUS
  <2>1. CASE sent' = NothingSent
    BY <2>1 DEF WhatIsSentDecodes
  <2>2. ASSUME NEW p, Sends(p), Len(Encode(p)) <= MaxDatagram => Decode(Encode(p)) = p
        PROVE  WhatIsSentDecodes'
    BY <2>2 DEF Sends, WhatIsSentDecodes
  <2>3. ASSUME NEW l \in Links, NEW payload \in Payloads, MCSendChunk(l, payload)
        PROVE  WhatIsSentDecodes'
    <3>1. Sends(DataOf(l, Events, payload)) /\ Events < MaxEvents
      BY <2>3 DEF MCSendChunk, SendChunk, Happens
    <3>2. Events \in Unsigned(8)
      <4>1. Events \in Nat
        BY DEF TelemetryInv, GhostTypeOK, RawCounters, Counter, Events
      <4>2. Place[8] \in Nat /\ MaxEvents \in 0 .. Place[8] - 1
        BY PlaceTyped, EventsAssumption DEF Unsigned
      <4> QED
        BY <3>1, <4>1, <4>2 DEF Unsigned
    <3> QED
      BY <2>2, <3>1, <3>2, SentDecodes
  <2>4. ASSUME NEW t \in Task, RecordStats(t) \/ RecordMetrics(t)
        PROVE  WhatIsSentDecodes'
    BY <2>1, <2>4 DEF RecordStats, RecordMetrics
  <2>5. ASSUME NEW l \in Links, NEW now \in Times, Acknowledge(l, now)
        PROVE  WhatIsSentDecodes'
    <3>1. /\ ~Idle(Receiver(l)) /\ Due(Receiver(l)).do = "acknowledge" /\ Finish(Receiver(l))
          /\ Sends(AckOf(l, Due(Receiver(l)).chunk_id, now)) \/ sent' = NothingSent
      BY <2>5 DEF Acknowledge
    <3>2. Receiver(l) \in Task
      BY DEF Task
    <3>3. Due(Receiver(l)).chunk_id \in Unsigned(8)
      BY <3>1, <3>2, FinishTyped, TodoFields
    <3> QED
      BY <2>1, <2>2, <3>1, <3>3, SentDecodes
  <2>6. ASSUME NEW l \in Links, NEW now \in Times, SendKeepalive(l, now)
        PROVE  WhatIsSentDecodes'
    BY <2>2, <2>6, SentDecodes DEF SendKeepalive
  <2>7. ASSUME NEW probe \in Probes, SendProbe(probe)
        PROVE  WhatIsSentDecodes'
    BY <2>2, <2>7, SentDecodes DEF SendProbe
  <2>8. CASE \E bytes \in PacketSizes : MCForwardPacket(bytes) \/ MCWritePacket(bytes)
    BY <2>1, <2>8 DEF MCForwardPacket, ForwardPacket, MCWritePacket, WritePacket
  <2>9. CASE \E l \in Links, buf \in Datagrams : MCReceiveData(l, buf)
    BY <2>1, <2>9 DEF MCReceiveData, ReceiveData
  <2>10. CASE \E l \in Links, buf \in Datagrams, now \in Times : MCReceiveAck(l, buf, now)
    BY <2>1, <2>10 DEF MCReceiveAck, ReceiveAck
  <2>11. CASE MCCloseWindows \/ TakeMetrics \/ MCStoreMetrics \/ MCClockTicks
    BY <2>1, <2>11 DEF MCCloseWindows, CloseWindows, TakeMetrics, MCStoreMetrics, StoreMetrics,
                       MCClockTicks, ClockTicks
  <2>12. CASE UNCHANGED mcvars
    BY <2>12 DEF mcvars, telemetryVars, WhatIsSentDecodes
  <2> QED
    BY <2>3, <2>4, <2>5, <2>6, <2>7, <2>8, <2>9, <2>10, <2>11, <2>12 DEF MCNext, Unobserved
<1> QED
  BY <1>1, <1>2, TelemetryInvariant, PTL DEF FairSpec

-----------------------------------------------------------------------------
(* Round-trip times *)

\* A link without a sample has no smoothed RTT.
RttInv ==
    \A l \in Links :
        IF samples[l] = {} THEN stats[l].smoothed_rtt_us = 0
        ELSE /\ \E s \in samples[l] : s <= stats[l].smoothed_rtt_us
             /\ \E s \in samples[l] : s >= stats[l].smoothed_rtt_us

\* The average lies between the samples again after any step.
LEMMA RttStep == TelemetryInv /\ RttInv /\ [MCNext]_mcvars => RttInv'
<1> SUFFICES ASSUME TelemetryInv, RttInv, [MCNext]_mcvars PROVE RttInv'
  OBVIOUS
<1> DEFINE Kept == \A l \in Links : stats'[l].smoothed_rtt_us = stats[l].smoothed_rtt_us
<1>0. stats \in [Links -> StatsOfLink] /\ samples \in [Links -> SUBSET (Nat \ {0})]
  BY DEF TelemetryInv, TelemetryTypeOK, GhostTypeOK
<1>1. Kept /\ UNCHANGED samples => RttInv'
  BY DEF RttInv
<1>2. UNCHANGED stats => Kept
  OBVIOUS
<1>3. ASSUME NEW l \in Links, NEW bytes, RecordTx(l, bytes) \/ RecordRx(l, bytes) PROVE Kept
  BY <1>0, <1>3 DEF RecordTx, RecordRx, StatsOfLink
<1> HIDE DEF Kept
<1>4. ASSUME NEW l \in Links, NEW buf \in Datagrams, NEW now \in Times, MCReceiveAck(l, buf, now)
      PROVE  RttInv'
  <2> DEFINE p == Decoded[buf]
             sample == now - p.echo_timestamp_us
             rtt == stats[l].smoothed_rtt_us
  <2>1. samples' = [samples EXCEPT ![l] = @ \cup {sample}] /\ ReceiveAck(l, buf, now)
    BY <1>4 DEF MCReceiveAck
  <2>2. /\ buf \in Seq(Byte) /\ p = Decode(buf) /\ p # NoPacket /\ p.kind = "Ack"
        /\ now > p.echo_timestamp_us /\ RecordRtt(l, sample)
    BY <2>1, DatagramAssumption DEF ReceiveAck, Decoded
  <2> HIDE DEF p
  <2>3. sample \in Nat \ {0}
    <3>1. p.echo_timestamp_us \in Nat
      BY <2>2, DecodedTyped
    <3>2. now \in Nat
      BY DatagramAssumption, PlaceTyped DEF Unsigned
    <3> QED
      BY <2>2, <3>1, <3>2
  <2> HIDE DEF sample
  <2>4. stats' = [stats EXCEPT ![l].smoothed_rtt_us = Smoothed(@, sample)]
    BY <2>2 DEF RecordRtt
  <2>5. rtt \in Nat
    BY <1>0 DEF StatsOfLink
  <2>6. /\ stats'[l].smoothed_rtt_us = Smoothed(rtt, sample) /\ samples'[l] = samples[l] \cup {sample}
        /\ \A k \in Links \ {l} : stats'[k] = stats[k] /\ samples'[k] = samples[k]
    BY <1>0, <2>1, <2>4 DEF StatsOfLink
  <2> DEFINE new == Smoothed(rtt, sample)
  <2>7. /\ new \in Nat /\ (rtt = 0 => new = sample)
        /\ rtt <= new \/ sample <= new
        /\ rtt # 0 => new <= rtt \/ new <= sample
    BY <2>3, <2>5, SmoothedBetween
  <2> HIDE DEF new, rtt
  <2>8. samples[l] \subseteq Nat
    BY <1>0
  <2>9. /\ \E s \in samples[l] \cup {sample} : s <= new
        /\ \E s \in samples[l] \cup {sample} : s >= new
    <3>1. CASE rtt = 0
      BY <2>3, <2>7, <3>1
    <3>2. CASE rtt # 0
      <4>1. PICK s1 \in samples[l] : s1 <= rtt
        BY <3>2 DEF RttInv, rtt
      <4>2. PICK s2 \in samples[l] : s2 >= rtt
        BY <3>2 DEF RttInv, rtt
      <4>3. s1 \in Nat /\ s2 \in Nat
        BY <2>8
      <4>4. s1 <= new \/ sample <= new
        BY <2>3, <2>5, <2>7, <4>1, <4>3 DEF rtt
      <4>5. s2 >= new \/ sample >= new
        BY <2>3, <2>5, <2>7, <3>2, <4>2, <4>3 DEF rtt
      <4> QED
        BY <4>4, <4>5
    <3> QED BY <3>1, <3>2
  <2>10. ASSUME NEW k \in Links
         PROVE  IF samples'[k] = {} THEN stats'[k].smoothed_rtt_us = 0
                ELSE /\ \E s \in samples'[k] : s <= stats'[k].smoothed_rtt_us
                     /\ \E s \in samples'[k] : s >= stats'[k].smoothed_rtt_us
    <3>1. CASE k = l
      <4>1. samples'[k] = samples[l] \cup {sample} /\ stats'[k].smoothed_rtt_us = new
        BY <2>6, <3>1 DEF new, rtt
      <4>2. samples'[k] # {}
        BY <4>1
      <4> QED
        BY <2>9, <4>1, <4>2
    <3>2. CASE k # l
      BY <2>6, <3>2 DEF RttInv
    <3> QED BY <3>1, <3>2
  <2> QED
    BY <2>10 DEF RttInv
<1>5. CASE MCCloseWindows
  BY <1>1, <1>5, TickTyped DEF MCCloseWindows, CloseWindows, Kept, TelemetryInv
<1>6. ASSUME NEW t \in Task, RecordStats(t), UNCHANGED ghosts PROVE RttInv'
  <2>1. ~Idle(t) /\ Finish(t)
    BY <1>6 DEF RecordStats
  <2>2. Due(t) \in Todos
    BY <2>1, FinishTyped
  <2>3. \/ Due(t).do = "record_tx" /\ RecordTx(Due(t).link, Due(t).bytes)
        \/ Due(t).do = "record_rx" /\ RecordRx(Due(t).link, Due(t).bytes)
    BY <1>6 DEF RecordStats
  <2>4. Due(t).link \in Links
    BY <2>2, <2>3, TodoFields
  <2>5. Kept
    BY <1>3, <2>3, <2>4
  <2> QED
    BY <1>1, <1>6, <2>5 DEF ghosts
<1>7. /\ \A bytes \in PacketSizes : MCForwardPacket(bytes) => UNCHANGED <<stats, samples>>
      /\ \A bytes \in PacketSizes : MCWritePacket(bytes) => UNCHANGED <<stats, samples>>
      /\ \A l \in Links, payload \in Payloads : MCSendChunk(l, payload) => UNCHANGED <<stats, samples>>
      /\ \A l \in Links, buf \in Datagrams : MCReceiveData(l, buf) => UNCHANGED <<stats, samples>>
      /\ MCStoreMetrics => UNCHANGED <<stats, samples>>
      /\ MCClockTicks => UNCHANGED <<stats, samples>>
      /\ TakeMetrics /\ UNCHANGED ghosts => UNCHANGED <<stats, samples>>
      /\ \A t \in Task : RecordMetrics(t) /\ UNCHANGED ghosts => UNCHANGED <<stats, samples>>
      /\ \A l \in Links, now \in Times :
            Acknowledge(l, now) /\ UNCHANGED ghosts => UNCHANGED <<stats, samples>>
      /\ \A l \in Links, now \in Times :
            SendKeepalive(l, now) /\ UNCHANGED ghosts => UNCHANGED <<stats, samples>>
      /\ \A probe \in Probes : SendProbe(probe) /\ UNCHANGED ghosts => UNCHANGED <<stats, samples>>
      /\ UNCHANGED mcvars => UNCHANGED <<stats, samples>>
  BY DEF MCForwardPacket, ForwardPacket, MCWritePacket, WritePacket, MCSendChunk, SendChunk,
         MCReceiveData, ReceiveData, MCStoreMetrics, StoreMetrics, MCClockTicks, ClockTicks,
         TimePasses, TakeMetrics, RecordMetrics, Acknowledge, SendKeepalive, SendProbe,
         statsVars, ghosts, mcvars, telemetryVars
<1>8. UNCHANGED <<stats, samples>> => RttInv'
  BY <1>1, <1>2
<1> QED
  BY <1>4, <1>5, <1>6, <1>7, <1>8 DEF MCNext, Unobserved

\* RttWithinSamples for any links, Alpha and samples: a smoothed RTT is never outside what
\* was measured, however it is rounded.
THEOREM RttsAreMeasured == FairSpec => []RttWithinSamples
<1>1. MCInit => RttInv
  BY DEF MCInit, TelemetryInit, StatsInit, NewStats, RttInv
<1>2. RttInv => RttWithinSamples
  BY DEF RttInv, RttWithinSamples
<1> QED
  BY <1>1, <1>2, RttStep, TelemetryInvariant, PTL DEF FairSpec

-----------------------------------------------------------------------------
(* Windows *)

\* What a step of a task counts for in the bytes it will record of a link
TxBytes(l) == [step \in Todos |-> IF step.do = "record_tx" /\ step.link = l THEN step.bytes ELSE 0]

\* is a number of bytes for each step,
LEMMA TxBytesTyped ==
    ASSUME NEW l
    PROVE  TxBytes(l) \in [Todos -> Nat]
<1>1. \A step \in Todos : (IF step.do = "record_tx" /\ step.link = l THEN step.bytes ELSE 0) \in Nat
  BY TodoFields
<1> QED
  BY <1>1 DEF TxBytes

\* and the bytes that are sent and not recorded yet are the sum of it over the steps to do.
LEMMA UnrecordedIs ==
    ASSUME NEW l, NEW s \in Seq(Todos)
    PROVE  SumFunction([i \in DOMAIN s |->
                LET step == s[i]
                IN IF step.do = "record_tx" /\ step.link = l THEN step.bytes ELSE 0])
             = SumFunction(Over(s, TxBytes(l)))
<1>1. \A i \in DOMAIN s : s[i] \in Todos
  BY ElementOfSeq, LenProperties
<1>2. [i \in DOMAIN s |-> IF s[i].do = "record_tx" /\ s[i].link = l THEN s[i].bytes ELSE 0]
        = Over(s, TxBytes(l))
  BY <1>1 DEF Over, TxBytes
<1> QED
  BY <1>2

\* A step moves bytes between a link's account in the collector and its reports, and loses none.
LEMMA WindowsStep == TelemetryInv /\ TelemetryInv' /\ WindowsAddUp /\ [MCNext]_mcvars => WindowsAddUp'
<1> SUFFICES ASSUME TelemetryInv, TelemetryInv', WindowsAddUp, [MCNext]_mcvars PROVE WindowsAddUp'
  OBVIOUS
<1> DEFINE pending(l) == SumFunction(Over(todo[ChunkSender], TxBytes(l)))
           pendingNext(l) == SumFunction(Over(todo'[ChunkSender], TxBytes(l)))
           Balance(l) == handed[l] = reported[l] + rounded[l] + stats[l].tx_bytes + pending(l)
           BalanceNext(l) ==
               handed'[l] = reported'[l] + rounded'[l] + stats'[l].tx_bytes + pendingNext(l)
<1>0. /\ stats \in [Links -> StatsOfLink] /\ handed \in [Links -> Nat]
      /\ reported \in [Links -> Nat] /\ rounded \in [Links -> Nat] /\ ChunkSender \in Task
      /\ todo \in [Task -> Seq(Todos)] /\ todo' \in [Task -> Seq(Todos)]
      /\ \A l \in Links : stats[l].tx_bytes \in Nat
  BY DEF TelemetryInv, TelemetryTypeOK, GhostTypeOK, Task, StatsOfLink
<1>1. \A l \in Links : Balance(l)
  <2>1. \A l \in Links : Unrecorded(l) = pending(l)
    BY <1>0, UnrecordedIs DEF Unrecorded
  <2> QED
    BY <2>1 DEF WindowsAddUp
<1>2. SUFFICES ASSUME NEW l \in Links PROVE BalanceNext(l)
  <2>1. \A l \in Links : Unrecorded(l)' = pendingNext(l)
    BY <1>0, UnrecordedIs DEF Unrecorded
  <2> QED
    BY <2>1 DEF WindowsAddUp
<1>3. todo[ChunkSender] \in Seq(Todos) /\ TxBytes(l) \in [Todos -> Nat]
  BY <1>0, TxBytesTyped
<1>4. pending(l) \in Nat
  BY <1>3, OverTyped
<1> HIDE DEF pending, pendingNext
<1>5. todo'[ChunkSender] = todo[ChunkSender] => pendingNext(l) = pending(l)
  BY DEF pending, pendingNext
<1>6. ASSUME pendingNext(l) = pending(l), stats'[l].tx_bytes = stats[l].tx_bytes,
             UNCHANGED <<handed, reported, rounded>>
      PROVE  BalanceNext(l)
  BY <1>1, <1>6
<1>7. ASSUME NEW payload \in Payloads, NEW k \in Links, MCSendChunk(k, payload) PROVE BalanceNext(l)
  <2> DEFINE n == Len(Encode(DataOf(k, Events, payload)))
             first == [do |-> "record_tx", link |-> k, bytes |-> n]
             second == [do |-> "record_chunk_tx", bytes |-> Len(payload)]
  <2>1. /\ SendChunk(k, Events, payload)
        /\ handed' = [handed EXCEPT ![k] = @ + Len(sent'.datagram)]
        /\ UNCHANGED <<reported, rounded>>
    BY <1>7 DEF MCSendChunk
  <2>2. /\ todo[ChunkSender] = <<>> /\ todo' = [todo EXCEPT ![ChunkSender] = <<first, second>>]
        /\ Len(sent'.datagram) = n /\ UNCHANGED stats
    BY <2>1 DEF SendChunk, Sends, Todo, Idle, statsVars
  <2>3. todo'[ChunkSender] = <<first, second>> /\ todo'[ChunkSender] \in Seq(Todos)
    BY <1>0, <2>2
  <2>4. first \in Todos /\ second \in Todos
    <3>1. Len(todo'[ChunkSender]) = 2 /\ todo'[ChunkSender][1] = first /\ todo'[ChunkSender][2] = second
      BY <2>3
    <3> HIDE DEF first, second
    <3>2. 1 \in 1 .. Len(todo'[ChunkSender]) /\ 2 \in 1 .. Len(todo'[ChunkSender])
      BY <3>1
    <3> QED
      BY <2>3, <3>1, <3>2, ElementOfSeq
  <2>5. /\ TxBytes(l)[first] = IF k = l THEN n ELSE 0
        /\ TxBytes(l)[second] = 0
    BY <2>4 DEF TxBytes
  <2> HIDE DEF first, second, n
  <2>6. pendingNext(l) = TxBytes(l)[first] + TxBytes(l)[second]
    BY <1>3, <2>3, <2>4, OverTwo DEF pendingNext
  <2>7. pending(l) = 0
    BY <2>2, OverEmpty DEF pending
  <2>8. handed'[l] = handed[l] + (IF k = l THEN n ELSE 0) /\ handed[l] \in Nat
    BY <1>0, <2>1, <2>2
  <2>9. n \in Nat
    <3>1. first.bytes = n /\ first.do = "record_tx"
      BY DEF first
    <3> QED
      BY <2>4, <3>1, TodoFields
  <2>10. handed[l] = reported[l] + rounded[l] + stats[l].tx_bytes + pending(l)
    BY <1>1
  <2>11. /\ reported'[l] = reported[l] /\ rounded'[l] = rounded[l] /\ stats'[l] = stats[l]
         /\ reported[l] \in Nat /\ rounded[l] \in Nat /\ stats[l].tx_bytes \in Nat
    BY <1>0, <2>1, <2>2
  <2> QED
    BY <2>5, <2>6, <2>7, <2>8, <2>9, <2>10, <2>11
<1>8. ASSUME NEW t \in Task, ~Idle(t), Finish(t), UNCHANGED <<handed, reported, rounded>>,
             stats'[l].tx_bytes = stats[l].tx_bytes + (IF Due(t).do = "record_tx" /\ Due(t).link = l
                                                         THEN Due(t).bytes ELSE 0)
      PROVE  BalanceNext(l)
  <2>1. /\ todo[t] \in Seq(Todos) /\ todo[t] # <<>> /\ Due(t) = todo[t][1] /\ Due(t) \in Todos
        /\ todo'[t] = Tail(todo[t]) /\ \A u \in Task \ {t} : todo'[u] = todo[u]
        /\ t # ChunkSender => Due(t).do # "record_tx"
    BY <1>8, FinishTyped
  <2>2. CASE t = ChunkSender
    <3>1. pending(l) = TxBytes(l)[todo[t][1]] + pendingNext(l)
      BY <1>3, <2>1, <2>2, OverTail DEF pending, pendingNext
    <3>2. TxBytes(l)[Due(t)] = IF Due(t).do = "record_tx" /\ Due(t).link = l THEN Due(t).bytes ELSE 0
      BY <2>1 DEF TxBytes
    <3>3. TxBytes(l)[Due(t)] \in Nat
      BY <1>3, <2>1
    <3>4. pendingNext(l) \in Nat
      BY <1>0, <1>3, OverTyped DEF pendingNext
    <3>5. stats'[l].tx_bytes = stats[l].tx_bytes + TxBytes(l)[Due(t)]
      BY <1>8, <3>2
    <3>6. handed[l] = reported[l] + rounded[l] + stats[l].tx_bytes + pending(l)
      BY <1>1
    <3>7. reported[l] \in Nat /\ rounded[l] \in Nat /\ stats[l].tx_bytes \in Nat
      BY <1>0
    <3> QED
      BY <1>8, <2>1, <3>1, <3>3, <3>4, <3>5, <3>6, <3>7
  <2>3. CASE t # ChunkSender
    <3>1. stats'[l].tx_bytes = stats[l].tx_bytes
      BY <1>0, <1>8, <2>1, <2>3
    <3>2. todo'[ChunkSender] = todo[ChunkSender]
      BY <1>0, <2>1, <2>3
    <3> QED
      BY <1>5, <1>6, <1>8, <3>1, <3>2
  <2> QED BY <2>2, <2>3
<1>9. ASSUME NEW t \in Task, RecordStats(t), UNCHANGED ghosts PROVE BalanceNext(l)
  <2>1. ~Idle(t) /\ Finish(t) /\ UNCHANGED <<handed, reported, rounded>>
    BY <1>9 DEF RecordStats, ghosts
  <2>2. \/ Due(t).do = "record_tx" /\ RecordTx(Due(t).link, Due(t).bytes)
        \/ Due(t).do = "record_rx" /\ RecordRx(Due(t).link, Due(t).bytes)
    BY <1>9 DEF RecordStats
  <2>3. Due(t) \in Todos
    BY <2>1, FinishTyped
  <2>4. Due(t).link \in Links /\ Due(t).bytes \in Nat
    BY <2>2, <2>3, TodoFields
  <2>5. stats'[l].tx_bytes = stats[l].tx_bytes + (IF Due(t).do = "record_tx" /\ Due(t).link = l
                                                    THEN Due(t).bytes ELSE 0)
    <3>1. CASE Due(t).do = "record_tx" /\ RecordTx(Due(t).link, Due(t).bytes)
      <4> DEFINE k == Due(t).link
                 n == Due(t).bytes
      <4>1. stats' = [stats EXCEPT ![k].tx_bytes = @ + n, ![k].tx_packets = @ + 1,
                                   ![k].pending_bytes = @ + n]
        BY <3>1 DEF RecordTx
      <4> HIDE DEF k, n
      <4>2. CASE k = l
        BY <1>0, <3>1, <4>1, <4>2 DEF StatsOfLink, k, n
      <4>3. CASE k # l
        <5>1. stats'[l] = stats[l]
          BY <1>0, <4>1, <4>3
        <5> QED
          BY <1>0, <4>3, <5>1 DEF k
      <4> QED BY <4>2, <4>3
    <3>2. CASE Due(t).do = "record_rx" /\ RecordRx(Due(t).link, Due(t).bytes)
      <4>1. stats'[l].tx_bytes = stats[l].tx_bytes
        BY <1>0, <2>4, <3>2 DEF RecordRx, StatsOfLink
      <4> QED
        BY <1>0, <3>2, <4>1
    <3> QED BY <2>2, <3>1, <3>2
  <2> QED
    BY <1>8, <2>1, <2>5
<1>10. ASSUME NEW t \in Task, RecordMetrics(t), UNCHANGED ghosts PROVE BalanceNext(l)
  <2>1. /\ ~Idle(t) /\ Finish(t) /\ UNCHANGED <<handed, reported, rounded>> /\ UNCHANGED stats
        /\ Due(t).do \in Recorder
    BY <1>10 DEF RecordMetrics, ghosts, statsVars
  <2>2. Due(t).do # "record_tx"
    BY <2>1, RecorderNames
  <2>3. stats'[l].tx_bytes = stats[l].tx_bytes + (IF Due(t).do = "record_tx" /\ Due(t).link = l
                                                    THEN Due(t).bytes ELSE 0)
    BY <1>0, <2>1, <2>2
  <2> QED
    BY <1>8, <2>1, <2>3
<1>11. ASSUME NEW k \in Links, NEW now \in Times, Acknowledge(k, now), UNCHANGED ghosts
       PROVE  BalanceNext(l)
  <2>1. /\ ~Idle(Receiver(k)) /\ Finish(Receiver(k)) /\ UNCHANGED <<handed, reported, rounded>>
        /\ UNCHANGED stats /\ Due(Receiver(k)).do = "acknowledge" /\ Receiver(k) \in Task
    BY <1>11 DEF Acknowledge, ghosts, statsVars, Task
  <2>3. stats'[l].tx_bytes = stats[l].tx_bytes
            + (IF Due(Receiver(k)).do = "record_tx" /\ Due(Receiver(k)).link = l
                 THEN Due(Receiver(k)).bytes ELSE 0)
    BY <1>0, <2>1
  <2> QED
    BY <1>8, <2>1, <2>3
<1>12. CASE MCCloseWindows
  <2>1. StatsTick /\ UNCHANGED todo /\ UNCHANGED handed
    BY <1>12 DEF MCCloseWindows, CloseWindows
  <2>2. pendingNext(l) = pending(l)
    BY <1>5, <2>1
  <2>3. /\ elapsed >= Window => stats'[l].tx_bytes = 0
              /\ stats'[l].bandwidth_bps = stats[l].tx_bytes \div elapsed
        /\ elapsed < Window => stats'[l].tx_bytes = stats[l].tx_bytes
    BY <2>1, TickTyped DEF TelemetryInv
  <2>4. elapsed \in Nat /\ Window \in Nat \ {0}
    BY StatsAssumption DEF TelemetryInv, TelemetryTypeOK
  <2>5. CASE elapsed < Window
    <3>1. UNCHANGED <<reported, rounded>>
      BY <1>12, <2>5 DEF MCCloseWindows
    <3> QED
      BY <1>6, <2>1, <2>2, <2>3, <2>5, <3>1
  <2>6. CASE ~(elapsed < Window)
    <3> DEFINE n == stats[l].tx_bytes
    <3>1. /\ reported' = [k \in Links |-> reported[k] + stats'[k].bandwidth_bps * elapsed]
          /\ rounded' = [k \in Links |-> rounded[k] + (stats[k].tx_bytes % elapsed)]
      BY <1>12, <2>6 DEF MCCloseWindows
    <3>2. elapsed \in Nat \ {0} /\ elapsed >= Window
      BY <2>4, <2>6
    <3>3. /\ reported'[l] = reported[l] + (n \div elapsed) * elapsed
          /\ rounded'[l] = rounded[l] + (n % elapsed) /\ stats'[l].tx_bytes = 0
      BY <2>3, <3>1, <3>2
    <3>4. n \in Nat
      BY <1>0
    <3> HIDE DEF n
    <3>5. (n \div elapsed) * elapsed + (n % elapsed) = n
      BY <3>2, <3>4
    <3>6. (n \div elapsed) * elapsed \in Nat /\ n % elapsed \in Nat
      BY <3>2, <3>4
    <3>7. handed[l] = reported[l] + rounded[l] + n + pending(l)
      BY <1>1 DEF n
    <3>8. reported[l] \in Nat /\ rounded[l] \in Nat
      BY <1>0
    <3>9. reported'[l] + rounded'[l] = reported[l] + rounded[l] + n
      BY <3>3, <3>5, <3>6, <3>8
    <3>10. reported'[l] \in Nat /\ rounded'[l] \in Nat
      BY <3>3, <3>6, <3>8
    <3> QED
      BY <1>4, <2>1, <2>2, <3>3, <3>4, <3>7, <3>8, <3>9, <3>10
  <2> QED BY <2>5, <2>6
<1>13. ASSUME NEW k \in Links, NEW buf \in Datagrams, NEW now \in Times, MCReceiveAck(k, buf, now)
       PROVE  BalanceNext(l)
  <2>1. /\ stats' = [stats EXCEPT ![k].smoothed_rtt_us =
                        Smoothed(@, now - Decoded[buf].echo_timestamp_us)]
        /\ UNCHANGED todo /\ UNCHANGED <<handed, reported, rounded>>
    BY <1>13 DEF MCReceiveAck, ReceiveAck, RecordRtt
  <2>2. stats'[l].tx_bytes = stats[l].tx_bytes
    BY <1>0, <2>1 DEF StatsOfLink
  <2> QED
    BY <1>5, <1>6, <2>1, <2>2
<1> DEFINE Quiet == /\ UNCHANGED stats /\ todo'[ChunkSender] = todo[ChunkSender]
                    /\ UNCHANGED <<handed, reported, rounded>>
<1>14. Quiet => BalanceNext(l)
  BY <1>5, <1>6
<1>15. ASSUME NEW t \in Task \ {ChunkSender}, NEW steps, Todo(t, steps)
       PROVE  todo'[ChunkSender] = todo[ChunkSender]
  BY <1>0, <1>15 DEF Todo
<1>16. /\ TunReader \in Task \ {ChunkSender} /\ TunWriter \in Task \ {ChunkSender}
       /\ \A k \in Links : Receiver(k) \in Task \ {ChunkSender}
  BY DEF Task, TunReader, TunWriter, Receiver, ChunkSender
<1>17. /\ \A bytes \in PacketSizes : MCForwardPacket(bytes) => Quiet
       /\ \A bytes \in PacketSizes : MCWritePacket(bytes) => Quiet
       /\ \A k \in Links, buf \in Datagrams : MCReceiveData(k, buf) => Quiet
  BY <1>15, <1>16 DEF MCForwardPacket, ForwardPacket, MCWritePacket, WritePacket,
         MCReceiveData, ReceiveData, statsVars
<1>18. /\ MCStoreMetrics => Quiet
       /\ MCClockTicks => Quiet
       /\ TakeMetrics /\ UNCHANGED ghosts => Quiet
       /\ \A k \in Links, now \in Times : SendKeepalive(k, now) /\ UNCHANGED ghosts => Quiet
       /\ \A probe \in Probes : SendProbe(probe) /\ UNCHANGED ghosts => Quiet
       /\ UNCHANGED mcvars => Quiet
  BY DEF MCStoreMetrics, StoreMetrics, MCClockTicks, ClockTicks, TimePasses, TakeMetrics,
         SendKeepalive, SendProbe, statsVars, ghosts, mcvars, telemetryVars
<1> HIDE DEF Quiet, BalanceNext
<1> QED
  BY <1>7, <1>9, <1>10, <1>11, <1>12, <1>13, <1>14, <1>17, <1>18 DEF MCNext, Unobserved

\* WindowsAddUp for any links, chunks and lengths of windows: no byte is lost or counted
\* twice, whether it is recorded before or after the windows close.
THEOREM NoByteOutsideAWindow == FairSpec => []WindowsAddUp
<1>1. MCInit => WindowsAddUp
  <2> SUFFICES ASSUME MCInit, NEW l \in Links
               PROVE  handed[l] = reported[l] + rounded[l] + stats[l].tx_bytes + Unrecorded(l)
    BY DEF WindowsAddUp
  <2>1. ChunkSender \in Task
    BY DEF Task
  <2>2. todo[ChunkSender] = <<>> /\ handed[l] = 0 /\ reported[l] = 0 /\ rounded[l] = 0
    BY <2>1 DEF MCInit, TelemetryInit, NoBytes
  <2>3. stats[l].tx_bytes = 0
    BY DEF MCInit, TelemetryInit, StatsInit, NewStats
  <2>4. todo[ChunkSender] \in Seq(Todos)
    BY <2>2
  <2>6. Unrecorded(l) = SumFunction(Over(todo[ChunkSender], TxBytes(l)))
    BY <2>4, UnrecordedIs DEF Unrecorded
  <2>5. Unrecorded(l) = 0
    BY <2>2, <2>6, OverEmpty
  <2> QED
    BY <2>2, <2>3, <2>5
<1> QED
  BY <1>1, WindowsStep, TelemetryInvariant, PTL DEF FairSpec

-----------------------------------------------------------------------------
(* Metrics *)

\* What a step of a task, and a snapshot, count for in a counter
Advance(c) == [step \in Todos |-> Advances(step)[c]]
Reading(c) == [cs \in RawCounters |-> cs[c]]

\* What the steps of a task will add to a counter
Owed(steps, c) == SumFunction(Over(steps, Advance(c)))

\* is a number for each step, as a counter's value is in each snapshot.
LEMMA AdvanceTyped ==
    ASSUME NEW c \in Counter
    PROVE  Advance(c) \in [Todos -> Nat] /\ Reading(c) \in [RawCounters -> Nat]
<1>1. ZeroCounters \in RawCounters
  BY DEF ZeroCounters, RawCounters
<1>2. ASSUME NEW step \in Todos PROVE Advances(step)[c] \in Nat
  <2>1. CASE step.do \in Recorder
    <3>1. Advances(step) \in RawCounters
      BY <1>1, <2>1, TodoFields, AdvancedAdds DEF Advances
    <3> QED
      BY <3>1 DEF RawCounters
  <2>2. CASE step.do \notin Recorder
    BY <2>2 DEF Advances, ZeroCounters
  <2> QED BY <2>1, <2>2
<1> QED
  BY <1>2 DEF Advance, Reading, RawCounters

\* It is written out in the property,
LEMMA OwedIs ==
    ASSUME NEW s \in Seq(Todos), NEW c
    PROVE  SumFunction([i \in DOMAIN s |-> Advances(s[i])[c]]) = Owed(s, c)
<1>1. \A i \in DOMAIN s : s[i] \in Todos
  BY ElementOfSeq, LenProperties
<1>2. [i \in DOMAIN s |-> Advances(s[i])[c]] = Over(s, Advance(c))
  BY <1>1 DEF Over, Advance
<1> QED
  BY <1>2 DEF Owed

\* and so is what the snapshots kept remember of a counter.
LEMMA RememberedIs ==
    ASSUME NEW s \in Seq(RawCounters), NEW c
    PROVE  SumFunction([i \in DOMAIN s |-> s[i][c]]) = SumFunction(Over(s, Reading(c)))
<1>1. \A i \in DOMAIN s : s[i] \in RawCounters
  BY ElementOfSeq, LenProperties
<1>2. [i \in DOMAIN s |-> s[i][c]] = Over(s, Reading(c))
  BY <1>1 DEF Over, Reading
<1> QED
  BY <1>2

\* The tasks can be counted: a link's number fits in a byte, and each link has a receiver.
LEMMA TaskFinite == IsFiniteSet(Task)
<1>1. IsFiniteSet(Links)
  <2>1. IsFiniteSet(Byte)
    BY WireAssumption, FS_Interval DEF Byte
  <2> QED
    BY <2>1, DatagramAssumption, FS_Subset
<1>2. IsFiniteSet({Receiver(l) : l \in Links})
  <2> DEFINE f == [l \in Links |-> Receiver(l)]
             S == {Receiver(l) : l \in Links}
  <2>1. f \in [Links -> S]
    OBVIOUS
  <2>2. Range(f) = S
    BY DEF Range
  <2> HIDE DEF f, S
  <2>3. IsFiniteSet(S)
    BY <1>1, <2>1, <2>2, FiniteRange
  <2> QED
    BY <2>3 DEF S
<1>3. IsFiniteSet({TunReader, TunWriter, ChunkSender})
  <2>1. IsFiniteSet({TunReader}) /\ IsFiniteSet({TunWriter}) /\ IsFiniteSet({ChunkSender})
    BY FS_Singleton
  <2>2. IsFiniteSet({TunReader} \cup {TunWriter})
    BY <2>1, FS_Union
  <2>3. IsFiniteSet(({TunReader} \cup {TunWriter}) \cup {ChunkSender})
    BY <2>1, <2>2, FS_Union
  <2>4. ({TunReader} \cup {TunWriter}) \cup {ChunkSender} = {TunReader, TunWriter, ChunkSender}
    OBVIOUS
  <2> QED
    BY <2>3, <2>4
<1> QED
  BY <1>2, <1>3, FS_Union DEF Task

\* What all tasks will add to a counter, when they have those steps to do
AllOwed(steps, c) == SumFunctionOnSet([t \in Task |-> Owed(steps[t], c)], Task)

\* It is what the property writes out, and a number.
LEMMA AllOwedIs ==
    ASSUME NEW steps \in [Task -> Seq(Todos)], NEW c \in Counter
    PROVE  /\ SumFunction([t \in Task |-> SumFunction([i \in DOMAIN steps[t] |-> Advances(steps[t][i])[c]])])
                = AllOwed(steps, c)
           /\ AllOwed(steps, c) \in Nat
           /\ \A t \in Task : Owed(steps[t], c) \in Nat
<1> DEFINE f == [t \in Task |-> SumFunction([i \in DOMAIN steps[t] |-> Advances(steps[t][i])[c]])]
           g == [t \in Task |-> Owed(steps[t], c)]
<1>1. ASSUME NEW t \in Task
      PROVE  /\ SumFunction([i \in DOMAIN steps[t] |-> Advances(steps[t][i])[c]]) = Owed(steps[t], c)
             /\ Owed(steps[t], c) \in Nat
  <2>1. steps[t] \in Seq(Todos)
    OBVIOUS
  <2>2. Owed(steps[t], c) \in Nat
    BY <2>1, AdvanceTyped, OverTyped DEF Owed
  <2> QED
    BY <2>1, <2>2, OwedIs
<1>2. f = g /\ \A t \in Task : g[t] \in Nat
  BY <1>1
<1>3. DOMAIN f = Task
  OBVIOUS
<1> HIDE DEF f, g
<1>4. SumFunction(f) = SumFunctionOnSet(g, Task)
  BY <1>2, <1>3 DEF SumFunction
<1>5. SumFunctionOnSet(g, Task) \in Nat
  BY <1>2, TaskFinite, SumIsNat
<1> QED
  BY <1>1, <1>4, <1>5 DEF f, g, AllOwed

\* A task changes the sum by as much as its own part changes.
LEMMA AllOwedChanges ==
    ASSUME NEW old \in [Task -> Seq(Todos)], NEW new \in [Task -> Seq(Todos)], NEW t \in Task,
           \A u \in Task \ {t} : new[u] = old[u], NEW c \in Counter
    PROVE  AllOwed(new, c) = AllOwed(old, c) + Owed(new[t], c) - Owed(old[t], c)
<1> DEFINE f == [u \in Task |-> Owed(old[u], c)]
           g == [u \in Task |-> Owed(new[u], c)]
<1>1. \A u \in Task : f[u] \in Int /\ g[u] \in Int
  <2>1. \A u \in Task : Owed(old[u], c) \in Nat
    BY AllOwedIs
  <2>2. \A u \in Task : Owed(new[u], c) \in Nat
    BY AllOwedIs
  <2> QED
    BY <2>1, <2>2
<1>2. \A u \in Task \ {t} : g[u] = f[u]
  OBVIOUS
<1>3. f[t] = Owed(old[t], c) /\ g[t] = Owed(new[t], c)
  OBVIOUS
<1> HIDE DEF f, g
<1>4. SumFunctionOnSet(g, Task) = SumFunctionOnSet(f, Task) + g[t] - f[t]
  BY <1>1, <1>2, TaskFinite, SumOfChanged
<1> QED
  BY <1>3, <1>4 DEF f, g, AllOwed

\* The balance of one counter: what happened, what is owed, what the counters and the
\* snapshot between the locks hold, what the history holds and what it no longer does
Between(snapshot, c) == IF snapshot = NoSnapshot THEN 0 ELSE snapshot[c]

Balanced(happens, steps, cs, snapshot, snapshots, gone, c) ==
    happens[c] = AllOwed(steps, c) + cs[c] + Between(snapshot, c)
                     + SumFunction(Over(snapshots, Reading(c))) + gone[c]

\* The property says the same of each counter, term by term.
LEMMA BalanceOf ==
    ASSUME NEW steps \in [Task -> Seq(Todos)], NEW snapshot, NEW snapshots \in Seq(RawCounters),
           NEW c \in Counter
    PROVE  /\ SumFunction([t \in Task |-> SumFunction([i \in DOMAIN steps[t] |-> Advances(steps[t][i])[c]])])
                = AllOwed(steps, c)
           /\ (IF snapshot = NoSnapshot THEN ZeroCounters ELSE snapshot)[c] = Between(snapshot, c)
           /\ SumFunction([i \in DOMAIN snapshots |-> snapshots[i][c]])
                = SumFunction(Over(snapshots, Reading(c)))
<1>1. (IF snapshot = NoSnapshot THEN ZeroCounters ELSE snapshot)[c] = Between(snapshot, c)
  BY DEF Between, ZeroCounters
<1> QED
  BY <1>1, AllOwedIs, RememberedIs

\* A step moves an advance from a task to the counters, to the snapshot, to the history, and out of it.
LEMMA MetricsStep == TelemetryInv /\ TelemetryInv' /\ MetricsAddUp /\ [MCNext]_mcvars => MetricsAddUp'
<1> SUFFICES ASSUME TelemetryInv, TelemetryInv', MetricsAddUp, [MCNext]_mcvars PROVE MetricsAddUp'
  OBVIOUS
<1> DEFINE Now(c) == Balanced(happened, todo, counters, taken, history, forgotten, c)
           Next(c) == Balanced(happened', todo', counters', taken', history', forgotten', c)
<1>0. /\ todo \in [Task -> Seq(Todos)] /\ todo' \in [Task -> Seq(Todos)]
      /\ history \in Seq(RawCounters) /\ history' \in Seq(RawCounters)
      /\ happened \in RawCounters /\ forgotten \in RawCounters /\ counters \in RawCounters
      /\ taken \in RawCounters \cup {NoSnapshot} /\ NoSnapshot \notin RawCounters
  BY DatagramAssumption DEF TelemetryInv, TelemetryTypeOK, GhostTypeOK
<1>1. \A c \in Counter : Now(c)
  BY <1>0, BalanceOf DEF MetricsAddUp, UnrecordedCounters, Remembered, Balanced
<1>2. SUFFICES ASSUME NEW c \in Counter PROVE Next(c)
  <2>1. SUFFICES ASSUME NEW c \in Counter, Next(c)
                 PROVE  happened'[c] =
                          SumFunction([t \in Task |->
                              SumFunction([i \in DOMAIN todo'[t] |-> Advances(todo'[t][i])[c]])])
                          + counters'[c] + (IF taken' = NoSnapshot THEN ZeroCounters ELSE taken')[c]
                          + SumFunction([i \in DOMAIN history' |-> history'[i][c]]) + forgotten'[c]
    BY DEF MetricsAddUp, UnrecordedCounters, Remembered
  <2> QED
    BY <1>0, <2>1, BalanceOf, ZenonT(30) DEF Balanced
<1> HIDE DEF Next
<1>adds. ASSUME NEW cs \in RawCounters, NEW r \in Recorder, NEW bytes \in Nat
          PROVE  Advanced(cs, r, bytes)[c] = cs[c] + Advanced(ZeroCounters, r, bytes)[c]
  BY AdvancedAdds
<1> DEFINE held == SumFunction(Over(history, Reading(c)))
           owed == AllOwed(todo, c)
           between == Between(taken, c)
<1>3. /\ happened[c] \in Nat /\ forgotten[c] \in Nat /\ counters[c] \in Nat
      /\ between \in Nat /\ held \in Nat /\ owed \in Nat
      /\ \A t \in Task : Owed(todo[t], c) \in Nat /\ Owed(todo'[t], c) \in Nat
  <2>1. happened[c] \in Nat /\ forgotten[c] \in Nat /\ counters[c] \in Nat
    BY <1>0 DEF RawCounters
  <2>2. between \in Nat
    BY <1>0 DEF Between, RawCounters
  <2>3. held \in Nat
    BY <1>0, AdvanceTyped, OverTyped
  <2> QED
    BY <1>0, <2>1, <2>2, <2>3, AllOwedIs
<1>4. happened[c] = owed + counters[c] + between + held + forgotten[c]
  BY <1>1 DEF Balanced
<1> HIDE DEF held, owed, between
<1> DEFINE Moves(t, recorded, happens) ==
               /\ \A u \in Task \ {t} : todo'[u] = todo[u]
               /\ UNCHANGED <<taken, history, forgotten>>
               /\ counters'[c] = counters[c] + recorded
               /\ happened'[c] = happened[c] + happens
               /\ Owed(todo'[t], c) + recorded = Owed(todo[t], c) + happens
<1>5. ASSUME NEW t \in Task, NEW recorded \in Nat, NEW happens \in Nat,
             Moves(t, recorded, happens)
      PROVE  Next(c)
  <2>1. AllOwed(todo', c) = owed + Owed(todo'[t], c) - Owed(todo[t], c)
    BY <1>0, <1>5, AllOwedChanges DEF owed
  <2>2. Between(taken', c) = between /\ SumFunction(Over(history', Reading(c))) = held
    BY <1>5 DEF between, held
  <2>3. happened'[c] = AllOwed(todo', c) + counters'[c] + between + held + forgotten[c]
    <3>1. Owed(todo'[t], c) \in Nat /\ Owed(todo[t], c) \in Nat
      BY <1>3
    <3> QED
      BY <1>3, <1>4, <1>5, <2>1, <3>1
  <2> QED
    BY <1>5, <2>2, <2>3 DEF Next, Balanced
<1>6. ASSUME UNCHANGED <<todo, counters, taken, history, forgotten, happened>> PROVE Next(c)
  BY <1>1, <1>6 DEF Next
<1>7. ASSUME NEW t \in Task, ~Idle(t), Finish(t), UNCHANGED <<taken, history, ghosts>>,
             counters' = IF Due(t).do \in Recorder THEN Advanced(counters, Due(t).do, Due(t).bytes)
                         ELSE counters
      PROVE  Next(c)
  <2>1. /\ todo[t] \in Seq(Todos) /\ todo[t] # <<>> /\ Due(t) = todo[t][1] /\ Due(t) \in Todos
        /\ todo'[t] = Tail(todo[t]) /\ \A u \in Task \ {t} : todo'[u] = todo[u]
    BY <1>7, FinishTyped
  <2> DEFINE recorded == Advances(Due(t))[c]
  <2>2. Advance(c)[Due(t)] = recorded /\ recorded \in Nat
    BY <2>1, AdvanceTyped DEF Advance
  <2>3. Owed(todo[t], c) = recorded + Owed(todo'[t], c)
    <3>1. Advance(c) \in [Todos -> Nat]
      BY AdvanceTyped
    <3>2. SumFunction(Over(todo[t], Advance(c))) =
            Advance(c)[todo[t][1]] + SumFunction(Over(Tail(todo[t]), Advance(c)))
      BY <2>1, <3>1, OverTail
    <3> QED
      BY <2>1, <2>2, <3>2 DEF Owed
  <2>4. counters'[c] = counters[c] + recorded
    <3>1. CASE Due(t).do \in Recorder
      <4>1. Due(t).bytes \in Nat
        BY <2>1, <3>1, TodoFields
      <4>2. Advanced(counters, Due(t).do, Due(t).bytes)[c]
              = counters[c] + Advanced(ZeroCounters, Due(t).do, Due(t).bytes)[c]
        BY <1>0, <1>adds, <3>1, <4>1
      <4> QED
        BY <1>7, <3>1, <4>2 DEF Advances
    <3>2. CASE Due(t).do \notin Recorder
      <4>1. recorded = 0
        BY <3>2 DEF Advances, ZeroCounters
      <4> QED
        BY <1>3, <1>7, <3>2, <4>1
    <3> QED BY <3>1, <3>2
  <2> DEFINE happens == 0
  <2>5. happens \in Nat /\ happened'[c] = happened[c] + happens
    BY <1>3, <1>7 DEF ghosts
  <2>6. Owed(todo'[t], c) + recorded = Owed(todo[t], c) + happens
    <3>1. Owed(todo'[t], c) \in Nat /\ Owed(todo[t], c) \in Nat
      BY <1>3
    <3> QED
      BY <2>2, <2>3, <3>1
  <2>7. UNCHANGED <<taken, history, forgotten>>
    BY <1>7 DEF ghosts
  <2>8. recorded \in Nat
    BY <2>2
  <2> HIDE DEF recorded, happens
  <2>9. Moves(t, recorded, happens)
    BY <2>1, <2>4, <2>5, <2>6, <2>7
  <2> HIDE DEF Moves
  <2> QED
    BY <1>5, <2>5, <2>8, <2>9
<1>8. ASSUME NEW t \in Task, Idle(t), NEW r \in Recorder, NEW bytes \in Nat, NEW steps \in Seq(Todos),
             todo' = [todo EXCEPT ![t] = steps],
             Owed(steps, c) = Advanced(ZeroCounters, r, bytes)[c],
             happened' = Advanced(happened, r, bytes),
             UNCHANGED <<counters, taken, history, forgotten>>
      PROVE  Next(c)
  <2> DEFINE happens == Advanced(ZeroCounters, r, bytes)[c]
  <2>1. happens \in Nat /\ happened'[c] = happened[c] + happens
    <3>1. Advanced(happened, r, bytes)[c] = happened[c] + happens
      BY <1>0, <1>8, <1>adds
    <3>2. Advanced(ZeroCounters, r, bytes) \in RawCounters
      BY <1>0, <1>8, AdvancedAdds
    <3>3. happens \in Nat
      BY <3>2 DEF RawCounters
    <3> QED
      BY <1>8, <3>1, <3>3
  <2>2. todo'[t] = steps /\ todo[t] = <<>> /\ \A u \in Task \ {t} : todo'[u] = todo[u]
    BY <1>0, <1>8 DEF Idle
  <2>3. Owed(todo[t], c) = 0
    BY <2>2, OverEmpty DEF Owed
  <2> DEFINE recorded == 0
  <2>4. Owed(todo'[t], c) + recorded = Owed(todo[t], c) + happens
    BY <1>8, <2>1, <2>2, <2>3
  <2>5. recorded \in Nat /\ counters'[c] = counters[c] + recorded
    BY <1>3, <1>8
  <2> HIDE DEF recorded, happens
  <2>6. Moves(t, recorded, happens)
    BY <1>8, <2>1, <2>2, <2>4, <2>5
  <2> HIDE DEF Moves
  <2> QED
    BY <1>5, <2>1, <2>5, <2>6
<1>9. /\ TunReader \in Task /\ TunWriter \in Task /\ ChunkSender \in Task
      /\ \A l \in Links : Receiver(l) \in Task
  BY DEF Task
<1>10. ASSUME NEW step \in Todos
       PROVE  /\ step.do \notin Recorder => Advance(c)[step] = 0
              /\ step.do \in Recorder =>
                    Advance(c)[step] = Advanced(ZeroCounters, step.do, step.bytes)[c]
  BY DEF Advance, Advances, ZeroCounters
<1>11. Advance(c) \in [Todos -> Nat]
  BY AdvanceTyped
<1>12. ASSUME NEW t \in Task, Idle(t), NEW r \in Recorder, NEW bytes \in PacketSizes,
              Todo(t, <<[do |-> r, bytes |-> bytes]>>), Happens(r, bytes),
              UNCHANGED <<counters, taken, history, forgotten>>
       PROVE  Next(c)
  <2> DEFINE step == [do |-> r, bytes |-> bytes]
  <2>1. bytes \in Nat
    BY DatagramAssumption
  <2>2. step \in Todos /\ step.do = r /\ step.bytes = bytes
    BY <2>1 DEF Todos
  <2> HIDE DEF step
  <2>3. Owed(<<step>>, c) = Advance(c)[step] /\ <<step>> \in Seq(Todos)
    BY <1>11, <2>2, OverOne DEF Owed
  <2>4. Owed(<<step>>, c) = Advanced(ZeroCounters, r, bytes)[c]
    BY <1>10, <2>2, <2>3
  <2>5. todo' = [todo EXCEPT ![t] = <<step>>] /\ happened' = Advanced(happened, r, bytes)
    BY <1>12 DEF Todo, Happens, step
  <2> QED
    BY <1>8, <1>12, <2>1, <2>3, <2>4, <2>5
<1>13. ASSUME NEW bytes \in PacketSizes, MCForwardPacket(bytes) \/ MCWritePacket(bytes)
       PROVE  Next(c)
  <2>1. CASE MCForwardPacket(bytes)
    <3>1. /\ Idle(TunReader) /\ Todo(TunReader, <<[do |-> "record_packet_tx", bytes |-> bytes]>>)
          /\ Happens("record_packet_tx", bytes) /\ UNCHANGED <<counters, taken, history, forgotten>>
      BY <2>1 DEF MCForwardPacket, ForwardPacket, metricsVars
    <3> QED
      BY <1>9, <1>12, <3>1, RecorderNames
  <2>2. CASE MCWritePacket(bytes)
    <3>1. /\ Idle(TunWriter) /\ Todo(TunWriter, <<[do |-> "record_packet_rx", bytes |-> bytes]>>)
          /\ Happens("record_packet_rx", bytes) /\ UNCHANGED <<counters, taken, history, forgotten>>
      BY <2>2 DEF MCWritePacket, WritePacket, metricsVars
    <3> QED
      BY <1>9, <1>12, <3>1, RecorderNames
  <2> QED BY <1>13, <2>1, <2>2
<1>14. ASSUME NEW l \in Links, NEW payload \in Payloads, MCSendChunk(l, payload) PROVE Next(c)
  <2> DEFINE first == [do |-> "record_tx", link |-> l, bytes |-> Len(Encode(DataOf(l, Events, payload)))]
             second == [do |-> "record_chunk_tx", bytes |-> Len(payload)]
  <2>1. /\ Idle(ChunkSender) /\ todo' = [todo EXCEPT ![ChunkSender] = <<first, second>>]
        /\ happened' = Advanced(happened, "record_chunk_tx", Len(payload))
        /\ UNCHANGED <<counters, taken, history, forgotten>>
    BY <1>14 DEF MCSendChunk, SendChunk, Todo, Happens, metricsVars
  <2>2. todo'[ChunkSender] = <<first, second>> /\ <<first, second>> \in Seq(Todos)
    BY <1>0, <1>9, <2>1
  <2>3. first \in Todos /\ second \in Todos
    <3> HIDE DEF first, second
    <3>1. 1 \in 1 .. Len(<<first, second>>) /\ 2 \in 1 .. Len(<<first, second>>)
      OBVIOUS
    <3>2. <<first, second>>[1] \in Todos /\ <<first, second>>[2] \in Todos
      BY <2>2, <3>1, ElementOfSeq
    <3> QED
      BY <3>2
  <2>4. first.do = "record_tx" /\ second.do = "record_chunk_tx" /\ second.bytes = Len(payload)
    OBVIOUS
  <2> HIDE DEF first, second
  <2>5. first.do \notin Recorder /\ second.do \in Recorder
    BY <2>4, RecorderNames
  <2>6. Advance(c)[first] = 0 /\ Advance(c)[second] = Advanced(ZeroCounters, "record_chunk_tx", Len(payload))[c]
    BY <1>10, <2>3, <2>4, <2>5
  <2>7. Owed(<<first, second>>, c) = Advance(c)[first] + Advance(c)[second]
    BY <1>11, <2>3, OverTwo DEF Owed
  <2>8. Advance(c)[second] \in Nat
    BY <1>11, <2>3
  <2>9. Owed(<<first, second>>, c) = Advanced(ZeroCounters, "record_chunk_tx", Len(payload))[c]
    BY <2>6, <2>7, <2>8
  <2>10. Len(payload) \in Nat /\ "record_chunk_tx" \in Recorder
    BY <2>3, <2>4, <2>5, TodoFields
  <2> QED
    BY <1>8, <1>9, <2>1, <2>2, <2>9, <2>10
<1>15. ASSUME NEW l \in Links, NEW buf \in Datagrams, MCReceiveData(l, buf) PROVE Next(c)
  <2> DEFINE p == Decoded[buf]
             first == [do |-> "record_rx", link |-> l, bytes |-> Len(buf)]
             second == [do |-> "record_chunk_rx", bytes |-> Len(p.payload)]
             third == [do |-> "acknowledge", chunk_id |-> p.chunk_id]
  <2>1. /\ Idle(Receiver(l)) /\ todo' = [todo EXCEPT ![Receiver(l)] = <<first, second, third>>]
        /\ happened' = Advanced(happened, "record_chunk_rx", Len(p.payload))
        /\ UNCHANGED <<counters, taken, history, forgotten>>
    BY <1>15 DEF MCReceiveData, ReceiveData, Todo, Happens, metricsVars
  <2> HIDE DEF p
  <2>2. todo'[Receiver(l)] = <<first, second, third>> /\ <<first, second, third>> \in Seq(Todos)
    BY <1>0, <1>9, <2>1
  <2>3. first \in Todos /\ second \in Todos /\ third \in Todos
    <3> HIDE DEF first, second, third
    <3>1. /\ 1 \in 1 .. Len(<<first, second, third>>) /\ 2 \in 1 .. Len(<<first, second, third>>)
          /\ 3 \in 1 .. Len(<<first, second, third>>)
      OBVIOUS
    <3>2. /\ <<first, second, third>>[1] \in Todos /\ <<first, second, third>>[2] \in Todos
          /\ <<first, second, third>>[3] \in Todos
      BY <2>2, <3>1, ElementOfSeq
    <3> QED
      BY <3>2
  <2>4. /\ first.do = "record_rx" /\ second.do = "record_chunk_rx" /\ second.bytes = Len(p.payload)
        /\ third.do = "acknowledge"
    OBVIOUS
  <2> HIDE DEF first, second, third
  <2>5. first.do \notin Recorder /\ second.do \in Recorder /\ third.do \notin Recorder
    BY <2>4, RecorderNames
  <2>6. /\ Advance(c)[first] = 0 /\ Advance(c)[third] = 0
        /\ Advance(c)[second] = Advanced(ZeroCounters, "record_chunk_rx", Len(p.payload))[c]
    BY <1>10, <2>3, <2>4, <2>5
  <2>7. Owed(<<first, second, third>>, c) = Advance(c)[first] + Advance(c)[second] + Advance(c)[third]
    BY <1>11, <2>3, OverThree DEF Owed
  <2>8. Advance(c)[second] \in Nat
    BY <1>11, <2>3
  <2>9. Owed(<<first, second, third>>, c) = Advanced(ZeroCounters, "record_chunk_rx", Len(p.payload))[c]
    BY <2>6, <2>7, <2>8
  <2>10. Len(p.payload) \in Nat /\ "record_chunk_rx" \in Recorder
    BY <2>3, <2>4, <2>5, TodoFields
  <2> QED
    BY <1>8, <1>9, <2>1, <2>2, <2>9, <2>10
<1>16. ASSUME NEW t \in Task, RecordStats(t), UNCHANGED ghosts PROVE Next(c)
  <2>1. /\ ~Idle(t) /\ Finish(t) /\ UNCHANGED <<counters, taken, history>>
        /\ Due(t).do \in {"record_tx", "record_rx"}
    BY <1>16 DEF RecordStats, metricsVars
  <2>2. Due(t).do \notin Recorder
    BY <2>1, RecorderNames
  <2> QED
    BY <1>7, <1>16, <2>1, <2>2
<1>17. ASSUME NEW t \in Task, RecordMetrics(t), UNCHANGED ghosts PROVE Next(c)
  <2>1. /\ ~Idle(t) /\ Finish(t) /\ UNCHANGED <<taken, history>> /\ Due(t).do \in Recorder
        /\ counters' = Advanced(counters, Due(t).do, Due(t).bytes)
    BY <1>17 DEF RecordMetrics, Record
  <2> QED
    BY <1>7, <1>17, <2>1
<1>18. ASSUME NEW l \in Links, NEW now \in Times, Acknowledge(l, now), UNCHANGED ghosts PROVE Next(c)
  <2>1. /\ ~Idle(Receiver(l)) /\ Finish(Receiver(l)) /\ UNCHANGED <<counters, taken, history>>
        /\ Due(Receiver(l)).do = "acknowledge"
    BY <1>18 DEF Acknowledge, metricsVars
  <2>2. Due(Receiver(l)).do \notin Recorder
    BY <2>1, RecorderNames
  <2> QED
    BY <1>7, <1>9, <1>18, <2>1, <2>2
<1>19. ASSUME TakeMetrics, UNCHANGED ghosts PROVE Next(c)
  <2>1. /\ taken = NoSnapshot /\ taken' = counters /\ counters' = ZeroCounters
        /\ UNCHANGED <<todo, history, happened, forgotten>>
    BY <1>19 DEF TakeMetrics, TakeCounters, ghosts
  <2>2. between = 0 /\ Between(taken', c) = counters[c] /\ counters'[c] = 0
    BY <1>0, <2>1 DEF between, Between, ZeroCounters
  <2>3. AllOwed(todo', c) = owed /\ SumFunction(Over(history', Reading(c))) = held
    BY <2>1 DEF owed, held
  <2> QED
    BY <1>3, <1>4, <2>1, <2>2, <2>3 DEF Next, Balanced
<1>20. CASE MCStoreMetrics
  <2> DEFINE kept == IF Len(history) >= MaxHistory THEN Tail(history) ELSE history
             rest == SumFunction(Over(kept, Reading(c)))
  <2>1. /\ taken # NoSnapshot /\ history' = Append(kept, taken) /\ taken' = NoSnapshot
        /\ UNCHANGED <<todo, counters, happened>>
        /\ forgotten' = IF Len(history) < MaxHistory THEN forgotten
                        ELSE Plus(forgotten, Head(history))
    BY <1>20 DEF MCStoreMetrics, StoreMetrics, StoreSnapshot
  <2>2. taken \in RawCounters /\ between = taken[c] /\ Between(taken', c) = 0
    BY <1>0, <2>1 DEF between, Between
  <2>3. Reading(c) \in [RawCounters -> Nat] /\ Reading(c)[taken] = taken[c]
    BY <2>2, AdvanceTyped DEF Reading
  <2>4. Len(history) \in Nat /\ MaxHistory \in Nat \ {0}
    BY <1>0, LenProperties, MetricsAssumption
  <2>5. kept \in Seq(RawCounters) /\ rest + forgotten'[c] = held + forgotten[c] /\ forgotten'[c] \in Nat
    <3>1. CASE Len(history) >= MaxHistory
      <4>1. history # <<>> /\ kept = Tail(history) /\ forgotten' = Plus(forgotten, Head(history))
        BY <2>1, <2>4, <3>1, EmptySeq
      <4>2. /\ Tail(history) \in Seq(RawCounters) /\ Head(history) \in RawCounters
            /\ Head(history) = history[1]
        BY <1>0, <4>1, HeadTailProperties
      <4>3. held = Reading(c)[history[1]] + rest
        BY <1>0, <2>3, <4>1, OverTail DEF held
      <4>4. Reading(c)[history[1]] = Head(history)[c] /\ Head(history)[c] \in Nat
        BY <4>2 DEF Reading, RawCounters
      <4>5. forgotten'[c] = forgotten[c] + Head(history)[c]
        BY <4>1 DEF Plus
      <4>6. rest \in Nat
        BY <2>3, <4>1, <4>2, OverTyped
      <4> HIDE DEF kept, rest
      <4> QED
        BY <1>3, <4>1, <4>2, <4>3, <4>4, <4>5, <4>6, SMTT(30)
    <3>2. CASE Len(history) < MaxHistory
      <4>1. kept = history /\ forgotten' = forgotten
        BY <2>1, <2>4, <3>2
      <4> QED
        BY <1>0, <1>3, <4>1 DEF held
    <3> QED BY <2>4, <3>1, <3>2
  <2> HIDE DEF kept
  <2>6. rest \in Nat
    BY <2>3, <2>5, OverTyped
  <2>7. SumFunction(Over(history', Reading(c))) = rest + taken[c]
    BY <2>1, <2>2, <2>3, <2>5, OverAppend
  <2> HIDE DEF rest
  <2>8. AllOwed(todo', c) = owed
    BY <2>1 DEF owed
  <2>9. happened'[c] = AllOwed(todo', c) + counters'[c] + Between(taken', c)
                           + SumFunction(Over(history', Reading(c))) + forgotten'[c]
    <3>1. happened'[c] = happened[c] /\ counters'[c] = counters[c]
      BY <2>1
    <3>2. taken[c] \in Nat
      BY <2>2 DEF RawCounters
    <3>3. happened[c] = owed + counters[c] + taken[c] + held + forgotten[c]
      BY <1>4, <2>2
    <3>4. happened[c] = owed + counters[c] + taken[c] + rest + forgotten'[c]
      <4>1. held + forgotten[c] = rest + forgotten'[c]
        BY <2>5
      <4>2. /\ held \in Nat /\ rest \in Nat /\ forgotten[c] \in Nat /\ forgotten'[c] \in Nat
            /\ owed \in Nat /\ counters[c] \in Nat
        BY <1>3, <2>5, <2>6
      <4>3. happened[c] = owed + counters[c] + taken[c] + (held + forgotten[c])
        BY <3>2, <3>3, <4>2
      <4> QED
        BY <3>2, <4>1, <4>2, <4>3
    <3>5. happened[c] = owed + counters[c] + 0 + (rest + taken[c]) + forgotten'[c]
      BY <1>3, <2>5, <2>6, <3>2, <3>4
    <3> QED
      BY <2>2, <2>7, <2>8, <3>1, <3>5
  <2> QED
    BY <2>9 DEF Next, Balanced
<1> DEFINE Quiet == UNCHANGED <<todo, counters, taken, history, forgotten, happened>>
<1>21. /\ \A l \in Links, buf \in Datagrams, now \in Times : MCReceiveAck(l, buf, now) => Quiet
       /\ MCCloseWindows => Quiet
       /\ MCClockTicks => Quiet
       /\ \A l \in Links, now \in Times : SendKeepalive(l, now) /\ UNCHANGED ghosts => Quiet
       /\ \A probe \in Probes : SendProbe(probe) /\ UNCHANGED ghosts => Quiet
       /\ UNCHANGED mcvars => Quiet
  BY DEF MCReceiveAck, ReceiveAck, MCCloseWindows, CloseWindows, MCClockTicks, ClockTicks,
         SendKeepalive, SendProbe, metricsVars, ghosts, mcvars, telemetryVars
<1>22. Quiet => Next(c)
  BY <1>6
<1> HIDE DEF Quiet
<1> QED
  BY <1>13, <1>14, <1>15, <1>16, <1>17, <1>18, <1>19, <1>20, <1>21, <1>22 DEF MCNext, Unobserved

\* MetricsAddUp for any number of links, any lengths and any bound of the history: no packet
\* or chunk is lost or counted twice between the two locks of a snapshot.
THEOREM NothingOutsideASnapshot == FairSpec => []MetricsAddUp
<1>1. MCInit => MetricsAddUp
  <2> SUFFICES ASSUME MCInit PROVE MetricsAddUp
    OBVIOUS
  <2>1. /\ todo = [t \in Task |-> <<>>] /\ history = <<>> /\ taken = NoSnapshot
        /\ counters = ZeroCounters /\ happened = ZeroCounters /\ forgotten = ZeroCounters
    BY DEF MCInit, TelemetryInit, MetricsInit
  <2>2. todo \in [Task -> Seq(Todos)] /\ history \in Seq(RawCounters)
    BY <2>1
  <2>3. SUFFICES ASSUME NEW c \in Counter
                 PROVE  Balanced(happened, todo, counters, taken, history, forgotten, c)
    <3>1. SUFFICES ASSUME NEW c \in Counter,
                          Balanced(happened, todo, counters, taken, history, forgotten, c)
                   PROVE  happened[c] =
                            SumFunction([t \in Task |->
                                SumFunction([i \in DOMAIN todo[t] |-> Advances(todo[t][i])[c]])])
                            + counters[c] + (IF taken = NoSnapshot THEN ZeroCounters ELSE taken)[c]
                            + SumFunction([i \in DOMAIN history |-> history[i][c]]) + forgotten[c]
      BY DEF MetricsAddUp, UnrecordedCounters, Remembered
    <3> QED
      BY <2>2, <3>1, BalanceOf DEF Balanced
  <2>4. \A t \in Task : [u \in Task |-> Owed(todo[u], c)][t] = 0
    BY <2>1, OverEmpty DEF Owed
  <2>5. AllOwed(todo, c) = 0
    BY <2>4, TaskFinite, SumOfZeros DEF AllOwed
  <2>6. SumFunction(Over(history, Reading(c))) = 0
    BY <2>1, OverEmpty
  <2>7. ZeroCounters[c] = 0
    BY DEF ZeroCounters
  <2> QED
    BY <2>1, <2>5, <2>6, <2>7 DEF Balanced, Between
<1> QED
  BY <1>1, MetricsStep, TelemetryInvariant, PTL DEF FairSpec

-----------------------------------------------------------------------------
(* The configuration manager *)

USE DEF configVars, Config

\* A configuration on its way to be stored and announced is valid.
PendingValid ==
    \A k \in Callers : call[k] # NoCall /\ call[k].stage \in {"store", "announce"} =>
        Valid(call[k].config)

\* A program that has crashed has no calls under way.
DownIsQuiet == ~running => \A k \in Callers : call[k] = NoCall

ConfigInv == ConfigTypeOK /\ StoredAlwaysValid /\ PendingValid /\ DownIsQuiet

-----------------------------------------------------------------------------

\* The program starts from a file that loads, with no call under way.
LEMMA ConfigInitOK == ConfigInit => ConfigInv
  BY ConfigurationAssumption DEF ConfigInit, ConfigInv, ConfigTypeOK, StoredAlwaysValid, PendingValid,
                                 DownIsQuiet

\* A call that begins with a configuration keeps the invariant, if that configuration
\* is valid or is only saved.
LEMMA EntersOK ==
    ASSUME ConfigInv, NEW k \in Callers, NEW c \in Config, NEW stage \in Stages, Enters(k, stage, c),
           stage \in {"store", "announce"} => Valid(c)
    PROVE  ConfigInv'
<1>1. ConfigTypeOK'
  BY DEF ConfigInv, ConfigTypeOK, Enters, Stages
<1>2. StoredAlwaysValid'
  BY DEF ConfigInv, StoredAlwaysValid, Enters
<1>3. PendingValid'
  BY DEF ConfigInv, ConfigTypeOK, PendingValid, Enters
<1>4. DownIsQuiet'
  BY DEF Enters, DownIsQuiet
<1> QED BY <1>1, <1>2, <1>3, <1>4 DEF ConfigInv

\* A changed parameter leaves a configuration a configuration.
LEMMA ChangedIsConfig ==
    ASSUME NEW c \in Config, NEW path \in Path, NEW v \in Values
    PROVE  [c EXCEPT ![path] = v.value] \in Config
  BY ConfigurationAssumption DEF ParameterValue

\* Every path that set_parameter accepts is one of a configuration.
LEMMA AcceptedIsPath ==
    ASSUME NEW path, NEW v \in Values, Accepts(path, v)
    PROVE  path \in Path
  BY ConfigurationAssumption DEF Accepts, ParameterValue, Path

\* Every operation keeps the invariant.
LEMMA ConfigStepOK == ConfigInv /\ [ConfigNext]_configVars => ConfigInv'
<1> SUFFICES ASSUME ConfigInv, [ConfigNext]_configVars PROVE ConfigInv'
  OBVIOUS
<1>1. ASSUME NEW k \in Callers, NEW path \in Path, NEW v \in Values, SetParameter(k, path, v)
      PROVE  ConfigInv'
  <2> DEFINE copy == [config EXCEPT ![path] = v.value]
  <2>1. copy \in Config
    BY <1>1, ChangedIsConfig DEF ConfigInv, ConfigTypeOK
  <2>2. Valid(copy) /\ Enters(k, "store", copy)
    BY <1>1 DEF SetParameter
  <2> HIDE DEF copy
  <2> QED BY <2>1, <2>2, EntersOK DEF Stages
<1>2. ASSUME NEW k \in Callers, NEW c \in Configs, Update(k, c) PROVE ConfigInv'
  BY <1>2, EntersOK, ConfigurationAssumption DEF Update, Stages
<1>3. ASSUME NEW k \in Callers, Reload(k) PROVE ConfigInv'
  BY <1>3, EntersOK DEF Reload, Loads, ConfigInv, ConfigTypeOK, Stages
<1>4. ASSUME NEW k \in Callers, Save(k) PROVE ConfigInv'
  BY <1>4, EntersOK DEF Save, ConfigInv, ConfigTypeOK, Stages
<1>5. ASSUME NEW k \in Callers, Store(k) PROVE ConfigInv'
  <2>1. ConfigTypeOK'
    BY <1>5 DEF ConfigInv, ConfigTypeOK, Store, At, GoesOn, Stages
  <2>2. StoredAlwaysValid'
    BY <1>5 DEF ConfigInv, StoredAlwaysValid, PendingValid, Store, At
  <2>3. PendingValid'
    BY <1>5 DEF ConfigInv, ConfigTypeOK, PendingValid, Store, At, GoesOn
  <2>4. DownIsQuiet'
    BY <1>5 DEF DownIsQuiet, Store, At
  <2> QED BY <2>1, <2>2, <2>3, <2>4 DEF ConfigInv
<1>6. ASSUME NEW k \in Callers, Announce(k) PROVE ConfigInv'
  <2>1. ConfigTypeOK'
    BY <1>6 DEF ConfigInv, ConfigTypeOK, Announce, At, Returns
  <2>2. StoredAlwaysValid'
    BY <1>6 DEF ConfigInv, StoredAlwaysValid, PendingValid, Announce, At
  <2>3. PendingValid'
    BY <1>6 DEF ConfigInv, ConfigTypeOK, PendingValid, Announce, Returns
  <2>4. DownIsQuiet'
    BY <1>6 DEF DownIsQuiet, Announce, At
  <2> QED BY <2>1, <2>2, <2>3, <2>4 DEF ConfigInv
<1>7. ASSUME NEW k \in Callers, Truncate(k) PROVE ConfigInv'
  <2>1. ConfigTypeOK'
    BY <1>7 DEF ConfigInv, ConfigTypeOK, Truncate, At, GoesOn, Stages
  <2>2. StoredAlwaysValid' /\ PendingValid'
    BY <1>7 DEF ConfigInv, ConfigTypeOK, StoredAlwaysValid, PendingValid, Truncate, At, GoesOn
  <2>3. DownIsQuiet'
    BY <1>7 DEF DownIsQuiet, Truncate, At
  <2> QED BY <2>1, <2>2, <2>3 DEF ConfigInv
<1>8. ASSUME NEW k \in Callers, Write(k) PROVE ConfigInv'
  <2>1. ConfigTypeOK'
    BY <1>8 DEF ConfigInv, ConfigTypeOK, Write, At, Returns
  <2>2. StoredAlwaysValid' /\ PendingValid'
    BY <1>8 DEF ConfigInv, ConfigTypeOK, StoredAlwaysValid, PendingValid, Write, Returns
  <2>3. DownIsQuiet'
    BY <1>8 DEF DownIsQuiet, Write, At
  <2> QED BY <2>1, <2>2, <2>3 DEF ConfigInv
<1>9. ASSUME NEW c \in Configs, Edit(c) PROVE ConfigInv'
  BY <1>9, ConfigurationAssumption
     DEF ConfigInv, ConfigTypeOK, StoredAlwaysValid, PendingValid, DownIsQuiet, Edit
<1>10. CASE Crash
  BY <1>10 DEF ConfigInv, ConfigTypeOK, StoredAlwaysValid, PendingValid, DownIsQuiet,
                 Crash
<1>11. CASE Start
  BY <1>11 DEF ConfigInv, ConfigTypeOK, StoredAlwaysValid, PendingValid, DownIsQuiet,
                 Start, Loads
<1>12. CASE UNCHANGED configVars
  BY <1>12 DEF ConfigInv, ConfigTypeOK, StoredAlwaysValid, PendingValid, DownIsQuiet
<1> QED BY <1>1, <1>2, <1>3, <1>4, <1>5, <1>6, <1>7, <1>8, <1>9, <1>10, <1>11, <1>12 DEF ConfigNext

-----------------------------------------------------------------------------

\* The inductive invariant holds throughout.
THEOREM ConfigInvariance == ConfigSpec => []ConfigInv
<1>1. ConfigInit => ConfigInv BY ConfigInitOK
<1>2. ConfigInv /\ [ConfigNext]_configVars => ConfigInv' BY ConfigStepOK
<1> QED BY <1>1, <1>2, PTL DEF ConfigSpec

\* Type correctness of the configuration manager.
THEOREM ConfigTypeCorrect == ConfigSpec => []ConfigTypeOK
<1>1. ConfigInv => ConfigTypeOK BY DEF ConfigInv
<1> QED BY <1>1, ConfigInvariance, PTL

\* What is stored and what is announced is valid, whatever calls run at once.
THEOREM StoredStaysValid == ConfigSpec => []StoredAlwaysValid
<1>1. ConfigInv => StoredAlwaysValid BY DEF ConfigInv
<1> QED BY <1>1, ConfigInvariance, PTL

-----------------------------------------------------------------------------
(* Calls that nothing overlaps *)

\* While a call is undisturbed it is the only one; what it has stored is what it came
\* for, and what it is about to write over is the file it has emptied.
Alone ==
    \A k \in Callers \cap undisturbed :
        /\ \A j \in Callers : j # k => call[j] = NoCall
        /\ call[k] # NoCall /\ call[k].stage = "announce" => config = call[k].config
        /\ call[k] # NoCall /\ call[k].stage = "write" => file = Torn
        /\ call[k] # NoCall => Valid(call[k].config)

CallsInv == ConfigInv /\ Alone

\* The bounded system only restricts the operations and notes what overlaps.
LEMMA CallsStepIsStep == [CallsNext]_callsVars => [ConfigNext]_configVars
  BY DEF CallsNext, callsVars, ConfigNext, Begins, Goes, Disturbs, MCPaths, Path, Settable,
         Single, Multi

\* A call that begins is undisturbed only if no other is under way.
LEMMA BeginsAlone ==
    ASSUME CallsInv, NEW k \in Callers, NEW c \in Config, NEW stage \in {"store", "truncate"},
           Enters(k, stage, c), Valid(c), undisturbed' = IF Busy = {} THEN {k} ELSE {}
    PROVE  Alone'
  BY DEF CallsInv, ConfigInv, ConfigTypeOK, Alone, Enters, Busy

\* A call that runs alone has done its work when it ends, after any step.
LEMMA AloneStepOK == CallsInv /\ [CallsNext]_callsVars => Alone'
<1> SUFFICES ASSUME CallsInv, [CallsNext]_callsVars PROVE Alone'
  OBVIOUS
<1>1. ASSUME NEW k \in Callers, NEW path \in MCPaths, NEW v \in Values,
             Begins(k, SetParameter(k, path, v))
      PROVE  Alone'
  <2> DEFINE copy == [config EXCEPT ![path] = v.value]
  <2>1. path \in Path
    BY DEF MCPaths, Path, Settable, Single, Multi
  <2>2. copy \in Config
    BY <2>1, ChangedIsConfig DEF CallsInv, ConfigInv, ConfigTypeOK
  <2>3. Valid(copy) /\ Enters(k, "store", copy) /\ undisturbed' = IF Busy = {} THEN {k} ELSE {}
    BY <1>1 DEF Begins, SetParameter
  <2> HIDE DEF copy
  <2> QED BY <2>2, <2>3, BeginsAlone
<1>2. ASSUME NEW k \in Callers, NEW c \in Configs, Begins(k, Update(k, c)) PROVE Alone'
  BY <1>2, BeginsAlone, ConfigurationAssumption DEF Begins, Update
<1>3. ASSUME NEW k \in Callers, Begins(k, Reload(k) \/ Save(k)) PROVE Alone'
  BY <1>3, BeginsAlone
     DEF Begins, Reload, Save, Loads, CallsInv, ConfigInv, ConfigTypeOK, StoredAlwaysValid
<1>4. ASSUME NEW k \in Callers, Goes(Store(k)) PROVE Alone'
  BY <1>4 DEF Goes, Store, At, GoesOn, CallsInv, ConfigInv, ConfigTypeOK, Alone
<1>5. ASSUME NEW k \in Callers, Goes(Announce(k)) PROVE Alone'
  BY <1>5 DEF Goes, Announce, At, Returns, CallsInv, ConfigInv, ConfigTypeOK, Alone
<1>6. ASSUME NEW k \in Callers, Goes(Truncate(k)) PROVE Alone'
  BY <1>6 DEF Goes, Truncate, At, GoesOn, CallsInv, ConfigInv, ConfigTypeOK, Alone
<1>7. ASSUME NEW k \in Callers, Goes(Write(k)) PROVE Alone'
  BY <1>7 DEF Goes, Write, At, Returns, CallsInv, ConfigInv, ConfigTypeOK, Alone
<1>8. ASSUME undisturbed' = {} PROVE Alone'
  BY <1>8 DEF Alone
<1>9. CASE Goes(Start)
  BY <1>9 DEF Goes, Start, CallsInv, ConfigInv, DownIsQuiet, Alone
<1>10. CASE UNCHANGED callsVars
  BY <1>10 DEF callsVars, CallsInv, Alone
<1> QED
  BY <1>1, <1>2, <1>3, <1>4, <1>5, <1>6, <1>7, <1>8, <1>9, <1>10 DEF CallsNext, Disturbs, Goes

\* A call that overlapped no other, no edit and no crash has stored and announced its
\* configuration, or saved a file that loads, when it returns.
THEOREM CallsAloneAreDone == CallsSpec => AloneMeansDone
<1>1. CallsInit => CallsInv
  BY ConfigInitOK DEF CallsInit, CallsInv, Alone
<1>2. CallsInv /\ [CallsNext]_callsVars => CallsInv'
  BY CallsStepIsStep, ConfigStepOK, AloneStepOK DEF CallsInv
<1>3. CallsInv /\ [CallsNext]_callsVars =>
        [\A k \in Callers \cap undisturbed :
            /\ Announce(k) => config' = call[k].config /\ announced' = call[k].config
            /\ Write(k) => Loads']_callsVars
  BY ConfigurationAssumption
     DEF CallsInv, ConfigInv, ConfigTypeOK, Alone, Announce, Write, At, Loads
<1> QED BY <1>1, <1>2, <1>3, PTL DEF CallsSpec, AloneMeansDone
================================================================================
