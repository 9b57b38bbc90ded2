------------------------------ MODULE WireProofs ------------------------------
(***************************************************************************)
(* Proofs about the packets of VoidPresence, for any sets of peers, topics *)
(* and data: what encode() writes is what decode() reads, and what a peer  *)
(* makes of a list of packets that it hears in order.                      *)
(***************************************************************************)
EXTENDS Wire, PresenceLemmas, SequenceTheorems, WellFoundedInduction

------------------------------------------------------------------------------
(* The codec. *)

\* A buffer of two fields with different tags gives both back.
LEMMA TwoFields ==
  ASSUME NEW v, NEW w, NEW buf, buf = << <<1, v>>, <<2, w>> >>, NEW def
  PROVE  Get(buf, 1, def) = v /\ Get(buf, 2, def) = w /\ Has(buf, 2)
<1>1. /\ DOMAIN buf = 1..2
      /\ buf[1][1] = 1 /\ buf[1][2] = v /\ buf[2][1] = 2 /\ buf[2][2] = w
  OBVIOUS
<1>2. Has(buf, 1) /\ Has(buf, 2)
  BY <1>1 DEF Has
<1>3. Final(buf, 1) = 1
  <2>1. 1 \in DOMAIN buf /\ buf[1][1] = 1 /\ \A j \in DOMAIN buf : buf[j][1] = 1 => j <= 1
    BY <1>1
  <2>2. \A i \in DOMAIN buf : buf[i][1] = 1 => i = 1
    BY <1>1
  <2>. QED BY <2>1, <2>2 DEF Final
<1>4. Final(buf, 2) = 2
  <2>1. 2 \in DOMAIN buf /\ buf[2][1] = 2 /\ \A j \in DOMAIN buf : buf[j][1] = 2 => j <= 2
    BY <1>1
  <2>2. \A i \in DOMAIN buf : buf[i][1] = 2 => i = 2
    BY <1>1
  <2>. QED BY <2>1, <2>2 DEF Final
<1>. QED BY <1>1, <1>2, <1>3, <1>4 DEF Get

\* A buffer of one field gives it back.
LEMMA OneField ==
  ASSUME NEW v, NEW buf, buf = << <<1, v>> >>, NEW def
  PROVE  Has(buf, 1) /\ Get(buf, 1, def) = v
<1>1. DOMAIN buf = 1..1 /\ buf[1][1] = 1 /\ buf[1][2] = v
  OBVIOUS
<1>2. Has(buf, 1)
  BY <1>1 DEF Has
<1>3. Final(buf, 1) = 1
  <2>1. 1 \in DOMAIN buf /\ buf[1][1] = 1 /\ \A j \in DOMAIN buf : buf[j][1] = 1 => j <= 1
    BY <1>1
  <2>2. \A i \in DOMAIN buf : buf[i][1] = 1 => i = 1
    BY <1>1
  <2>. QED BY <2>1, <2>2 DEF Final
<1>. QED BY <1>1, <1>2, <1>3 DEF Get

\* Two fields written one after the other.
LEMMA PutTwo ==
  ASSUME NEW v, NEW w
  PROVE  Field(1, v) \o Field(2, w) = << <<1, v>>, <<2, w>> >>
<1>. DEFINE S == {<<1, v>>, <<2, w>>}
            s == << <<1, v>> >>
            t == << <<2, w>> >>
            r == << <<1, v>>, <<2, w>> >>
<1>1. /\ s \in Seq(S) /\ t \in Seq(S) /\ r \in Seq(S)
      /\ Len(s) = 1 /\ Len(t) = 1 /\ Len(r) = 2
      /\ s[1] = r[1] /\ t[1] = r[2]
  OBVIOUS
<1>. HIDE DEF S, s, t, r
<1>2. /\ s \o t \in Seq(S) /\ Len(s \o t) = 2
      /\ (s \o t)[1] = s[1] /\ (s \o t)[2] = t[1]
  BY <1>1, ConcatProperties
<1>3. s \o t = r
  BY <1>1, <1>2, SeqEqual
<1>. QED BY <1>3 DEF Field, s, t, r

\* encode() of a packet with a peer, with data, and with the flag.
LEMMA EncodeGiven ==
  /\ \A q \in Peer : Encode(Connected(q)) = << <<1, 4>>, <<2, q>> >>
  /\ \A q \in Peer : Encode(Disconnected(q)) = << <<1, 5>>, <<2, q>> >>
  /\ \A d \in Data : Encode(Advertise(d)) = << <<1, 8>>, <<2, d>> >>
  /\ \A b \in BOOLEAN : Encode(Persistence(b)) = << <<1, 1>>, <<2, << <<1, b>> >> >> >>
<1>1. ASSUME NEW q \in Peer, NEW type \in {4, 5}, NEW m,
             m = [Blank EXCEPT !.type = type, !.peer = q]
      PROVE  Encode(m) = << <<1, type>>, <<2, q>> >>
  <2>1. q # Null /\ type # Null
    BY NullAssumption
  <2>2. m.type = type /\ m.ephemeral = Null /\ m.bootstrap = Null /\ m.peer = q
    BY <1>1 DEF Blank
  <2>3. Encode(m) = Field(1, type) \o Field(2, q)
    BY <2>1, <2>2 DEF Encode, Put
  <2>. QED BY <2>3, PutTwo
<1>2. ASSUME NEW d \in Data PROVE Encode(Advertise(d)) = << <<1, 8>>, <<2, d>> >>
  <2>. DEFINE m == Advertise(d)
  <2>1. /\ m.type = 8 /\ m.ephemeral = Null /\ m.bootstrap = Null /\ m.peer = Null
        /\ m.topic = Null /\ m.data = d /\ d # Null /\ 8 # Null
    BY <1>2, NullAssumption DEF Advertise, Blank, PacketType
  <2>. HIDE DEF m
  <2>2. Encode(m) = Field(1, 8) \o Field(2, d)
    BY <2>1 DEF Encode, Put
  <2>. QED BY <2>2, PutTwo DEF m
<1>3. ASSUME NEW b \in BOOLEAN
      PROVE  Encode(Persistence(b)) = << <<1, 1>>, <<2, << <<1, b>> >> >> >>
  <2>. DEFINE m == Persistence(b)
              payload == << <<1, b>> >>
  <2>1. m.type = 1 /\ m.ephemeral = b /\ b # Null /\ 1 # Null
    BY <1>3, NullAssumption DEF Persistence, Blank, PacketType
  <2>2. EncodePersistence([ephemeral |-> m.ephemeral]) = payload
    BY <2>1 DEF EncodePersistence, Put, Field
  <2>. HIDE DEF m, payload
  <2>3. Encode(m) = Field(1, 1) \o Field(2, payload)
    BY <2>1, <2>2 DEF Encode, Put
  <2>. QED BY <2>3, PutTwo DEF m, payload
<1>. QED BY <1>1, <1>2, <1>3 DEF Connected, Disconnected, PacketType

\* The numbers of the packets.
LEMMA PacketNumbers ==
  /\ PacketType.PERSISTENT = 1   /\ PacketType.BOOTSTRAP_REQUEST = 2
  /\ PacketType.BOOTSTRAP_RESPONSE = 3
  /\ PacketType.CONNECTED = 4    /\ PacketType.DISCONNECTED = 5
  /\ PacketType.TOPIC_JOIN = 6   /\ PacketType.TOPIC_LEAVE = 7
  /\ PacketType.USER_DATA = 8    /\ PacketType.BROADCAST = 9
  /\ PacketType.MESSAGE = 10
BY DEF PacketType

\* What decode() makes of them.
LEMMA DecodeGiven ==
  /\ \A q \in Peer : LET m == Decode(Encode(Connected(q))) IN m.type = 4 /\ m.peer = q
  /\ \A q \in Peer : LET m == Decode(Encode(Disconnected(q))) IN m.type = 5 /\ m.peer = q
  /\ \A d \in Data : LET m == Decode(Encode(Advertise(d))) IN m.type = 8 /\ m.data = d
  /\ \A b \in BOOLEAN :
       LET m == Decode(Encode(Persistence(b))) IN m.type = 1 /\ m.ephemeral = b
<1>01. \A k \in {"CONNECTED", "DISCONNECTED", "USER_DATA", "PERSISTENT"} : k \in DOMAIN PacketType
  BY DEF PacketType
<1>1. ASSUME NEW q, NEW buf, NEW type \in {4, 5}, buf = << <<1, type>>, <<2, q>> >>
      PROVE  Decode(buf).type = type /\ Decode(buf).peer = q
  <2>1. Get(buf, 1, Null) = type /\ Get(buf, 2, Null) = q
    BY <1>1, TwoFields
  <2>2. Readable(type, buf)
    BY <1>01, <2>1, PacketNumbers DEF Readable
  <2>. QED BY <2>1, <2>2, PacketNumbers DEF Decode
<1>2. ASSUME NEW d, NEW buf, buf = << <<1, 8>>, <<2, d>> >>
      PROVE  Decode(buf).type = 8 /\ Decode(buf).data = d
  <2>1. Get(buf, 1, Null) = 8 /\ Get(buf, 2, Null) = d
    BY <1>2, TwoFields
  <2>2. Readable(8, buf)
    BY <1>01, <2>1, PacketNumbers DEF Readable
  <2>. QED BY <2>1, <2>2, PacketNumbers DEF Decode
<1>3. ASSUME NEW b, NEW buf, buf = << <<1, 1>>, <<2, << <<1, b>> >> >> >>
      PROVE  Decode(buf).type = 1 /\ Decode(buf).ephemeral = b
  <2>. DEFINE payload == << <<1, b>> >>
  <2>1. Has(payload, 1) /\ Get(payload, 1, FALSE) = b
    BY OneField
  <2>. HIDE DEF payload
  <2>2. Get(buf, 1, Null) = 1 /\ Get(buf, 2, Null) = payload /\ Has(buf, 2)
    BY <1>3, TwoFields DEF payload
  <2>3. Readable(1, buf)
    BY <2>1, <2>2, PacketNumbers DEF Readable, ReadablePersistence
  <2>. QED BY <2>1, <2>2, <2>3, PacketNumbers DEF Decode, DecodePersistence
<1>. QED BY <1>1, <1>2, <1>3, EncodeGiven

\* ... and onbroadcast.
LEMMA HeardAsSaid ==
  ASSUME NEW s, NEW p
  PROVE  /\ \A q \in Peer : OnBroadcast(s, p, Encode(Connected(q))) =
              OnConnected(s, p, [type |-> "CONNECTED", peer |-> q])
         /\ \A q \in Peer : OnBroadcast(s, p, Encode(Disconnected(q))) =
              OnDisconnected(s, p, [type |-> "DISCONNECTED", peer |-> q])
         /\ \A d \in Data : OnBroadcast(s, p, Encode(Advertise(d))) =
              OnUserData(s, p, [type |-> "USER_DATA", data |-> d])
         /\ \A b \in BOOLEAN : OnBroadcast(s, p, Encode(Persistence(b))) =
              OnPersistent(s, p, [type |-> "PERSISTENT", ephemeral |-> b])
<1>0. Null # 1 /\ Null # 4 /\ Null # 5 /\ Null # 8
  BY NullAssumption
<1>1. ASSUME NEW buf, Decode(buf).type = 4
      PROVE  OnBroadcast(s, p, buf) =
               OnConnected(s, p, [type |-> "CONNECTED", peer |-> Decode(buf).peer])
  BY <1>0, <1>1, PacketNumbers DEF OnBroadcast
<1>2. ASSUME NEW buf, Decode(buf).type = 5
      PROVE  OnBroadcast(s, p, buf) =
               OnDisconnected(s, p, [type |-> "DISCONNECTED", peer |-> Decode(buf).peer])
  BY <1>0, <1>2, PacketNumbers DEF OnBroadcast
<1>3. ASSUME NEW buf, Decode(buf).type = 8
      PROVE  OnBroadcast(s, p, buf) =
               OnUserData(s, p, [type |-> "USER_DATA", data |-> Decode(buf).data])
  BY <1>0, <1>3, PacketNumbers DEF OnBroadcast
<1>4. ASSUME NEW buf, Decode(buf).type = 1
      PROVE  OnBroadcast(s, p, buf) =
               OnPersistent(s, p, [type |-> "PERSISTENT", ephemeral |-> Decode(buf).ephemeral])
  BY <1>0, <1>4, PacketNumbers DEF OnBroadcast
<1>. QED BY <1>1, <1>2, <1>3, <1>4, DecodeGiven

------------------------------------------------------------------------------
(* Buffers. *)

IsBuffer(buf) == \E S : buf \in Seq(S)

\* The fields of the buffer with this tag have the values of S, each once.
Holds(buf, tag, S) ==
  /\ IsBuffer(buf)
  /\ \A i \in DOMAIN buf : buf[i][1] = tag => buf[i][2] \in S
  /\ \A v \in S : \E i \in DOMAIN buf :
       /\ buf[i][1] = tag /\ buf[i][2] = v
       /\ \A j \in DOMAIN buf : buf[j][1] = tag /\ buf[j][2] = v => j = i

\* The length of a buffer, and its fields.
LEMMA BufferDomain ==
  ASSUME NEW buf, IsBuffer(buf)
  PROVE  Len(buf) \in Nat /\ DOMAIN buf = 1..Len(buf)
<1>1. PICK S : buf \in Seq(S)
  BY DEF IsBuffer
<1>. QED BY <1>1, LenProperties

\* A field that is there once is read.
LEMMA HoldsOne ==
  ASSUME NEW buf, NEW tag, NEW v, Holds(buf, tag, {v}), NEW def
  PROVE  Has(buf, tag) /\ Get(buf, tag, def) = v
<1>1. PICK i \in DOMAIN buf :
        /\ buf[i][1] = tag /\ buf[i][2] = v
        /\ \A j \in DOMAIN buf : buf[j][1] = tag /\ buf[j][2] = v => j = i
  BY DEF Holds
<1>2. \A j \in DOMAIN buf : buf[j][1] = tag => j = i
  BY <1>1 DEF Holds
<1>3. \A j \in DOMAIN buf : j \in Int
  BY BufferDomain DEF Holds
<1>4. \A j \in DOMAIN buf : buf[j][1] = tag => j <= i
  BY <1>2, <1>3
<1>5. Final(buf, tag) = i
  BY <1>1, <1>2, <1>4 DEF Final
<1>. QED BY <1>1, <1>5 DEF Has, Get

\* A field that is not there has its default.
LEMMA HoldsNone ==
  ASSUME NEW buf, NEW tag, Holds(buf, tag, {}), NEW def
  PROVE  ~Has(buf, tag) /\ Get(buf, tag, def) = def
BY DEF Holds, Has, Get

\* The values of a repeated field.
LEMMA HoldsValues ==
  ASSUME NEW buf, NEW tag, NEW S, Holds(buf, tag, S)
  PROVE  Range(Values(buf, tag)) = S
BY DEF Holds, Values, Range

\* One buffer behind the other.
LEMMA HoldsBoth ==
  ASSUME NEW r, NEW s, NEW tag, NEW S, NEW T, S \cap T = {},
         Holds(r, tag, S), Holds(s, tag, T)
  PROVE  Holds(r \o s, tag, S \cup T)
<1>1. PICK A : r \in Seq(A)
  BY DEF Holds, IsBuffer
<1>2. PICK B : s \in Seq(B)
  BY DEF Holds, IsBuffer
<1>3. r \in Seq(A \cup B) /\ s \in Seq(A \cup B)
  BY <1>1, <1>2, SeqMonotonic
<1>. DEFINE t == r \o s
<1>4. /\ t \in Seq(A \cup B) /\ Len(t) = Len(r) + Len(s)
      /\ \A i \in 1..Len(r) + Len(s) : t[i] = IF i <= Len(r) THEN r[i] ELSE s[i - Len(r)]
  BY <1>3, ConcatProperties
<1>5. /\ Len(r) \in Nat /\ DOMAIN r = 1..Len(r)
      /\ Len(s) \in Nat /\ DOMAIN s = 1..Len(s)
      /\ DOMAIN t = 1..Len(r) + Len(s)
  BY <1>3, <1>4, LenProperties
<1>. HIDE DEF t
<1>6. \A i \in DOMAIN t :
        \/ i \in DOMAIN r /\ t[i] = r[i]
        \/ i - Len(r) \in DOMAIN s /\ t[i] = s[i - Len(r)]
  BY <1>4, <1>5
<1>7. \A i \in DOMAIN t : t[i][1] = tag => t[i][2] \in S \cup T
  BY <1>6 DEF Holds
<1>8. ASSUME NEW v \in S
      PROVE  \E i \in DOMAIN t :
               /\ t[i][1] = tag /\ t[i][2] = v
               /\ \A j \in DOMAIN t : t[j][1] = tag /\ t[j][2] = v => j = i
  <2>1. PICK i \in DOMAIN r :
          /\ r[i][1] = tag /\ r[i][2] = v
          /\ \A j \in DOMAIN r : r[j][1] = tag /\ r[j][2] = v => j = i
    BY <1>8 DEF Holds
  <2>2. i \in DOMAIN t /\ t[i] = r[i]
    BY <1>4, <1>5
  <2>3. \A j \in DOMAIN s : s[j][1] = tag => s[j][2] # v
    BY <1>8 DEF Holds
  <2>. QED BY <1>6, <2>1, <2>2, <2>3
<1>9. ASSUME NEW v \in T
      PROVE  \E i \in DOMAIN t :
               /\ t[i][1] = tag /\ t[i][2] = v
               /\ \A j \in DOMAIN t : t[j][1] = tag /\ t[j][2] = v => j = i
  <2>1. PICK i \in DOMAIN s :
          /\ s[i][1] = tag /\ s[i][2] = v
          /\ \A j \in DOMAIN s : s[j][1] = tag /\ s[j][2] = v => j = i
    BY <1>9 DEF Holds
  <2>. DEFINE k == i + Len(r)
  <2>2. k \in DOMAIN t /\ t[k] = s[i]
    BY <1>4, <1>5
  <2>3. \A j \in DOMAIN r : r[j][1] = tag => r[j][2] # v
    BY <1>9 DEF Holds
  <2>4. ASSUME NEW j \in DOMAIN t, t[j][1] = tag, t[j][2] = v
        PROVE  j = k
    <3>1. j - Len(r) \in DOMAIN s /\ t[j] = s[j - Len(r)]
      BY <1>6, <2>3, <2>4
    <3>2. j - Len(r) = i
      BY <2>1, <2>4, <3>1
    <3>. QED BY <1>5, <3>2
  <2>. QED BY <2>1, <2>2, <2>4
<1>. QED BY <1>4, <1>7, <1>8, <1>9 DEF Holds, IsBuffer, t

\* A field as it is written.
LEMMA FieldHolds ==
  ASSUME NEW tag, NEW v
  PROVE  /\ Holds(Field(tag, v), tag, {v})
         /\ \A other : other # tag => Holds(Field(tag, v), other, {})
<1>. DEFINE f == Field(tag, v)
<1>1. f \in Seq({<<tag, v>>}) /\ DOMAIN f = {1} /\ f[1] = <<tag, v>>
  BY DEF Field
<1>. HIDE DEF f
<1>. QED BY <1>1 DEF Holds, IsBuffer, f

\* A field that is left out.
LEMMA EmptyHolds == \A tag : Holds(<<>>, tag, {})
<1>1. <<>> \in Seq({}) /\ DOMAIN <<>> = {}
  BY EmptySeq
<1>. QED BY <1>1 DEF Holds, IsBuffer

\* A sequence of the members of a finite set holds each of them once.
LEMMA SetToSeqLists ==
  ASSUME NEW S, IsFiniteSet(S)
  PROVE  /\ SetToSeq(S) \in Seq(S)
         /\ \A x \in S : \E i \in DOMAIN SetToSeq(S) : SetToSeq(S)[i] = x
         /\ \A i, j \in DOMAIN SetToSeq(S) : SetToSeq(S)[i] = SetToSeq(S)[j] => i = j
<1>. DEFINE n == Cardinality(S)
            s == SetToSeq(S)
<1>1. n \in Nat /\ ExistsBijection(1..n, S)
  BY FS_CardinalityType
<1>2. \E f \in [1..n -> S] : IsInjective(f)
  BY <1>1 DEF ExistsBijection, Bijection, Injection, IsInjective
<1>3. s \in [1..n -> S] /\ IsInjective(s)
  BY <1>2 DEF SetToSeq
<1>. HIDE DEF s
<1>4. s \in Injection(1..n, S)
  BY <1>3 DEF Injection, IsInjective
<1>5. Cardinality(1..n) = n
  BY <1>1, FS_Interval
<1>6. s \in Surjection(1..n, S)
  BY <1>4, <1>5, FS_Injection
<1>. HIDE DEF n
<1>7. s \in Seq(S)
  BY <1>1, <1>3
<1>8. DOMAIN s = 1..n
  BY <1>3
<1>. QED BY <1>3, <1>6, <1>7, <1>8 DEF Surjection, IsInjective, s

\* The image of a finite set under a function.
LEMMA FiniteImage ==
  ASSUME NEW f, IsFiniteSet(DOMAIN f)
  PROVE  IsFiniteSet({f[x] : x \in DOMAIN f})
<1>. DEFINE T == {f[x] : x \in DOMAIN f}
            g == [x \in DOMAIN f |-> f[x]]
<1>1. g \in Surjection(DOMAIN f, T)
  BY DEF Surjection
<1>. QED BY <1>1, FS_Surjection

\* A repeated field as it is written.
LEMMA RepeatHolds ==
  ASSUME NEW tag, NEW S, IsFiniteSet(S)
  PROVE  /\ Holds(Repeat(tag, S), tag, S)
         /\ \A other : other # tag => Holds(Repeat(tag, S), other, {})
<1>. DEFINE f == [v \in S |-> <<tag, v>>]
            F == {<<tag, v>> : v \in S}
            s == SetToSeq(F)
<1>1. DOMAIN f = S /\ F = {f[v] : v \in DOMAIN f}
  OBVIOUS
<1>. HIDE DEF f, F
<1>2. IsFiniteSet(F)
  BY <1>1, FiniteImage
<1>3. /\ s \in Seq(F)
      /\ \A x \in F : \E i \in DOMAIN s : s[i] = x
      /\ \A i, j \in DOMAIN s : s[i] = s[j] => i = j
  BY <1>2, SetToSeqLists
<1>4. \A i \in DOMAIN s : s[i] \in F
  BY <1>3, LenProperties, ElementOfSeq
<1>5. Repeat(tag, S) = s
  BY DEF Repeat, F
<1>. HIDE DEF s
<1>6. \A i \in DOMAIN s : \E v \in S : s[i] = <<tag, v>> /\ s[i][1] = tag /\ s[i][2] = v
  BY <1>4 DEF F
<1>7. ASSUME NEW v \in S
      PROVE  \E i \in DOMAIN s :
               /\ s[i][1] = tag /\ s[i][2] = v
               /\ \A j \in DOMAIN s : s[j][1] = tag /\ s[j][2] = v => j = i
  <2>1. PICK i \in DOMAIN s : s[i] = <<tag, v>>
    BY <1>3 DEF F
  <2>2. \A j \in DOMAIN s : s[j][2] = v => s[j] = <<tag, v>>
    BY <1>6
  <2>. QED BY <1>3, <2>1, <2>2
<1>. QED BY <1>3, <1>5, <1>6, <1>7 DEF Holds, IsBuffer

\* There is one way to list nothing.
LEMMA NothingToList == SetToSeq({}) = <<>>
<1>1. Cardinality({}) = 0
  BY FS_EmptySet
<1>2. <<>> \in [1..0 -> {}] /\ IsInjective(<<>>)
  BY EmptySeq DEF IsInjective
<1>3. SetToSeq({}) \in [1..0 -> {}]
  BY <1>1, <1>2 DEF SetToSeq
<1>. QED BY <1>3, EmptySeq

\* A field that may be left out.
LEMMA PutHolds ==
  ASSUME NEW tag, NEW v, v # Null
  PROVE  Holds(Put(tag, v), tag, {v})
BY FieldHolds DEF Put

\* Fields of another tag.
LEMMA OtherHolds ==
  ASSUME NEW tag, NEW other, tag # other, NEW v
  PROVE  Holds(Put(tag, v), other, {}) /\ Holds(Field(tag, v), other, {})
BY FieldHolds, EmptyHolds DEF Put

\* The fields of one tag, before, between and behind fields of others.
LEMMA HoldsAmong ==
  ASSUME NEW q, NEW r, NEW s, NEW tag, NEW S, Holds(s, tag, S)
  PROVE  /\ Holds(q, tag, {}) => Holds(q \o s, tag, S) /\ Holds(s \o q, tag, S)
         /\ Holds(q, tag, {}) /\ Holds(r, tag, {}) =>
              /\ Holds((s \o q) \o r, tag, S)
              /\ Holds((q \o s) \o r, tag, S)
              /\ Holds((q \o r) \o s, tag, S)
<1>1. ASSUME NEW a, NEW b, Holds(a, tag, {}), Holds(b, tag, S)
      PROVE  Holds(a \o b, tag, S) /\ Holds(b \o a, tag, S)
  <2>1. {} \cup S = S /\ S \cup {} = S /\ {} \cap S = {} /\ S \cap {} = {}
    OBVIOUS
  <2>2. Holds(a \o b, tag, {} \cup S) /\ Holds(b \o a, tag, S \cup {})
    BY <1>1, <2>1, HoldsBoth
  <2>. QED BY <2>1, <2>2
<1>2. ASSUME NEW a, NEW b, Holds(a, tag, {}), Holds(b, tag, {})
      PROVE  Holds(a \o b, tag, {})
  <2>1. {} \cup {} = {} /\ {} \cap {} = {}
    OBVIOUS
  <2>2. Holds(a \o b, tag, {} \cup {})
    BY <1>2, <2>1, HoldsBoth
  <2>. QED BY <2>1, <2>2
<1>. QED BY <1>1, <1>2

------------------------------------------------------------------------------
(* The messages of schema.js. *)

\* A topic: its name and its two roles.
LEMMA TopicSurvives ==
  ASSUME NEW m, m.name # Null, m.server # Null, m.client # Null
  PROVE  DecodeTopic(EncodeTopic(m)) =
           [name |-> m.name, server |-> m.server, client |-> m.client]
<1>. DEFINE buf == EncodeTopic(m)
<1>1. buf = (Put(1, m.name) \o Put(2, m.server)) \o Put(3, m.client)
  BY DEF EncodeTopic
<1>2. /\ Holds(Put(1, m.name), 1, {m.name})     /\ Holds(Put(1, m.name), 2, {})
      /\ Holds(Put(1, m.name), 3, {})
      /\ Holds(Put(2, m.server), 2, {m.server}) /\ Holds(Put(2, m.server), 1, {})
      /\ Holds(Put(2, m.server), 3, {})
      /\ Holds(Put(3, m.client), 3, {m.client}) /\ Holds(Put(3, m.client), 1, {})
      /\ Holds(Put(3, m.client), 2, {})
  BY PutHolds, OtherHolds
<1>. HIDE DEF buf
<1>3. Holds(buf, 1, {m.name}) /\ Holds(buf, 2, {m.server}) /\ Holds(buf, 3, {m.client})
  BY <1>1, <1>2, HoldsAmong
<1>4. /\ Get(buf, 1, "") = m.name /\ Get(buf, 2, FALSE) = m.server
      /\ Get(buf, 3, FALSE) = m.client
  BY <1>3, HoldsOne
<1>. QED BY <1>4 DEF DecodeTopic, buf

\* Null and "" are told apart.
LEMMA NameSurvives ==
  ASSUME NEW n \in TopicName
  PROVE  NameOut(n) # Null /\ NameOut(n) \in Name \cup {""} /\ NameIn(NameOut(n)) = n
BY EmptyNameAssumption, NameAssumption DEF NameOut, NameIn, TopicName

\* The entry of a map for a key.
MapEntry(k, v) == Put(1, k) \o Field(2, v)

\* It gives the key and the value back.
LEMMA EntrySurvives ==
  ASSUME NEW k, k # Null, NEW v
  PROVE  /\ Has(MapEntry(k, v), 1) /\ Get(MapEntry(k, v), 1, "") = k
         /\ Get(MapEntry(k, v), 2, <<>>) = v
<1>1. /\ Holds(Put(1, k), 1, {k})   /\ Holds(Put(1, k), 2, {})
      /\ Holds(Field(2, v), 2, {v}) /\ Holds(Field(2, v), 1, {})
  BY PutHolds, OtherHolds, FieldHolds
<1>2. Holds(MapEntry(k, v), 1, {k}) /\ Holds(MapEntry(k, v), 2, {v})
  BY <1>1, HoldsAmong DEF MapEntry
<1>. QED BY <1>2, HoldsOne

\* A map among other fields: every key with its value, and no other.
LEMMA MapSurvives ==
  ASSUME NEW map, Null \notin DOMAIN map, NEW buf, NEW tag,
         Holds(buf, tag, {MapEntry(k, map[k]) : k \in DOMAIN map})
  PROVE  DecodeMap(buf, tag) = [k \in DOMAIN map |-> map[k]] /\ KeysGiven(buf, tag)
<1>. DEFINE E == {MapEntry(k, map[k]) : k \in DOMAIN map}
            entries == Values(buf, tag)
            Key(i) == Get(entries[i], 1, "")
            Entry(k) == CHOOSE i \in DOMAIN entries :
                          Key(i) = k /\ \A j \in DOMAIN entries : Key(j) = k => j <= i
<1>1. /\ \A i \in DOMAIN entries : i \in DOMAIN buf /\ buf[i][1] = tag /\ entries[i] = buf[i][2]
      /\ \A i \in DOMAIN buf : buf[i][1] = tag => i \in DOMAIN entries
  BY DEF Values
<1>2. \A i \in DOMAIN buf : i \in Int
  BY BufferDomain DEF Holds
<1>. HIDE DEF entries
<1>3. ASSUME NEW k \in DOMAIN map
      PROVE  /\ Has(MapEntry(k, map[k]), 1) /\ Get(MapEntry(k, map[k]), 1, "") = k
             /\ Get(MapEntry(k, map[k]), 2, <<>>) = map[k]
  BY EntrySurvives
<1>4. ASSUME NEW i \in DOMAIN entries
      PROVE  \E k \in DOMAIN map : entries[i] = MapEntry(k, map[k]) /\ Key(i) = k
  <2>1. entries[i] \in E
    BY <1>1 DEF Holds
  <2>2. PICK k \in DOMAIN map : entries[i] = MapEntry(k, map[k])
    BY <2>1
  <2>3. Key(i) = k
    BY <1>3, <2>2
  <2>. QED BY <2>2, <2>3
<1>5. ASSUME NEW k \in DOMAIN map
      PROVE  \E i \in DOMAIN entries :
               /\ entries[i] = MapEntry(k, map[k]) /\ Key(i) = k
               /\ \A j \in DOMAIN entries : Key(j) = k => j = i
  <2>1. PICK i \in DOMAIN buf :
          /\ buf[i][1] = tag /\ buf[i][2] = MapEntry(k, map[k])
          /\ \A j \in DOMAIN buf : buf[j][1] = tag /\ buf[j][2] = MapEntry(k, map[k]) => j = i
    BY DEF Holds
  <2>2. i \in DOMAIN entries /\ entries[i] = MapEntry(k, map[k]) /\ Key(i) = k
    BY <1>1, <1>3, <2>1
  <2>3. ASSUME NEW j \in DOMAIN entries, Key(j) = k PROVE j = i
    BY <1>1, <1>4, <2>1, <2>3
  <2>. QED BY <2>2, <2>3
<1>6. {Key(i) : i \in DOMAIN entries} = DOMAIN map
  BY <1>4, <1>5
<1>7. ASSUME NEW k \in DOMAIN map
      PROVE  Get(entries[Entry(k)], 2, <<>>) = map[k]
  <2>1. PICK i \in DOMAIN entries :
          /\ entries[i] = MapEntry(k, map[k]) /\ Key(i) = k
          /\ \A j \in DOMAIN entries : Key(j) = k => j = i
    BY <1>5
  <2>2. i \in Int /\ \A j \in DOMAIN entries : Key(j) = k => j <= i
    <3>1. i \in Int
      BY <1>1, <1>2
    <3>. HIDE DEF Key
    <3>. QED BY <2>1, <3>1
  <2>3. \E l \in DOMAIN entries : Key(l) = k /\ \A j \in DOMAIN entries : Key(j) = k => j <= l
    BY <2>1, <2>2
  <2>4. Entry(k) \in DOMAIN entries /\ Key(Entry(k)) = k
    BY <2>3
  <2>. HIDE DEF Entry
  <2>5. Entry(k) = i
    BY <2>1, <2>4
  <2>6. entries[Entry(k)] = MapEntry(k, map[k])
    BY <2>1, <2>5
  <2>. QED BY <1>3, <2>6
<1>8. KeysGiven(buf, tag)
  BY <1>3, <1>4 DEF KeysGiven, entries
<1>9. DecodeMap(buf, tag) = [k \in {Key(i) : i \in DOMAIN entries} |-> Get(entries[Entry(k)], 2, <<>>)]
  BY DEF DecodeMap, entries
<1>. HIDE DEF Key, Entry
<1>. QED BY <1>6, <1>7, <1>8, <1>9

\* The map as it is written.
LEMMA MapHolds ==
  ASSUME NEW map, IsFiniteSet(DOMAIN map), NEW tag
  PROVE  /\ Holds(EncodeMap(tag, map), tag, {MapEntry(k, map[k]) : k \in DOMAIN map})
         /\ \A other : other # tag => Holds(EncodeMap(tag, map), other, {})
<1>. DEFINE f == [k \in DOMAIN map |-> MapEntry(k, map[k])]
            E == {MapEntry(k, map[k]) : k \in DOMAIN map}
<1>1. DOMAIN f = DOMAIN map /\ E = {f[k] : k \in DOMAIN f}
  OBVIOUS
<1>. HIDE DEF f
<1>2. IsFiniteSet(E)
  BY <1>1, FiniteImage
<1>3. EncodeMap(tag, map) = Repeat(tag, E)
  BY DEF EncodeMap, MapEntry
<1>. HIDE DEF E
<1>4. /\ Holds(Repeat(tag, E), tag, E)
      /\ \A other : other # tag => Holds(Repeat(tag, E), other, {})
  BY <1>2, RepeatHolds
<1>. QED BY <1>3, <1>4 DEF E

\* What _bootstrapper writes of a topic without a role is the default.
Plain(b) == \A t \in Topic : ~Listed(b.topics[t]) => b.topics[t] = NoMeta

\* One peer of a bootstrap response.
LEMMA PeerSurvives ==
  ASSUME NEW b \in BootstrapPeer, Plain(b)
  PROVE  /\ DecodeBootstrapPeer(EncodeBootstrapPeer(b)) = b
         /\ KeysGiven(EncodeBootstrapPeer(b), 2)
<1>. DEFINE Told   == {u \in Topic : Listed(b.topics[u])}
            named(t)  == [b.topics[t] EXCEPT !.name = NameOut(@)]
            listed == [t \in Told |-> EncodeTopic(named(t))]
            buf    == EncodeBootstrapPeer(b)
            Meant(m) == [name |-> NameIn(m.name), client |-> m.client, server |-> m.server]
<1>1. /\ b.connected \in SUBSET Peer /\ b.topics \in [Topic -> Meta] /\ b.data \in Data
      /\ b = [connected |-> b.connected, topics |-> b.topics, data |-> b.data]
  BY DEF BootstrapPeer
<1>2. buf = (Repeat(1, b.connected) \o EncodeMap(2, listed)) \o Put(3, b.data)
  BY DEF EncodeBootstrapPeer
<1>3. DOMAIN listed = Told /\ IsFiniteSet(Told) /\ Null \notin Told /\ IsFiniteSet(b.connected)
  BY <1>1, TopicAssumption, PeerAssumption, FS_Subset
<1>. HIDE DEF buf
<1>4. ASSUME NEW t \in Topic
      PROVE  Meant(DecodeTopic(EncodeTopic(named(t)))) = b.topics[t]
  <2>. DEFINE m == named(t)
  <2>1. /\ b.topics[t] = [name |-> b.topics[t].name, client |-> b.topics[t].client,
                          server |-> b.topics[t].server]
        /\ b.topics[t].name \in TopicName
        /\ b.topics[t].client \in BOOLEAN /\ b.topics[t].server \in BOOLEAN
    BY <1>1 DEF Meta
  <2>2. /\ m.name = NameOut(b.topics[t].name) /\ m.client = b.topics[t].client
        /\ m.server = b.topics[t].server
    BY <2>1
  <2>. HIDE DEF m
  <2>3. m.name # Null /\ m.client # Null /\ m.server # Null
    BY <2>1, <2>2, NameSurvives, NullAssumption
  <2>4. DecodeTopic(EncodeTopic(m)) = [name |-> m.name, server |-> m.server, client |-> m.client]
    BY <2>3, TopicSurvives
  <2>5. NameIn(m.name) = b.topics[t].name
    BY <2>1, <2>2, NameSurvives
  <2>6. Meant(DecodeTopic(EncodeTopic(m))) = b.topics[t]
    BY <2>1, <2>2, <2>4, <2>5
  <2>. QED BY <2>6 DEF m
<1>. HIDE DEF named, Meant
<1>5. \A t \in Told : listed[t] = EncodeTopic(named(t))
  OBVIOUS
<1>. HIDE DEF listed, Told
<1>. DEFINE entries == {MapEntry(t, listed[t]) : t \in DOMAIN listed}
<1>6. /\ Holds(Repeat(1, b.connected), 1, b.connected) /\ Holds(Repeat(1, b.connected), 2, {})
      /\ Holds(Repeat(1, b.connected), 3, {})
  BY <1>3, RepeatHolds
<1>7. /\ Holds(EncodeMap(2, listed), 2, entries) /\ Holds(EncodeMap(2, listed), 1, {})
      /\ Holds(EncodeMap(2, listed), 3, {})
  <2>1. IsFiniteSet(DOMAIN listed)
    BY <1>3
  <2>2. \A other : other # 2 => Holds(EncodeMap(2, listed), other, {})
    BY <2>1, MapHolds
  <2>3. Holds(EncodeMap(2, listed), 2, entries)
    BY <2>1, MapHolds
  <2>. QED BY <2>2, <2>3
<1>. HIDE DEF entries
<1>8. /\ Holds(Put(3, b.data), 3, {b.data}) /\ Holds(Put(3, b.data), 1, {})
      /\ Holds(Put(3, b.data), 2, {})
  BY <1>1, NullAssumption, PutHolds, OtherHolds
<1>9. Holds(buf, 1, b.connected) /\ Holds(buf, 2, entries) /\ Holds(buf, 3, {b.data})
  BY <1>2, <1>6, <1>7, <1>8, HoldsAmong
<1>10. Range(Values(buf, 1)) = b.connected /\ Get(buf, 3, Null) = b.data
  BY <1>9, HoldsValues, HoldsOne
<1>11. DecodeMap(buf, 2) = [t \in DOMAIN listed |-> listed[t]] /\ KeysGiven(buf, 2)
  BY <1>3, <1>9, MapSurvives DEF entries
<1>. DEFINE read == DecodeMap(buf, 2)
            topics == [t \in Topic |-> IF t \in DOMAIN read THEN Meant(DecodeTopic(read[t]))
                                                             ELSE NoMeta]
<1>12. DecodeBootstrapPeer(buf) = [connected |-> Range(Values(buf, 1)), topics |-> topics,
                                   data |-> Get(buf, 3, Null)]
  BY DEF DecodeBootstrapPeer, Meant
<1>13. DOMAIN read = Told /\ \A t \in Told : read[t] = EncodeTopic(named(t))
  BY <1>3, <1>5, <1>11
<1>. HIDE DEF read
<1>14. \A t \in Topic : topics[t] = b.topics[t]
  <2>. TAKE t \in Topic
  <2>1. CASE t \in Told
    BY <1>4, <1>13, <2>1
  <2>2. CASE t \notin Told
    BY <1>13, <2>2 DEF Plain, Told
  <2>. QED BY <2>1, <2>2
<1>15. topics = b.topics
  BY <1>1, <1>14
<1>. HIDE DEF topics
<1>. QED BY <1>1, <1>10, <1>11, <1>12, <1>15 DEF buf

\* encode() and decode() of a bootstrap response.
LEMMA ResponseSurvives ==
  ASSUME NEW D \in SUBSET Peer, NEW b \in [D -> BootstrapPeer], \A p \in D : Plain(b[p])
  PROVE  Decode(Encode(BootstrapResponse(b))).bootstrap = b
<1>. DEFINE m == BootstrapResponse(b)
            map == [p \in D |-> EncodeBootstrapPeer(b[p])]
            payload == EncodeBootstrap(b)
            entries == {MapEntry(p, map[p]) : p \in DOMAIN map}
            buf == << <<1, 3>>, <<2, payload>> >>
<1>1. b # Null /\ 3 # Null /\ Null \notin D
  <2>1. Null \notin [D -> BootstrapPeer]
    BY PayloadAssumption
  <2>. QED BY <2>1, NullAssumption
<1>2. Encode(m) = buf
  <2>1. m.type = 3 /\ m.ephemeral = Null /\ m.bootstrap = b
    BY PacketNumbers DEF BootstrapResponse, Blank
  <2>. HIDE DEF m, payload
  <2>2. Encode(m) = Field(1, 3) \o Field(2, payload)
    BY <1>1, <2>1 DEF Encode, Put, payload
  <2>. QED BY <2>2, PutTwo
<1>3. \A p \in D : /\ DecodeBootstrapPeer(map[p]) = b[p]
                   /\ KeysGiven(map[p], 2)
  BY PeerSurvives
<1>4. payload = EncodeMap(1, map) /\ DOMAIN map = D /\ IsFiniteSet(D)
  BY PeerAssumption, FS_Subset DEF EncodeBootstrap
<1>. HIDE DEF map, payload
<1>5. Holds(payload, 1, entries)
  BY <1>4, MapHolds
<1>6. DecodeMap(payload, 1) = [p \in DOMAIN map |-> map[p]] /\ KeysGiven(payload, 1)
  BY <1>1, <1>4, <1>5, MapSurvives
<1>7. DecodeBootstrap(payload) = b
  <2>. DEFINE read == DecodeMap(payload, 1)
  <2>1. DOMAIN read = D /\ \A p \in D : read[p] = map[p]
    BY <1>4, <1>6
  <2>2. DecodeBootstrap(payload) = [p \in DOMAIN read |-> DecodeBootstrapPeer(read[p])]
    BY DEF DecodeBootstrap
  <2>. HIDE DEF read
  <2>3. DecodeBootstrap(payload) = [p \in D |-> b[p]]
    BY <1>3, <2>1, <2>2
  <2>. QED BY <2>3
<1>8. ReadableBootstrap(payload)
  <2>1. Range(Values(payload, 1)) = entries
    BY <1>5, HoldsValues
  <2>2. ASSUME NEW p \in DOMAIN map PROVE KeysGiven(Get(MapEntry(p, map[p]), 2, <<>>), 2)
    <3>1. Get(MapEntry(p, map[p]), 2, <<>>) = map[p]
      BY <1>1, <1>4, EntrySurvives
    <3>. QED BY <1>3, <1>4, <3>1
  <2>3. \A e \in entries : KeysGiven(Get(e, 2, <<>>), 2)
    BY <2>2
  <2>. HIDE DEF entries
  <2>. QED BY <1>6, <2>1, <2>3 DEF ReadableBootstrap
<1>9. Get(buf, 1, Null) = 3 /\ Get(buf, 2, Null) = payload /\ Has(buf, 2)
  BY TwoFields
<1>. HIDE DEF buf, m
<1>10. Readable(3, buf)
  BY <1>8, <1>9, PacketNumbers DEF Readable
<1>11. Decode(buf).bootstrap = b
  BY <1>7, <1>9, <1>10, PacketNumbers DEF Decode
<1>. QED BY <1>2, <1>11 DEF m

\* _bootstrapper lists the nodes with their topics.
LEMMA BootstrapperPlain ==
  ASSUME NEW s, Settled(s)
  PROVE  /\ Bootstrapper(s) \in [s.nodes -> BootstrapPeer]
         /\ \A p \in s.nodes : Plain(Bootstrapper(s)[p])
<1>. SUFFICES ASSUME NEW p \in s.nodes
              PROVE  Bootstrapper(s)[p] \in BootstrapPeer /\ Plain(Bootstrapper(s)[p])
  BY DEF Bootstrapper
<1>. DEFINE a == s.attr[p]
            NameOf(t) == IF a.announcing[t] # Absent THEN a.announcing[t]
                         ELSE IF a.lookingup[t] # Absent THEN a.lookingup[t]
                         ELSE Null
            topics == [t \in Topic |-> [name   |-> NameOf(t),
                                        client |-> a.lookingup[t] # Absent,
                                        server |-> a.announcing[t] # Absent]]
<1>1. a \in Attr
  BY DEF Settled, Sound, State
<1>2. Bootstrapper(s)[p] = [connected |-> a.connected, topics |-> topics, data |-> a.data]
  BY DEF Bootstrapper
<1>3. \A t \in Topic : NameOf(t) \in TopicName
  BY <1>1 DEF Attr, SubMap, TopicName
<1>. HIDE DEF NameOf
<1>4. topics \in [Topic -> Meta]
  BY <1>3 DEF Meta
<1>5. \A t \in Topic : ~Listed(topics[t]) => topics[t] = NoMeta
  BY DEF Listed, NoMeta, NameOf
<1>. HIDE DEF topics, a
<1>6. a.connected \in SUBSET Peer /\ a.data \in Data
  BY <1>1 DEF Attr
<1>. QED BY <1>2, <1>4, <1>5, <1>6 DEF BootstrapPeer, Plain

\* A topic's roles: the packets of join and leave, as onbroadcast takes them.
LEMMA RolesSurvive ==
  ASSUME NEW s, NEW p, NEW t \in Topic
  PROVE  /\ \A n \in TopicName, client, server \in BOOLEAN :
              OnBroadcast(s, p, Encode(TopicJoin(t, n, client, server))) =
                OnTopicJoin(s, p, [type |-> "TOPIC_JOIN", topic |-> t, name |-> n,
                                   client |-> client, server |-> server])
         /\ OnBroadcast(s, p, Encode(TopicLeave(t))) =
              OnTopicLeave(s, p, [type |-> "TOPIC_LEAVE", topic |-> t])
<1>1. ASSUME NEW type \in {6, 7}, NEW n \in TopicName, NEW client \in BOOLEAN, NEW server \in BOOLEAN
      PROVE  LET m == Decode(Encode(Subscription(type, t, n, client, server)))
             IN  /\ m.type = type /\ m.topic.buffer = t
                 /\ m.topic.topic = [name |-> NameOut(n), server |-> server, client |-> client]
  <2>. DEFINE m    == Subscription(type, t, n, client, server)
              meta == [name |-> NameOut(n), client |-> client, server |-> server]
              sub  == [buffer |-> t, topic |-> meta]
              payload == EncodeSubscription(sub)
              buf  == << <<1, type>>, <<2, payload>> >>
  <2>1. NameOut(n) # Null /\ NameOut(n) \in Name \cup {""}
    BY NameSurvives
  <2>2. client # Null /\ server # Null /\ t # Null /\ type # Null
    BY <1>1, NullAssumption, TopicAssumption
  <2>3. sub # Null
    <3>1. sub \in [buffer : Topic, topic : [name : Name \cup {""}, client : BOOLEAN, server : BOOLEAN]]
      BY <2>1
    <3>. QED BY <3>1, PayloadAssumption
  <2>4. DecodeTopic(EncodeTopic(meta)) = [name |-> NameOut(n), server |-> server, client |-> client]
    <3>1. meta.name = NameOut(n) /\ meta.client = client /\ meta.server = server
      OBVIOUS
    <3>. HIDE DEF meta
    <3>. QED BY <2>1, <2>2, <3>1, TopicSurvives
  <2>5. sub.buffer = t /\ sub.topic = meta
    OBVIOUS
  <2>. HIDE DEF meta, sub
  <2>6. Holds(payload, 1, {t}) /\ Holds(payload, 2, {EncodeTopic(meta)})
    <3>1. /\ Holds(Put(1, t), 1, {t}) /\ Holds(Put(1, t), 2, {})
          /\ Holds(Field(2, EncodeTopic(meta)), 2, {EncodeTopic(meta)})
          /\ Holds(Field(2, EncodeTopic(meta)), 1, {})
      BY <2>2, PutHolds, OtherHolds, FieldHolds
    <3>2. payload = Put(1, t) \o Field(2, EncodeTopic(meta))
      BY <2>5 DEF EncodeSubscription
    <3>. QED BY <3>1, <3>2, HoldsAmong
  <2>7. DecodeSubscription(payload) = [buffer |-> t, topic |-> DecodeTopic(EncodeTopic(meta))]
    <3>. HIDE DEF payload
    <3>1. Get(payload, 1, Null) = t /\ Has(payload, 2) /\ Get(payload, 2, <<>>) = EncodeTopic(meta)
      BY <2>6, HoldsOne
    <3>. QED BY <3>1 DEF DecodeSubscription
  <2>8. Encode(m) = buf
    <3>1. /\ m.type = type /\ m.ephemeral = Null /\ m.bootstrap = Null /\ m.peer = Null
          /\ m.topic = sub
      BY DEF Subscription, Blank, meta, sub
    <3>. HIDE DEF m, payload
    <3>2. Encode(m) = Field(1, type) \o Field(2, payload)
      BY <2>2, <2>3, <3>1 DEF Encode, Put, payload
    <3>. QED BY <3>2, PutTwo
  <2>. HIDE DEF payload, m
  <2>9. Get(buf, 1, Null) = type /\ Get(buf, 2, Null) = payload /\ Has(buf, 2)
    BY TwoFields
  <2>. HIDE DEF buf
  <2>10. Readable(type, buf)
    BY <2>9, PacketNumbers DEF Readable
  <2>11. Decode(buf).type = type /\ Decode(buf).topic = DecodeSubscription(payload)
    BY <2>9, <2>10, PacketNumbers DEF Decode
  <2>. QED BY <2>4, <2>7, <2>8, <2>11 DEF m
<1>2. Null # 6 /\ Null # 7
  BY NullAssumption
<1>3. ASSUME NEW n \in TopicName, NEW client \in BOOLEAN, NEW server \in BOOLEAN
      PROVE  OnBroadcast(s, p, Encode(TopicJoin(t, n, client, server))) =
               OnTopicJoin(s, p, [type |-> "TOPIC_JOIN", topic |-> t, name |-> n,
                                  client |-> client, server |-> server])
  <2>. DEFINE buf == Encode(TopicJoin(t, n, client, server))
              m   == Decode(buf)
  <2>1. /\ m.type = 6 /\ m.topic.buffer = t
        /\ m.topic.topic = [name |-> NameOut(n), server |-> server, client |-> client]
    BY <1>1, PacketNumbers DEF TopicJoin
  <2>2. NameIn(NameOut(n)) = n
    BY NameSurvives
  <2>. HIDE DEF m
  <2>3. Joined(m) = [type |-> "TOPIC_JOIN", topic |-> t, name |-> n,
                     client |-> client, server |-> server]
    BY <2>1, <2>2 DEF Joined
  <2>4. OnBroadcast(s, p, buf) = OnTopicJoin(s, p, Joined(m))
    BY <1>2, <2>1, PacketNumbers DEF OnBroadcast, m
  <2>. QED BY <2>3, <2>4
<1>4. OnBroadcast(s, p, Encode(TopicLeave(t))) =
        OnTopicLeave(s, p, [type |-> "TOPIC_LEAVE", topic |-> t])
  <2>. DEFINE buf == Encode(TopicLeave(t))
              m   == Decode(buf)
  <2>1. m.type = 7 /\ m.topic.buffer = t
    BY <1>1, PacketNumbers DEF TopicLeave, TopicName
  <2>2. OnBroadcast(s, p, buf) = OnTopicLeave(s, p, [type |-> "TOPIC_LEAVE", topic |-> m.topic.buffer])
    <3>. HIDE DEF buf
    <3>. QED BY <1>2, <2>1, PacketNumbers DEF OnBroadcast
  <2>. QED BY <2>1, <2>2
<1>. QED BY <1>3, <1>4

------------------------------------------------------------------------------
(* A list of packets, one after the other. *)

\* Induction over the natural numbers, for a set of them.
LEMMA Counting ==
  ASSUME NEW S, 0 \in S, \A n \in Nat : n \in S => n + 1 \in S
  PROVE  Nat \subseteq S
<1>. DEFINE T == Nat \ S
            R == OpToRel(<, Nat)
<1>1. SUFFICES ASSUME T # {} PROVE FALSE
  OBVIOUS
<1>2. IsWellFoundedOn(R, Nat) /\ T \subseteq Nat
  BY NatLessThanWellFounded
<1>3. \A i, j \in Nat : i < j => <<i, j>> \in R
  BY DEF OpToRel
<1>. HIDE DEF R, T
<1>4. PICK x \in T : \A y \in T : <<y, x>> \notin R
  BY <1>1, <1>2, WFMin
<1>5. x \in Nat /\ x # 0 /\ x \notin S
  BY <1>4 DEF T
<1>6. x - 1 \in Nat /\ x - 1 < x /\ (x - 1) + 1 = x
  BY <1>5
<1>7. <<x - 1, x>> \in R
  BY <1>3, <1>5, <1>6
<1>8. x - 1 \in S
  BY <1>4, <1>6, <1>7 DEF T
<1>. QED BY <1>5, <1>6, <1>8

\* The states that a list of packets leads through.
LEMMA HearingSteps ==
  ASSUME NEW s, NEW p, NEW packets, Len(packets) \in Nat
  PROVE  \E h : /\ h[0] = s
                /\ \A i \in 1..Len(packets) : h[i] = OnBroadcast(h[i - 1], p, Encode(packets[i]))
                /\ Hearing(s, p, packets) = h[Len(packets)]
<1>. DEFINE Told(r, i) == OnBroadcast(r, p, Encode(packets[i]))
            Steps(f, k) == [i \in 0..k |-> IF i = 0 THEN s ELSE Told(f[i - 1], i)]
            S == {k \in Nat : \E f : f = Steps(f, k)}
            n == Len(packets)
            h == CHOOSE f : f = Steps(f, n)
<1>1. Hearing(s, p, packets) = h[n]
  BY DEF Hearing
<1>. HIDE DEF Told
<1>2. 0 \in S
  <2>1. [i \in 0..0 |-> s] = Steps([i \in 0..0 |-> s], 0)
    OBVIOUS
  <2>. QED BY <2>1
<1>3. ASSUME NEW k \in Nat, k \in S PROVE k + 1 \in S
  <2>1. PICK f : f = Steps(f, k)
    BY <1>3
  <2>. DEFINE g == [i \in 0..(k + 1) |-> IF i <= k THEN f[i] ELSE Told(f[k], k + 1)]
  <2>2. \A i \in 0..(k + 1) : g[i] = IF i = 0 THEN s ELSE Told(g[i - 1], i)
    <3>1. \A i \in 0..k : g[i] = f[i] /\ f[i] = IF i = 0 THEN s ELSE Told(f[i - 1], i)
      BY <2>1
    <3>2. \A i \in 1..k : i - 1 \in 0..k
      OBVIOUS
    <3>3. g[k + 1] = Told(f[k], k + 1) /\ k \in 0..k /\ (k + 1) - 1 = k
      OBVIOUS
    <3>4. \A i \in 0..(k + 1) : i \in 0..k \/ i = k + 1
      OBVIOUS
    <3>. HIDE DEF g
    <3>. QED BY <3>1, <3>2, <3>3, <3>4
  <2>3. g = [i \in 0..(k + 1) |-> g[i]]
    OBVIOUS
  <2>. HIDE DEF g
  <2>4. g = Steps(g, k + 1)
    BY <2>2, <2>3
  <2>. QED BY <2>4
<1>4. n \in S
  <2>. HIDE DEF S, n
  <2>1. Nat \subseteq S
    BY <1>2, <1>3, Counting
  <2>. QED BY <2>1 DEF n
<1>5. h = Steps(h, n)
  BY <1>4
<1>. HIDE DEF h
<1>6. h[0] = s /\ \A i \in 1..n : h[i] = Told(h[i - 1], i)
  <2>1. \A i \in 0..n : h[i] = IF i = 0 THEN s ELSE Told(h[i - 1], i)
    BY <1>5
  <2>2. 0 \in 0..n /\ \A i \in 1..n : i \in 0..n /\ i # 0
    OBVIOUS
  <2>. QED BY <2>1, <2>2
<1>. QED BY <1>1, <1>6 DEF Told

------------------------------------------------------------------------------
(* What a node makes of the packets of a peer that it is connected to. *)

Near(s, p) == Settled(s) /\ p \in Peer /\ p # s.me /\ Edge(s.me, p) \in s.edges

\* It goes from s to r and has "a" as the peer's attributes.
Learns(r, s, p, a) == Near(r, p) /\ r.me = s.me /\ r.attr[p] = a

\* The peer is a node, with attributes of their type, and looking it up changes nothing.
LEMMA NearNode ==
  ASSUME NEW s, NEW p, Near(s, p)
  PROVE  p \in s.nodes /\ GetPeerState(s, p, FALSE) = s /\ s.attr[p] \in Attr
<1>1. p \in s.nodes
  BY DEF Near, Settled, Sound, Edge
<1>. QED BY <1>1 DEF Near, Settled, Sound, State, GetPeerState

\* Replacing the peer's attributes leaves the node connected to it.
LEMMA NearSetAttr ==
  ASSUME NEW s, NEW p, Near(s, p), NEW a \in Attr, a.connection = s.attr[p].connection
  PROVE  Learns(SetAttr(s, p, a), s, p, a) /\ SetAttr(s, p, a).topics = s.topics
<1>1. p \in s.nodes /\ p \in Peer
  BY NearNode DEF Near
<1>2. a.connection => p \in s.conns
  BY DEF Near, Settled, Sound
<1>3. Settled(SetAttr(s, p, a)) /\ Same(SetAttr(s, p, a), s)
  BY <1>1, <1>2, SetAttrSettled DEF Near
<1>4. SetAttr(s, p, a).edges = s.edges /\ SetAttr(s, p, a).attr[p] = a
  BY <1>1 DEF SetAttr, Near, Settled, Sound, State
<1>. QED BY <1>3, <1>4 DEF Near, Learns, Same

\* CONNECTED: nothing about the peer itself.
LEMMA NearConnected ==
  ASSUME NEW s, NEW p, Near(s, p), NEW q \in Peer, q # p
  PROVE  Learns(OnBroadcast(s, p, Encode(Connected(q))), s, p, s.attr[p])
<1>. DEFINE m == [type |-> "CONNECTED", peer |-> q]
            r == OnConnected(s, p, m)
<1>1. OnBroadcast(s, p, Encode(Connected(q))) = r
  BY HeardAsSaid
<1>2. m \in ConnectionPkt /\ m.peer = q
  BY DEF ConnectionPkt
<1>3. Settled(r) /\ r.me = s.me
  BY <1>2, OnConnectedKeeps DEF Keeps, Near
<1>4. r = AddConnection(s, p, q)
  BY NearNode DEF OnConnected
<1>. HIDE DEF r
<1>5. Edge(s.me, p) \in r.edges /\ r.attr[p] = s.attr[p]
  <2>1. Sound(s) /\ p \in Peer /\ s.me \in Edge(s.me, p) /\ p \in Edge(s.me, p)
    BY DEF Near, Settled, Edge
  <2>. QED BY <1>4, <2>1, AddConnectionOwn DEF Near
<1>. QED BY <1>1, <1>3, <1>5 DEF Near, Learns

\* PERSISTENT and USER_DATA: that, and nothing else.
LEMMA NearFlags ==
  ASSUME NEW s, NEW p, Near(s, p)
  PROVE  /\ \A b \in BOOLEAN :
              Learns(OnBroadcast(s, p, Encode(Persistence(b))), s, p,
                     [s.attr[p] EXCEPT !.ephemeral = b])
         /\ \A d \in Data :
              Learns(OnBroadcast(s, p, Encode(Advertise(d))), s, p,
                     [s.attr[p] EXCEPT !.data = d])
<1>1. s.attr[p] \in Attr /\ GetPeerState(s, p, FALSE) = s
  BY NearNode
<1>2. ASSUME NEW b \in BOOLEAN
      PROVE  Learns(OnBroadcast(s, p, Encode(Persistence(b))), s, p,
                    [s.attr[p] EXCEPT !.ephemeral = b])
  <2>. DEFINE a == [s.attr[p] EXCEPT !.ephemeral = b]
  <2>1. a \in Attr /\ a.connection = s.attr[p].connection
    BY <1>1 DEF Attr
  <2>. HIDE DEF a
  <2>2. OnBroadcast(s, p, Encode(Persistence(b))) = SetAttr(s, p, a)
    <3>. DEFINE m == [type |-> "PERSISTENT", ephemeral |-> b]
    <3>1. OnBroadcast(s, p, Encode(Persistence(b))) = OnPersistent(s, p, m)
      BY HeardAsSaid
    <3>2. OnPersistent(s, p, m) = SetAttr(s, p, a)
      BY <1>1 DEF OnPersistent, a
    <3>. QED BY <3>1, <3>2
  <2>. QED BY <2>1, <2>2, NearSetAttr DEF a
<1>3. ASSUME NEW d \in Data
      PROVE  Learns(OnBroadcast(s, p, Encode(Advertise(d))), s, p,
                    [s.attr[p] EXCEPT !.data = d])
  <2>. DEFINE a == [s.attr[p] EXCEPT !.data = d]
  <2>1. a \in Attr /\ a.connection = s.attr[p].connection
    BY <1>1 DEF Attr
  <2>. HIDE DEF a
  <2>2. OnBroadcast(s, p, Encode(Advertise(d))) = SetAttr(s, p, a)
    <3>. DEFINE m == [type |-> "USER_DATA", data |-> d]
    <3>1. OnBroadcast(s, p, Encode(Advertise(d))) = OnUserData(s, p, m)
      BY HeardAsSaid
    <3>2. OnUserData(s, p, m) = SetAttr(s, p, a)
      BY <1>1 DEF OnUserData, a
    <3>. QED BY <3>1, <3>2
  <2>. QED BY <2>1, <2>2, NearSetAttr DEF a
<1>. QED BY <1>2, <1>3

\* The attributes of a peer with other roles in one topic.
WithRoles(a, t, look, ann) ==
  SetSubs(a, [a.lookingup EXCEPT ![t] = look], [a.announcing EXCEPT ![t] = ann])

\* A new topic map disturbs no edge and no attribute.
LEMMA NearTopics ==
  ASSUME NEW r, NEW s, NEW p, NEW a, Learns(r, s, p, a), NEW tp, Listing(tp)
  PROVE  Learns([r EXCEPT !.topics = tp], s, p, a)
<1>. DEFINE q == [r EXCEPT !.topics = tp]
<1>1. Settled(q) /\ q.me = r.me
  BY SetTopicsSettled DEF Learns, Near, Keeps
<1>2. q.edges = r.edges /\ q.attr = r.attr
  BY DEF Learns, Near, Settled, Sound, State
<1>. QED BY <1>1, <1>2 DEF Learns, Near

\* TOPIC_JOIN: the roles it claims, with the hashtag.  TOPIC_LEAVE: no role.
LEMMA NearRoles ==
  ASSUME NEW s, NEW p, Near(s, p), NEW t \in Topic
  PROVE  /\ \A n \in TopicName, client, server \in BOOLEAN :
              Learns(OnBroadcast(s, p, Encode(TopicJoin(t, n, client, server))), s, p,
                     WithRoles(s.attr[p], t,
                               IF client THEN n ELSE s.attr[p].lookingup[t],
                               IF server THEN n ELSE s.attr[p].announcing[t]))
         /\ Learns(OnBroadcast(s, p, Encode(TopicLeave(t))), s, p,
                   WithRoles(s.attr[p], t, Absent, Absent))
<1>. DEFINE a == s.attr[p]
<1>1. a \in Attr /\ GetPeerState(s, p, FALSE) = s
  BY NearNode
<1>2. a.lookingup \in SubMap /\ a.announcing \in SubMap /\ Listing(s.topics)
  BY <1>1 DEF Attr, Near, Settled, Sound, State, Listing
<1>3. ASSUME NEW look \in TopicName \cup {Absent}, NEW ann \in TopicName \cup {Absent}
      PROVE  Learns(SetAttr(s, p, WithRoles(a, t, look, ann)), s, p, WithRoles(a, t, look, ann))
  <2>1. [a.lookingup EXCEPT ![t] = look] \in SubMap /\ [a.announcing EXCEPT ![t] = ann] \in SubMap
    BY <1>2 DEF SubMap
  <2>2. /\ WithRoles(a, t, look, ann) \in Attr
        /\ WithRoles(a, t, look, ann).connection = a.connection
    BY <1>1, <2>1, SetSubsType DEF WithRoles
  <2>. QED BY <2>2, NearSetAttr
<1>4. ASSUME NEW n \in TopicName, NEW client \in BOOLEAN, NEW server \in BOOLEAN
      PROVE  Learns(OnBroadcast(s, p, Encode(TopicJoin(t, n, client, server))), s, p,
                    WithRoles(a, t, IF client THEN n ELSE a.lookingup[t],
                                    IF server THEN n ELSE a.announcing[t]))
  <2>. DEFINE m == [type |-> "TOPIC_JOIN", topic |-> t, name |-> n,
                    client |-> client, server |-> server]
              look == IF client THEN n ELSE a.lookingup[t]
              ann  == IF server THEN n ELSE a.announcing[t]
              s1 == SetAttr(s, p, WithRoles(a, t, look, ann))
              tp == TopicsSet(s.topics, t, n)
  <2>1. look \in TopicName \cup {Absent} /\ ann \in TopicName \cup {Absent}
    BY <1>2 DEF SubMap
  <2>2. Learns(s1, s, p, WithRoles(a, t, look, ann))
    BY <1>3, <2>1
  <2>3. Listing(tp)
    BY <1>2, TopicsSetListing
  <2>4. OnBroadcast(s, p, Encode(TopicJoin(t, n, client, server))) = OnTopicJoin(s, p, m)
    BY RolesSurvive, ZenonT(60)
  <2>5. OnTopicJoin(s, p, m) = [s1 EXCEPT !.topics = tp]
    BY <1>1 DEF OnTopicJoin, WithRoles
  <2>. HIDE DEF s1, tp, look, ann
  <2>6. Learns([s1 EXCEPT !.topics = tp], s, p, WithRoles(a, t, look, ann))
    BY <2>2, <2>3, NearTopics
  <2>. QED BY <2>4, <2>5, <2>6 DEF look, ann
<1>5. Learns(OnBroadcast(s, p, Encode(TopicLeave(t))), s, p, WithRoles(a, t, Absent, Absent))
  <2>. DEFINE m  == [type |-> "TOPIC_LEAVE", topic |-> t]
              s1 == SetAttr(s, p, WithRoles(a, t, Absent, Absent))
              tp == TopicsDelete(s.topics, t)
  <2>1. Learns(s1, s, p, WithRoles(a, t, Absent, Absent))
    BY <1>3
  <2>2. Listing(tp)
    BY <1>2, TopicsDeleteListing
  <2>3. OnBroadcast(s, p, Encode(TopicLeave(t))) = OnTopicLeave(s, p, m)
    BY RolesSurvive
  <2>4. OnTopicLeave(s, p, m) = [s1 EXCEPT !.topics = tp]
    BY <1>1 DEF OnTopicLeave, WithRoles, Unsubscribed
  <2>. HIDE DEF s1, tp
  <2>5. Learns([s1 EXCEPT !.topics = tp], s, p, WithRoles(a, t, Absent, Absent))
    BY <2>1, <2>2, NearTopics
  <2>. QED BY <2>3, <2>4, <2>5
<1>. QED BY <1>4, <1>5

\* One packet, heard by itself.
LEMMA HearingOne ==
  ASSUME NEW s, NEW p, NEW m
  PROVE  Hearing(s, p, <<m>>) = OnBroadcast(s, p, Encode(m))
<1>. DEFINE packets == <<m>>
<1>1. Len(packets) = 1 /\ packets[1] = m /\ Len(packets) \in Nat
  OBVIOUS
<1>. HIDE DEF packets
<1>2. PICK h : /\ h[0] = s
               /\ \A i \in 1..Len(packets) : h[i] = OnBroadcast(h[i - 1], p, Encode(packets[i]))
               /\ Hearing(s, p, packets) = h[Len(packets)]
  BY <1>1, HearingSteps
<1>3. h[1] = OnBroadcast(h[0], p, Encode(packets[1]))
  BY <1>1, <1>2
<1>. QED BY <1>1, <1>2, <1>3 DEF packets

------------------------------------------------------------------------------
(* What onpeeradd announces. *)

\* A node that serves a topic and looks it up got both roles, with one name,
\* from one call of join.
RolesAgree(mine) ==
  \A t \in Topic :
    mine.lookingup[t] # Absent /\ mine.announcing[t] # Absent
      => mine.lookingup[t] = mine.announcing[t]

\* The topics of a node, in either role.
Taken(mine) == {t \in Topic : mine.announcing[t] # Absent \/ mine.lookingup[t] # Absent}

\* The packets of one topic.
Told(mine, t) ==
  IF mine.announcing[t] # Absent
  THEN TopicJoin(t, mine.announcing[t], mine.lookingup[t] # Absent, TRUE)
  ELSE TopicJoin(t, mine.lookingup[t], TRUE, FALSE)

\* The connection to p, the flag, every topic in one of the packets, the data.
Tells(list, mine, p) ==
  /\ Len(list) \in Nat /\ Len(list) >= 3
  /\ list[1] = Connected(p) /\ list[2] = Persistence(mine.ephemeral)
  /\ list[Len(list)] = Advertise(mine.data)
  /\ \A i \in 3..(Len(list) - 1) : \E t \in Taken(mine) : list[i] = Told(mine, t)
  /\ \A t \in Taken(mine) : \E i \in 3..(Len(list) - 1) : list[i] = Told(mine, t)

\* Announcements is such a list.
LEMMA AnnouncementsList ==
  ASSUME NEW s, s.attr[s.me] \in Attr, NEW p
  PROVE  Tells(Announcements(s, p), s.attr[s.me], p)
<1>. DEFINE mine == s.attr[s.me]
            list == Announcements(s, p)
            served == {t \in Topic : mine.announcing[t] # Absent}
            sought == {t \in Topic : mine.lookingup[t] # Absent}
            Serving == {TopicJoin(t, mine.announcing[t], t \in sought, TRUE) : t \in served}
            Seeking == {TopicJoin(t, mine.lookingup[t], TRUE, FALSE) : t \in sought \ served}
            first == <<Connected(p), Persistence(mine.ephemeral)>>
            a == SetToSeq(Serving)
            b == SetToSeq(Seeking)
            final == <<Advertise(mine.data)>>
            S == {Connected(p), Persistence(mine.ephemeral), Advertise(mine.data)}
                 \cup Serving \cup Seeking
<1>1. list = ((first \o a) \o b) \o final
  BY DEF Announcements
<1>0. mine \in Attr
  OBVIOUS
<1>. HIDE DEF mine, list
<1>2. IsFiniteSet(Serving) /\ IsFiniteSet(Seeking)
  <2>. DEFINE f == [t \in served |-> TopicJoin(t, mine.announcing[t], t \in sought, TRUE)]
              g == [t \in sought \ served |-> TopicJoin(t, mine.lookingup[t], TRUE, FALSE)]
  <2>1. IsFiniteSet(served) /\ IsFiniteSet(sought \ served)
    BY TopicAssumption, FS_Subset
  <2>2. DOMAIN f = served /\ DOMAIN g = sought \ served
    OBVIOUS
  <2>3. Serving = {f[t] : t \in DOMAIN f} /\ Seeking = {g[t] : t \in DOMAIN g}
    OBVIOUS
  <2>. HIDE DEF f, g, Serving, Seeking
  <2>. QED BY <2>1, <2>2, <2>3, FiniteImage
<1>3. \A t \in served : t \in Taken(mine) /\
        Told(mine, t) = TopicJoin(t, mine.announcing[t], t \in sought, TRUE)
  <2>. TAKE t \in served
  <2>1. mine.announcing[t] # Absent /\ t \in Taken(mine)
    BY DEF Taken
  <2>2. (t \in sought) = (mine.lookingup[t] # Absent)
    OBVIOUS
  <2>. HIDE DEF sought
  <2>. QED BY <2>1, <2>2 DEF Told
<1>4. \A t \in sought \ served : t \in Taken(mine) /\
        Told(mine, t) = TopicJoin(t, mine.lookingup[t], TRUE, FALSE)
  BY DEF Told, Taken
<1>5. Taken(mine) = served \cup (sought \ served)
  BY DEF Taken
<1>6. /\ \A x \in Serving \cup Seeking : \E t \in Taken(mine) : x = Told(mine, t)
      /\ \A t \in Taken(mine) : Told(mine, t) \in Serving \cup Seeking
  BY <1>3, <1>4, <1>5
<1>7. first \in Seq(S) /\ Len(first) = 2 /\ first[1] = Connected(p)
      /\ first[2] = Persistence(mine.ephemeral)
  OBVIOUS
<1>8. final \in Seq(S) /\ Len(final) = 1 /\ final[1] = Advertise(mine.data)
  OBVIOUS
<1>9. Serving \subseteq S /\ Seeking \subseteq S
  OBVIOUS
<1>. HIDE DEF Serving, Seeking, S, first, final
<1>10. /\ a \in Seq(Serving) /\ b \in Seq(Seeking)
       /\ \A x \in Serving : \E i \in DOMAIN a : a[i] = x
       /\ \A x \in Seeking : \E i \in DOMAIN b : b[i] = x
  BY <1>2, SetToSeqLists
<1>. HIDE DEF a, b
<1>11. a \in Seq(S) /\ b \in Seq(S)
  BY <1>9, <1>10, SeqMonotonic
<1>12. /\ Len(a) \in Nat /\ DOMAIN a = 1..Len(a) /\ Len(b) \in Nat /\ DOMAIN b = 1..Len(b)
       /\ \A i \in 1..Len(a) : a[i] \in Serving
       /\ \A i \in 1..Len(b) : b[i] \in Seeking
  BY <1>10, LenProperties, ElementOfSeq
<1>. DEFINE c == first \o a
            d == c \o b
<1>13. /\ c \in Seq(S) /\ Len(c) = Len(first) + Len(a)
       /\ \A i \in 1..Len(first) + Len(a) :
            c[i] = IF i <= Len(first) THEN first[i] ELSE a[i - Len(first)]
  BY <1>7, <1>11, ConcatProperties
<1>. HIDE DEF c
<1>14. /\ d \in Seq(S) /\ Len(d) = Len(c) + Len(b)
       /\ \A i \in 1..Len(c) + Len(b) : d[i] = IF i <= Len(c) THEN c[i] ELSE b[i - Len(c)]
  BY <1>11, <1>13, ConcatProperties
<1>. HIDE DEF d
<1>15. /\ list \in Seq(S) /\ Len(list) = Len(d) + Len(final)
       /\ \A i \in 1..Len(d) + Len(final) :
            list[i] = IF i <= Len(d) THEN d[i] ELSE final[i - Len(d)]
  <2>1. list = d \o final
    BY <1>1 DEF c, d
  <2>2. /\ d \o final \in Seq(S) /\ Len(d \o final) = Len(d) + Len(final)
        /\ \A i \in 1..Len(d) + Len(final) :
             (d \o final)[i] = IF i <= Len(d) THEN d[i] ELSE final[i - Len(d)]
    <3>1. d \in Seq(S) /\ final \in Seq(S)
      BY <1>8, <1>14
    <3>. QED BY <3>1, ConcatProperties
  <2>. QED BY <2>1, <2>2
<1>16. Len(list) = 3 + Len(a) + Len(b) /\ DOMAIN list = 1..Len(list)
  BY <1>7, <1>8, <1>12, <1>13, <1>14, <1>15, LenProperties
<1>17. /\ list[1] = first[1] /\ list[2] = first[2] /\ list[Len(list)] = final[1]
       /\ \A i \in 3..(2 + Len(a)) : list[i] = a[i - 2]
       /\ \A i \in (3 + Len(a))..(2 + Len(a) + Len(b)) : list[i] = b[i - (2 + Len(a))]
  <2>1. Len(c) = 2 + Len(a) /\ Len(d) = 2 + Len(a) + Len(b)
    BY <1>7, <1>13, <1>14
  <2>2. \A i \in 1..2 + Len(a) + Len(b) : list[i] = IF i <= 2 + Len(a) THEN c[i] ELSE b[i - (2 + Len(a))]
    BY <1>8, <1>12, <1>14, <1>15, <2>1
  <2>3. \A i \in 1..2 + Len(a) : list[i] = IF i <= 2 THEN first[i] ELSE a[i - 2]
    BY <1>7, <1>12, <1>13, <2>1, <2>2
  <2>4. list[Len(list)] = final[1]
    <3>1. /\ Len(list) = Len(d) + 1 /\ Len(d) + 1 \in 1..Len(d) + Len(final)
          /\ (Len(d) + 1) - Len(d) = 1 /\ ~(Len(d) + 1 <= Len(d))
      BY <1>8, <1>12, <1>15, <2>1
    <3>. QED BY <1>15, <3>1
  <2>5. list[1] = first[1] /\ list[2] = first[2]
    BY <1>12, <2>3
  <2>6. \A i \in 3..(2 + Len(a)) : list[i] = a[i - 2]
    BY <1>12, <2>3
  <2>7. \A i \in (3 + Len(a))..(2 + Len(a) + Len(b)) : list[i] = b[i - (2 + Len(a))]
    BY <1>12, <2>2
  <2>. QED BY <2>4, <2>5, <2>6, <2>7
<1>18. \A i \in 3..(Len(list) - 1) : list[i] \in Serving \cup Seeking
  <2>. TAKE i \in 3..(Len(list) - 1)
  <2>1. CASE i <= 2 + Len(a)
    <3>1. i - 2 \in 1..Len(a) /\ i \in 3..(2 + Len(a))
      BY <1>12, <2>1
    <3>. QED BY <1>12, <1>17, <3>1
  <2>2. CASE i > 2 + Len(a)
    <3>1. i - (2 + Len(a)) \in 1..Len(b) /\ i \in (3 + Len(a))..(2 + Len(a) + Len(b))
      BY <1>12, <1>16, <2>2
    <3>. QED BY <1>12, <1>17, <3>1
  <2>. QED BY <1>12, <2>1, <2>2
<1>19. \A x \in Serving \cup Seeking : \E i \in 3..(Len(list) - 1) : list[i] = x
  <2>1. ASSUME NEW x \in Serving PROVE \E i \in 3..(Len(list) - 1) : list[i] = x
    <3>1. PICK i \in 1..Len(a) : a[i] = x
      BY <1>10, <1>12
    <3>2. i + 2 \in 3..(2 + Len(a)) /\ (i + 2) - 2 = i /\ i + 2 \in 3..(Len(list) - 1)
      BY <1>12, <1>16
    <3>. QED BY <1>17, <3>1, <3>2
  <2>2. ASSUME NEW x \in Seeking PROVE \E i \in 3..(Len(list) - 1) : list[i] = x
    <3>1. PICK i \in 1..Len(b) : b[i] = x
      BY <1>10, <1>12
    <3>. DEFINE k == i + (2 + Len(a))
    <3>2. /\ k \in (3 + Len(a))..(2 + Len(a) + Len(b)) /\ k - (2 + Len(a)) = i
          /\ k \in 3..(Len(list) - 1)
      BY <1>12, <1>16
    <3>. HIDE DEF k
    <3>. QED BY <1>17, <3>1, <3>2
  <2>. QED BY <2>1, <2>2
<1>20. Len(list) \in Nat /\ Len(list) >= 3
  BY <1>12, <1>16
<1>21. \A i \in 3..(Len(list) - 1) : \E t \in Taken(mine) : list[i] = Told(mine, t)
  BY <1>6, <1>18
<1>22. \A t \in Taken(mine) : \E i \in 3..(Len(list) - 1) : list[i] = Told(mine, t)
  BY <1>6, <1>19
<1>23. Tells(list, mine, p)
  BY <1>7, <1>8, <1>16, <1>17, <1>20, <1>21, <1>22 DEF Tells
<1>. QED BY <1>23 DEF list, mine

\* What is said goes before what was known.
Over(said, old) == IF said # Absent THEN said ELSE old

\* The attributes "a" are "old" with the flag "eph", the data "d" and, in the
\* topics of T, the roles of "mine".
Takes(a, old, mine, eph, d, T) ==
  /\ a \in Attr
  /\ a.ephemeral = eph /\ a.data = d
  /\ a.connection = old.connection /\ a.connected = old.connected
  /\ \A t \in Topic :
       /\ a.lookingup[t]  = IF t \in T THEN Over(mine.lookingup[t], old.lookingup[t])
                                       ELSE old.lookingup[t]
       /\ a.announcing[t] = IF t \in T THEN Over(mine.announcing[t], old.announcing[t])
                                       ELSE old.announcing[t]

\* The attributes of p in r are what Takes makes of "old".
Heeds(r, p, old, mine, eph, d, T) ==
  Near(r, p) /\ Takes(r.attr[p], old, mine, eph, d, T)

\* It goes from s to r and stays connected to the peer.
Stays(r, s, p) == Near(r, p) /\ r.me = s.me

\* The packet of one topic is about it.
LEMMA ToldOf ==
  ASSUME NEW mine, NEW t
  PROVE  Told(mine, t).topic.buffer = t
BY DEF Told, TopicJoin, Subscription, Blank

\* It adds the topic.
LEMMA ToldTakes ==
  ASSUME NEW mine \in Attr, RolesAgree(mine), NEW t \in Taken(mine),
         NEW s, NEW p, NEW old, NEW eph, NEW d, NEW T, Heeds(s, p, old, mine, eph, d, T),
         NEW m, m = Told(mine, t), NEW r, r = OnBroadcast(s, p, Encode(m)),
         NEW U, U = T \cup {t}
  PROVE  Stays(r, s, p) /\ Takes(r.attr[p], old, mine, eph, d, U)
<1>. DEFINE a == s.attr[p]
            serves == mine.announcing[t] # Absent
            seeks  == mine.lookingup[t] # Absent
            n    == IF serves THEN mine.announcing[t] ELSE mine.lookingup[t]
            look == IF seeks THEN n ELSE a.lookingup[t]
            ann  == IF serves THEN n ELSE a.announcing[t]
            b    == WithRoles(a, t, look, ann)
<1>0. Near(s, p) /\ Takes(s.attr[p], old, mine, eph, d, T)
  BY DEF Heeds
<1>1. t \in Topic /\ (serves \/ seeks) /\ n \in TopicName
  BY DEF Taken, Attr, SubMap
<1>2. Told(mine, t) = TopicJoin(t, n, seeks, serves)
  <2>1. CASE serves
    <3>1. serves = TRUE
      BY <2>1
    <3>. QED BY <2>1, <3>1 DEF Told
  <2>2. CASE ~serves
    <3>1. serves = FALSE /\ seeks = TRUE
      BY <1>1, <2>2
    <3>. QED BY <2>2, <3>1 DEF Told
  <2>. QED BY <2>1, <2>2
<1>4. seeks \in BOOLEAN /\ serves \in BOOLEAN
  OBVIOUS
<1>5. Learns(r, s, p, b)
  <2>. HIDE DEF seeks, serves, n
  <2>1. Learns(OnBroadcast(s, p, Encode(TopicJoin(t, n, seeks, serves))), s, p, b)
    BY <1>0, <1>1, <1>4, NearRoles
  <2>. QED BY <1>2, <2>1
<1>6. /\ look = Over(mine.lookingup[t], old.lookingup[t])
      /\ ann = Over(mine.announcing[t], old.announcing[t])
  BY <1>0, <1>1 DEF Over, Takes, RolesAgree
<1>7. a \in Attr /\ look \in TopicName \cup {Absent} /\ ann \in TopicName \cup {Absent}
  BY <1>0, <1>1 DEF Takes, Attr, SubMap
<1>. HIDE DEF a, look, ann
<1>8. /\ b \in Attr /\ b.ephemeral = a.ephemeral /\ b.data = a.data
      /\ b.connection = a.connection /\ b.connected = a.connected
      /\ b.lookingup = [a.lookingup EXCEPT ![t] = look]
      /\ b.announcing = [a.announcing EXCEPT ![t] = ann]
  BY <1>1, <1>7 DEF Attr, SubMap, WithRoles, SetSubs
<1>. HIDE DEF b
<1>9. a.lookingup \in SubMap /\ a.announcing \in SubMap
  BY <1>7 DEF Attr
<1>10. \A u \in Topic :
         /\ b.lookingup[u] = IF u = t THEN look ELSE a.lookingup[u]
         /\ b.announcing[u] = IF u = t THEN ann ELSE a.announcing[u]
  BY <1>8, <1>9 DEF SubMap
<1>11. Takes(b, old, mine, eph, d, T \cup {t})
  BY <1>0, <1>1, <1>6, <1>8, <1>10 DEF Takes, a
<1>. QED BY <1>5, <1>11 DEF Learns, Stays

\* A node that hears the whole list knows the flag, the data and every role;
\* roles that it knew and that are not in the list stay.
LEMMA AnnouncementsHeard ==
  ASSUME NEW s, s.attr[s.me] \in Attr, RolesAgree(s.attr[s.me]),
         NEW p \in Peer, p # s.me, NEW r, Near(r, s.me)
  PROVE  LET mine == s.attr[s.me]
             q    == Hearing(r, s.me, Announcements(s, p))
         IN  /\ Near(q, s.me) /\ q.me = r.me
             /\ Takes(q.attr[s.me], r.attr[s.me], mine, mine.ephemeral, mine.data, Taken(mine))
<1>. DEFINE me   == s.me
            mine == s.attr[me]
            list == Announcements(s, p)
            n    == Len(list)
            old  == r.attr[me]
            eph  == mine.ephemeral
            Heard(k) == {list[j].topic.buffer : j \in 3..k}
<1>1. /\ n \in Nat /\ n >= 3
      /\ list[1] = Connected(p) /\ list[2] = Persistence(eph) /\ list[n] = Advertise(mine.data)
      /\ \A i \in 3..(n - 1) : \E t \in Taken(mine) : list[i] = Told(mine, t)
      /\ \A t \in Taken(mine) : \E i \in 3..(n - 1) : list[i] = Told(mine, t)
  <2>1. Tells(list, mine, p)
    BY AnnouncementsList
  <2>. HIDE DEF mine, list
  <2>. QED BY <2>1 DEF Tells
<1>2. mine \in Attr /\ RolesAgree(mine) /\ eph \in BOOLEAN /\ mine.data \in Data
  BY DEF Attr
<1>3. old \in Attr
  BY NearNode
<1>. HIDE DEF list, mine, old, eph
<1>4. PICK h : /\ h[0] = r
               /\ \A i \in 1..n : h[i] = OnBroadcast(h[i - 1], me, Encode(list[i]))
               /\ Hearing(r, me, list) = h[n]
  <2>1. Len(list) \in Nat
    BY <1>1
  <2>. QED BY <2>1, HearingSteps
<1>. DEFINE Good(k) == /\ Near(h[k], me) /\ h[k].me = r.me
                       /\ Takes(h[k].attr[me], old, mine, eph, old.data, Heard(k))
            S == {i \in Nat : i + 2 <= n - 1 => Good(i + 2)}
<1>5. Learns(h[1], r, me, old)
  <2>1. h[1] = OnBroadcast(r, me, Encode(Connected(p)))
    BY <1>1, <1>4
  <2>. QED BY <2>1, NearConnected DEF old
<1>6. Good(2)
  <2>1. h[2] = OnBroadcast(h[1], me, Encode(Persistence(eph)))
    BY <1>1, <1>4
  <2>2. Learns(h[2], h[1], me, [h[1].attr[me] EXCEPT !.ephemeral = eph])
    BY <1>2, <1>5, <2>1, NearFlags DEF Learns
  <2>3. h[2].attr[me] = [old EXCEPT !.ephemeral = eph]
    BY <1>5, <2>2 DEF Learns
  <2>4. 3..2 = {} /\ Heard(2) = {}
    OBVIOUS
  <2>5. Takes([old EXCEPT !.ephemeral = eph], old, mine, eph, old.data, {})
    BY <1>2, <1>3 DEF Takes, Attr
  <2>. QED BY <1>5, <2>2, <2>3, <2>4, <2>5 DEF Learns
<1>7. ASSUME NEW k \in 2..(n - 2), Good(k) PROVE Good(k + 1)
  <2>1. /\ k + 1 \in 1..n /\ (k + 1) - 1 = k /\ k + 1 \in 3..(n - 1)
        /\ 3..(k + 1) = 3..k \cup {k + 1}
    BY <1>1
  <2>2. PICK t \in Taken(mine) : list[k + 1] = Told(mine, t)
    BY <1>1, <2>1
  <2>3. h[k + 1] = OnBroadcast(h[k], me, Encode(Told(mine, t)))
    BY <1>4, <2>1, <2>2
  <2>4. /\ Near(h[k + 1], me) /\ h[k + 1].me = h[k].me
        /\ Takes(h[k + 1].attr[me], old, mine, eph, old.data, Heard(k) \cup {t})
        /\ Told(mine, t).topic.buffer = t
    <3>. DEFINE g == h[k]
                u == h[k + 1]
                d == old.data
                T == Heard(k)
                m == Told(mine, t)
                U == T \cup {t}
    <3>1. Heeds(g, me, old, mine, eph, d, T)
      BY <1>7 DEF Heeds
    <3>2. m = Told(mine, t) /\ u = OnBroadcast(g, me, Encode(m)) /\ U = T \cup {t}
      BY <2>3
    <3>. HIDE DEF g, u, d, T, U, m, me
    <3>3. mine \in Attr /\ RolesAgree(mine)
      BY <1>2
    <3>4. Stays(u, g, me) /\ Takes(u.attr[me], old, mine, eph, d, U)
      BY <3>1, <3>2, <3>3, ToldTakes
    <3>. QED BY <3>4, ToldOf DEF Stays, g, u, d, T, U, m
  <2>5. Heard(k + 1) = Heard(k) \cup {t}
    BY <2>1, <2>2, <2>4
  <2>. QED BY <1>7, <2>4, <2>5
<1>8. Good(n - 1)
  <2>. HIDE DEF Good
  <2>1. 0 \in S
    BY <1>6
  <2>2. \A i \in Nat : i \in S => i + 1 \in S
    <3>. SUFFICES ASSUME NEW i \in Nat, i \in S, (i + 1) + 2 <= n - 1 PROVE Good((i + 1) + 2)
      OBVIOUS
    <3>1. i + 2 \in 2..(n - 2) /\ i + 2 <= n - 1 /\ (i + 2) + 1 = (i + 1) + 2
      BY <1>1
    <3>2. Good((i + 2) + 1)
      BY <1>7, <3>1
    <3>. QED BY <3>1, <3>2
  <2>. HIDE DEF S
  <2>3. Nat \subseteq S
    BY <2>1, <2>2, Counting
  <2>4. n - 3 \in Nat /\ (n - 3) + 2 = n - 1 /\ n - 1 <= n - 1
    BY <1>1
  <2>5. n - 3 \in S
    BY <2>3, <2>4
  <2>6. (n - 3) + 2 <= n - 1 => Good((n - 3) + 2)
    BY <2>5 DEF S
  <2>. QED BY <2>4, <2>6
<1>9. Taken(mine) = Heard(n - 1)
  <2>1. \A t \in Taken(mine) : Told(mine, t).topic.buffer = t
    BY ToldOf
  <2>. QED BY <1>1, <2>1
<1>. HIDE DEF Heard
<1>10. /\ Learns(h[n], h[n - 1], me, [h[n - 1].attr[me] EXCEPT !.data = mine.data])
  <2>1. h[n] = OnBroadcast(h[n - 1], me, Encode(Advertise(mine.data)))
    <3>1. n \in 1..n
      BY <1>1
    <3>. QED BY <1>1, <1>4, <3>1
  <2>. QED BY <1>2, <1>8, <2>1, NearFlags
<1>11. Takes(h[n].attr[me], old, mine, eph, mine.data, Taken(mine))
  <2>. DEFINE a == h[n - 1].attr[me]
  <2>1. Takes(a, old, mine, eph, old.data, Taken(mine))
    BY <1>8, <1>9
  <2>2. h[n].attr[me] = [a EXCEPT !.data = mine.data]
    BY <1>10 DEF Learns
  <2>. HIDE DEF a
  <2>3. Takes([a EXCEPT !.data = mine.data], old, mine, eph, mine.data, Taken(mine))
    BY <1>2, <2>1 DEF Takes, Attr
  <2>. QED BY <2>2, <2>3
<1>. QED BY <1>4, <1>8, <1>10, <1>11 DEF Learns, list, mine, old, eph

==============================================================================
