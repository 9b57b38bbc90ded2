-------------------------------- MODULE Wire --------------------------------
(***************************************************************************)
(* What VoidPresence says and how it travels: the packets each handler     *)
(* broadcasts (src/presence.ts), their protocol buffers (src/schema.js),   *)
(* encode() and decode() (src/messages.ts), and the handlers that take a   *)
(* packet in.                                                              *)
(*                                                                         *)
(* A buffer is the sequence of its fields, <<tag, value>>; a nested        *)
(* message is again a buffer.  A field without a value (null) is not       *)
(* written; a reader takes the last field with a tag, the default when     *)
(* there is none, and skips the tags it does not know.  How a key, a       *)
(* string or the user data is laid out in bytes is left out.               *)
(***************************************************************************)
EXTENDS PresenceOps, SequencesExt

\* What is given can be told from what is not, and no hashtag is the empty
\* string (VoidSwarm.join knows one by its "#").
ASSUME NullAssumption ==
  Null \notin BOOLEAN /\ Null \notin Nat /\ Null \notin Peer /\ Null \notin Data
ASSUME EmptyNameAssumption == Null # "" /\ "" \notin Name
ASSUME PayloadAssumption ==
  /\ \A D \in SUBSET Peer : Null \notin [D -> BootstrapPeer]
  /\ Null \notin [buffer : Topic, topic : [name : Name \cup {""}, client : BOOLEAN, server : BOOLEAN]]
ASSUME TopicAssumption == IsFiniteSet(Topic) /\ Null \notin Topic

Field(tag, v)      == << <<tag, v>> >>
Put(tag, v)        == IF v = Null THEN <<>> ELSE Field(tag, v)
Repeat(tag, S)     == SetToSeq({<<tag, v>> : v \in S})
Values(buf, tag)   == [i \in {j \in DOMAIN buf : buf[j][1] = tag} |-> buf[i][2]]
Has(buf, tag)      == \E i \in DOMAIN buf : buf[i][1] = tag
Final(buf, tag)    == CHOOSE i \in DOMAIN buf :
                        /\ buf[i][1] = tag
                        /\ \A j \in DOMAIN buf : buf[j][1] = tag => j <= i
Get(buf, tag, def) == IF Has(buf, tag) THEN buf[Final(buf, tag)][2] ELSE def

\* In a packet, and in a bootstrap response, a topic without a hashtag has
\* the name "" (name ?? "", name || ""); the receiver turns it back (NameIn).
NameOut(n) == IF n = Null THEN "" ELSE n

\* A faulty variant of NameIn: the name stays "".
NameInVerbatim(w) == w

NameIn(w)  == IF w = "" THEN Null ELSE w

------------------------------------------------------------------------------
(* The messages of schema.js that presence uses. *)
PacketType == [PERSISTENT |-> 1, BOOTSTRAP_REQUEST |-> 2, BOOTSTRAP_RESPONSE |-> 3,
               CONNECTED |-> 4, DISCONNECTED |-> 5, TOPIC_JOIN |-> 6,
               TOPIC_LEAVE |-> 7, USER_DATA |-> 8, BROADCAST |-> 9, MESSAGE |-> 10]

EncodePersistence(p) == Put(1, p.ephemeral)
DecodePersistence(buf) == [ephemeral |-> Get(buf, 1, FALSE)]

EncodeTopic(m) == Put(1, m.name) \o Put(2, m.server) \o Put(3, m.client)

\* A faulty variant of DecodeTopic: the tags of the two roles are swapped.
DecodeTopicSwapped(buf) ==
  [name |-> Get(buf, 1, ""), server |-> Get(buf, 3, FALSE), client |-> Get(buf, 2, FALSE)]

DecodeTopic(buf) ==
  [name |-> Get(buf, 1, ""), server |-> Get(buf, 2, FALSE), client |-> Get(buf, 3, FALSE)]

EncodeSubscription(s) == Put(1, s.buffer) \o Field(2, EncodeTopic(s.topic))
DecodeSubscription(buf) ==
  [buffer |-> Get(buf, 1, Null),
   topic  |-> IF Has(buf, 2) THEN DecodeTopic(Get(buf, 2, <<>>)) ELSE Null]

\* Map_string_Topic and Map_string_BootstrapPeer: one key/value message per
\* entry of the map, here of the encoded values.  The key is required.
EncodeMap(tag, map) == Repeat(tag, {Put(1, k) \o Field(2, map[k]) : k \in DOMAIN map})
DecodeMap(buf, tag) ==
  LET entries == Values(buf, tag)
      Key(i)  == Get(entries[i], 1, "")
      Entry(k) == CHOOSE i \in DOMAIN entries :
                    Key(i) = k /\ \A j \in DOMAIN entries : Key(j) = k => j <= i
  IN  [k \in {Key(i) : i \in DOMAIN entries} |-> Get(entries[Entry(k)], 2, <<>>)]

\* The topics record of _bootstrapper holds only the listed topics.
EncodeBootstrapPeer(b) ==
  LET listed == [t \in {u \in Topic : Listed(b.topics[u])} |->
                  EncodeTopic([b.topics[t] EXCEPT !.name = NameOut(@)])]
  IN  Repeat(1, b.connected) \o EncodeMap(2, listed) \o Put(3, b.data)
DecodeBootstrapPeer(buf) ==
  LET listed   == DecodeMap(buf, 2)
      Meant(m) == [name |-> NameIn(m.name), client |-> m.client, server |-> m.server]
  IN  [connected |-> Range(Values(buf, 1)),
       topics    |-> [t \in Topic |-> IF t \in DOMAIN listed THEN Meant(DecodeTopic(listed[t]))
                                                             ELSE NoMeta],
       data      |-> Get(buf, 3, Null)]

EncodeBootstrap(b) == EncodeMap(1, [p \in DOMAIN b |-> EncodeBootstrapPeer(b[p])])
DecodeBootstrap(buf) ==
  LET peers == DecodeMap(buf, 1)
  IN  [p \in DOMAIN peers |-> DecodeBootstrapPeer(peers[p])]
KeysGiven(buf, tag) == \A i \in DOMAIN Values(buf, tag) : Has(Values(buf, tag)[i], 1)

\* What the fields marked "required" demand of a nested message.
ReadablePersistence(buf) == Has(buf, 1)
ReadableBootstrap(buf) ==
  /\ KeysGiven(buf, 1)
  /\ \A e \in Range(Values(buf, 1)) : KeysGiven(Get(e, 2, <<>>), 2)

------------------------------------------------------------------------------
(* src/messages.ts.  A PresencePacket has the fields that were given. *)
Blank == [type |-> Null, ephemeral |-> Null, bootstrap |-> Null, peer |-> Null,
          topic |-> Null, data |-> Null, message |-> Null]

\* encode(packet): the payload is the first field that is not null.
Encode(m) ==
  Put(1, m.type) \o
  (IF m.ephemeral # Null      THEN Field(2, EncodePersistence([ephemeral |-> m.ephemeral]))
   ELSE IF m.bootstrap # Null THEN Field(2, EncodeBootstrap(m.bootstrap))
   ELSE IF m.peer # Null      THEN Put(2, m.peer)
   ELSE IF m.topic # Null     THEN Field(2, EncodeSubscription(m.topic))
   ELSE IF m.data # Null      THEN Put(2, m.data)
   ELSE Put(2, m.message))

\* What decode() demands of a payload before it returns a packet.
Readable(type, buf) ==
  LET payload == Get(buf, 2, Null)
  IN  CASE type = PacketType.PERSISTENT -> Has(buf, 2) /\ ReadablePersistence(payload)
        [] type = PacketType.BOOTSTRAP_RESPONSE -> Has(buf, 2) /\ ReadableBootstrap(payload)
        [] type \in {PacketType.TOPIC_JOIN, PacketType.TOPIC_LEAVE} -> Has(buf, 2)
        [] OTHER -> \E k \in DOMAIN PacketType : type = PacketType[k]

\* decode(buffer): the payload is the field its type asks for.  Blank for
\* what cannot be read, which its callers treat like a packet without a type.
Decode(buf) ==
  LET type    == Get(buf, 1, Null)
      payload == Get(buf, 2, Null)
      Of(types, value) == IF type \in types THEN value ELSE Null
  IN  IF ~Readable(type, buf) THEN Blank
      ELSE [type      |-> type,
            ephemeral |-> Of({PacketType.PERSISTENT}, DecodePersistence(payload).ephemeral),
            bootstrap |-> Of({PacketType.BOOTSTRAP_RESPONSE}, DecodeBootstrap(payload)),
            peer      |-> Of({PacketType.CONNECTED, PacketType.DISCONNECTED}, payload),
            topic     |-> Of({PacketType.TOPIC_JOIN, PacketType.TOPIC_LEAVE},
                             DecodeSubscription(payload)),
            data      |-> Of({PacketType.USER_DATA}, payload),
            message   |-> Of({PacketType.BROADCAST, PacketType.MESSAGE}, payload)]

------------------------------------------------------------------------------
(* The packets that presence encodes. *)
Persistence(eph)   == [Blank EXCEPT !.type = PacketType.PERSISTENT, !.ephemeral = eph]
Connected(p)       == [Blank EXCEPT !.type = PacketType.CONNECTED, !.peer = p]
Disconnected(p)    == [Blank EXCEPT !.type = PacketType.DISCONNECTED, !.peer = p]
Subscription(type, t, n, client, server) ==
  [Blank EXCEPT !.type = type,
                !.topic = [buffer |-> t, topic |-> [name |-> NameOut(n),
                                                    client |-> client, server |-> server]]]
TopicJoin(t, n, client, server) == Subscription(PacketType.TOPIC_JOIN, t, n, client, server)
TopicLeave(t)      == Subscription(PacketType.TOPIC_LEAVE, t, Null, FALSE, FALSE)
Advertise(d)       == [Blank EXCEPT !.type = PacketType.USER_DATA, !.data = d]
BootstrapRequest   == [Blank EXCEPT !.type = PacketType.BOOTSTRAP_REQUEST]
BootstrapResponse(b) ==
  [Blank EXCEPT !.type = PacketType.BOOTSTRAP_RESPONSE, !.bootstrap = b]

\* A faulty variant of Announcements: topics that are only looked up are left out.
AnnouncementsServed(s, p) ==
  LET mine == s.attr[s.me]
  IN  <<Connected(p), Persistence(mine.ephemeral)>>
      \o SetToSeq({TopicJoin(t, mine.announcing[t], mine.lookingup[t] # Absent, TRUE) :
                     t \in {u \in Topic : mine.announcing[u] # Absent}})
      \o <<Advertise(mine.data)>>

\* What onpeeradd broadcasts about this node.
Announcements(s, p) ==
  LET mine   == s.attr[s.me]
      served == {t \in Topic : mine.announcing[t] # Absent}
      sought == {t \in Topic : mine.lookingup[t] # Absent}
  IN  <<Connected(p), Persistence(mine.ephemeral)>>
      \o SetToSeq({TopicJoin(t, mine.announcing[t], t \in sought, TRUE) : t \in served})
      \o SetToSeq({TopicJoin(t, mine.lookingup[t], TRUE, FALSE) : t \in sought \ served})
      \o <<Advertise(mine.data)>>

------------------------------------------------------------------------------
\* The roles of a TOPIC_JOIN, as the cases of onbroadcast read them.
Joined(m) == [type |-> "TOPIC_JOIN", topic |-> m.topic.buffer,
              name |-> NameIn(m.topic.topic.name),
              client |-> m.topic.topic.client, server |-> m.topic.topic.server]

\* onbroadcast(data, publicKey)
OnBroadcast(s, p, buf) ==
  LET m == Decode(buf)
  IN  CASE m.type = Null -> s
        [] m.type = PacketType.PERSISTENT ->
             OnPersistent(s, p, [type |-> "PERSISTENT", ephemeral |-> m.ephemeral])
        [] m.type = PacketType.CONNECTED ->
             OnConnected(s, p, [type |-> "CONNECTED", peer |-> m.peer])
        [] m.type = PacketType.DISCONNECTED ->
             OnDisconnected(s, p, [type |-> "DISCONNECTED", peer |-> m.peer])
        [] m.type = PacketType.TOPIC_JOIN -> OnTopicJoin(s, p, Joined(m))
        [] m.type = PacketType.TOPIC_LEAVE ->
             OnTopicLeave(s, p, [type |-> "TOPIC_LEAVE", topic |-> m.topic.buffer])
        [] m.type = PacketType.USER_DATA ->
             OnUserData(s, p, [type |-> "USER_DATA", data |-> m.data])
        [] OTHER -> GetPeerState(s, p, FALSE)

\* A list of packets of one sender, in the order it sent them.
Hearing(s, p, packets) ==
  LET heard[i \in 0..Len(packets)] ==
        IF i = 0 THEN s ELSE OnBroadcast(heard[i - 1], p, Encode(packets[i]))
  IN  heard[Len(packets)]
==============================================================================
