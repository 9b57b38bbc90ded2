-------------------------------- MODULE Swarm --------------------------------
(***************************************************************************)
(* VoidSwarm (src/index.ts): a VoidPresence behind Hyperswarm.  join()     *)
(* tells the presence at once; leave() tells it only when the promise of   *)
(* Hyperswarm's own leave has resolved, and other calls may come between.  *)
(*                                                                         *)
(* "listener" is another peer that was connected from the start and heard  *)
(* every packet of this node once and in order: what it keeps of this      *)
(* node's state.  The packets reach it encoded.                            *)
(***************************************************************************)
EXTENDS Presence, Wire

CONSTANTS
    JoinOptions,  \* the options join() is called with
    MaxLeaves     \* bound on the pending leaves of a topic (not in the code)

ASSUME JoinOptionsAssumption == JoinOptions \subseteq [client : BOOLEAN, server : BOOLEAN]
ASSUME MaxLeavesAssumption == MaxLeaves \in Nat

VARIABLES
    leaving,    \* leaving[t]: calls of leave(t) whose promise is pending
    asked,      \* asked[t]: the roles the last call of join or leave asked for
    overtaken,  \* the topics that were joined while a leave was pending
    claimed,    \* claimed[t]: the roles that joins claimed since the last TOPIC_LEAVE
    listener    \* this node's attributes, as the listener knows them

vars == <<st, leaving, asked, overtaken, claimed, listener>>

Roles == [lookingup : TopicName \cup {Absent}, announcing : TopicName \cup {Absent}]
None  == [lookingup |-> Absent, announcing |-> Absent]
Asked(n, client, server) ==
  [lookingup |-> IF client THEN n ELSE Absent, announcing |-> IF server THEN n ELSE Absent]
RolesOf(a, t) == [lookingup |-> a.lookingup[t], announcing |-> a.announcing[t]]

\* There is a peer to listen.
ASSUME OthersAssumption == Others # {}
Ears    == CHOOSE p \in Others : TRUE
Hear(a, packets) ==
  LET s == OnPeerAdd(NewState(Ears, EmptyData), Me)
  IN  Hearing(SetAttr(s, Me, a), Me, packets).attr[Me]

SwarmInit ==
  /\ Init
  /\ leaving = [t \in Topic |-> 0]
  /\ asked = [t \in Topic |-> None]
  /\ overtaken = {}
  /\ claimed = [t \in Topic |-> None]
  /\ listener = Hear(Fresh(FALSE), Announcements(st, Ears))

------------------------------------------------------------------------------
\* join(topic, options)
SwarmJoin(t, n, o) ==
  /\ Join(t, n, o.client, o.server)
  /\ asked' = [asked EXCEPT ![t] = Asked(n, o.client, o.server)]
  /\ overtaken' = IF leaving[t] > 0 THEN overtaken \cup {t} ELSE overtaken \ {t}
  /\ claimed' = [claimed EXCEPT ![t].lookingup  = IF o.client THEN n ELSE @,
                                ![t].announcing = IF o.server THEN n ELSE @]
  /\ listener' = Hear(listener, <<TopicJoin(t, n, o.client, o.server)>>)
  /\ UNCHANGED leaving

\* leave(topic): super.leave(buffer) is called.
SwarmLeave(t) ==
  /\ leaving[t] < MaxLeaves
  /\ leaving' = [leaving EXCEPT ![t] = @ + 1]
  /\ asked' = [asked EXCEPT ![t] = None]
  /\ overtaken' = overtaken \ {t}
  /\ UNCHANGED <<st, claimed, listener>>

\* ... and its promise is resolved: onleave(buffer).
LeaveDone(t) ==
  /\ leaving[t] > 0
  /\ leaving' = [leaving EXCEPT ![t] = @ - 1]
  /\ Leave(t)
  /\ claimed' = [claimed EXCEPT ![t] = None]
  /\ listener' = Hear(listener, <<TopicLeave(t)>>)
  /\ UNCHANGED <<asked, overtaken>>

\* Steps of the presence that the application does not ask Hyperswarm for.
SwarmPeerAdd(p) ==
  PeerAdd(p) /\ listener' = Hear(listener, Announcements(st, p))
SwarmDhtState ==
  DhtState /\ listener' = Hear(listener, <<Persistence(st'.attr[Me].ephemeral)>>)
SwarmUserData ==
  NewUserData /\ listener' = Hear(listener, <<Advertise(st'.attr[Me].data)>>)
Silent ==
  /\ \/ RecvBootstrapResponse \/ AppBroadcast
     \/ \E p \in Others : Unannounced(p)
  /\ UNCHANGED listener

SwarmNext ==
  \/ \E t \in Topic, n \in TopicName, o \in JoinOptions : SwarmJoin(t, n, o)
  \/ \E t \in Topic : SwarmLeave(t) \/ LeaveDone(t)
  \/ /\ SwarmDhtState \/ SwarmUserData \/ Silent \/ \E p \in Others : SwarmPeerAdd(p)
     /\ UNCHANGED <<leaving, asked, overtaken, claimed>>

SwarmSpec == SwarmInit /\ [][SwarmNext]_vars

------------------------------------------------------------------------------
(* As long as no join comes while a leave of the same topic is pending,    *)
(* this node is subscribed to a topic exactly as the last call asked, the  *)
(* roles the call left out included (onjoin, onleave), whatever peers,     *)
(* bootstrap responses and _recalculate do to the rest of the graph.       *)
CalmlyAdvertised ==
  \A t \in Topic :
    leaving[t] = 0 /\ t \notin overtaken => RolesOf(st.attr[Me], t) = asked[t]

(* What this node advertises has arrived at a peer that missed nothing:    *)
(* every role with its hashtag, the data and whether it is persistent,     *)
(* through encode() and decode().  A role that a later join gave up may    *)
(* stay there (see HeardAsAsked), but nothing else does: the peer has the  *)
(* roles that were claimed since the last leave, and no others.            *)
ListenerCovers ==
  LET mine == st.attr[Me]
  IN  /\ listener.ephemeral = mine.ephemeral
      /\ listener.data = mine.data
      /\ \A t \in Topic :
           /\ mine.lookingup[t] # Absent => listener.lookingup[t] = mine.lookingup[t]
           /\ mine.announcing[t] # Absent => listener.announcing[t] = mine.announcing[t]
           /\ RolesOf(listener, t) = claimed[t]

(* What onpeeradd announces is enough for a peer that knows nothing: it    *)
(* learns the connection and this node's topics, roles, hashtags, data and *)
(* persistence exactly as they are (presence.ts:411-460).                  *)
Introduces ==
  \A p \in Others :
    LET new == Hearing(OnPeerAdd(NewState(p, EmptyData), Me), Me, Announcements(st, p))
    IN  /\ Edge(Me, p) \in new.edges
        /\ new.attr[Me] = [st.attr[Me] EXCEPT !.connection = TRUE, !.connected = {}]

(* A bootstrap response says the same on both ends of the wire: every      *)
(* peer, topic, role and name of _bootstrapper survives the nested maps,   *)
(* where what is not listed and what is "" has to be told apart from null. *)
AnswerSurvives ==
  LET answer == BootstrapResponse(Bootstrapper(st))
  IN  Decode(Encode(answer)).bootstrap = Bootstrapper(st)

------------------------------------------------------------------------------
(* What the documentation says and the code does not do. *)

(* "Always know which topic peers have joined" (README.md:16): with no     *)
(* leave pending, a peer that missed nothing knows this node in the roles  *)
(* that the last call of join or leave asked for.                          *)
HeardAsAsked ==
  \A t \in Topic : leaving[t] = 0 => RolesOf(listener, t) = asked[t]
==============================================================================
