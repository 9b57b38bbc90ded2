------------------------------ MODULE TopicsOps ------------------------------
(***************************************************************************)
(* The operations of class Topics (src/topics.ts) as functions from a      *)
(* topic map to a topic map.  A topic map has two parts that the class     *)
(* keeps in step by hand: "store", the topics the node has heard of with   *)
(* their hashtag or Null, and "counter", how often each was set.           *)
(* A key missing from "store" has the value Absent; a key missing from     *)
(* "counter" reads as 0, the default the FastMap is built with.            *)
(***************************************************************************)
EXTENDS Integers

CONSTANTS
    Topic,      \* topic buffers
    Name,       \* hashtags
    Null,       \* the name of a topic joined by its buffer
    Absent      \* no entry in a map

ASSUME NameAssumption == Null \notin Name /\ Absent \notin Name /\ Absent # Null

TopicName == Name \cup {Null}

\* A FastMap<topic, name | null>: also the type of State.announcing / lookingup.
SubMap == [Topic -> TopicName \cup {Absent}]
NoSubs == [t \in Topic |-> Absent]

TopicMap   == [store : SubMap, counter : [Topic -> Int]]
NoTopics   == [store |-> NoSubs, counter |-> [t \in Topic |-> 0]]

TopicsHas(tp, t)   == tp.store[t] # Absent

\* Faulty variants of TopicsSet and TopicsDelete: the last hashtag wins, and
\* the entry goes with the first peer that leaves.
TopicsSetLatest(tp, t, name) ==
  [store |-> [tp.store EXCEPT ![t] = name], counter |-> [tp.counter EXCEPT ![t] = @ + 1]]
TopicsDeleteFirst(tp, t) ==
  [store |-> [tp.store EXCEPT ![t] = Absent], counter |-> [tp.counter EXCEPT ![t] = @ - 1]]

\* set(key, value): a hashtag replaces Null but never another hashtag.
TopicsSet(tp, t, name) ==
  LET learnsName == name \in Name /\ tp.store[t] \notin Name
      isNew      == ~ TopicsHas(tp, t)
  IN  [store   |-> IF learnsName \/ isNew THEN [tp.store EXCEPT ![t] = name]
                                          ELSE tp.store,
       counter |-> [tp.counter EXCEPT ![t] = @ + 1]]

\* delete(key): the entry goes only when the counter reads exactly 1, and the
\* counter's own entry only when the store had the key.
TopicsDelete(tp, t) ==
  IF tp.counter[t] = 1
  THEN [store   |-> [tp.store EXCEPT ![t] = Absent],
        counter |-> [tp.counter EXCEPT ![t] = IF TopicsHas(tp, t) THEN 0 ELSE @]]
  ELSE [tp EXCEPT !.counter[t] = @ - 1]
==============================================================================
