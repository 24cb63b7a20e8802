--------------------------- MODULE RoutingProofs ---------------------------
(***************************************************************************)
(* Subscriptions and messages agree on their keys, for every set of        *)
(* targets and addresses and for any spelling; and with these keys every   *)
(* message finds the subscriptions it is about, since the registry files   *)
(* each subscription under its key whatever calls overlap.                 *)
(***************************************************************************)
EXTENDS RoutedAsyncWs, AsyncWsProofs

Tags == {AsyncTag, SyncTag}

LEMMA WordIsTopic ==
    ASSUME NEW topic \in Words PROVE Word(topic) = topic
  BY DEF Word, Words, MarketTopics, Contained

LEMMA TagApart ==
    ASSUME NEW tag \in Tags, NEW s \in Topics, NEW t \in Topics, tag[s] = tag[t]
    PROVE  s = t
  <1>1. CASE tag = SyncTag BY <1>1 DEF SyncTag
  <1>2. CASE tag = AsyncTag
    BY <1>2 DEF AsyncTag, Topics, PerpTopics, Words, MarketTopics
  <1> QED BY <1>1, <1>2 DEF Tags

LEMMA SubscribedUnder ==
    ASSUME NEW tag \in Tags, NEW chan \in Channel
    PROVE  channel_to_identifier(tag, chan) = Identifier(tag, chan.topic, chan.target)
  <1>1. CASE chan.topic \in PerpTopics BY <1>1 DEF channel_to_identifier
  <1>2. CASE chan.topic \notin PerpTopics
    <2>1. chan.topic \in Words BY <1>2 DEF Channel, Topics
    <2> QED BY <1>2, <2>1, WordIsTopic DEF channel_to_identifier
  <1> QED BY <1>1, <1>2

(* Two channels share an identifier exactly when they name one stream, up   *)
(* to the case of the target: no two streams are mixed                      *)
(* (async_ws.py:36-88, ws.py:24-63).                                        *)
THEOREM StreamsKeptApart ==
    ASSUME NEW tag \in Tags, NEW a \in Channel, NEW b \in Channel
    PROVE  channel_to_identifier(tag, a) = channel_to_identifier(tag, b)
               <=> SameStream(a, b)
  <1>1. channel_to_identifier(tag, a) = Identifier(tag, a.topic, a.target)
    BY SubscribedUnder
  <1>2. channel_to_identifier(tag, b) = Identifier(tag, b.topic, b.target)
    BY SubscribedUnder
  <1>3. a.topic \in Topics /\ b.topic \in Topics BY DEF Channel
  <1> QED BY <1>1, <1>2, <1>3, TagApart DEF Identifier, SameStream

(* A message that has something to say is keyed as its channel was          *)
(* subscribed, so it is never dropped under a key nobody has, and every     *)
(* other message has no key                                                 *)
(* (async_ws.py:38-40, 91-142; tests/ws_pure_test.py:105-108).              *)
THEOREM RoutesAgree ==
    ASSUME NEW tag \in Tags, NEW m \in Message, Sent(m)
    PROVE  ws_msg_to_identifier(tag, m) =
               IF Speaks(m) THEN channel_to_identifier(tag, m.channel) ELSE NoIdent
  <1> DEFINE topic == m.channel.topic
  <1>1. m.channel \in Channel /\ topic \in Topics BY DEF Message, Channel
  <1>2. channel_to_identifier(tag, m.channel)
            = Identifier(tag, topic, m.channel.target)
    BY <1>1, SubscribedUnder
  <1>3. CASE topic \in PerpTopics
    BY <1>2, <1>3 DEF ws_msg_to_identifier, Speaks
  <1>4. CASE topic \notin PerpTopics
    <2>1. topic \in Words /\ Word(topic) = topic
      BY <1>1, <1>4, WordIsTopic DEF Topics
    <2>2. ws_msg_to_identifier(tag, m) = WordIdentifier(tag, m)
      BY <1>4 DEF ws_msg_to_identifier
    <2>3. CASE m.empty
      <3>1. WordIdentifier(tag, m) = NoIdent BY <2>3 DEF WordIdentifier
      <3> QED BY <1>4, <2>2, <2>3, <3>1 DEF Speaks
    <2>4. CASE ~m.empty /\ topic # "userEvent"
      <3>1. topic \in MarketTopics BY <2>1, <2>4 DEF Words
      <3>2. Word(m.channel.topic) = topic /\ ~m.empty /\ topic # "userEvent"
        BY <2>1, <2>4
      <3>3. WordIdentifier(tag, m) = Identifier(tag, topic, m.market)
        <4> HIDE DEF topic
        <4> QED BY <3>2 DEF WordIdentifier
      <3>4. Identifier(tag, topic, m.market) = Identifier(tag, topic, m.channel.target)
        BY <3>1 DEF Sent, Identifier
      <3> QED BY <1>2, <2>2, <2>4, <3>3, <3>4 DEF Speaks
    <2>5. CASE ~m.empty /\ topic = "userEvent"
      <3>1. Word(m.channel.topic) = "userEvent" /\ ~m.empty BY <2>1, <2>5
      <3>2. CASE m.channel.target \in Addresses
        BY <1>2, <2>2, <2>5, <3>1, <3>2 DEF WordIdentifier, Speaks
      <3>3. CASE m.channel.target \notin Addresses
        BY <1>4, <2>2, <2>5, <3>1, <3>3 DEF WordIdentifier, Speaks
      <3> QED BY <3>2, <3>3
    <2> QED BY <2>3, <2>4, <2>5
  <1> QED BY <1>3, <1>4

-----------------------------------------------------------------------------
(* The asynchronous manager with these keys. *)

(* A message is about a channel exactly when both have the same key. *)
LEMMA KeysAgree ==
    ASSUME KeyedByRouting, NEW m \in Messages, NEW chan \in Channels
    PROVE  chan \in About[m] <=> MsgIdent[m] = IdentOf[chan]
  <1>1. m \in Message /\ m.channel \in Channel /\ chan \in Channel
    BY DEF KeyedByRouting, Message
  <1>2. AsyncTag \in Tags BY DEF Tags
  <1>3. MsgIdent[m] = IF Speaks(m)
                      THEN channel_to_identifier(AsyncTag, m.channel) ELSE NoIdent
    BY <1>1, <1>2, RoutesAgree DEF KeyedByRouting
  <1>4. IdentOf[chan] = channel_to_identifier(AsyncTag, chan)
    BY DEF KeyedByRouting
  <1>5. IdentOf[chan] # NoIdent BY RoutingAssumption DEF KeyedByRouting
  <1>6. channel_to_identifier(AsyncTag, m.channel) = channel_to_identifier(AsyncTag, chan)
            <=> SameStream(chan, m.channel)
    BY <1>1, <1>2, StreamsKeptApart
  <1>7. chan \in About[m] <=> Speaks(m) /\ SameStream(chan, m.channel)
    BY DEF KeyedByRouting
  <1> QED BY <1>3, <1>4, <1>5, <1>6, <1>7

(* With the keys of the code, a message reaches the subscriptions of the    *)
(* streams it is about and no other one (async_ws.py:38-40, 439-453;        *)
(* tests/ws_pure_test.py:105-108).                                          *)
THEOREM MessagesRouted ==
    ASSUME KeyedByRouting PROVE Spec => []RoutedToSubscribers
  <1>1. TypeOK /\ Placed => RoutedToSubscribers
    <2> SUFFICES ASSUME TypeOK, Placed, NEW m \in Messages, NEW s \in Registered
                 PROVE  s \in Listeners(m) <=> s.chan \in About[m]
      BY DEF RoutedToSubscribers
    <2>1. PICK i \in Identifiers : s \in active[i] BY DEF Registered
    <2>2. IdentOf[s.chan] = i BY <2>1 DEF Placed
    <2>3. s.chan \in Channels BY <2>1 DEF TypeOK, Sub
    <2>4. s.chan \in About[m] <=> MsgIdent[m] = i BY <2>2, <2>3, KeysAgree
    <2>5. s \in Listeners(m) <=> MsgIdent[m] = i
      BY <2>1, <2>2 DEF Listeners, Placed
    <2> QED BY <2>4, <2>5
  <1> QED BY <1>1, PlacedInvariant, TypeCorrect, PTL
=============================================================================
