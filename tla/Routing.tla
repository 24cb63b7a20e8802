------------------------------ MODULE Routing ------------------------------
(***************************************************************************)
(* How subscriptions and messages are keyed: channel_to_identifier() and   *)
(* ws_msg_to_identifier() of both managers (websocket/async_ws.py,         *)
(* websocket/ws.py).  A channel "topic@target" is a record, lower() is a   *)
(* function on the spellings of targets, and a test such as                *)
(* "ticker" in channel looks at the topic only: targets are market ids and *)
(* addresses.  Acknowledgements, pongs and messages that are no            *)
(* subscription updates have no identifier and are left out.               *)
(***************************************************************************)
EXTENDS Naturals

CONSTANTS
    Targets,     \* spellings of market ids and addresses
    Lower,       \* str.lower()
    Addresses,   \* the targets is_address() accepts
    NoIdent

ASSUME LowerAssumption == Lower \in [Targets -> Targets]

PerpTopics ==
    {"perp_ticker", "perp_markPrice", "perp_aggTrade", "perp_aggDepth", "perp_candle"}
MarketTopics == {"trade", "depth", "ticker"}
Words  == MarketTopics \cup {"userEvent"}
Topics == PerpTopics \cup Words

Channel == [topic : Topics, target : Targets]

(* A subscription update: its channel, the marketId it carries, and whether *)
(* its result is empty.                                                     *)
Message == [channel : Channel, market : Targets, empty : BOOLEAN]

(* The tags of the identifiers, in each manager. *)
AsyncTag ==
    [topic \in Topics |-> CASE topic = "perp_markPrice" -> "perp_markprice"
                            [] topic = "perp_aggTrade"  -> "perp_aggtrade"
                            [] topic = "perp_aggDepth"  -> "perp_aggdepth"
                            [] topic = "userEvent"      -> "userevent"
                            [] OTHER                    -> topic]
SyncTag == [topic \in Topics |-> topic]

Identifier(tag, topic, target) == [tag |-> tag[topic], key |-> Lower[target]]

-----------------------------------------------------------------------------
(* The words a topic contains; the comparison is case-sensitive. *)
Contained(topic) ==
    IF topic = "perp_ticker" THEN {"ticker"} ELSE {topic} \cap Words

Word(topic) == CHOOSE word \in Words : word \in Contained(topic)

(* Perp channels first, then the word. *)
channel_to_identifier(tag, chan) ==
    IF chan.topic \in PerpTopics
    THEN Identifier(tag, chan.topic, chan.target)
    ELSE Identifier(tag, Word(chan.topic), chan.target)

WordIdentifier(tag, m) ==
    LET word == Word(m.channel.topic) IN
    IF m.empty \/ (word = "userEvent" /\ m.channel.target \notin Addresses)
    THEN NoIdent
    ELSE Identifier(tag, word,
                    IF word = "userEvent" THEN m.channel.target ELSE m.market)

WordsFirst(tag, m) ==    \* mutant: "ticker" is looked for in perp_ticker, too
    IF Contained(m.channel.topic) # {}
    THEN WordIdentifier(tag, m)
    ELSE Identifier(tag, m.channel.topic, m.channel.target)

(* A perp message is keyed by its channel alone, a market message by the    *)
(* market it carries, a user event by the address in its channel.           *)
ws_msg_to_identifier(tag, m) ==
    IF m.channel.topic \in PerpTopics
    THEN Identifier(tag, m.channel.topic, m.channel.target)
    ELSE WordIdentifier(tag, m)

-----------------------------------------------------------------------------
(* What the server sends for a channel: the market of the channel, in a     *)
(* spelling of its own.                                                     *)
SameStream(a, b) == a.topic = b.topic /\ Lower[a.target] = Lower[b.target]

Sent(m) ==
    m.channel.topic \in MarketTopics => Lower[m.market] = Lower[m.channel.target]

(* A message that has something to say to subscribers. *)
Speaks(m) ==
    \/ m.channel.topic \in PerpTopics
    \/ ~m.empty /\ (m.channel.topic = "userEvent" => m.channel.target \in Addresses)
=============================================================================
