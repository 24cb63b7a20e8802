----------------------------- MODULE MCAsyncWs -----------------------------
(* Small instances of AsyncWs for TLC.  The keys of channels and messages  *)
(* are those of Routing, for one perp market and one address.              *)
EXTENDS RoutedAsyncWs, TLC

CONSTANTS c1, c2, k1, k2

(* A market, and three spellings of an address; is_address() rejects a     *)
(* mixed-case one with a wrong checksum.                                   *)
MCTargets   == {"1", "0xab", "0xAB", "0xAb"}
MCLower     == [t \in MCTargets |-> IF t = "1" THEN "1" ELSE "0xab"]
MCAddresses == {"0xab", "0xAB"}

Chan(topic, target) == [topic |-> topic, target |-> target]

(* A market stream, whose topic contains another one, and account events.  *)
MCChannels    == {Chan("perp_ticker", "1"), Chan("userEvent", "0xAB")}
MCIdentOf     == [chan \in MCChannels |-> channel_to_identifier(AsyncTag, chan)]
MCIdentifiers == {MCIdentOf[chan] : chan \in MCChannels}
MCUserEvents  == {i \in MCIdentifiers : i.tag = "userevent"}

(* The same, with the address in two spellings. *)
MCSpellings   == MCChannels \cup {Chan("userEvent", "0xab")}
MCSpellIdentOf == [chan \in MCSpellings |-> channel_to_identifier(AsyncTag, chan)]

(* One channel is enough to lose and recover a subscription. *)
MCOneChannel  == {Chan("perp_ticker", "1")}
MCOneIdentOf  == [chan \in MCOneChannel |-> channel_to_identifier(AsyncTag, chan)]
MCOneIdentifier == {MCOneIdentOf[chan] : chan \in MCOneChannel}

(* Updates of three streams, in other spellings than subscribed, one of    *)
(* them with nothing to report and one under a rejected address.           *)
Update(topic, target, empty) ==
    [channel |-> Chan(topic, target), market |-> "1", empty |-> empty]
MCMessages ==
    {Update("perp_ticker", "1", FALSE), Update("ticker", "1", FALSE),
     Update("userEvent", "0xab", FALSE), Update("userEvent", "0xab", TRUE),
     Update("userEvent", "0xAb", FALSE)}
ASSUME Keyed == KeyedByRouting
MCMsgIdent == [m \in MCMessages |-> ws_msg_to_identifier(AsyncTag, m)]
MCAbout ==
    [m \in MCMessages |->
        {chan \in Channels : Speaks(m) /\ SameStream(chan, m.channel)}]

(* Sockets are interchangeable; not used where liveness is checked. *)
Symmetry == Permutations(Conns)
=============================================================================
