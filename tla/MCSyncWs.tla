------------------------------ MODULE MCSyncWs ------------------------------
(* Small instances of SyncWs for TLC; keys are those of Routing.           *)
EXTENDS SyncWs, Routing, TLC

CONSTANTS c1, c2

(* A market, and an address in two spellings. *)
MCTargets   == {"1", "0xab", "0xAB"}
MCLower     == [t \in MCTargets |-> IF t = "1" THEN "1" ELSE "0xab"]
MCAddresses == {"0xab", "0xAB"}

Chan(topic, target) == [topic |-> topic, target |-> target]

(* A market stream and the account events of the address. *)
MCChannels    == {Chan("perp_ticker", "1"), Chan("userEvent", "0xAB")}
MCIdentOf     == [chan \in MCChannels |-> channel_to_identifier(SyncTag, chan)]
MCIdentifiers == {MCIdentOf[chan] : chan \in MCChannels}
MCUserEvents  == {i \in MCIdentifiers : i.tag = "userEvent"}

(* The account events, asked for in both spellings. *)
MCSpellings    == {Chan("userEvent", "0xab"), Chan("userEvent", "0xAB")}
MCSpellIdentOf == [chan \in MCSpellings |-> channel_to_identifier(SyncTag, chan)]
MCSpellIdentifiers == {MCSpellIdentOf[chan] : chan \in MCSpellings}
=============================================================================
