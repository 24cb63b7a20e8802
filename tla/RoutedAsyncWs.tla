--------------------------- MODULE RoutedAsyncWs ---------------------------
(* The asynchronous manager with the keys of Routing: subscribe() files a  *)
(* subscription under channel_to_identifier(), on_message() looks a message *)
(* up under ws_msg_to_identifier().                                        *)
EXTENDS AsyncWs, Routing

KeyedByRouting ==
    /\ Channels \subseteq Channel
    /\ \A m \in Messages : m \in Message /\ Sent(m)
    /\ NoIdent \notin Identifiers
    /\ IdentOf = [chan \in Channels |-> channel_to_identifier(AsyncTag, chan)]
    /\ MsgIdent = [m \in Messages |-> ws_msg_to_identifier(AsyncTag, m)]
    /\ About = [m \in Messages |->
                  {chan \in Channels : Speaks(m) /\ SameStream(chan, m.channel)}]
=============================================================================
