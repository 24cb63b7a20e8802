------------------------ MODULE SubscriptionRegistry ------------------------
(***************************************************************************)
(* What the subscription managers promise about the registry they keep     *)
(* (active_subscriptions): it changes only by the registration of one new  *)
(* subscription or by the removal of the one an unsubscribe names, and an  *)
(* address never has two userEvent subscriptions.  Connecting, losing the  *)
(* connection, restoring, stopping and restarting leave it alone.          *)
(***************************************************************************)
EXTENDS Integers

CONSTANTS Channels, Identifiers, IdentOf, UserEvents

VARIABLE registered   \* the subscriptions, each an id and its channel

Init == registered = {}

(* A fresh id, and for a userEvent identifier the only one. *)
Add(s) ==
    /\ \A t \in registered :
          /\ t.id # s.id
          /\ IdentOf[s.chan] \in UserEvents => IdentOf[t.chan] # IdentOf[s.chan]
    /\ registered' = registered \cup {s}

Remove(s) ==
    /\ s \in registered
    /\ registered' = registered \ {s}

Next ==
    \/ \E s \in registered' : Add(s)
    \/ \E s \in registered : Remove(s)

Spec == Init /\ [][Next]_registered
=============================================================================
