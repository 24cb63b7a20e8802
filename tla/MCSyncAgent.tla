---------------------------- MODULE MCSyncAgent ----------------------------
(* Small instance of SyncAgent for TLC.                                    *)
EXTENDS SyncAgent

CONSTANTS c1, c2, kaia, usdt, btc, eth

(* The token endpoint answers with its list, or with nothing. *)
MCTokenAnswers == {{}, {kaia, usdt}}

(* One market is listed while the other is, before or after it. *)
MCListings == {{btc}, {btc, eth}, {eth}}

(* Both threads trade perps and deposit; one of them also trades spot. *)
MCOps ==
    [c \in {c1, c2} |->
        IF c = c1 THEN {"order", "modify", "perp"}
        ELSE {"query", "transfer", "subscribe", "perp"}]

(* The deposits share the allowance of one token, or only the nonces. *)
MCPlans ==
    [c \in {c1, c2} |->
        IF c = c1 THEN {[token |-> usdt, amount |-> 2]}
        ELSE {[token |-> t, amount |-> 1] : t \in {kaia, usdt}}]

Grid == INSTANCE Normalize

D(m, e) == [m |-> m, e |-> e]

Order(kind, price, quantity, stop, tpsl) ==
    [kind |-> kind, price |-> price, quantity |-> quantity, stop |-> stop, tpsl |-> tpsl]

Attaching(names, price) ==
    [given |-> names, price |-> [n \in Grid!TpslPrice |-> price]]

Alone == Grid!NoTpsl

(* Prices that rounding lifts into the next band, from 0.999999999 to 1 and *)
(* from 9999.96 to 10000, the trigger of a stop order whose price is in     *)
(* that band already; a decimal half, from 9999.95, for the price and the   *)
(* trigger of another; and a limit order lifted over its take-profit.       *)
MCOrders ==
    { Order("limit", D(999996, 2), D(3, 0), D(0, 0), Attaching({"tp_limit"}, D(999998, 2))),
      Order("market", D(0, 0), D(1234567, 6), D(0, 0), Attaching({"sl_limit"}, D(9, 0))),
      Order("modify", D(999999999, 9), D(1249, 2), D(0, 9), Alone),
      Order("stop", D(1000004, 2), D(3, 0), D(999996, 2), Alone),
      Order("stop", D(999995, 2), D(3, 0), D(999995, 2), Alone) }
=============================================================================
