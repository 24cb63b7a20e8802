----------------------------- MODULE Normalize -----------------------------
(***************************************************************************)
(* How spot orders put prices and quantities on the exchange's grid        *)
(* (src/alphasec/transaction/utils.py, and its callers order(), modify()   *)
(* and stop_order() of src/alphasec/api/api.py and async_api.py).          *)
(*                                                                         *)
(* A number is m / 10^e, which is finer than any grid when e is; rounding  *)
(* keeps e.  The code rounds the nearest binary number, so a decimal half  *)
(* may go to either side, but the same number always to the same.          *)
(*                                                                         *)
(* Only price, quantity and the trigger of a stop order are rounded.  The  *)
(* prices of a take-profit and a stop-loss, which order() takes with an    *)
(* order, are sent as they are given.                                      *)
(***************************************************************************)
EXTENDS Naturals

Decimal == [m : Nat, e : Nat]

(* The prices attached to an order: those that are given, and each.  The    *)
(* price of one that is not given does not matter.                          *)
TpslPrice == {"tp_limit", "sl_trigger", "sl_limit"}

Tpsl == [given : SUBSET TpslPrice, price : [TpslPrice -> Decimal]]

Zero == [m |-> 0, e |-> 0]

NoTpsl == [given |-> {}, price |-> [n \in TpslPrice |-> Zero]]

(* An order as it is given.  The two prices of a stop order are written     *)
(* with one e, as any two decimals can be; modify() and stop_order() take   *)
(* no prices to attach.                                                     *)
Order ==
    {o \in [kind : {"limit", "market", "modify", "stop"},
            price : Decimal, quantity : Decimal, stop : Decimal, tpsl : Tpsl] :
        /\ o.kind = "stop" => o.stop.e = o.price.e
        /\ o.kind \in {"modify", "stop"} => o.tpsl = NoTpsl}

(* An order as it is sent. *)
Wire == [price : Decimal, quantity : Decimal, stop : Decimal, tpsl : Tpsl]

(* 10^e, as a function: the provers know no power. *)
Unit[e \in Nat] == IF e = 0 THEN 1 ELSE 10 * Unit[e - 1]

(* The decimals of price and quantity, by the price they start from. *)
Bands ==
    << [from |-> 10000, price |-> 0, quantity |-> 5],
       [from |-> 1000,  price |-> 1, quantity |-> 4],
       [from |-> 100,   price |-> 2, quantity |-> 3],
       [from |-> 10,    price |-> 3, quantity |-> 2],
       [from |-> 1,     price |-> 4, quantity |-> 1],
       [from |-> 0,     price |-> 8, quantity |-> 0] >>

AtLeast(x, n) == x.m \div Unit[x.e] >= n

Band(price) ==
    Bands[CHOOSE i \in DOMAIN Bands :
            /\ AtLeast(price, Bands[i].from)
            /\ \A j \in 1..(i - 1) : ~AtLeast(price, Bands[j].from)]

(* round(x, decimals): the nearest multiples of the tick. *)
Rounded(x, decimals) ==
    IF x.e <= decimals THEN {x}
    ELSE LET tick == Unit[x.e - decimals]
             down == x.m - (x.m % tick)
         IN  {[x EXCEPT !.m = n] :
                 n \in {k \in {down, down + tick} :
                          2 * k <= 2 * x.m + tick /\ 2 * x.m <= 2 * k + tick}}

ByOwnSize(price, quantity) ==   \* mutant: the quantity goes by its own size
    {[price |-> p, quantity |-> q] : p \in Rounded(price, Band(price).price),
                                     q \in Rounded(quantity, Band(quantity).quantity)}

normalize_price_quantity(price, quantity) ==
    {[price |-> p, quantity |-> q] : p \in Rounded(price, Band(price).price),
                                     q \in Rounded(quantity, Band(price).quantity)}

(* A market order has no price, and its quantity is sent as it is. *)
resolve_spot_order_price_quantity(o) ==
    IF o.kind = "market" THEN {[price |-> Zero, quantity |-> o.quantity]}
    ELSE normalize_price_quantity(o.price, o.quantity)

StopSwapped(o) ==        \* mutant: the two prices in the wrong order
    {[price |-> s.price, quantity |-> n.quantity, stop |-> n.price, tpsl |-> NoTpsl] :
        n \in normalize_price_quantity(o.price, o.quantity),
        s \in normalize_price_quantity(o.stop, o.quantity)}

StopOrder(o) ==
    {w \in {[price |-> n.price, quantity |-> n.quantity, stop |-> s.price, tpsl |-> NoTpsl] :
               n \in normalize_price_quantity(o.price, o.quantity),
               s \in normalize_price_quantity(o.stop, o.quantity)} :
        o.stop = o.price => w.stop = w.price}

(* The attached prices go out as they are, but a limit of the stop-loss     *)
(* alone is dropped.                                                        *)
TpslSent(tpsl) ==
    IF tpsl.given \subseteq {"sl_limit"} THEN NoTpsl ELSE tpsl

(* What may be sent for the order o. *)
Posted(o) ==
    IF o.kind = "stop" THEN StopOrder(o)
    ELSE {[price |-> n.price, quantity |-> n.quantity, stop |-> Zero,
           tpsl |-> TpslSent(o.tpsl)] : n \in resolve_spot_order_price_quantity(o)}

-----------------------------------------------------------------------------
OnGrid(x, decimals) ==
    x.e <= decimals \/ x.m % Unit[x.e - decimals] = 0

(* The grid of the price that is sent, which may be in another band than   *)
(* the price that was given.                                               *)
PairOnGrid(price, quantity) ==
    /\ OnGrid(price, Band(price).price)
    /\ OnGrid(quantity, Band(price).quantity)
=============================================================================
