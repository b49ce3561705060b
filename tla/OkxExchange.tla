------------------------------ MODULE OkxExchange ------------------------------
(***************************************************************************)
(* The exchange as the executor sees it: the orders of one instrument and  *)
(* the signed net position they build up.  The exchange is not part of the *)
(* repository; it is modelled from how exchange/okx/rest_client.py and the *)
(* main loop use it.  Prices are left out: a resting maker order may be    *)
(* filled, in parts, or taken off the book at any moment.                  *)
(*                                                                         *)
(* An order stays in `orders' while it is open or while the executor still *)
(* holds its identifier (`tracked'), since no request can name any other.  *)
(***************************************************************************)
EXTENDS Integers, FiniteSets

CONSTANTS
  OrderIds,  \* identifiers for orders the exchange still has to answer about
  MaxNet,    \* bound: fills that would take the net position further are left out
  None       \* "no such thing"; differs from every order and every record

ASSUME MaxNetAssumption == MaxNet \in Nat \ {0}

VARIABLES
  orders,    \* OrderIds -> order or None
  net        \* signed position in lots, positive when long

exchangeVars == <<orders, net>>

Sides == {"buy", "sell"}
Lots == Nat \ {0}

\* The prefix of the client order id: "rb-" of a signal, "entry" of a repriced
\* entry, "exit" and "exit-mkt" of an exit.
Kinds == {"signal", "entry", "exit"}

Order == [side: Sides, kind: Kinds, reduceOnly: BOOLEAN,
          size: Lots, done: Nat, state: {"live", "filled", "canceled"}]

NewOrder(side, kind, reduceOnly, size) ==
  [side |-> side, kind |-> kind, reduceOnly |-> reduceOnly,
   size |-> size, done |-> 0, state |-> "live"]

Opposite(side) == IF side = "buy" THEN "sell" ELSE "buy"
Signed(side, q) == IF side = "buy" THEN q ELSE -q
Abs(n) == IF n < 0 THEN -n ELSE n
Least(m, n) == IF m < n THEN m ELSE n

Live(o) == orders[o] # None /\ orders[o].state = "live"
LiveOrders == {o \in OrderIds : Live(o)}
Unused == {o \in OrderIds : orders[o] = None}

\* The part of the book that later requests can still be about.
Known(book, tracked) ==
  [o \in OrderIds |->
     IF book[o] # None /\ (book[o].state = "live" \/ o = tracked)
     THEN book[o] ELSE None]

\* Is there a position on the other side for a reduce-only order to reduce?
CanReduce(side) == IF side = "sell" THEN net > 0 ELSE net < 0

Accepts(order) == order.reduceOnly => CanReduce(order.side)

\* A limit order is accepted and rests under the identifier o.
Rest(o, order, tracked) ==
  /\ o \in Unused
  /\ Accepts(order)
  /\ orders' = Known([orders EXCEPT ![o] = order], tracked)
  /\ net' = net

\* A reduce-only market order is carried out at once, up to the position.
TakeMarket(order) ==
  /\ Accepts(order)
  /\ net' = net + Signed(order.side, Least(order.size, Abs(net)))

MarkCanceled(o, tracked) ==
  /\ orders' = Known([orders EXCEPT ![o].state = "canceled"], tracked)
  /\ net' = net

---------------------------------------------------------------------------
(* What happens at the exchange without a request.                         *)

\* A maker order is hit for q lots.
Fill(o, q, tracked) ==
  LET ord == orders[o]
      n == net + Signed(ord.side, q)
  IN /\ Live(o)
     /\ ord.done + q <= ord.size
     /\ ord.reduceOnly => CanReduce(ord.side) /\ q <= Abs(net)
     /\ Abs(n) <= MaxNet
     /\ net' = n
     /\ orders' = Known([orders EXCEPT ![o].done = @ + q,
                           ![o].state = IF ord.done + q = ord.size
                                        THEN "filled" ELSE "live"], tracked)

\* The exchange takes an order off the book: a post-only order that would
\* cross, a reduce-only order with nothing left to reduce, a slow cancel that
\* takes effect, an operator in the exchange's own user interface.
CancelUnasked(o, tracked) ==
  /\ Live(o)
  /\ MarkCanceled(o, tracked)
=============================================================================
