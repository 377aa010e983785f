---------------------------- MODULE MCOrderBook ----------------------------
(***************************************************************************)
(* Small instances of OrderBook: prices at the limits and between, two    *)
(* grid points, and rows in the warm-up, at a grid point and after the    *)
(* end.                                                                   *)
(***************************************************************************)
EXTENDS OrderBookProperties, TLC

CONSTANTS up, down

TokenOrder == <<down, up>>

NoClaim == [s \in Sides |-> None]
Claims(bid, ask) == [s \in Sides |-> IF s = "BUY" THEN bid ELSE ask]
Row(recv, type) ==
    [recv |-> recv, type |-> type, levels |-> None, side |-> None, price |-> None,
     size |-> None, old |-> None, new |-> None, best |-> NoClaim]

Book(recv, bids, asks) ==
    [Row(recv, "book") EXCEPT
        !.levels = [s \in Sides |-> [p \in IF s = "BUY" THEN bids ELSE asks |-> 1]]]
Change(recv, side, price, size, best) ==
    [Row(recv, "change") EXCEPT !.side = side, !.price = price, !.size = size, !.best = best]
Trade(recv) == Row(recv, "trade")
Tick(recv, old, new) == [Row(recv, "tick") EXCEPT !.old = old, !.new = new]

\* Changes that improve, remove, replace, lock, prune a side and empty one.
RowsAt(t) ==
    {Book(t, {1}, {3}), Book(t, {2}, {}),
     Change(t, "BUY", 0, 1, NoClaim), Change(t, "BUY", 2, 1, NoClaim),
     Change(t, "BUY", 3, 2, NoClaim),
     Change(t, "BUY", 1, 0, Claims(0, None)), Change(t, "BUY", 1, 2, Claims(1, One)),
     Change(t, "SELL", 3, 0, NoClaim), Change(t, "SELL", 2, 1, Claims(1, 2)),
     Trade(t), Tick(t, 1, 2)}

Before == 0
Within == 2
Rows == RowsAt(Before) \cup RowsAt(Within)

Anchor == Book(Before, {1}, {3})
UpInputs ==
    {<<>>} \cup {<<a, b>> : a \in Rows, b \in Rows}
      \cup {<<Anchor, a, b, c>> : a \in Rows, b \in Rows, c \in RowsAt(Within)}
DownInputs ==
    {<<>>, <<Anchor>>, <<Book(1, {1}, {2})>>, <<Trade(Before), Book(Within, {1}, {2})>>,
     <<Book(3, {1}, {2})>>, <<Tick(Before, 1, 2)>>}

MarketInputs ==
    {[t \in {up, down} |-> IF t = up THEN u ELSE d] : u \in UpInputs, d \in DownInputs}
=============================================================================
