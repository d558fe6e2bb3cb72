--------------------------- MODULE PositionKeeper ---------------------------
(***************************************************************************)
(* The PositionInfo of one instrument (trading/strategy/position_keeper.h) *)
(* as a value, and what a fill and a valuation make of it.  The code       *)
(* computes in doubles; here the quotients are exact, and the rounding of  *)
(* doubles is left out.                                                    *)
(*                                                                         *)
(* A name of the form Operator_Fault is a faulty variant of the operator   *)
(* that follows it; no specification uses one.                             *)
(***************************************************************************)
EXTENDS Integers, FiniteSets, FiniteSetsExt

\* Price{}, which is INVALID: the largest value of the type, -1 modulo 2^64.
NoPrice == -1

Sides == {"BUY", "SELL"}
sideToValue(side) == IF side = "BUY" THEN 1 ELSE -1
Opposite(side) == IF side = "BUY" THEN "SELL" ELSE "BUY"
Abs(n) == IF n < 0 THEN -n ELSE n
Least(m, n) == IF m < n THEN m ELSE n

----------------------------------------------------------------------------
(* Fractions, in lowest terms.                                             *)

Fraction(n, d) ==
    LET den == Min({ k \in 1 .. d : (n * k) % d = 0 })
    IN  [num |-> (n * den) \div d, den |-> den]
Whole(n) == [num |-> n, den |-> 1]
Plus(a, b) == Fraction(a.num * b.den + b.num * a.den, a.den * b.den)
Minus(a, b) == Fraction(a.num * b.den - b.num * a.den, a.den * b.den)
Times(a, n) == Fraction(a.num * n, a.den)
Over(a, n) == Fraction(a.num, a.den * n)
AtMost(a, b) == a.num * b.den <= b.num * a.den

----------------------------------------------------------------------------
(* PositionInfo.                                                           *)

Flat == [side \in Sides |-> Whole(0)]
NoPosition == [position |-> 0, volume |-> 0, open_vwap |-> Flat,
               real_pnl |-> Whole(0), unreal_pnl |-> Whole(0), total_pnl |-> Whole(0)]

\* The unrealized profit at a price, of a position that is not zero.
Unrealized(position, open_vwap, price) ==
    LET average(side) == Over(open_vwap[side], Abs(position))
    IN  Times(IF position > 0 THEN Minus(price, average("BUY")) ELSE Minus(average("SELL"), price),
              Abs(position))

\* After a flip the sum of the side that was closed is kept.
OpenVwap_KeepsClosed(old, side, price, qty) ==
    LET oi == Opposite(side)
        new_position == old.position + sideToValue(side) * qty
        average == Over(old.open_vwap[oi], Abs(old.position))
    IN  IF new_position = 0 THEN Flat
        ELSE IF old.position * sideToValue(side) >= 0
        THEN [old.open_vwap EXCEPT ![side] = Plus(@, Whole(price * qty))]
        ELSE IF new_position * old.position < 0
        THEN [old.open_vwap EXCEPT ![side] = Whole(price * Abs(new_position))]
        ELSE [old.open_vwap EXCEPT ![oi] = Times(average, Abs(new_position))]
\* The sums of price times quantity after a fill.
OpenVwap(old, side, price, qty) ==
    LET oi == Opposite(side)
        new_position == old.position + sideToValue(side) * qty
        average == Over(old.open_vwap[oi], Abs(old.position))
    IN  IF new_position = 0 THEN Flat
        ELSE IF old.position * sideToValue(side) >= 0
        THEN [old.open_vwap EXCEPT ![side] = Plus(@, Whole(price * qty))]
        ELSE IF new_position * old.position < 0
        THEN [Flat EXCEPT ![side] = Whole(price * Abs(new_position))]
        ELSE [old.open_vwap EXCEPT ![oi] = Times(average, Abs(new_position))]

\* A flip realizes the profit of the whole fill.
Realized_WholeFill(old, side, price, qty) ==
    LET average == Over(old.open_vwap[Opposite(side)], Abs(old.position))
    IN  IF old.position * sideToValue(side) >= 0 THEN Whole(0)
        ELSE Times(Minus(average, Whole(price)), qty * sideToValue(side))
\* The profit that a fill realizes, on the part of it that closes.
Realized(old, side, price, qty) ==
    LET average == Over(old.open_vwap[Opposite(side)], Abs(old.position))
    IN  IF old.position * sideToValue(side) >= 0 THEN Whole(0)
        ELSE Times(Minus(average, Whole(price)),
                   Least(qty, Abs(old.position)) * sideToValue(side))

addFill(old, side, price, qty) ==
    LET new_position == old.position + sideToValue(side) * qty
        open_vwap == OpenVwap(old, side, price, qty)
        real_pnl == Plus(old.real_pnl, Realized(old, side, price, qty))
        unreal_pnl == IF new_position = 0 THEN Whole(0)
                      ELSE Unrealized(new_position, open_vwap, Whole(price))
    IN  [position |-> new_position, volume |-> old.volume + qty, open_vwap |-> open_vwap,
         real_pnl |-> real_pnl, unreal_pnl |-> unreal_pnl, total_pnl |-> Plus(real_pnl, unreal_pnl)]

Values(position, bbo) ==
    position # 0 /\ bbo.bid_price # NoPrice /\ bbo.ask_price # NoPrice
Mid(bbo) == Fraction(bbo.bid_price + bbo.ask_price, 2)

updateBBO(old, bbo) ==
    IF Values(old.position, bbo)
    THEN LET unreal_pnl == Unrealized(old.position, old.open_vwap, Mid(bbo))
         IN  [old EXCEPT !.unreal_pnl = unreal_pnl, !.total_pnl = Plus(old.real_pnl, unreal_pnl)]
    ELSE old

=============================================================================
