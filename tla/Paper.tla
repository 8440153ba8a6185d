--------------------------------- MODULE Paper ---------------------------------
(***************************************************************************)
(* tools/quant/paper.py: the paper-trading portfolio and its file.  Money  *)
(* is counted in cents, shares in units of which Unit make a share (10^6   *)
(* in the code), so that every rounding of the code is a rounding here.    *)
(***************************************************************************)
EXTENDS Integers, FiniteSetsExt

CONSTANTS
  Ticker,
  Price,        \* bound: the prices, in cents
  Dollars,      \* bound: the amounts a caller asks for, in cents
  Unit,         \* the units of a share
  Capitals,     \* the initial_capital of the configurations a process starts with
  Reserve,      \* the cash kept back by cash_reserve_pct, for each capital
  OrderParts,   \* an order without an amount spends one part of the usable cash
  MaxPosition,  \* max_position_pct of the capital, applied to each order
  MinCost,      \* the least amount of a fractional order
  MaxTrades     \* bound: the trades of a portfolio

ASSUME PaperAssumption ==
  /\ IsFiniteSet(Ticker)
  /\ IsFiniteSet(Price) /\ Price # {} /\ Price \subseteq Nat \ {0} /\ Dollars \subseteq Nat
  /\ {Unit, OrderParts, MinCost} \subseteq Nat \ {0}
  /\ Capitals \subseteq Nat /\ Capitals # {} /\ MaxTrades \in Nat
  /\ {Reserve, MaxPosition} \subseteq [Capitals -> Nat]
  /\ \A c \in Capitals : Reserve[c] <= c

VARIABLES
  book,      \* the portfolio in memory
  disk,      \* the portfolio file, "missing", "torn" or "whole", and its content
  session    \* the process: "down", "open", "saving" or "failed"

paperVars == <<book, disk, session>>

Held == {t \in Ticker : book.pos[t].shares > 0}

\* capital is the configuration's.  The sum of pnl over the trades stands for
\* the trades themselves.  Two fields are history: deposit, the capital the cash
\* began from, and rounding, twice what the roundings so far may add up to, in
\* cents a unit.
NewBook(c) ==
  [capital |-> c, cash |-> c, pos |-> [t \in Ticker |-> [shares |-> 0, avg |-> 0]], pnl |-> 0,
   trades |-> 0, deposit |-> c, rounding |-> 0]

PaperInit ==
  /\ \E c \in Capitals : book = NewBook(c) /\ disk = [file |-> "missing", book |-> NewBook(c)]
  /\ session = "open"

-----------------------------------------------------------------------------
\* round(a / b).
Rounded(a, b) == (2 * a + b) \div (2 * b)
Lesser(a, b) == IF a < b THEN a ELSE b

Usable == book.cash - Reserve[book.capital]

\* Mutated form: an amount that is asked for is held against all the cash.
SpendAsked(asked) == Lesser(MaxPosition[book.capital],
                            IF asked = 0 THEN Usable \div OrderParts ELSE Lesser(asked, book.cash))

Spend(asked) == Lesser(MaxPosition[book.capital],
                       IF asked = 0 THEN Usable \div OrderParts ELSE Lesser(asked, Usable))

\* Mutated form: the last price is taken for the average cost.
LastPrice(pos, shares, cost) == Rounded(cost * Unit, shares)

AverageCost(pos, shares, cost) == Rounded(pos.avg * pos.shares + cost * Unit, pos.shares + shares)

\* buy, with what is below a cent cut off; nothing happens without usable cash, below the least amount, or when
\* the amount does not buy a share (a unit of one).  asked = 0 is no amount.
Buy(t) ==
  \E price \in Price, asked \in Dollars \union {0}, fractional \in BOOLEAN :
    LET spend == Spend(asked)
        shares == IF fractional THEN Rounded(spend * Unit, price) ELSE (spend \div price) * Unit
        cost == Rounded(shares * price, Unit)
        pos == book.pos[t]
    IN /\ session = "open" /\ book.trades < MaxTrades
       /\ Usable > 0 /\ spend >= (IF fractional THEN MinCost ELSE price) /\ shares > 0
       /\ book' = [book EXCEPT !.cash = @ - cost, !.trades = @ + 1,
                     !.rounding = @ + pos.shares + shares,
                     !.pos[t] = [shares |-> pos.shares + shares,
                                 avg |-> AverageCost(pos, shares, cost)]]
       /\ UNCHANGED <<disk, session>>

\* sell; close_all sells what it has a price for, one position after another.
Sell(t) ==
  \E price \in Price :
    LET pos == book.pos[t]
        proceeds == Rounded(pos.shares * price, Unit)
    IN /\ session = "open" /\ book.trades < MaxTrades /\ t \in Held
       /\ book' = [book EXCEPT !.cash = @ + proceeds, !.trades = @ + 1,
                     !.rounding = @ + Unit,
                     !.pnl = @ + proceeds - Rounded(pos.shares * pos.avg, Unit),
                     !.pos[t] = [shares |-> 0, avg |-> 0]]
       /\ UNCHANGED <<disk, session>>

\* write_text empties the file and writes it at its close.
Save ==
  /\ session = "open"
  /\ disk' = [file |-> "torn", book |-> NewBook(book.capital)] /\ session' = "saving"
  /\ UNCHANGED book

Saved ==
  /\ session = "saving"
  /\ disk' = [file |-> "whole", book |-> book] /\ session' = "open"
  /\ UNCHANGED book

Killed ==
  /\ session \in {"open", "saving"}
  /\ session' = "down" /\ book' = NewBook(book.capital)
  /\ UNCHANGED disk

\* load: json.loads raises on a file that was cut off, and on every later load.
\* from_dict takes the cash, the positions and the trades of the file, and the
\* capital of the configuration it is given, whatever the file says of it.
Load ==
  /\ session = "down"
  /\ session' = IF disk.file = "torn" THEN "failed" ELSE "open"
  /\ \E c \in Capitals :
       book' = IF disk.file = "whole" THEN [disk.book EXCEPT !.capital = c] ELSE NewBook(c)
  /\ UNCHANGED disk

PaperNext ==
  \/ \E t \in Ticker : Buy(t) \/ Sell(t)
  \/ Save \/ Saved \/ Killed \/ Load

PaperSpec == PaperInit /\ [][PaperNext]_paperVars

-----------------------------------------------------------------------------
AtCost(b) == MapThenSumSet(LAMBDA t : b.pos[t].shares * b.pos[t].avg, Ticker)
Distance2(a, b) == 2 * (IF a > b THEN a - b ELSE b - a)

\* Cash and positions at their average cost, less the profit booked, are what
\* the account began with, up to the roundings of the fills: over any number of
\* buys into one position, sales, saves cut off, and restarts, which may change
\* the configured capital; and what a restart finds in the file balances too.
BooksBalance ==
  \A b \in {book, disk.book} :
    Distance2(Unit * (b.cash - b.pnl) + AtCost(b), Unit * b.deposit) <= b.rounding

\* The reserve is "cash never touched by buys" (paper.py:32): no order leaves less
\* than the reserve of the capital configured, not by a cent, whatever the
\* rounding of its shares, and whatever cash an earlier process left behind.  It
\* holds for prices below Unit (in the code $10,000) and fails above, where
\* rounding an order's shares up is worth a cent.
ReserveKept ==
  [][session = "open" /\ book'.cash < book.cash => book'.cash >= Reserve[book'.capital]]_paperVars
=============================================================================
