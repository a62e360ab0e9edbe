---------------------------- MODULE PaperLedger ----------------------------
(***************************************************************************)
(* The paper ledger: one cash row and the position rows, changed by the    *)
(* fills of services/trading/ai_executor.py and by the reset of            *)
(* api/routes/configs.py.                                                  *)
(*                                                                         *)
(* A fill reads the cash and the position in statements of their own,      *)
(* changes the loaded objects in memory, and commits their absolute values *)
(* in one transaction (read committed, no version column, no unique        *)
(* constraint on positions).  Writers are sessions of AI fills; Risk is    *)
(* the session of the take-profit / stop-loss check, whose cash object     *)
(* lives on from item to item.  Prices are one and fees are left out: an   *)
(* amount buys as many lots.                                               *)
(***************************************************************************)
EXTENDS Naturals

CONSTANTS
    Symbols,
    NoSymbol,   \* a value outside Symbols
    Writers,    \* sessions of AI fills
    Risk,       \* the session of the take-profit / stop-loss check
    Default,    \* DEFAULT_PAPER_KRW_BALANCE
    Amounts,    \* amounts of an AI fill
    MaxCash,    \* bound: cash
    MaxQty,     \* bound: lots of a position
    MaxRows     \* bound: row ids handed out

ASSUME LedgerAssumption ==
    /\ NoSymbol \notin Symbols
    /\ Risk \notin Writers
    /\ Amounts \subseteq Nat \ {0}
    /\ MaxCash \in Nat /\ MaxQty \in Nat \ {0} /\ MaxRows \in Nat
    /\ Default \in 0..MaxCash

VARIABLES
    cash,      \* the committed cash
    rows,      \* the committed position rows; an index is a row's id
    next,      \* ids handed out, to rows committed or not
    ses,       \* the sessions and the objects they have loaded
    reset      \* the reset request

vars == <<cash, rows, next, ses, reset>>

Stages == {"idle", "items", "cash", "ready"}
Sides == {"BUY", "SELL"}
Sessions == Writers \cup {Risk}
Ids == 1..MaxRows

\* No row: never committed, or deleted.  `by` is a history field: who inserted it.
NoRow == [sym |-> NoSymbol, qty |-> 0, by |-> Risk]

\* A session with nothing loaded.  `cached` says that it holds the cash object,
\* `fresh` (history) that nobody has committed since it loaded it.  The reset's `fresh`
\* says that nobody has committed since it began to delete.
Closed == [at |-> "idle", side |-> "SELL", sym |-> NoSymbol, amount |-> 0, cash |-> 0,
           cached |-> FALSE, row |-> 0, qty |-> 0, mine |-> FALSE, fresh |-> FALSE]

NoReset == [at |-> "idle", ids |-> {}, cash |-> 0, fresh |-> FALSE]

Init ==
    /\ cash = Default
    /\ rows = [i \in Ids |-> NoRow]
    /\ next = 0
    /\ ses = [w \in Sessions |-> Closed]
    /\ reset = NoReset

At(w, stage) == ses[w].at = stage

\* Positions of a symbol, and the one that .order_by(Position.id).first() finds,
\* closed or not.
RowsOf(s) == {i \in Ids : rows[i].sym = s}
OpenOnly(s) == {i \in RowsOf(s) : rows[i].qty > 0}
Found(s) == RowsOf(s)
First(s) == {i \in Found(s) : \A j \in Found(s) : i <= j}

-----------------------------------------------------------------------------
(* Loading *)

\* An AI fill loads the cash; a BUY of more than that is skipped.
Affordable(side, n) == side = "BUY" => n <= cash

LoadCash(w, side, s, n) ==
    /\ At(w, "idle")
    /\ Affordable(side, n)
    /\ ses' = [ses EXCEPT ![w] = [Closed EXCEPT !.at = "cash", !.side = side, !.sym = s,
                                                !.amount = n, !.cash = cash, !.fresh = TRUE]]
    /\ UNCHANGED <<cash, rows, next, reset>>

\* The check begins, and ends, with a session of its own.
RiskBegins ==
    /\ At(Risk, "idle")
    /\ ses' = [ses EXCEPT ![Risk] = [@ EXCEPT !.at = "items"]]
    /\ UNCHANGED <<cash, rows, next, reset>>

RiskEnds ==
    /\ At(Risk, "items")
    /\ ses' = [ses EXCEPT ![Risk] = Closed]
    /\ UNCHANGED <<cash, rows, next, reset>>

\* An item over a threshold: all of it is sold.  The SELECT returns the cash object
\* that the session already holds, with the values it has.
RiskItem(s) ==
    /\ At(Risk, "items")
    /\ ses' = [ses EXCEPT ![Risk] =
                 [ses[Risk] EXCEPT
                    !.at = "cash", !.sym = s, !.amount = MaxQty, !.cached = TRUE,
                    !.cash = IF ses[Risk].cached THEN ses[Risk].cash ELSE cash,
                    !.fresh = ses[Risk].cached => ses[Risk].fresh]]
    /\ UNCHANGED <<cash, rows, next, reset>>

Clip(n, m) == IF n >= m THEN n - m ELSE 0

\* A BUY changes the position it finds ...
BuyMore(w) ==
    /\ At(w, "cash")
    /\ ses[w].side = "BUY"
    /\ \E r \in First(ses[w].sym) :
          /\ rows[r].qty + ses[w].amount <= MaxQty
          /\ ses' = [ses EXCEPT ![w] =
                       [ses[w] EXCEPT !.at = "ready", !.row = r,
                                      !.qty = rows[r].qty + ses[w].amount,
                                      !.cash = Clip(ses[w].cash, ses[w].amount)]]
    /\ UNCHANGED <<cash, rows, next, reset>>

\* ... or inserts one, which nobody else sees before the commit.
BuyFirst(w) ==
    /\ At(w, "cash")
    /\ ses[w].side = "BUY"
    /\ Found(ses[w].sym) = {}
    /\ next < MaxRows
    /\ ses[w].amount <= MaxQty
    /\ next' = next + 1
    /\ ses' = [ses EXCEPT ![w] =
                 [ses[w] EXCEPT !.at = "ready", !.row = next + 1, !.mine = TRUE,
                                !.qty = ses[w].amount,
                                !.cash = Clip(ses[w].cash, ses[w].amount)]]
    /\ UNCHANGED <<cash, rows, reset>>

\* A SELL takes what the position has, up to the amount asked for, and adds it to
\* the cash it loaded.
ProceedsPlusFee(w, k) == ses[w].cash + k + 1
Proceeds(w, k) == ses[w].cash + k
Sold(n, qty) == IF n <= qty THEN n ELSE qty

Sell(w) ==
    /\ At(w, "cash")
    /\ ses[w].side = "SELL"
    /\ \E r \in First(ses[w].sym) :
          LET k == Sold(ses[w].amount, rows[r].qty) IN
          /\ rows[r].qty > 0
          /\ ses[w].cash + k <= MaxCash
          /\ ses' = [ses EXCEPT ![w] =
                       [ses[w] EXCEPT !.at = "ready", !.row = r,
                                      !.qty = Clip(rows[r].qty, k),
                                      !.cash = Proceeds(w, k)]]
    /\ UNCHANGED <<cash, rows, next, reset>>

\* What a session goes on with: AI fills close theirs, the check goes to its next item.
Reopened(w, cached) ==
    IF w = Risk
      THEN [Closed EXCEPT !.at = "items", !.cached = cached,
                          !.cash = IF cached THEN ses[w].cash ELSE 0,
                          !.fresh = cached /\ ses[w].fresh]
      ELSE Closed

\* No position to sell.
Skip(w) ==
    /\ At(w, "cash")
    /\ ses[w].side = "SELL"
    /\ \A r \in First(ses[w].sym) : rows[r].qty = 0
    /\ ses' = [ses EXCEPT ![w] = Reopened(w, ses[w].cached)]
    /\ UNCHANGED <<cash, rows, next, reset>>

-----------------------------------------------------------------------------
(* Committing *)

\* The UPDATE finds the row: it is not deleted, nor locked by a reset.
Writable(w) ==
    LET r == ses[w].row IN
    \/ ses[w].mine
    \/ rows[r].sym = ses[w].sym /\ r \notin reset.ids

\* A commit outdates what every other session has loaded.
Outdate(f, w) == [v \in Sessions |-> IF v = w THEN f[v] ELSE [f[v] EXCEPT !.fresh = FALSE]]

Commit(w) ==
    /\ At(w, "ready")
    /\ Writable(w)
    /\ cash' = ses[w].cash
    /\ rows' = [rows EXCEPT ![ses[w].row] =
                  [sym |-> ses[w].sym, qty |-> ses[w].qty,
                   by |-> IF ses[w].mine THEN w ELSE rows[ses[w].row].by]]
    /\ ses' = Outdate([ses EXCEPT ![w] = Reopened(w, ses[w].cached)], w)
    /\ reset' = [reset EXCEPT !.fresh = FALSE]
    /\ UNCHANGED next

\* The row is gone (StaleDataError), or a statement fails otherwise; the rollback
\* expires what the session has loaded.
StillCached(w) == ses[w].cached
AfterRollback(w) == FALSE

Rollback(w) ==
    /\ At(w, "cash") \/ At(w, "ready")
    /\ ses' = [ses EXCEPT ![w] = Reopened(w, AfterRollback(w))]
    /\ UNCHANGED <<cash, rows, next, reset>>

-----------------------------------------------------------------------------
(* POST /api/config/paper/reset *)

\* The rows that are committed are deleted, and stay locked until the end.
ResetDeletes ==
    /\ reset.at = "idle"
    /\ reset' = [NoReset EXCEPT !.at = "deleted", !.fresh = TRUE,
                                !.ids = {i \in Ids : rows[i].sym # NoSymbol}]
    /\ UNCHANGED <<cash, rows, next, ses>>

\* The cash is loaded by a statement of its own: a fill that has inserted its row may
\* commit before it.
ResetReadsCash ==
    /\ reset.at = "deleted"
    /\ reset' = [reset EXCEPT !.at = "read", !.cash = cash]
    /\ UNCHANGED <<cash, rows, next, ses>>

\* The cash is written if it differs from the one loaded.
ResetCommits ==
    /\ reset.at = "read"
    /\ cash' = IF reset.cash # Default THEN Default ELSE cash
    /\ rows' = [i \in Ids |-> IF i \in reset.ids THEN NoRow ELSE rows[i]]
    /\ ses' = [w \in Sessions |-> [ses[w] EXCEPT !.fresh = FALSE]]
    /\ reset' = NoReset
    /\ UNCHANGED next

ResetFails ==
    /\ reset.at # "idle"
    /\ reset' = NoReset
    /\ UNCHANGED <<cash, rows, next, ses>>

\* The process dies: nothing uncommitted remains.
Crash ==
    /\ ses' = [w \in Sessions |-> Closed]
    /\ reset' = NoReset
    /\ UNCHANGED <<cash, rows, next>>

-----------------------------------------------------------------------------

Fill(w) == BuyMore(w) \/ BuyFirst(w) \/ Sell(w) \/ Skip(w) \/ Commit(w) \/ Rollback(w)

Next ==
    \/ \E w \in Writers, side \in Sides, s \in Symbols, n \in Amounts :
          LoadCash(w, side, s, n)
    \/ RiskBegins \/ RiskEnds
    \/ \E s \in Symbols : RiskItem(s)
    \/ \E w \in Sessions : Fill(w)
    \/ ResetDeletes \/ ResetReadsCash \/ ResetCommits \/ ResetFails
    \/ Crash

Spec == Init /\ [][Next]_vars

-----------------------------------------------------------------------------
(* Properties *)

SymbolOrNone == Symbols \cup {NoSymbol}
Cash == 0..MaxCash
Qtys == 0..MaxQty
IdOrNone == 0..MaxRows

SessionType ==
    [at : Stages, side : Sides, sym : SymbolOrNone, amount : Nat, cash : Cash,
     cached : BOOLEAN, row : IdOrNone, qty : Qtys, mine : BOOLEAN, fresh : BOOLEAN]
RowType == [sym : SymbolOrNone, qty : Qtys, by : Sessions]
ResetType == [at : {"idle", "deleted", "read"}, ids : SUBSET Ids, cash : Cash, fresh : BOOLEAN]

\* Every variable keeps its type.
TypeOK ==
    /\ cash \in Cash
    /\ rows \in [Ids -> RowType]
    /\ next \in IdOrNone
    /\ ses \in [Sessions -> SessionType]
    /\ reset \in ResetType

\* A session that commits before any other has, since it loaded the cash, makes one
\* atomic fill of the ledger; a reset that commits before any other has, since it began
\* to delete, starts over.  The check's cached cash, a failed fill before it, and rows
\* inserted and lost do not show.
Abstract == INSTANCE Ledger WITH Rows <- Ids, lots <- [i \in Ids |-> rows[i].qty]
Overtaken == \/ \E w \in Sessions : ~ses[w].fresh /\ At(w, "ready") /\ ~At(w, "ready")'
             \/ ~reset.fresh /\ reset.at = "read" /\ reset.at' # "read"
AloneIsAtomic ==
    [][UNCHANGED <<cash, rows>> \/ Overtaken \/ Abstract!Next]_
        <<cash, [i \in Ids |-> rows[i].qty]>>

\* Several rows of one symbol come of different sessions only: whoever inserted one
\* finds it, closed or not, until a reset deletes it.
OneRowPerWriter ==
    \A s \in Symbols : \A i, j \in RowsOf(s) : rows[i].by = rows[j].by => i = j

-----------------------------------------------------------------------------
(* What documents of the repository say, and the code does not keep *)

\* A symbol has one paper position.
OneRowPerPosition ==
    \A s \in Symbols : \A i, j \in RowsOf(s) : i = j
=============================================================================
