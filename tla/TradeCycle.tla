----------------------------- MODULE TradeCycle -----------------------------
(***************************************************************************)
(* The AI trade cycle: an analysis is obtained and saved, the executor     *)
(* decides whether to act on it, an order is placed and its fill recorded. *)
(* Two kinds of actors run it on one database and one exchange account:    *)
(*   - manual cycles, each an HTTP request of api/routes/ai.py;            *)
(*   - Sched, the APScheduler job of core/scheduler.py (max_instances=1),  *)
(*     which first runs the hard take-profit / stop-loss check and then a  *)
(*     cycle for every symbol of the watchlist.                            *)
(* Operators start, stop and liquidate (api/routes/status.py) and change   *)
(* settings meanwhile, and the process may be restarted at any point.      *)
(*                                                                         *)
(* An action is the code between two awaits that other actors can tell     *)
(* apart: every database or exchange access is a step of its own.  Prices, *)
(* amounts and texts are abstracted to the choices they lead to.  An order *)
(* that the exchange executes, it executes before create_order returns;    *)
(* what the retries of that call may execute again is UpbitOrder's, and    *)
(* the amounts of the paper ledger, with its reset, are PaperLedger's.     *)
(***************************************************************************)
EXTENDS Naturals, Sequences, FiniteSets

CONSTANTS
    Symbols,       \* markets; all of them allowed by the entry gate
    NoSymbol,      \* "no symbol": a value outside Symbols
    Manual,        \* slots of concurrent manual-cycle requests
    Sched,         \* the scheduler's job
    Operator,      \* places the orders of the liquidation endpoint
    Watchlist,     \* favourites left by filter_trade_symbols
    Modes,         \* trading modes in use
    Answers,       \* what a provider may answer, beside the HOLD fallback
    MinConf,       \* minimum confidence of an executed analysis
    MaxBuyWeight,  \* cap on the recommended weight of a BUY
    MaxPositions,  \* cap of the entry gate on positions held
    Environment,   \* which disturbances happen, a subset of Disturbances
    MaxLogs,       \* bound: analysis logs written
    MaxOrders      \* bound: orders placed

Proc == Manual \cup {Sched}

Disturbances == {"bot", "mode", "live_buy", "shadow", "liquidate", "crash", "outage"}

Decisions == {"BUY", "SELL", "HOLD"}

Answer == [dec : Decisions, conf : Nat, weight : Nat]

ASSUME NamesAssumption ==
    /\ NoSymbol \notin Symbols
    /\ Sched \notin Manual
    /\ Operator \notin Proc
ASSUME SetsAssumption ==
    /\ Watchlist \subseteq Symbols
    /\ Modes \subseteq {"live", "paper"}
    /\ Modes # {}
    /\ Answers \subseteq Answer
    /\ Environment \subseteq Disturbances
ASSUME NumbersAssumption ==
    /\ MinConf \in Nat
    /\ MaxBuyWeight \in Nat
    /\ MaxPositions \in Nat
    /\ MaxLogs \in Nat
    /\ MaxOrders \in Nat

VARIABLES
    running,   \* bot_config.is_active
    mode,      \* system_config trading_mode
    liveBuy,   \* system_config: live BUY enabled
    shadow,    \* system_config: entry gate shadow mode
    logs,      \* ai_analysis_logs; an entry's index is its id
    held,      \* per mode, the symbols with a position
    orders,    \* orders the exchange or the paper ledger executed, one for a
               \* call of create_order whose retries it may execute again
    history,   \* indices of the orders that order_history records
    cyc,       \* where each actor's cycle is, and its local variables
    todo,      \* symbols the running job has still to process
    sold,      \* liquidated_symbols of the running job
    lq,        \* the liquidation request
    jobFrom,   \* history variable: orders placed before the job began
    late,      \* history variable: analyses past the running check at the stop
    unlocked   \* history variable: analyses past the live BUY lock at locking

settings == <<mode, liveBuy, shadow>>
market   == <<held, orders, history>>
job      == <<todo, sold, jobFrom>>
ghosts   == <<late, unlocked>>
vars == <<running, settings, logs, market, cyc, job, lq, ghosts>>

NoMode == "none"

CycleStages == {"analyzing", "saved", "admitted", "holdings", "mode", "gate",
                "lock", "precheck", "order", "fill", "record"}
RiskStages  == {"tpsl", "tpholdings", "tpmode", "tpitems", "tpfill", "tprecord"}
Stages == CycleStages \cup RiskStages \cup {"idle", "reply", "replied", "watch", "next"}

Log   == [sym : Symbols, dec : Decisions, conf : Nat, weight : Nat,
          kind : {"primary", "precheck"}]
Order == [proc : Proc \cup {Operator}, sym : Symbols, side : {"BUY", "SELL"},
          mode : Modes, smode : Modes \cup {NoMode}, priced : BOOLEAN,
          kind : {"ai", "tpsl", "liquidation"}, primary : Nat, exec : Nat]
Cycle == [at : Stages, sym : Symbols \cup {NoSymbol}, log : Nat,
          smode : Modes \cup {NoMode}, snap : SUBSET Symbols, priced : BOOLEAN,
          xmode : Modes \cup {NoMode}, exec : Nat, ord : Nat, created : BOOLEAN]

Idle == [at |-> "idle", sym |-> NoSymbol, log |-> 0, smode |-> NoMode,
         snap |-> {}, priced |-> FALSE, xmode |-> NoMode, exec |-> 0, ord |-> 0,
         created |-> FALSE]

Hold == [dec |-> "HOLD", conf |-> 0, weight |-> 0]

Init ==
    /\ running = TRUE
    /\ mode \in Modes
    /\ liveBuy \in BOOLEAN
    /\ shadow = FALSE
    /\ logs = <<>>
    /\ held \in [Modes -> {H \in SUBSET Symbols : Cardinality(H) <= MaxPositions}]
    /\ orders = <<>>
    /\ history = {}
    /\ cyc = [p \in Proc |-> Idle]
    /\ todo = {}
    /\ sold = {}
    /\ lq = [at |-> "idle", todo |-> {}]
    /\ jobFrom = 0
    /\ late = {}
    /\ unlocked = {}

-----------------------------------------------------------------------------
(* Helpers *)

At(p, stage) == cyc[p].at = stage
GoTo(p, stage) == cyc' = [cyc EXCEPT ![p].at = stage]

Analysis(p) == logs[cyc[p].log]

\* execute_ai_trade returns: a manual cycle composes its reply, the job goes on
\* to its next symbol.
Return(p) ==
    cyc' = [cyc EXCEPT ![p] =
              IF p = Sched THEN [Idle EXCEPT !.at = "next"]
                           ELSE [Idle EXCEPT !.at = "reply", !.sym = cyc[p].sym,
                                             !.log = cyc[p].log]]

\* An exception leaves the cycle: HTTP 500 for a manual cycle, a log line and
\* the next symbol for the job.
Raise(p) ==
    cyc' = [cyc EXCEPT ![p] =
              IF p = Sched THEN [Idle EXCEPT !.at = "next"] ELSE Idle]

\* The holdings that count towards the cap: without prices every value is 0.
Active(p) == IF cyc[p].priced THEN cyc[p].snap ELSE {}

\* Whether the holdings read come with prices: a ticker request that fails leaves
\* them without, and is not an error of the portfolio.
Priced(holdings) ==
    IF "outage" \in Environment /\ holdings # {} THEN BOOLEAN ELSE {TRUE}

\* The gate's cap: the symbol is held already, or the cap is not reached.
WithinCapOrAtIt(p) == cyc[p].sym \in Active(p) \/ Cardinality(Active(p)) <= MaxPositions
WithinCap(p) == cyc[p].sym \in Active(p) \/ Cardinality(Active(p)) < MaxPositions

AppendLog(s, a, k) ==
    logs' = Append(logs, [sym |-> s, dec |-> a.dec, conf |-> a.conf,
                          weight |-> a.weight, kind |-> k])

\* Confident enough, and with a weight to trade.
Actionable(a) == a.conf >= MinConf /\ a.weight > 0

\* The analysis a cycle executes: the one whose id it was given.
LatestOf(s, id) == CHOOSE i \in 1..Len(logs) :
                     /\ logs[i].sym = s
                     /\ \A j \in i+1..Len(logs) : logs[j].sym # s
LoadAnalysis(s, id) == id

\* The bot runs, and the analysis is neither a HOLD nor too weak.
TradableWhenStopped(a) == Actionable(a) /\ a.dec # "HOLD"
TradableAnyConfidence(a) == running /\ a.dec # "HOLD"
TradableAnyDecision(a) == running
Tradable(a) == running /\ Actionable(a) /\ a.dec # "HOLD"

\* The lock on live BUYs.
AlwaysOpen == TRUE
LiveBuyOpen == liveBuy

\* What the second provider must answer for a live BUY to go on.
ApprovedAnyDecision(a) == Actionable(a)
Approved(a) == a.dec = "BUY" /\ Actionable(a)

AiOrder(p) ==
    [proc |-> p, sym |-> cyc[p].sym, side |-> Analysis(p).dec,
     mode |-> cyc[p].xmode, smode |-> cyc[p].smode, priced |-> cyc[p].priced,
     kind |-> "ai", primary |-> cyc[p].log, exec |-> cyc[p].exec]

RiskOrder(s) ==
    [proc |-> Sched, sym |-> s, side |-> "SELL", mode |-> cyc[Sched].xmode,
     smode |-> cyc[Sched].smode, priced |-> cyc[Sched].priced,
     kind |-> "tpsl", primary |-> 0, exec |-> 0]

Place(o) == Len(orders) < MaxOrders /\ orders' = Append(orders, o)

-----------------------------------------------------------------------------
(* The analysis: POST /api/ai/manual-cycle, or the job's next symbol *)

Request(p, s) ==
    /\ At(p, "idle") \/ At(p, "replied")
    /\ cyc' = [cyc EXCEPT ![p] = [Idle EXCEPT !.at = "analyzing", !.sym = s]]
    /\ UNCHANGED <<running, settings, logs, market, job, lq, ghosts>>

NextSymbol(s) ==
    /\ At(Sched, "next")
    /\ s \in todo
    /\ todo' = todo \ {s}
    /\ cyc' = [cyc EXCEPT ![Sched] = [Idle EXCEPT !.at = "analyzing", !.sym = s]]
    /\ UNCHANGED <<running, settings, logs, market, sold, jobFrom, lq, ghosts>>

\* A provider answers, or the HOLD fallback stands in; the log is committed.
AnalysisSaved(p) ==
    /\ At(p, "analyzing")
    /\ Len(logs) < MaxLogs
    /\ \E a \in Answers \cup {Hold} : AppendLog(cyc[p].sym, a, "primary")
    /\ cyc' = [cyc EXCEPT ![p].at = "saved", ![p].log = Len(logs) + 1]
    /\ UNCHANGED <<running, settings, market, job, lq, ghosts>>

AnalysisFails(p) ==
    /\ At(p, "analyzing")
    /\ Raise(p)
    /\ UNCHANGED <<running, settings, logs, market, job, lq, ghosts>>

-----------------------------------------------------------------------------
(* execute_ai_trade: the checks that precede any order *)

Admit(p) ==
    /\ At(p, "saved")
    /\ LET id == LoadAnalysis(cyc[p].sym, cyc[p].log) IN
          /\ logs[id].sym = cyc[p].sym
          /\ Tradable(logs[id])
          /\ cyc' = [cyc EXCEPT ![p].at = "admitted", ![p].log = id]
    /\ UNCHANGED <<running, settings, logs, market, job, lq, ghosts>>

\* Any of those checks fails; an analysis may always have become stale.
Decline(p) ==
    /\ At(p, "saved")
    /\ Return(p)
    /\ UNCHANGED <<running, settings, logs, market, job, lq, ghosts>>

\* get_aggregated_portfolio reads the mode, then the holdings of that mode.
PortfolioMode(p) ==
    /\ At(p, "admitted")
    /\ cyc' = [cyc EXCEPT ![p].at = "holdings", ![p].smode = mode]
    /\ UNCHANGED <<running, settings, logs, market, job, lq, ghosts>>

PortfolioHoldings(p) ==
    /\ At(p, "holdings")
    /\ \E priced \in Priced(held[cyc[p].smode]) :
          cyc' = [cyc EXCEPT ![p].at = "mode", ![p].priced = priced,
                             ![p].snap = held[cyc[p].smode]]
    /\ UNCHANGED <<running, settings, logs, market, job, lq, ghosts>>

PortfolioFails(p) ==
    /\ At(p, "holdings")
    /\ Return(p)
    /\ UNCHANGED <<running, settings, logs, market, job, lq, ghosts>>

\* The executor reads the trading mode again, for the order.
ReadMode(p) ==
    /\ At(p, "mode")
    /\ cyc' = [cyc EXCEPT ![p].at = IF Analysis(p).dec = "BUY" THEN "gate" ELSE "order",
                          ![p].xmode = mode, ![p].exec = cyc[p].log]
    /\ UNCHANGED <<running, settings, logs, market, job, lq, ghosts>>

\* evaluate_ai_buy_entry_gate on the portfolio read before; the market scores
\* that may also refuse are GateRefuses.
Gate(p) ==
    /\ At(p, "gate")
    /\ ~shadow
    /\ WithinCap(p)
    /\ GoTo(p, IF cyc[p].xmode = "live" THEN "lock" ELSE "order")
    /\ UNCHANGED <<running, settings, logs, market, job, lq, ghosts>>

\* Refused, or allowed in shadow mode: logged, and no order follows.
GateRefuses(p) ==
    /\ At(p, "gate")
    /\ Return(p)
    /\ UNCHANGED <<running, settings, logs, market, job, lq, ghosts>>

\* A live BUY needs the live BUY lock to be off.
Unlock(p) ==
    /\ At(p, "lock")
    /\ LiveBuyOpen
    /\ GoTo(p, "precheck")
    /\ UNCHANGED <<running, settings, logs, market, job, lq, ghosts>>

Locked(p) ==
    /\ At(p, "lock")
    /\ ~liveBuy
    /\ Return(p)
    /\ UNCHANGED <<running, settings, logs, market, job, lq, ghosts>>

\* A second provider confirms the BUY; its answer replaces the analysis that
\* the order is sized by.
PrecheckApproves(p) ==
    /\ At(p, "precheck")
    /\ Len(logs) < MaxLogs
    /\ \E a \in Answers :
          /\ Approved(a)
          /\ AppendLog(cyc[p].sym, a, "precheck")
    /\ cyc' = [cyc EXCEPT ![p].at = "order", ![p].exec = Len(logs) + 1]
    /\ UNCHANGED <<running, settings, market, job, lq, ghosts>>

\* The second provider objects or cannot be reached: a HOLD is saved.
PrecheckHolds(p) ==
    /\ At(p, "precheck")
    /\ Len(logs) < MaxLogs
    /\ AppendLog(cyc[p].sym, Hold, "precheck")
    /\ Return(p)
    /\ UNCHANGED <<running, settings, market, job, lq, ghosts>>

\* A database access of the checks fails.
CheckRaises(p) ==
    /\ cyc[p].at \in {"saved", "mode", "gate", "lock", "precheck", "order"}
    /\ Raise(p)
    /\ UNCHANGED <<running, settings, logs, market, job, lq, ghosts>>

-----------------------------------------------------------------------------
(* Orders, fills and their records *)

\* A position is opened by a BUY and closed by a SELL of all of it.  A paper fill
\* writes the quantity computed from the one it read: a partial SELL keeps the
\* position open even if another fill closed it in between.
HeldAfter(m, s, side, full) ==
    [held EXCEPT ![m] = IF side = "SELL" /\ full THEN @ \ {s}
                        ELSE IF side = "BUY" \/ m = "paper" THEN @ \cup {s}
                        ELSE @]

\* create_order: the exchange executes the order; every answer may be lost, in
\* which case the code takes the order for failed.
LiveOrder(p, full, answered) ==
    /\ At(p, "order")
    /\ cyc[p].xmode = "live"
    /\ Analysis(p).dec = "SELL" => cyc[p].sym \in cyc[p].snap \cap held["live"]
    /\ Place(AiOrder(p))
    /\ held' = HeldAfter("live", cyc[p].sym, Analysis(p).dec, full)
    /\ IF answered
         THEN cyc' = [cyc EXCEPT ![p].at = "record", ![p].ord = Len(orders) + 1]
         ELSE Return(p)
    /\ UNCHANGED <<running, settings, logs, history, job, lq, ghosts>>

\* A paper fill reads the cash and the position ...
PaperRead(p) ==
    /\ At(p, "order")
    /\ cyc[p].xmode = "paper"
    /\ Analysis(p).dec = "SELL" => cyc[p].sym \in cyc[p].snap \cap held["paper"]
    /\ GoTo(p, "fill")
    /\ UNCHANGED <<running, settings, logs, market, job, lq, ghosts>>

\* ... and commits the new ones together with the history row.
PaperFill(p, full) ==
    /\ At(p, "fill")
    /\ Place(AiOrder(p))
    /\ held' = HeldAfter("paper", cyc[p].sym, Analysis(p).dec, full)
    /\ history' = history \cup {Len(orders) + 1}
    /\ Return(p)
    /\ UNCHANGED <<running, settings, logs, job, lq, ghosts>>

\* No cash, no position, below the minimum, no price, or refused.
Skip(p) ==
    /\ At(p, "order")
    /\ Return(p)
    /\ UNCHANGED <<running, settings, logs, market, job, lq, ghosts>>

\* The fill of a live order is recorded under the analysis executed.
Record(p) ==
    /\ At(p, "record")
    /\ history' = history \cup {cyc[p].ord}
    /\ Return(p)
    /\ UNCHANGED <<running, settings, logs, held, orders, job, lq, ghosts>>

\* Price or quantity cannot be resolved: no row.
Unresolved(p) ==
    /\ At(p, "record")
    /\ Return(p)
    /\ UNCHANGED <<running, settings, logs, market, job, lq, ghosts>>

\* The transaction is rolled back.  That expires every loaded row, and the next
\* use of the analysis by the caller raises.
RolledBack(p) ==
    /\ At(p, "fill") \/ At(p, "record")
    /\ Raise(p)
    /\ UNCHANGED <<running, settings, logs, market, job, lq, ghosts>>

\* The manual cycle looks for a history row of its analysis.
RowOfSymbol(p) == \E i \in history : orders[i].kind = "ai" /\ orders[i].sym = cyc[p].sym
RowOfAnalysis(p) == \E i \in history : orders[i].kind = "ai" /\ orders[i].exec = cyc[p].log

Reply(p) ==
    /\ At(p, "reply")
    /\ cyc' = [cyc EXCEPT ![p].at = "replied", ![p].created = RowOfAnalysis(p)]
    /\ UNCHANGED <<running, settings, logs, market, job, lq, ghosts>>

-----------------------------------------------------------------------------
(* The job: execute_hard_tp_sl_check, then the watchlist *)

StartJob ==
    /\ At(Sched, "idle")
    /\ GoTo(Sched, "tpsl")
    /\ jobFrom' = Len(orders)
    /\ UNCHANGED <<running, settings, logs, market, todo, sold, lq, ghosts>>

\* Both thresholds off, no portfolio, or an exception: nothing is liquidated
\* and the cycle goes on.
RiskSkipped ==
    /\ cyc[Sched].at \in {"tpsl", "tpholdings", "tpmode"}
    /\ cyc' = [cyc EXCEPT ![Sched] = [Idle EXCEPT !.at = "watch"]]
    /\ UNCHANGED <<running, settings, logs, market, job, lq, ghosts>>

RiskMode ==
    /\ At(Sched, "tpsl")
    /\ cyc' = [cyc EXCEPT ![Sched].at = "tpholdings", ![Sched].smode = mode]
    /\ UNCHANGED <<running, settings, logs, market, job, lq, ghosts>>

RiskHoldings ==
    /\ At(Sched, "tpholdings")
    /\ \E priced \in Priced(held[cyc[Sched].smode]) :
          cyc' = [cyc EXCEPT ![Sched].at = "tpmode", ![Sched].priced = priced,
                             ![Sched].snap = held[cyc[Sched].smode]]
    /\ UNCHANGED <<running, settings, logs, market, job, lq, ghosts>>

RiskReadMode ==
    /\ At(Sched, "tpmode")
    /\ cyc' = [cyc EXCEPT ![Sched].at = "tpitems", ![Sched].xmode = mode]
    /\ UNCHANGED <<running, settings, logs, market, job, lq, ghosts>>

\* An item whose profit is within the thresholds, or that cannot be priced or
\* sold.
RiskItemKept(s) ==
    /\ At(Sched, "tpitems")
    /\ s \in cyc[Sched].snap
    /\ cyc' = [cyc EXCEPT ![Sched].snap = @ \ {s}]
    /\ UNCHANGED <<running, settings, logs, market, job, lq, ghosts>>

\* A threshold is reached: live, the whole holding is sold.
RiskLiveSell(s, answered) ==
    /\ At(Sched, "tpitems")
    /\ cyc[Sched].xmode = "live"
    /\ s \in cyc[Sched].snap \cap held["live"]
    /\ Place(RiskOrder(s))
    /\ held' = HeldAfter("live", s, "SELL", TRUE)
    /\ cyc' = IF answered
                THEN [cyc EXCEPT ![Sched].at = "tprecord", ![Sched].snap = @ \ {s},
                                 ![Sched].sym = s, ![Sched].ord = Len(orders) + 1]
                ELSE [cyc EXCEPT ![Sched].snap = @ \ {s}]
    /\ UNCHANGED <<running, settings, logs, history, job, lq, ghosts>>

\* A threshold is reached: paper, the position is read again.
RiskPaperRead(s) ==
    /\ At(Sched, "tpitems")
    /\ cyc[Sched].xmode = "paper"
    /\ s \in cyc[Sched].snap \cap held["paper"]
    /\ cyc' = [cyc EXCEPT ![Sched].at = "tpfill", ![Sched].snap = @ \ {s}, ![Sched].sym = s]
    /\ UNCHANGED <<running, settings, logs, market, job, lq, ghosts>>

NextItem == [cyc EXCEPT ![Sched].at = "tpitems", ![Sched].sym = NoSymbol, ![Sched].ord = 0]

RiskPaperFill ==
    /\ At(Sched, "tpfill")
    /\ Place(RiskOrder(cyc[Sched].sym))
    /\ held' = HeldAfter("paper", cyc[Sched].sym, "SELL", TRUE)
    /\ history' = history \cup {Len(orders) + 1}
    /\ sold' = sold \cup {cyc[Sched].sym}
    /\ cyc' = NextItem
    /\ UNCHANGED <<running, settings, logs, todo, jobFrom, lq, ghosts>>

RiskRecord ==
    /\ At(Sched, "tprecord")
    /\ history' = history \cup {cyc[Sched].ord}
    /\ sold' = sold \cup {cyc[Sched].sym}
    /\ cyc' = NextItem
    /\ UNCHANGED <<running, settings, logs, held, orders, todo, jobFrom, lq, ghosts>>

RiskRetried ==
    /\ At(Sched, "tpfill") \/ At(Sched, "tprecord")
    /\ cyc' = [NextItem EXCEPT ![Sched].snap = @ \cup {cyc[Sched].sym}]
    /\ UNCHANGED <<running, settings, logs, market, job, lq, ghosts>>

\* The fill is not recorded: the symbol does not count as liquidated.
RiskUnrecorded ==
    /\ At(Sched, "tpfill") \/ At(Sched, "tprecord")
    /\ cyc' = NextItem
    /\ UNCHANGED <<running, settings, logs, market, job, lq, ghosts>>

RiskDone ==
    /\ At(Sched, "tpitems")
    /\ cyc[Sched].snap = {}
    /\ cyc' = [cyc EXCEPT ![Sched] = [Idle EXCEPT !.at = "watch"]]
    /\ UNCHANGED <<running, settings, logs, market, job, lq, ghosts>>

\* The watchlist without the symbols just liquidated.
WholeWatchlist == Watchlist
Remaining == Watchlist \ sold

Watch ==
    /\ At(Sched, "watch")
    /\ todo' = Remaining
    /\ GoTo(Sched, "next")
    /\ UNCHANGED <<running, settings, logs, market, sold, jobFrom, lq, ghosts>>

WatchFails ==
    /\ At(Sched, "watch")
    /\ cyc' = [cyc EXCEPT ![Sched] = Idle]
    /\ sold' = {}
    /\ UNCHANGED <<running, settings, logs, market, todo, jobFrom, lq, ghosts>>

JobEnds ==
    /\ At(Sched, "next")
    /\ todo = {}
    /\ cyc' = [cyc EXCEPT ![Sched] = Idle]
    /\ sold' = {}
    /\ UNCHANGED <<running, settings, logs, market, todo, jobFrom, lq, ghosts>>

-----------------------------------------------------------------------------
(* Operators and the environment *)

\* The analyses of the cycles that are past the running check, and past the
\* live BUY lock.
PastCheck(p) == cyc[p].at \in CycleStages \ {"analyzing", "saved"}
PastLock(p) == /\ cyc[p].at \in {"precheck", "order", "record"}
               /\ Analysis(p).dec = "BUY"
               /\ cyc[p].xmode = "live"
InFlight == {cyc[p].log : p \in {q \in Proc : PastCheck(q)}}

StartBot ==
    /\ "bot" \in Environment
    /\ running' = TRUE
    /\ late' = {}
    /\ UNCHANGED <<settings, logs, market, cyc, job, lq, unlocked>>

StopBot ==
    /\ "bot" \in Environment
    /\ running' = FALSE
    /\ late' = IF running THEN InFlight ELSE late
    /\ UNCHANGED <<settings, logs, market, cyc, job, lq, unlocked>>

SetMode(m) ==
    /\ "mode" \in Environment
    /\ mode' = m
    /\ UNCHANGED <<running, liveBuy, shadow, logs, market, cyc, job, lq, ghosts>>

SetLiveBuy(b) ==
    /\ "live_buy" \in Environment
    /\ liveBuy' = b
    /\ unlocked' = IF b THEN {} ELSE IF liveBuy
                     THEN {cyc[p].log : p \in {q \in Proc : PastLock(q)}} ELSE unlocked
    /\ UNCHANGED <<running, mode, shadow, logs, market, cyc, job, lq, late>>

SetShadow(b) ==
    /\ "shadow" \in Environment
    /\ shadow' = b
    /\ UNCHANGED <<running, mode, liveBuy, logs, market, cyc, job, lq, ghosts>>

\* POST /api/bot/liquidate: the bot is stopped, the account is read, and each
\* coin is sold; a sale that fails is only logged.
LiquidationStops ==
    /\ "liquidate" \in Environment
    /\ lq.at = "idle"
    /\ running' = FALSE
    /\ late' = IF running THEN InFlight ELSE late
    /\ lq' = [lq EXCEPT !.at = "stopped"]
    /\ UNCHANGED <<settings, logs, market, cyc, job, unlocked>>

LiquidationReads ==
    /\ lq.at = "stopped"
    /\ "live" \in Modes
    /\ lq' = [at |-> "selling", todo |-> held["live"]]
    /\ UNCHANGED <<running, settings, logs, market, cyc, job, ghosts>>

LiquidationSells(s) ==
    /\ lq.at = "selling"
    /\ "live" \in Modes
    /\ s \in lq.todo \cap held["live"]
    /\ Place([proc |-> Operator, sym |-> s, side |-> "SELL", mode |-> "live",
              smode |-> "live", priced |-> TRUE, kind |-> "liquidation",
              primary |-> 0, exec |-> 0])
    /\ held' = HeldAfter("live", s, "SELL", TRUE)
    /\ lq' = [lq EXCEPT !.todo = @ \ {s}]
    /\ UNCHANGED <<running, settings, logs, history, cyc, job, ghosts>>

LiquidationSaleFails(s) ==
    /\ lq.at = "selling"
    /\ s \in lq.todo
    /\ lq' = [lq EXCEPT !.todo = @ \ {s}]
    /\ UNCHANGED <<running, settings, logs, market, cyc, job, ghosts>>

\* The request ends: the account cannot be read, or every coin was tried.
LiquidationEnds ==
    /\ lq.at = "stopped" \/ (lq.at = "selling" /\ lq.todo = {})
    /\ lq' = [at |-> "idle", todo |-> {}]
    /\ UNCHANGED <<running, settings, logs, market, cyc, job, ghosts>>

\* The process dies and restarts: what was in flight is forgotten.
Crash ==
    /\ "crash" \in Environment
    /\ cyc' = [p \in Proc |-> Idle]
    /\ todo' = {}
    /\ sold' = {}
    /\ lq' = [at |-> "idle", todo |-> {}]
    /\ UNCHANGED <<running, settings, logs, market, jobFrom, ghosts>>

-----------------------------------------------------------------------------

CycleStep(p) ==
    \/ AnalysisSaved(p) \/ AnalysisFails(p)
    \/ Admit(p) \/ Decline(p)
    \/ PortfolioMode(p) \/ PortfolioHoldings(p) \/ PortfolioFails(p)
    \/ ReadMode(p) \/ Gate(p) \/ GateRefuses(p) \/ Unlock(p) \/ Locked(p)
    \/ PrecheckApproves(p) \/ PrecheckHolds(p) \/ CheckRaises(p)
    \/ \E full, answered \in BOOLEAN : LiveOrder(p, full, answered)
    \/ PaperRead(p) \/ Skip(p)
    \/ \E full \in BOOLEAN : PaperFill(p, full)
    \/ Record(p) \/ Unresolved(p) \/ RolledBack(p)

ManualStep(p) ==
    \/ \E s \in Symbols : Request(p, s)
    \/ CycleStep(p)
    \/ Reply(p)

JobStep ==
    \/ \E s \in Symbols : NextSymbol(s)
    \/ CycleStep(Sched)
    \/ RiskSkipped \/ RiskMode \/ RiskHoldings \/ RiskReadMode
    \/ \E s \in Symbols : \/ RiskItemKept(s)
                          \/ \E answered \in BOOLEAN : RiskLiveSell(s, answered)
                          \/ RiskPaperRead(s)
    \/ RiskPaperFill \/ RiskRecord \/ RiskUnrecorded \/ RiskDone
    \/ Watch \/ WatchFails \/ JobEnds

OperatorStep ==
    \/ StartBot \/ StopBot
    \/ \E m \in Modes : SetMode(m)
    \/ \E b \in BOOLEAN : SetLiveBuy(b) \/ SetShadow(b)
    \/ LiquidationStops \/ LiquidationReads \/ LiquidationEnds
    \/ \E s \in Symbols : LiquidationSells(s) \/ LiquidationSaleFails(s)

Next ==
    \/ \E p \in Manual : ManualStep(p)
    \/ StartJob
    \/ JobStep
    \/ OperatorStep
    \/ Crash

Spec == Init /\ [][Next]_vars

-----------------------------------------------------------------------------
(* Properties *)

\* Every variable keeps its type.
TypeOK ==
    /\ running \in BOOLEAN
    /\ mode \in Modes
    /\ liveBuy \in BOOLEAN
    /\ shadow \in BOOLEAN
    /\ logs \in Seq(Log)
    /\ held \in [Modes -> SUBSET Symbols]
    /\ orders \in Seq(Order)
    /\ history \subseteq 1..Len(orders)
    /\ cyc \in [Proc -> Cycle]
    /\ todo \subseteq Symbols
    /\ sold \subseteq Symbols
    /\ lq \in [at : {"idle", "stopped", "selling"}, todo : SUBSET Symbols]
    /\ jobFrom \in 0..Len(orders)
    /\ late \subseteq 1..Len(logs)
    /\ unlocked \subseteq 1..Len(logs)

AiOrders == {i \in 1..Len(orders) : orders[i].kind = "ai"}

\* An AI order carries out one saved analysis: of its own symbol, deciding its
\* side, confident enough.  execute_ai_trade loads the analysis by the id it is
\* given, while other cycles save newer analyses of the same symbol.
ExactAnalysis ==
    \A i \in AiOrders :
        /\ orders[i].primary \in 1..Len(logs)
        /\ LET a == logs[orders[i].primary] IN
             /\ a.kind = "primary"
             /\ a.sym = orders[i].sym
             /\ a.dec = orders[i].side
             /\ Actionable(a)

\* No analysis is handed to a second call of create_order or a second paper fill,
\* by whichever cycles, across failures and restarts.
AnalysisSpentOnce ==
    \A i, j \in AiOrders : orders[i].primary = orders[j].primary => i = j

\* A live AI BUY is sized by a confirmation: saved after the analysis it
\* confirms, for the same symbol, and approved (_run_buy_precheck), while other
\* cycles save analyses of their own.
LiveBuyReviewed ==
    \A i \in AiOrders : (orders[i].mode = "live" /\ orders[i].side = "BUY") =>
        /\ orders[i].exec \in 1..Len(logs)
        /\ orders[i].exec > orders[i].primary
        /\ LET a == logs[orders[i].exec] IN
             /\ a.kind = "precheck"
             /\ a.sym = orders[i].sym
             /\ a.dec = "BUY"
             /\ Actionable(a)

NewOrders == Len(orders)+1..Len(orders')

\* Once the bot is stopped, an AI order can only be of a cycle that had passed
\* the running check before: the stop lets at most one more order through for
\* each cycle in flight (execute_ai_trade checks the status once).
StopBoundsOrders ==
    [][\A i \in NewOrders :
          (orders'[i].kind = "ai" /\ ~running) => orders'[i].primary \in late]_vars

\* Once live BUYs are locked, a live AI BUY can only be of a cycle that had
\* passed the lock before.
LockBoundsLiveBuys ==
    [][\A i \in NewOrders :
          (/\ orders'[i].kind = "ai"
           /\ orders'[i].mode = "live"
           /\ orders'[i].side = "BUY"
           /\ ~liveBuy) => orders'[i].primary \in unlocked]_vars

\* What the job's take-profit / stop-loss check sold and recorded, the same job
\* does not trade again.
LiquidatedNotRetraded ==
    \A i \in AiOrders :
        (i > jobFrom /\ orders[i].proc = Sched) => orders[i].sym \notin sold

\* Cycles that pass the cap together may exceed it, but by no more than one
\* position for each actor beside the first (one mode, prices available, every
\* position worth counting).
CapOvershoot ==
    \A m \in Modes : Cardinality(held[m]) + 1 <= MaxPositions + Cardinality(Proc)

\* A manual cycle that reports an order has placed one itself, and it is recorded.
ReportSound ==
    \A p \in Manual : cyc[p].created =>
        \E i \in history : /\ orders[i].kind = "ai"
                           /\ orders[i].proc = p
                           /\ orders[i].primary = cyc[p].log

-----------------------------------------------------------------------------
(* What documents of the repository say, and the code does not keep *)

\* Paper and live trading are separate: an order is decided on the portfolio of
\* the mode that it is placed in.
SnapshotOfOrderMode ==
    \A i \in AiOrders : orders[i].smode = orders[i].mode

\* While the bot is stopped no live order starts, the liquidation's apart.
StopMeansNoLiveOrder ==
    [][\A i \in NewOrders :
          (orders'[i].mode = "live" /\ orders'[i].kind # "liquidation") => running]_vars

\* The confirmation of a BUY never raises the weight traded.
SmallerOf(a, b) == IF a < b THEN a ELSE b
BuyReducedOnly ==
    \A i \in AiOrders : (orders[i].mode = "live" /\ orders[i].side = "BUY") =>
        SmallerOf(logs[orders[i].exec].weight, MaxBuyWeight) <= logs[orders[i].primary].weight

\* No BUY is placed on a portfolio whose prices are missing.
BuyOnPricedPortfolio ==
    \A i \in AiOrders : orders[i].side = "BUY" => orders[i].priced
=============================================================================
