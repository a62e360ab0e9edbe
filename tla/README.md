# AI Trade Manager: a verification development

AI Trade Manager (`src/`) asks an AI provider about a market, saves the answer,
and may turn it into an order, on paper or on an Upbit account. This directory
holds TLA+ models of the parts of it where order, concurrency and failure decide
whether it is correct, the TLC runs that check them, and TLAPS proofs of the
properties that matter most. Paths below are relative to `src/app/` unless they
start with `docs/` or `README`.

To run a check: `tlc -config live.cfg MCTradeCycle.tla`. To check the proofs:
`tlapm` on `TradeCycleProofs.tla`, `UpbitOrderProofs.tla`, `PaperLedgerProofs.tla`,
`NewsIngestionProofs.tla`, `ProviderRouterProofs.tla`, `BotControlProofs.tla`,
`SchedulerProofs.tla` and `ChatProofs.tla`.

## 1. Inventory

One FastAPI process runs everything on one asyncio event loop: the HTTP routes,
APScheduler's jobs, the engine's heartbeat, the Telegram worker; Slack's listener has a
thread, and an event loop per command, of its own. There is no lock around trading.
What the parts share they share through PostgreSQL rows, read and committed in sessions
of their own, and through the exchange account. Every `await` is a point where another part may run.

| Component | State it keeps | Operations | Interacts with | Hard behaviour | What makes it correct |
|---|---|---|---|---|---|
| Trade executor (`services/trading/ai_executor.py`) | local variables of a cycle; writes `positions`, `order_history`, `account_state` | `execute_ai_trade`, `execute_hard_tp_sl_check`, `_run_buy_precheck` | analyst, portfolio, gate, broker, ledger | a dozen awaits between the first check and the order; any may fail | acts on the analysis it was given, once; a stop or a lock bounds what still happens; records name what was done |
| AI analyst (`ai_analyst.py`) | `ai_analysis_logs` | analyse and save, HOLD fallback | provider router, RAG, portfolio | provider failure; newer logs of the same symbol | the id returned is the log saved |
| Scheduler (`core/scheduler.py`) | job registry, `max_instances=1` | start, reload; the autonomous job, news, snapshots, reports, alerts | executor, Slack, RAG, configs, chat | reloads overlap; the job overlaps manual cycles; one that never returns blocks the next | the registry follows the settings; every job goes on, and returns when its calls do |
| Manual AI cycle (`api/routes/ai.py`) | none | `POST /ai/manual-cycle` | analyst, executor | concurrent with the job and with itself | the reply tells the truth about the order |
| Bot control (`services/bot_service.py`, `api/routes/status.py`, `api/routes/config.py`) | `bot_configs.is_active`, profile and status in `config_json` | start, stop, liquidate, heartbeat, error, edit of the profile | executor, broker, engine, Telegram, Slack | stop against cycles in flight; read-modify-write of a JSON document by five writers | a stop bounds the orders that follow; the status follows the bot; the profile survives status writes |
| System configuration (`api/routes/configs.py`) | `system_configs` | bulk update, paper reset | everyone reads it, at different moments | two reads of one setting in one cycle; a bad value stored | a cycle is of one mode |
| Portfolio aggregation (`services/portfolio/aggregator.py`) | none | aggregate a live or a paper portfolio | broker, ledger | a ticker outage is not an error | what is read is the mode's, priced or refused |
| Entry gate (`entry_policy.py`) | none | score, caps, shadow mode | portfolio, market data | checked on an old portfolio | caps hold, up to concurrent cycles |
| Upbit broker (`services/brokers/upbit.py`) | rate-limit headers | requests with retry, `create_order`, `get_order` | executor, liquidation | timeouts with an unknown outcome; a retry without an identifier | one intent, one order; a refusal means no order |
| Paper ledger (in `ai_executor.py`, `configs.py`; `paper.py`) | cash row, position rows, history | fill, TP/SL fill, reset | executor, reset endpoint | values computed from one read and committed later | cash and positions add up to the fills |
| AI provider router (`services/ai/provider_router.py`, `services/ai/providers/`) | provider status, one JSON document | route, mark success, failure, quota | analyst, precheck, chat, reports | concurrent read-modify-write; cooling down | gives up only when every candidate was asked; blocks are neither lost nor kept for good |
| Accuracy worker (`accuracy_worker.py`) | accuracy columns of the logs | evaluate a batch of due logs | broker; the entry gate reads its labels | a batch that never drains; labels that refuse BUYs for good | every due log is evaluated in the end; BUYs open again |
| Chat (`services/chat/`, `api/routes/chat.py`) | sessions and messages; the graph's state of a request | orchestrate agents and tools, stream, approve a setting | provider router, tools, configs | two tasks on one database session; review loop; the client leaves, the session is deleted | every request ends; the record is whole; drafts are reviewed first |
| Telegram (`telegram_bot.py`) | update offset, in memory | polling, commands | bot control, portfolio | at-least-once delivery, failing replies, restarts | a command takes effect, once but for restarts |
| Slack (`slack_bot.py`, `slack.py`) | none | start and stop commands, alerts | bot control, scheduler | - | as bot control |
| News and RAG (`services/rag/`, `news_*.py`, `api/routes/news.py`) | OpenSearch index; record of the latest run | ingest, ensure fresh before a BUY, status, search | feeds and news APIs, OpenSearch, AI providers | a dozen partial failures in one run; two runs at once | news are replaced, not lost; vectors are of their text; degraded results are marked and heal |
| Backtesting (`services/backtesting/`) | simulated cash and positions | submit, process, report | data loader | none concurrent; numeric edges | cash never negative; fills add up |
| Markets, sentiment, indicators; dashboard, orders, favorites, health; logging; Korea Investment; frontend; migrations | caches or none | queries | - | - | - |

`PROJECT.json` gives the sources, modules and status of each, and under `hazards`
the lines of code where its hard behaviour bites.

Code that is never reached: the rate-limit handlers of `core/scheduler.py:772-783`
and `api/routes/ai.py:147` catch an exception that the analyst already turns into
its HOLD fallback; `slack_socket.py` (1530 lines) is imported by nothing, and
`api/routes/bot.py` is mounted by nothing. They are not modelled. `paper.py`'s broker
is not on the trading paths either: the executor writes the paper rows itself.

## 2. Modules

| Module | Models | Kind |
|---|---|---|
| `TradeCycle` | the AI trade cycle: analyst, executor, job, manual request, operator, settings, restarts | detailed |
| `MCTradeCycle` | sets of provider answers, symmetry | for TLC |
| `TradeCycleHangs` | the same cycle when calls of the job may never end | extends `TradeCycle` |
| `MCTradeCycleHangs` | the provider's answer | for TLC |
| `TradeCycleProofs` | invariants and theorems about `TradeCycle` | proofs |
| `OrderCall` | what a caller of `create_order` may rely on | abstract |
| `UpbitOrder` | `create_order` with its retries, the network, the exchange, the record | detailed; implements `OrderCall` |
| `MCUpbitOrder` | for TLC | for TLC |
| `UpbitOrderProofs` | invariants, theorems and the refinement of `UpbitOrder` | proofs |
| `Ledger` | what paper trading promises: fills and resets, each all at once | abstract |
| `PaperLedger` | the paper cash row and position rows under concurrent sessions | detailed; steps of `Ledger` where it can |
| `MCPaperLedger` | symmetry | for TLC |
| `PaperLedgerProofs` | invariants and theorems about `PaperLedger` | proofs |
| `NewsIngestion` | the news index, ingestion runs, their records, the RAG status | detailed |
| `NewsIngestionHangs` | the same when a provider's call may never end | extends `NewsIngestion` |
| `MCNewsIngestionHangs` | articles per source | for TLC |
| `NewsIngestionProofs` | invariant and theorems about `NewsIngestion` | proofs |
| `ProviderRouter` | calls of the provider router on one status document | detailed |
| `ProviderRouterProofs` | invariant and theorems about `ProviderRouter` | proofs |
| `BotControl` | the bot's row: engine, API, Slack and Telegram as its writers | detailed |
| `BotControlProofs` | invariant and theorems about `BotControl` | proofs |
| `Scheduler` | the job registry, its reloads, the clock and the runs of jobs | detailed |
| `SchedulerProofs` | invariant and theorem about `Scheduler` | proofs |
| `AccuracyWorker` | the labelling of analyses and the calibration that reads it | detailed |
| `Chat` | a chat session: requests, their graph of agents, their stream | detailed |
| `ChatProofs` | invariants and theorems about `Chat` | proofs |
| `MCNewsIngestion` ... `MCChat` | constants of each of the six | for TLC |

How they fit together. `TradeCycle` is the centre. `UpbitOrder` and `PaperLedger`
open up one step of it each, the live order and the paper fill. The others are what
a cycle meets at its edges, and each states what the cycle takes from it: the stop
comes from `BotControl`, the job from `Scheduler` (there `Fire` and `Return`, here
the whole run), the answer or its absence from `ProviderRouter`, the freshness check
before a BUY from `NewsIngestion`, the calibration inside `Gate` from
`AccuracyWorker`. `Chat` approves settings as `Scheduler`'s savers do. They share no
variables with the cycle beyond these single values, which `TradeCycle` leaves free,
so that every behaviour of a neighbour is allowed there.

### TradeCycle

Actors are `Manual` (slots of concurrent `POST /ai/manual-cycle` requests) and
`Sched` (the APScheduler job; one instance). Each has a record `cyc[p]`: where it
is (`at`) and the local variables that later code uses: symbol, analysis id
(`log`), the mode and the holdings the portfolio was read in (`smode`, `snap`,
`priced`), the mode the order goes to (`xmode`), the analysis that sizes the order
(`exec`) and the order placed (`ord`). An action is the code between two awaits
that other actors can tell apart.

| Stage | Action | Code |
|---|---|---|
| analyzing | `AnalysisSaved`, `AnalysisFails` | `execute_ai_analysis`, log committed |
| saved | `Admit`, `Decline` | `execute_ai_trade:1397-1474`: status, id and symbol, HOLD, confidence, weight, age |
| admitted, holdings | `PortfolioMode`, `PortfolioHoldings`, `PortfolioFails` | `get_aggregated_portfolio` |
| mode | `ReadMode` | the second read of the trading mode |
| gate | `Gate`, `GateRefuses` | `evaluate_ai_buy_entry_gate` |
| lock | `Unlock`, `Locked` | the live BUY lock |
| precheck | `PrecheckApproves`, `PrecheckHolds` | `_run_buy_precheck` |
| order | `LiveOrder`, `PaperRead`, `Skip` | `_execute_buy_trade`, `_execute_sell_trade` |
| fill | `PaperFill` | the paper rows are committed |
| record | `Record`, `Unresolved`, `RolledBack` | `_record_order_history` |
| reply | `Reply` | `run_manual_ai_cycle` looks for its row |
| tpsl ... tprecord | `Risk...` | `execute_hard_tp_sl_check` |
| watch, next | `Watch`, `NextSymbol`, `JobEnds` | `autonomous_ai_analyst_job` |

`CheckRaises` is a database access of the executor that fails; the job catches it
and goes on to the next symbol, a manual cycle answers HTTP 500. `RolledBack` is
the failed commit of a record: it expires the rows the caller still holds, so that
the caller raises at its next use of the analysis, after the order was placed.
`Environment` selects which disturbances happen: the bot started and stopped, the
mode, the lock and shadow mode set, the liquidation endpoint, restarts, and ticker
outages. `late` and `unlocked` are history variables: the analyses of the cycles
that had passed the status check, or the lock, when it was turned; no action reads
them. `jobFrom` is one too.

`TradeCycleHangs` adds one stage, `hung`: any call of the job may turn out never to end
(`Hang`), and only a restart ends it. The cycles of requests need no such step, since
nothing makes them go on. `NewsIngestionHangs` does the same, with a variable, for the
calls of a provider in an ingestion run.

Amounts are abstracted to what they lead to: a fill is full or not, an order is
placed or skipped for want of cash or size, an item of the risk check is over a
threshold or not. Every allowed symbol is tradable; the gate's market scores are
the free choice between `Gate` and `GateRefuses`.

### UpbitOrder and OrderCall

`call[c]` is one call of `create_order` and what its caller does with it:
`Post`, then `Answered`, `Refused`, `Timeout` (retried after a wait, up to
`MaxAttempts`) or `ConnectionFails` (raised); then `Detail` reads the order once,
and `Record` or `Unrecorded` ends it. The network and the exchange take a request
(`Accept`), refuse it, or lose it, at any time after it was sent, also when the
client no longer waits; `Trade` fills an order lot by lot. `Crash` forgets calls and
no requests. These four are external: they are modelled from what the client is
written to expect of them. `TradeCycle` leaves the retries out: an order that it
counts once is one call of `UpbitOrder`.

`OrderCall` is what is left for the caller: any number of attempts of a call may
become orders, even after it ended; it ends once; and it ends recorded only if one
of its attempts is an order. `KeepsPromise` is the refinement.

### PaperLedger and Ledger

`rows` is the positions table (an index is a row's id; `next` counts the ids handed
out, as a sequence does, also to rows that are never committed), `cash` the cash row
of `system_configs`. `ses[w]` is what a session has loaded and changed in memory: AI
fills (`Writers`), and the take-profit / stop-loss check (`Risk`), which goes from
item to item with one session.

| Action | Code |
|---|---|
| `LoadCash`, `RiskItem` | `_get_or_create_paper_cash_config`; the check gets the object its session still holds |
| `BuyMore`, `BuyFirst`, `Sell`, `Skip` | the position is found or inserted, and both objects are changed in memory |
| `Commit`, `Rollback` | `_record_order_history`: absolute values are written, or the row is gone, or a statement fails |
| `ResetDeletes`, `ResetReadsCash`, `ResetCommits`, `ResetFails` | `reset_paper_trading_state`: the DELETE, then the cash row, each a statement that is awaited, then the commit; the cash is written only if it differs from the one loaded |
| `Crash` | restart |

The database is PostgreSQL at read committed: a row inserted is seen by others once it
is committed, an UPDATE waits for the reset that is deleting its row and then finds
none. Prices are one and fees are left out, so that what a fill takes from the cash is
what it adds to the position. `by` (who inserted a row) and `fresh` (nobody has
committed since the cash was loaded, or since a reset's DELETE) are history variables.
Average prices and history rows are left out. A second item of one symbol in one check, which takes duplicate
rows, reads its position anew in the model; the code may still hold the object.

`TradeCycle.PaperFill` is one `Commit` of this module: there holdings, here values.

### NewsIngestion

`run[r]` is one run of `run_market_news_ingestion_job`: the scheduled job, or a check
before a BUY (`refresh_market_news_for_buy_precheck_if_stale`). `index` holds per
chunk the text it is of and the text its vector is of; an article is a source and a
number, number 0 being the dummy of an API that failed; a text is one chunk (summary)
or two (crawled body).

| Action | Code |
|---|---|
| `CheckIndex`, `DropIndex`, `CreateIndex`, `CreatedByOther`, `IndexFails` | `ensure_market_news_index` |
| `Fetch` | all sources at once, crawling, `_prefer_real_documents` |
| `Embed` | translation and `_generate_embeddings` with its limit and its fallback |
| `Upsert` | `_bulk_upsert_chunks`, item by item |
| `DeleteStale`, `DeleteFallback`, `DeleteFails` | what the sources no longer list, then the dummies |
| `BackfillSearch`, `BackfillWrite`, `BackfillFails` | missing embeddings, read, embedded and written by id |
| `DeleteExpired`, `ExpireFails`, `Store`, `StoreFails` | the finally block and the run's record |

`RagStatus`, `Warnings` are the status API's functions of the index. `alone`, `got` and
`whole` are history. Words, scores and dates are left out: an expiry deletes, of one
source, the articles up to any number; the order of the backfill is by number.

### ProviderRouter

`call[c]` is one call of `AIProviderRouter.execute`: `Load` resolves the candidates
(settings, keys, blocks), `Ask` is the provider's answer, error or refusal,
`ReadStatus` and `WriteStatus` are the two halves of a mark, with an await between
them. `status` is the JSON document; a block is the time that remains of it, and
`Tick` shortens those in copies as well. The candidates of a call are a set, `left`, of
which `First` is the one to ask: the preferred provider, then the order of the settings.
`skipped` and `tried` are history.
`RuntimeStatus` is what the status endpoint shows.

### BotControl

`doc` is `bot_configs.config_json`, cut to the profile and the last action; `task[a]`
is the session of one actor: the engine's beat and its error report, a client of the
API or of Slack, the Telegram bot. `Switch` is the transaction that sets `is_active`,
`Read` and `Write` are the read-modify-write of the document. Telegram's server is
`sent` and `confirmed`, the bot's memory `offset` and `batch`. `taken` counts, for the
properties, how often an update was taken up. Slack's events end in the same functions
as the API's requests and are clients here.

### Scheduler

`jobs` is APScheduler's registry, `stored` the settings, `load[l]` a loader that has
read some of them: the start of the process or the reload after a save. `Save` commits;
`ReadKey` is one of the reads, `Apply` registers everything at once, `LoadFails` is the
error of a stored value of the wrong shape (logged by a reload, fatal to a start).
`Tick`, `Fire`, `SkipRun` and `Return` are APScheduler. Three jobs stand for their
kinds. `clean` and `current` are history. `reschedule_job` keeps the arguments of a
job, which is why the alert jobs are removed first. Registering is one job after the other
in the code; `Registered` says what the registry is at the end of it, two rules of one name
included, of which the first adds the jobs that both have and the last reschedules them
(`AlertJob`). `Approvers` are the savers whose list of
keys lacks the alerts: what they save of them waits for another reload.

### AccuracyWorker

`pending` are the analyses without a label, oldest first, the first `aged` of which are
60 minutes old. `Begin`, `Evaluate`, `LookupFails`, `Commit` and `PassFails` are one
pass. The calibration reads the `Latest` labels. `Dead` rows are of a market without
candles; whether an analysis is right is a choice when it is made.

### Chat

`req[r]` is one request: the stream (`at`, `saving`) and the graph (`node`, `call`,
`retry`, `rounds`, `steps`), two tasks between which `events` is the queue. A model is
asked in four steps (`Candidates`, `Asked`, `Answered` or `ModelFails`, then the node's
own action), since the router reads and writes the database in the session that the
stream saves in: SQLAlchemy refuses the second of two calls, whichever it is.

| Action | Code |
|---|---|
| `Supervise`, `Answers`, `CallsTools`, `Review` | the nodes of the graph and their edges |
| `Begin`, `SaveUser`, `SaveBegins`, `SaveEnds`, `StreamFails` | the streaming endpoint and `stream` |
| `Leave`, `Create`, `Delete` | the client disconnects; the session's own endpoints |

What is said is left out, so that a verdict, a delegation and a tool's success are
choices. `log[r]` are the messages on record of a request, in their order; that of the
messages of different requests is left out. `refused` and `tools` are history.

## 3. Runs

TLC checks deadlock in every run but three: their actors can always start again. `orders`
and `chat` turn the check off, since their calls and requests end, and a finished one
does nothing more; `news_heals` does, since a run that hangs after the last restart
stays.

| Run | Bounds | Shows |
|---|---|---|
| `live` | 1 symbol, manual + job, live, 3 logs, 1 order; bot, lock, restarts | `LiveBuyReviewed`: every live AI BUY is sized by a confirmation of its own, while others save theirs. `StopBoundsOrders`, `LockBoundsLiveBuys`: an AI order placed after the stop (a live BUY after the locking) is of a cycle that had passed the check before |
| `cycles` | 3 symbols, manual + job, paper, cap 1, 2 logs, 2 orders; shadow mode, restarts | `ExactAnalysis`, `AnalysisSpentOnce`: an order carries out the analysis it was given, and no analysis gives two. `LiquidatedNotRetraded`: what the risk check sold and recorded, the same job leaves alone. `ReportSound`: a reply that tells of an order is right. `CapOvershoot`: cycles that pass the cap together exceed it by one position at most. `TypeOK` |
| `job` | 1 symbol, both modes, 1 log, 1 order; mode, liquidation, hanging calls, restarts | `JobReturns`: every run of the job ends, so that `max_instances=1` does not hold back the next for ever, unless a call of that run hangs |
| `orders` | 2 calls of 2 attempts, 1 lot; restarts | `AnswerIsFinal`: once an answer reached the client no other request is sent. `RefusedMeansNoOrder`: a call refused at its first attempt has no order and never will. `RowIsOfLastOrder`: a row is of the last request. `KeepsPromise`: the refinement. `CallEnds`: every call ends. `TypeOK` |
| `ledger` | 2 symbols, 2 AI fills, the check, a reset, cash 2, lots 1, rows 2; failures, restarts | `AloneIsAtomic`: a session that commits before any other has, since it loaded the cash, makes one step of `Ledger`, whatever it had cached, failed at or lost before; so does a reset, counted from its DELETE. `OneRowPerWriter`: rows of one symbol come of different sessions. `TypeOK` |
| `news` | the job and a check, a feed of 2 articles and an API of 1, limits 2, 1 failing step | `KeepsNews`: a run that is alone never leaves a source without a real article, unless it could index nothing of it. `VectorOfText`: a vector is of the text it stands beside, but for an overlapping backfill. `SuccessIsHealthy`: a run recorded as a success leaves an index that the status API calls healthy, if it was alone and the backfill saw all. `TypeOK` |
| `news_heals` | the job alone, an API without credentials more, 2 failing steps or restarts, hanging calls | `Heals`: the index is healthy again and again, unless a provider's call hangs and nobody restarts the process |
| `router` | 2 calls, 2 providers, one call strict; blocks of 2, 1 failing write; settings edited | `GivesUpWhenSpent`: no provider is left out. `BlockKept`: a block is lost only to an overlapping copy. `UsableAgain`: no provider stays blocked for good. `TypeOK` |
| `control` | engine, 1 client, Telegram with 2 updates, 1 failure or restart | `CommandOnce`: an update is handled once, and once more per restart. `CommandsReach`: each is handled. `ProfileKept`: status writes keep the profile, but for an edit committed in between. `StatusFollows`: the status shows whether the bot is on. `TypeOK` |
| `sched` | 2 savers, 4 alert settings with one of two rules and one unreadable, a clock of 2 slots, 1 restart | `RegistryCurrent`: after an undisturbed load the registry is exactly what the settings say. `JobsGoOn`: jobs run again and again |
| `accuracy` | 4 rows, one without prices, batches of 2, the last 3 labels, 1 failure | `Labelled`: every analysis with prices gets its label. `Reopens`: bad labels do not refuse BUYs for good |
| `chat` | 1 request, 2 retries, 4 rounds, 25 steps, 2 tools | `RecordIsWhole`: what is on record of a request is a beginning of its messages, all of them once it was answered, none once the session is deleted. `ReviewedFirst`: drafts reach the supervisor passed, or after all retries. `StreamEnds`: a request ends, unless a model never answers |

Why the bounds are enough. The actors are symmetric in code and meet only through
shared rows, so that one manual cycle beside the job already shows every
interference of two; each property relates at most two orders or analyses, and the
logs and orders allow two cycles to reach an order with a confirmation (`live`:
analysis, analysis, confirmation) or two orders. `cycles` needs three symbols
because exceeding a cap of one takes a symbol held and two more bought. Two
attempts are enough for a retry to race the first. `MaxLogs` and `MaxOrders` are
guards of the actions that write: a cycle that finds no room waits, fails or
skips, which the code may do as well. Confidence and weight are small numbers
around `MinConf` and `MaxBuyWeight`. In `ledger` two fills, the check and the reset
overlap in every way; the check goes from one symbol to the other with the cash row it
still holds, before anybody else commits, and two rows are what it takes to insert twice.
Instances with more lots (to add to a position, to sell part of it), and one writer or one
symbol less, have been checked as well. `MaxCash`, `MaxQty` and `MaxRows` are guards of
the actions that would exceed them; a fill that may not go on is rolled back.

In `news` two articles of a feed with a window of one make the older one stale, a body
has two chunks, and limits of two are met by them; what is kept as a summary is one chunk,
so that a run without a flaw may embed all it fetched and be a success (which TLC was seen
to reach); one failing step is any source, provider, item, deletion or a restart, and `Served` loses any part of what was asked
for. `news_heals` has two failures so that dummies and missing vectors meet; its limits
cover what one run lists, without which the property is false: the code embeds 100 and
fills in 50 chunks (`ingestion.py:60,63`), and as each run writes anew, without a vector,
what is beyond, more than that keeps the index degraded. Neither does it hold of
overlapping runs. In `router` blocks of two ticks tell a block lost from one that ends;
an analysis and a precheck are the two kinds of candidates. In `control` one client does
both what switches the bot and what edits the profile; two updates make a batch with one
behind the other. In `sched` an interval of two slots can be cut short by a reload, and
the four alert settings are a rule, that rule changed beside a second one, no rule, and a
value that no load can read. In `accuracy` a batch has room for one row without prices beside one with;
`AccuracyAssumption` says that such rows do not fill it: fifty of them do, and starve the
rest. A rate of 45 % of three labels is two of them. In `chat` the retries and
rounds are the code's (`orchestrator.py:79-80`), and 25 steps are the limit of LangGraph,
which the code leaves as it is; requests of
one session share the session only, and an instance with two requests and smaller bounds
has been checked as well.

Fairness. What the event loop resumes has weak fairness: a step whose await has ended is
taken some time. That an await ends is another matter, and depends on what is awaited:

- The Upbit client (`upbit.py:288`), the feeds and news APIs (`ingestion.py:2392`) and the
  Telegram client (`telegram.py:38`) have timeouts, and OpenSearch's client has its library's.
  The steps after them have weak fairness in `orders` (tenacity waits ten seconds at most),
  `accuracy`, `news_heals`, `control` and, for the tools, `chat`. The exchange is under no
  obligation to answer; the timeout covers that.
- The clients of the providers set none (`genai.Client`, `gemini.py:38`; `AsyncOpenAI`,
  `openai.py:69`, has the default of its library), and `provider_router.execute` waits
  without one. The models do not assume that such a call ends. `TradeCycleHangs` and
  `NewsIngestionHangs` let it hang, and `JobReturns` and `Heals` say what holds then. In
  `Chat`, `Goes` leaves out the answer of a model, and `StreamEnds` says so. `ProviderRouter`
  has fairness of time only (`Tick`): a call may stop anywhere. `Scheduler` has none of
  `Return`, and `JobsGoOn` excludes a run of the job that never ends.
- The database has none either (`db/session.py:7`). In `job` any call may hang, the
  database's too. In `orders`, `news_heals`, `control`, `sched`, `accuracy` and `chat` it
  is assumed to answer or to fail: an outage is a failure that the code catches, or a
  restart, and a database that does neither stops everything.

What APScheduler or a loop starts again has weak fairness as well: the ingestion job, the
heartbeat, Telegram's polling, the worker. Time passes (`Tick`, `Age`). Nothing is assumed of
manual requests, operators, clients, editors, checks before a BUY, new analyses, restarts or
failures, which their bounds end. Strong fairness appears once, of `Fire(News)` in
`Scheduler`: a reload removes a job from those due, and one that comes before the timer
each time the job is due, for ever, is not expected.

Two liveness properties carry the condition under which the code keeps them.
`JobsGoOn` of the autonomous job assumes that settings stop being saved: every save
starts its interval over (`scheduler.py:473`), the stop-loss check with it. And it
assumes that the stored alert settings can be read: a JSON value that is no object is
accepted, breaks no reload, and stops every later start (`scheduler.py:339`). `Reopens`
assumes that analyses go on and are right from some time on.

### Where documents say otherwise

Eight statements of the repository's documents are operators of the modules and are in
no run: the present code does not keep them. Added to the configuration named, in
place of its properties, each makes TLC print a behaviour that breaks it.

| Operator | Add to | The document | The code |
|---|---|---|---|
| `OneOrderPerIntent` | `orders.cfg`, invariant | `docs/plans/p0-001-upbit-order-idempotency.md:295`: one intent, at most one order | the POST is repeated after a timeout without an identifier (`upbit.py:448`) |
| `RecordedIsTraded` | `orders.cfg`, property | the same, `:311`: an unconfirmed fill is not recorded as whole | the requested volume stands in (`ai_executor.py:363`) |
| `StopMeansNoLiveOrder` | `live.cfg`, property | `docs/plans/p0-002-live-order-kill-switch.md:17`: no live order starts after the stop | the status is read once, and never by the risk check |
| `BuyReducedOnly` | `live.cfg` with `Answers <- AllAnswers`, invariant | `docs/plans/p1-010a-buy-precheck-reduce-only.md:17`: the smaller weight of both answers | the second answer's weight is used |
| `SnapshotOfOrderMode` | `job.cfg`, invariant | `README.md:36`: paper and live are kept apart | the mode is read twice in a cycle |
| `BuyOnPricedPortfolio` | `job.cfg` with `"outage"` in `Environment`, invariant | `docs/plans/p1-009-risk-buy-fail-closed.md:41`: no BUY on an incomplete portfolio | a ticker failure is not a portfolio error |
| `JobAlwaysReturns` | `job.cfg`, property | `docs/plans/p1-011-provider-deadline.md:16-22` and `docs/reviews/2026-07-10-project-safety-review.md:290`: a provider's call is given up at a deadline, 35 s in all for an analysis | no call has one (`gemini.py:38`, `provider_router.py:438-491`) |
| `OneRowPerPosition` | `ledger.cfg`, invariant | `docs/reviews/2026-07-10-project-safety-review.md:106`: a unique constraint on the positions of an asset | there is none, and two first BUYs insert two rows (`ai_executor.py:412-437`) |

The plans under `docs/plans` describe changes, some of them not made in this commit.
More divergences were met and have no operator:

- A live BUY is recorded under the id of its confirmation (`ai_executor.py:1532`), so
  that the reply of the manual cycle, which looks for a row of the first analysis
  (`api/routes/ai.py:164`), says that nothing was filled.
- A symbol sold at a threshold whose record fails is not in the set of liquidated
  symbols (`ai_executor.py:757`), so that the same job may buy it back.
- Two fills that overlap overwrite each other's cash, since the values are absolute and
  no version is checked; and a fill that commits between the DELETE of a reset and its
  commit may leave its row beside the default cash (`api/routes/configs.py:108-117`).
  `AloneIsAtomic` says what holds of a session or a reset that nobody overtakes.
- `docs/reviews/2026-07-10-project-safety-review.md:284` tells of runtime columns, a
  `config_version` and `If-Match`; `bot_service.py:59-68` writes one JSON document back,
  and `ProfileKept` is as much as holds.
- `docs/ARCHITECTURE.md:48` promises a warning of missing embeddings; below half of them
  there is none (`api/routes/news.py:428`), only the status `degraded`.
- `README.md:38` wants failures of providers shown; the branch of
  `resolve_provider_runtime_status` that says `error` cannot be reached, since a provider
  that is enabled, has a key and is not blocked is `active` or a ready fallback.
- A stored record of a failed ingestion counts as fresh (`ingestion.py:2288`), so that
  the check before a BUY leaves it at that.
- Approving an alert setting in the chat reloads nothing: its list of keys
  (`api/routes/chat.py:36`) lacks the one that `api/routes/configs.py:32` has. It also
  takes any key and value, whether the chat proposed them or not.
- The liquidation endpoint answers success whatever its orders answered
  (`api/routes/status.py:46-77`).
- The supervisor's closing words of a chat are not reviewed, only the drafts are; and a
  request does not see what another one of the same session is saying.

## 4. Proofs

Every safety property that a run checks, invariant or action property, is also a theorem,
for every number of symbols, requests, answers, calls, attempts, runs and so on, from the
assumptions that the modules state of their constants: `NamesAssumption`,
`SetsAssumption`, `NumbersAssumption` (`TradeCycle`), `UpbitAssumption`,
`LedgerAssumption`, `NewsAssumption`, `RouterAssumption`, `ControlAssumption`,
`SchedulerAssumption` and `ChatAssumption`. One theorem has further hypotheses,
`CapOvershootCorrect`. TLC finds each inductive invariant true in the runs
of its component.

`TradeCycleProofs`:

- `TypeCorrect`, `TypeOKCorrect`. `TypeOK` is not inductive: an action reads
  `logs[cyc[p].log]` or writes `cyc[p].ord` into `history`. `TypeInv` adds `StageOK`:
  what the local variables hold at each stage (past the analysis, `log` is a primary
  log of the cycle's symbol; past the checks, one to act on; at the gate, a BUY; ...).
- `Spending`, with `ExactAnalysisCorrect` and `AnalysisSpentOnceCorrect`. `SpendInv`
  adds that no two actors hold one analysis (`Unshared`) and that no order has spent
  the analysis of a cycle that has still to place its own (`Unspent`). The steps are
  first sorted into three shapes (`StepShapes`): nothing is handed out or spent, an
  analysis is saved, or an order is placed.
- `StopBoundsOrdersCorrect`, from `StopNoted`: while the bot is stopped, the cycles in
  flight are among those the stop noted, since the shapes let nobody past the check.
- `LockBoundsLiveBuysCorrect`, from `LockNoted`, likewise for the lock.
- `LiveBuyReviewedCorrect`, from `BuyConfirmed`: who is about to place a live BUY holds a
  confirmation of its own analysis, which only `PrecheckApproves` hands out and which stays
  one while others save theirs (`ConfirmedStays`).
- `ReportSoundCorrect`, from `ReportInv`: every order of an analysis was placed by the actor
  that holds it (`PlacedByOwner`, which `SpendInv` carries through), the sizing
  analysis of an order is its own analysis or a confirmation (`ExecKnown`), so that the row
  that a reply finds by its analysis is of that analysis.
- `LiquidatedNotRetradedCorrect`, from `JobInv`: what the job has still to process is not
  among what its risk check sold, and the check precedes the job's orders.
- `CapOvershootCorrect`, from `CapInv`: not the positions held are bounded, but those that
  can still be reached, `Reach`: held, or what an actor may still open (a BUY within the
  cap of the portfolio it was decided on, or a SELL fill about to write back the position
  that it read). The gate bounds what is held together with its own position
  (`CapChecked`); each other actor adds one at most.
  Its hypotheses, `OnePricedMode`, are what the property says of the code: a single mode,
  finitely many symbols and requests, and no ticker outage, since a portfolio without
  prices counts no position. The run `cycles` satisfies them.

`UpbitOrderProofs`:

- `OrderTypeOKCorrect`, `AnswerIsFinalCorrect`, `RefusedMeansNoOrderCorrect`,
  `RowIsOfLastOrderCorrect`, from one inductive invariant that says which attempts of
  a call may be on the wire, accepted or refused at each stage.
- `KeepsPromiseCorrect`: initial states map to initial states, and every step maps to
  a step of `OrderCall` or to a stutter.

`PaperLedgerProofs`, for any number of sessions, symbols, rows and any amounts:

- `LedgerTypeOKCorrect`: here `TypeOK` is inductive.
- `LInvCorrect`, the inductive invariant. `Loaded` and `Changed` say that the values of a
  session nobody has overtaken are the committed ones, before and after its change;
  `RowsKnown` and `Inserted` that an id is handed out once and that a row still to be
  committed is the first of its own session; `ResetOK` that a reset which nobody has
  overtaken since its DELETE deletes every row and knows the cash. `LocalStep` covers all
  steps that commit nothing.
- `OneRowPerWriterCorrect`; `AloneIsAtomicCorrect`, from `Changed` and `ResetOK`.

`ChatProofs`, for any number of requests, retries, rounds, steps and tools:

- `ReviewInvCorrect`, the inductive invariant: beside the type of a request, `Reviewing`
  says which node may come with which count (within a task `refused` is `retry`, at most
  `MaxRetries`; the supervisor finds `retry` reset), `Fresh` that nothing has run before
  the user's message is saved, `Saves` that a row is saved of an event that is there. The
  edges of the graph are lemmas of their own (`GotoOK`, `DraftOK`, `VerdictOK`).
- `ReviewedFirstCorrect`, from `Reviewing` at the supervisor.
- `RecordIsWholeCorrect`, from `RecordInv`: rows on record and events in the queue add up to
  the tools that ran, the user's message and the answer (`Recorded`), a last event is there
  exactly when the graph has ended (`EventsOK`), and what is on record begins as the whole
  does (`Beginning`). The steps of the graph are sorted by what they add to the queue
  (`Onward`), so that the stream's saves are the only ones to look at one by one.

`BotControlProofs`, for any clients and any number of updates, failures and restarts:

- `ControlInvCorrect`, the inductive invariant: beside the types, `SessionsOK` says that
  whoever is in a database session does something, and `UpdatesOK` that a batch is of
  updates which follow each other from the offset on, and that an update has been taken up
  at most once more than there were restarts, and at or beyond the offset not even that
  often. `CommandOnce` alone is not inductive: it says nothing of what is still to be read.
- `ControlTypeOKCorrect` and `CommandOnceCorrect`, from the invariant;
  `ProfileKeptCorrect`, from `WrittenOK`: a write that is no edit keeps its copy's profile.

`ProviderRouterProofs`, for any providers, calls, lengths of blocks and failed writes:

- `CopiesOKCorrect`, the inductive invariant: the document and every copy of it stay whole,
  what a call is about to write is a mark, and each provider that the call could use was
  blocked when it began, has been asked in vain, or is still to be asked (`CallOK`).
- `TypeOKCorrect` and `GivesUpWhenSpentCorrect`, from it.
- `BlockKeptCorrect`, from `MarkedOK` (a mark changes one provider's part) and `SoonerOK`
  (a tick shortens a block by one).

`SchedulerProofs`, for any savers, approvers, settings, rules and restarts:

- `RegistryOKCorrect`. `LoadsOK` says that a load since whose beginning nothing was saved has
  read what is stored, setting by setting; `RegistryOK` that the registry is what the
  stored settings say while nothing was saved since the load applied last began. It rests
  on what `Registered` makes of any registry before (`RegisteredMatches`).
- `RegistryCurrentCorrect`, from it.

`NewsIngestionProofs`, for any runs, sources, articles, limits and failures:

- `NewsInvCorrect`, the inductive invariant. `IndexOK` is about the index, `RunsOK` about what
  a run has fetched (one text per article, no dummies beside real documents, real ones
  unless it is flawed) and what it has not done yet. `AloneOK` is the part that the
  properties need: while a run is alone all others are idle, and it knows that a chunk of
  each source it indexed still stands (`Listing`), that what its search found still stands
  (`Found`), and that without a flaw no dummy is left and no vector missing but those it
  found (`Filled`). None of it holds once another run has been active, which is why the
  properties say `alone`.
- `NewsTypeOKCorrect`, `SuccessIsHealthyCorrect` (from `Filled` at the end of a run, and
  `WrittenAll`: a backfill that counts as many writes as hits has written them all),
  `VectorOfTextCorrect` (from `Found`) and `KeepsNewsCorrect` (from `Listing`).
- `NewsAssumption` asks for finitely many sources and for one feed at least: the feeds are a
  fixed list (`services/news_scraper.py`). With credential-less APIs alone, a run that indexed only dummies
  would be a success.

Only model-checked: liveness, which is beyond the prover: `JobReturns`, `CallEnds`, `Heals`,
`UsableAgain`, `CommandsReach`, `StatusFollows`, `JobsGoOn`, `Labelled`, `Reopens`,
`StreamEnds`. No module declares a `RECURSIVE` operator. Folds and `SelectSeq` are not used
in the modules with proofs: what they compute is an induction over data, and where the code
goes through a list the modules say what comes of it, as sets with an order (`First`) or as
functions (`Registered`).

## 5. Plan

Order: what decides over money first, then what feeds it.

1. `TradeCycle`, `OrderCall`, `UpbitOrder` - done.
2. `Ledger`, `PaperLedger` - done.
3. `BotControl`, with Telegram and the clients of the API - done.
4. `ProviderRouter` - done.
5. `NewsIngestion`, `Scheduler`, `AccuracyWorker`, `Chat` - done.
6. Values in the entry gate: the cap on positions of a minimum value, and scores.

Weaker statements on documents gave way to stronger runs as they came; they are kept as
operators, section 3.

Theorems left: the safety facts that the liveness properties rest on (in `AccuracyWorker`, that
a pass commits the label of each row it chose at most once; in `NewsIngestion`, that a run
alone leaves less to fill in than it found), and the bound of `CapOvershoot` for two modes
that are switched between.

## 6. Not modelled

- Indicators, scores, valuations: floating-point data without state.
- The take-profit and stop-loss arithmetic, order sizes and fees: choices in
  `TradeCycle`, units in `PaperLedger`.
- Provider clients, candle and ticker reads, text processing and crawling of news, search
  queries, prompts: what they return is a choice; they keep nothing.
- The caches of the news, sentiment and market endpoints: one dictionary each, filled
  again after a time. The sentiment endpoint reads the feeds synchronously
  (`api/routes/news.py:734`), which holds up the event loop but changes no order of steps.
  The ingestion's own AI clients do not look at the router's blocks.
- What snapshot, briefing and alert jobs write and send: each is one independent row or
  message.
- Slack's wording, and `slack_socket.py`, which nothing imports. `slack_bot.py` runs its
  commands with `asyncio.run` in a thread, on a pool of connections that belongs to
  another loop; whether a command succeeds there is up to the driver, and it is a client
  that may fail in `BotControl`.
- Backtesting: a sequential computation over stored candles; nothing acts on it while it
  runs, and trading reads nothing of it.
- Dashboard, orders, favorites, health, logging: queries and single-row changes.
- The frontend is a client of the routes; Korea Investment raises `NotImplementedError`
  everywhere; migrations and operations files are not part of the running program.
- Several server processes on one database: the deployment starts one.
