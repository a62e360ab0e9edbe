-------------------------- MODULE TradeCycleProofs --------------------------
(***************************************************************************)
(* Proofs about TradeCycle, for every value of its constants.              *)
(***************************************************************************)
EXTENDS TradeCycle, FiniteSetTheorems, TLAPS

(* The inductive invariant.  Each part says what the code relies on at a    *)
(* stage without stating it: which rows a local variable still names.       *)

Analysed == (CycleStages \ {"analyzing"}) \cup {"reply", "replied"}
Checked  == CycleStages \ {"analyzing", "saved"}
Decided  == {"gate", "lock", "precheck", "order", "fill"}

\* What a cycle's local variables hold at each stage.
Stage(p) ==
    /\ cyc[p].at \in CycleStages => cyc[p].sym \in Symbols
    /\ cyc[p].at \in Analysed =>
          /\ cyc[p].log \in 1..Len(logs)
          /\ logs[cyc[p].log].sym = cyc[p].sym
          /\ logs[cyc[p].log].kind = "primary"
    /\ cyc[p].at \in Checked =>
          /\ logs[cyc[p].log].dec \in {"BUY", "SELL"}
          /\ Actionable(logs[cyc[p].log])
    /\ cyc[p].at \in {"holdings", "tpholdings"} => cyc[p].smode \in Modes
    /\ cyc[p].at \in Decided \cup {"record", "tpitems", "tpfill", "tprecord"} =>
          cyc[p].xmode \in Modes
    /\ cyc[p].at \in {"gate", "lock", "precheck"} => logs[cyc[p].log].dec = "BUY"
    /\ cyc[p].at \in {"lock", "precheck", "record"} => cyc[p].xmode = "live"
    /\ cyc[p].at \in {"fill", "tpfill"} => cyc[p].xmode = "paper"
    /\ cyc[p].at \in {"record", "tprecord"} => cyc[p].ord \in 1..Len(orders)
    /\ cyc[p].at \in {"tpfill", "tprecord"} => cyc[p].sym \in Symbols

StageOK == \A p \in Proc : Stage(p)

TypeInv == TypeOK /\ StageOK

\* Nobody else holds the analysis of a cycle, and no order has spent it before
\* the cycle's own.
Unshared ==
    \A p, q \in Proc : (p # q /\ cyc[p].log # 0) => cyc[p].log # cyc[q].log

Unspent ==
    \A p \in Proc, i \in AiOrders :
        cyc[p].at \in CycleStages \ {"record"} => orders[i].primary # cyc[p].log

LogKnown == \A p \in Proc : cyc[p].log \in 0..Len(logs)

SpendInv == ExactAnalysis /\ AnalysisSpentOnce /\ LogKnown /\ Unshared /\ Unspent

\* The stop has noted every cycle that is past the running check.
StopNoted == ~running => InFlight \subseteq late

\* Locking has noted every live BUY that is past the lock.
BuysPastLock == {cyc[p].log : p \in {q \in Proc : PastLock(q)}}
LockNoted == ~liveBuy => BuysPastLock \subseteq unlocked

-----------------------------------------------------------------------------
(* Lemmas *)

\* Appending keeps the entries there are and adds one at the end.
LEMMA AppendFacts ==
    ASSUME NEW S, NEW s \in Seq(S), NEW e \in S
    PROVE  /\ Append(s, e) \in Seq(S)
           /\ Len(Append(s, e)) = Len(s) + 1
           /\ \A i \in 1..Len(s) : Append(s, e)[i] = s[i]
           /\ Append(s, e)[Len(s) + 1] = e
  OBVIOUS

\* Logs and orders only grow, and entries never change.
Grows ==
    /\ Len(logs) \in Nat /\ Len(logs') \in Nat /\ Len(logs) <= Len(logs')
    /\ \A i \in 1..Len(logs) : logs'[i] = logs[i]
    /\ Len(orders) \in Nat /\ Len(orders') \in Nat /\ Len(orders) <= Len(orders')
    /\ \A i \in 1..Len(orders) : orders'[i] = orders[i]

LEMMA GrowsWhenUnchanged ==
    ASSUME TypeOK, logs' = logs, orders' = orders
    PROVE  Grows
  BY DEF TypeOK, Grows

\* A step of one cycle leaves the stages of the others alone.
LEMMA OtherStages ==
    ASSUME TypeOK, StageOK, Grows, NEW p \in Proc, Stage(p)',
           \A q \in Proc \ {p} : cyc'[q] = cyc[q]
    PROVE  StageOK'
  <1> SUFFICES ASSUME NEW q \in Proc, q # p
               PROVE  Stage(q)'
    BY DEF StageOK
  <1>1. cyc'[q] = cyc[q] /\ Stage(q)
    BY DEF StageOK
  <1>2. QED
    BY <1>1 DEF Stage, Grows, Actionable, Analysed, Checked, Decided, CycleStages

\* The records that cycles start from, and end in.
LEMMA IdleTyped == Idle \in Cycle
  BY DEF Idle, Cycle, Stages

\* What Return leaves in the actor's own record.
LEMMA ReturnFields ==
    ASSUME TypeOK, NEW p \in Proc, Return(p)
    PROVE  /\ cyc' \in [Proc -> Cycle]
           /\ \A q \in Proc \ {p} : cyc'[q] = cyc[q]
           /\ cyc'[p].created = FALSE
           /\ p = Sched => cyc'[p].at = "next" /\ cyc'[p].log = 0
           /\ p # Sched => /\ cyc'[p].at = "reply"
                           /\ cyc'[p].sym = cyc[p].sym
                           /\ cyc'[p].log = cyc[p].log
  <1>1. cyc[p] \in Cycle
    BY DEF TypeOK
  <1>2. CASE p = Sched
    <2>1. [Idle EXCEPT !.at = "next"] \in Cycle
      BY DEF Idle, Cycle, Stages
    <2>2. QED
      BY <1>2, <2>1 DEF Return, TypeOK, Idle
  <1>3. CASE p # Sched
    <2>1. [Idle EXCEPT !.at = "reply", !.sym = cyc[p].sym, !.log = cyc[p].log] \in Cycle
      BY <1>1 DEF Idle, Cycle, Stages
    <2>2. QED
      BY <1>3, <2>1 DEF Return, TypeOK, Idle
  <1>4. QED
    BY <1>2, <1>3

LEMMA RaiseFields ==
    ASSUME TypeOK, NEW p \in Proc, Raise(p)
    PROVE  /\ cyc' \in [Proc -> Cycle]
           /\ \A q \in Proc \ {p} : cyc'[q] = cyc[q]
           /\ cyc'[p].created = FALSE
           /\ cyc'[p].log = 0
           /\ p = Sched => cyc'[p].at = "next"
           /\ p # Sched => cyc'[p].at = "idle"
  <1>1. [Idle EXCEPT !.at = "next"] \in Cycle /\ Idle \in Cycle
    BY DEF Idle, Cycle, Stages
  <1>2. QED
    BY <1>1 DEF Raise, TypeOK, Idle

\* A cycle that returns or raises fits its stage.
LEMMA ReturnStage ==
    ASSUME TypeOK, StageOK, Grows, NEW p \in Proc, Return(p),
           cyc[p].at \in Checked \cup {"saved"}
    PROVE  Stage(p)'
  <1>1. /\ p = Sched => cyc'[p].at = "next"
        /\ p # Sched => /\ cyc'[p].at = "reply"
                        /\ cyc'[p].sym = cyc[p].sym
                        /\ cyc'[p].log = cyc[p].log
    BY ReturnFields
  <1>2. /\ cyc[p].log \in 1..Len(logs)
        /\ logs[cyc[p].log].sym = cyc[p].sym
        /\ logs[cyc[p].log].kind = "primary"
    BY DEF StageOK, Stage, Analysed, Checked, CycleStages
  <1>3. /\ cyc[p].log \in 1..Len(logs')
        /\ logs'[cyc[p].log] = logs[cyc[p].log]
    BY <1>2 DEF Grows
  <1>4. QED
    BY <1>1, <1>2, <1>3 DEF Stage, Analysed, Checked, Decided, CycleStages

LEMMA RaiseStage ==
    ASSUME TypeOK, NEW p \in Proc, Raise(p)
    PROVE  Stage(p)'
  <1>1. cyc'[p].at \in {"idle", "next"}
    BY RaiseFields
  <1>2. QED
    BY <1>1 DEF Stage, Analysed, Checked, Decided, CycleStages

-----------------------------------------------------------------------------
(* Types and stages *)

\* A step that changes only the record of one actor.
LEMMA OneCycleMoves ==
    ASSUME TypeInv, NEW p \in Proc,
           UNCHANGED <<running, settings, logs, market, job, lq, ghosts>>,
           cyc' \in [Proc -> Cycle], Stage(p)',
           \A q \in Proc \ {p} : cyc'[q] = cyc[q]
    PROVE  TypeInv'
  <1>1. Grows
    BY GrowsWhenUnchanged DEF TypeInv, market
  <1>2. StageOK'
    BY <1>1, OtherStages DEF TypeInv
  <1>3. TypeOK'
    BY DEF TypeInv, TypeOK, settings, market, job, ghosts
  <1>4. QED
    BY <1>2, <1>3 DEF TypeInv

LEMMA ReturnMoves ==
    ASSUME TypeInv, NEW p \in Proc, Return(p), cyc[p].at \in Checked \cup {"saved"},
           UNCHANGED <<running, settings, logs, market, job, lq, ghosts>>
    PROVE  TypeInv'
  <1>1. Grows
    BY GrowsWhenUnchanged DEF TypeInv, market
  <1>2. Stage(p)'
    BY <1>1, ReturnStage DEF TypeInv
  <1>3. QED
    BY <1>2, ReturnFields, OneCycleMoves DEF TypeInv

LEMMA RaiseMoves ==
    ASSUME TypeInv, NEW p \in Proc, Raise(p),
           UNCHANGED <<running, settings, logs, market, job, lq, ghosts>>
    PROVE  TypeInv'
  <1>1. Stage(p)'
    BY RaiseStage DEF TypeInv
  <1>2. QED
    BY <1>1, RaiseFields, OneCycleMoves DEF TypeInv

\* The checks of a cycle keep types and stages.
LEMMA TypeCheckSteps ==
    ASSUME TypeInv, NEW p \in Proc,
           \/ Admit(p) \/ PortfolioMode(p) \/ PortfolioHoldings(p) \/ ReadMode(p)
           \/ Gate(p) \/ Unlock(p) \/ PaperRead(p)
    PROVE  TypeInv'
  <1>1. /\ TypeOK /\ Stage(p) /\ cyc[p] \in Cycle /\ mode \in Modes
        /\ held \in [Modes -> SUBSET Symbols] /\ cyc \in [Proc -> Cycle]
    BY DEF TypeInv, TypeOK, StageOK
  <1>2. CASE Admit(p)
    <2>1. UNCHANGED <<running, settings, logs, market, job, lq, ghosts>>
      BY <1>2 DEF Admit
    <2>2. cyc' \in [Proc -> Cycle] /\ \A q \in Proc \ {p} : cyc'[q] = cyc[q]
      BY <1>1, <1>2 DEF Admit, Cycle, Stages, CycleStages, At, Stage, LoadAnalysis, Tradable,
         Actionable
    <2>a. /\ logs' = logs
          /\ cyc[p].sym \in Symbols
          /\ cyc[p].log \in 1..Len(logs)
          /\ logs[cyc[p].log].sym = cyc[p].sym
          /\ logs[cyc[p].log].kind = "primary"
          /\ logs[cyc[p].log] \in Log
          /\ logs[cyc[p].log].dec # "HOLD"
          /\ Actionable(logs[cyc[p].log])
      BY <1>1, <1>2 DEF Admit, Stage, At, Analysed, CycleStages, TypeOK, LoadAnalysis, Tradable
    <2>b. /\ cyc'[p].at = "admitted"
          /\ cyc'[p].sym = cyc[p].sym
          /\ cyc'[p].log = cyc[p].log
      BY <1>1, <1>2 DEF Admit, Cycle, LoadAnalysis
    <2>3. Stage(p)'
      BY <2>a, <2>b DEF Stage, Analysed, Checked, Decided, CycleStages, Log, Decisions, Actionable
    <2>4. QED
      BY <2>1, <2>2, <2>3, OneCycleMoves
  <1>3. CASE PortfolioMode(p)
    <2>1. UNCHANGED <<running, settings, logs, market, job, lq, ghosts>>
      BY <1>3 DEF PortfolioMode
    <2>2. cyc' \in [Proc -> Cycle] /\ \A q \in Proc \ {p} : cyc'[q] = cyc[q]
      BY <1>1, <1>3 DEF PortfolioMode, Cycle, Stages, CycleStages, At, Stage
    <2>3. Stage(p)'
      BY <1>1, <1>3 DEF PortfolioMode, Stage, At, Analysed, Checked, Decided, CycleStages, Cycle,
         Actionable, settings, market, job, ghosts
    <2>4. QED
      BY <2>1, <2>2, <2>3, OneCycleMoves
  <1>4. CASE PortfolioHoldings(p)
    <2>1. UNCHANGED <<running, settings, logs, market, job, lq, ghosts>>
      BY <1>4 DEF PortfolioHoldings
    <2>a. PICK priced \in BOOLEAN :
             cyc' = [cyc EXCEPT ![p].at = "mode", ![p].priced = priced,
                                ![p].snap = held[cyc[p].smode]]
      BY <1>4 DEF PortfolioHoldings, Priced
    <2>b. held[cyc[p].smode] \in SUBSET Symbols
      BY <1>1, <1>4 DEF PortfolioHoldings, At, Stage
    <2>c. /\ cyc' \in [Proc -> Cycle] /\ \A q \in Proc \ {p} : cyc'[q] = cyc[q]
          /\ cyc'[p].at = "mode" /\ cyc'[p].sym = cyc[p].sym /\ cyc'[p].log = cyc[p].log
      BY <1>1, <2>a, <2>b DEF Cycle, Stages, CycleStages
    <2>2. cyc' \in [Proc -> Cycle] /\ \A q \in Proc \ {p} : cyc'[q] = cyc[q]
      BY <2>c
    <2>3. Stage(p)'
      BY <1>1, <1>4, <2>c DEF PortfolioHoldings, Stage, At, Analysed, Checked, Decided,
         CycleStages, Actionable
    <2>4. QED
      BY <2>1, <2>2, <2>3, OneCycleMoves
  <1>5. CASE ReadMode(p)
    <2>1. UNCHANGED <<running, settings, logs, market, job, lq, ghosts>>
      BY <1>5 DEF ReadMode
    <2>2. cyc' \in [Proc -> Cycle] /\ \A q \in Proc \ {p} : cyc'[q] = cyc[q]
      BY <1>1, <1>5 DEF ReadMode, Cycle, Stages, CycleStages, At, Stage, Analysis
    <2>3. Stage(p)'
      BY <1>1, <1>5 DEF ReadMode, Stage, At, Analysed, Checked, Decided, CycleStages, Cycle,
         Actionable, settings, market, job, ghosts, Analysis
    <2>4. QED
      BY <2>1, <2>2, <2>3, OneCycleMoves
  <1>6. CASE Gate(p)
    <2>1. UNCHANGED <<running, settings, logs, market, job, lq, ghosts>>
      BY <1>6 DEF Gate
    <2>2. cyc' \in [Proc -> Cycle] /\ \A q \in Proc \ {p} : cyc'[q] = cyc[q]
      BY <1>1, <1>6 DEF Gate, Cycle, Stages, CycleStages, At, Stage, GoTo
    <2>3. Stage(p)'
      BY <1>1, <1>6 DEF Gate, Stage, At, Analysed, Checked, Decided, CycleStages, Cycle,
         Actionable, settings, market, job, ghosts, GoTo
    <2>4. QED
      BY <2>1, <2>2, <2>3, OneCycleMoves
  <1>7. CASE Unlock(p)
    <2>1. UNCHANGED <<running, settings, logs, market, job, lq, ghosts>>
      BY <1>7 DEF Unlock
    <2>2. cyc' \in [Proc -> Cycle] /\ \A q \in Proc \ {p} : cyc'[q] = cyc[q]
      BY <1>1, <1>7 DEF Unlock, Cycle, Stages, CycleStages, At, Stage, GoTo
    <2>3. Stage(p)'
      BY <1>1, <1>7 DEF Unlock, Stage, At, Analysed, Checked, Decided, CycleStages, Cycle,
         Actionable, settings, market, job, ghosts, GoTo
    <2>4. QED
      BY <2>1, <2>2, <2>3, OneCycleMoves
  <1>8. CASE PaperRead(p)
    <2>1. UNCHANGED <<running, settings, logs, market, job, lq, ghosts>>
      BY <1>8 DEF PaperRead
    <2>2. cyc' \in [Proc -> Cycle] /\ \A q \in Proc \ {p} : cyc'[q] = cyc[q]
      BY <1>1, <1>8 DEF PaperRead, Cycle, Stages, CycleStages, At, Stage, GoTo, Analysis
    <2>3. Stage(p)'
      BY <1>1, <1>8 DEF PaperRead, Stage, At, Analysed, Checked, Decided, CycleStages, Cycle,
         Actionable, settings, market, job, ghosts, GoTo, Analysis
    <2>4. QED
      BY <2>1, <2>2, <2>3, OneCycleMoves
  <1>9. QED
    BY <1>2, <1>3, <1>4, <1>5, <1>6, <1>7, <1>8

\* Steps that end a cycle, or its failure, keep types and stages.
LEMMA TypeReturnSteps ==
    ASSUME TypeInv, NEW p \in Proc,
           \/ Decline(p) \/ PortfolioFails(p) \/ GateRefuses(p) \/ Locked(p)
           \/ Skip(p) \/ Unresolved(p)
    PROVE  TypeInv'
  <1>1. /\ Return(p)
        /\ cyc[p].at \in Checked \cup {"saved"}
        /\ UNCHANGED <<running, settings, logs, market, job, lq, ghosts>>
    BY DEF Decline, PortfolioFails, GateRefuses, Locked, Skip, Unresolved, At, Checked,
       CycleStages
  <1>2. QED
    BY <1>1, ReturnMoves

LEMMA TypeRaiseSteps ==
    ASSUME TypeInv, NEW p \in Proc, AnalysisFails(p) \/ CheckRaises(p) \/ RolledBack(p)
    PROVE  TypeInv'
  <1>1. Raise(p) /\ UNCHANGED <<running, settings, logs, market, job, lq, ghosts>>
    BY DEF AnalysisFails, CheckRaises, RolledBack
  <1>2. QED
    BY <1>1, RaiseMoves

\* A log that is appended is typed, and the logs before it stay.
LEMMA LogGrows ==
    ASSUME TypeOK, NEW s \in Symbols, NEW a \in Answer, NEW k \in {"primary", "precheck"},
           AppendLog(s, a, k), orders' = orders
    PROVE  /\ logs' \in Seq(Log)
           /\ Len(logs') = Len(logs) + 1
           /\ logs'[Len(logs) + 1] = [sym |-> s, dec |-> a.dec, conf |-> a.conf,
                                      weight |-> a.weight, kind |-> k]
           /\ Grows
  <1> DEFINE e == [sym |-> s, dec |-> a.dec, conf |-> a.conf, weight |-> a.weight, kind |-> k]
  <1>1. logs \in Seq(Log) /\ orders \in Seq(Order)
    BY DEF TypeOK
  <1>2. e \in Log
    BY DEF Log, Answer
  <1>3. logs' = Append(logs, e)
    BY DEF AppendLog
  <1> HIDE DEF e
  <1>4. /\ logs' \in Seq(Log)
        /\ Len(logs') = Len(logs) + 1
        /\ \A i \in 1..Len(logs) : logs'[i] = logs[i]
        /\ logs'[Len(logs) + 1] = e
    BY <1>1, <1>2, <1>3, AppendFacts
  <1>5. Len(logs) \in Nat /\ Len(orders) \in Nat
    BY <1>1
  <1>6. Grows
    BY <1>4, <1>5 DEF Grows
  <1>7. QED
    BY <1>4, <1>6 DEF e

LEMMA OrderGrows ==
    ASSUME TypeOK, NEW o \in Order, Place(o), logs' = logs
    PROVE  /\ orders' \in Seq(Order)
           /\ Len(orders') = Len(orders) + 1
           /\ orders'[Len(orders) + 1] = o
           /\ Grows
  <1>1. logs \in Seq(Log) /\ orders \in Seq(Order)
    BY DEF TypeOK
  <1>2. orders' = Append(orders, o)
    BY DEF Place
  <1>3. /\ orders' \in Seq(Order)
        /\ Len(orders') = Len(orders) + 1
        /\ \A i \in 1..Len(orders) : orders'[i] = orders[i]
        /\ orders'[Len(orders) + 1] = o
    BY <1>1, <1>2, AppendFacts
  <1>4. Len(logs) \in Nat /\ Len(orders) \in Nat
    BY <1>1
  <1>5. Grows
    BY <1>3, <1>4 DEF Grows
  <1>6. QED
    BY <1>3, <1>5

LEMMA HoldIsAnswer == Hold \in Answer /\ Answers \subseteq Answer
  BY SetsAssumption DEF Hold, Answer, Decisions

\* Saving an analysis or the confirmation of one keeps types and stages.
LEMMA TypeLogSteps ==
    ASSUME TypeInv, NEW p \in Proc,
           AnalysisSaved(p) \/ PrecheckApproves(p) \/ PrecheckHolds(p)
    PROVE  TypeInv'
  <1>1. /\ TypeOK /\ StageOK /\ Stage(p) /\ cyc[p] \in Cycle
        /\ cyc \in [Proc -> Cycle] /\ logs \in Seq(Log) /\ Len(logs) \in Nat
    BY DEF TypeInv, TypeOK, StageOK
  <1>2. /\ UNCHANGED <<running, settings, market, job, lq, ghosts>>
        /\ orders' = orders
        /\ cyc[p].sym \in Symbols
    BY <1>1 DEF AnalysisSaved, PrecheckApproves, PrecheckHolds, market, Stage, At, CycleStages
  <1>3. CASE AnalysisSaved(p)
    <2>1. PICK a \in Answer : AppendLog(cyc[p].sym, a, "primary")
      BY <1>3, HoldIsAnswer DEF AnalysisSaved
    <2>a. /\ logs' \in Seq(Log) /\ Len(logs') = Len(logs) + 1 /\ Grows
          /\ logs'[Len(logs) + 1] = [sym |-> cyc[p].sym, dec |-> a.dec, conf |-> a.conf,
                                      weight |-> a.weight, kind |-> "primary"]
      BY <1>1, <1>2, <2>1, LogGrows
    <2>2. /\ logs' \in Seq(Log) /\ Len(logs') = Len(logs) + 1 /\ Grows
          /\ logs'[Len(logs) + 1].sym = cyc[p].sym
          /\ logs'[Len(logs) + 1].kind = "primary"
      BY <2>a
    <2>3. /\ cyc' \in [Proc -> Cycle] /\ \A q \in Proc \ {p} : cyc'[q] = cyc[q]
          /\ cyc'[p].at = "saved" /\ cyc'[p].sym = cyc[p].sym /\ cyc'[p].log = Len(logs) + 1
      <3> DEFINE id == Len(logs) + 1
      <3>1. id \in Nat /\ cyc' = [cyc EXCEPT ![p].at = "saved", ![p].log = id]
        BY <1>1, <1>3 DEF AnalysisSaved
      <3> HIDE DEF id
      <3>2. /\ cyc' \in [Proc -> Cycle] /\ \A q \in Proc \ {p} : cyc'[q] = cyc[q]
            /\ cyc'[p].at = "saved" /\ cyc'[p].sym = cyc[p].sym /\ cyc'[p].log = id
        BY <1>1, <3>1 DEF Cycle, Stages, CycleStages
      <3>3. QED
        BY <3>2 DEF id
    <2>4. Stage(p)'
      BY <1>1, <1>2, <2>2, <2>3 DEF Stage, Analysed, Checked, Decided, CycleStages
    <2>5. StageOK'
      BY <1>1, <2>2, <2>3, <2>4, OtherStages
    <2>6. TypeOK'
      BY <1>1, <1>2, <2>2, <2>3 DEF TypeOK, settings, market, job, ghosts
    <2>7. QED
      BY <2>5, <2>6 DEF TypeInv
  <1>4. CASE PrecheckApproves(p)
    <2>1. PICK a \in Answer : AppendLog(cyc[p].sym, a, "precheck")
      BY <1>4, HoldIsAnswer DEF PrecheckApproves
    <2>2. logs' \in Seq(Log) /\ Len(logs') = Len(logs) + 1 /\ Grows
      BY <1>1, <1>2, <2>1, LogGrows
    <2>3. /\ cyc' \in [Proc -> Cycle] /\ \A q \in Proc \ {p} : cyc'[q] = cyc[q]
          /\ cyc'[p].at = "order" /\ cyc'[p].sym = cyc[p].sym /\ cyc'[p].log = cyc[p].log
          /\ cyc'[p].xmode = cyc[p].xmode
      <3> DEFINE id == Len(logs) + 1
      <3>1. id \in Nat /\ cyc' = [cyc EXCEPT ![p].at = "order", ![p].exec = id]
        BY <1>1, <1>4 DEF PrecheckApproves
      <3> HIDE DEF id
      <3>2. QED
        BY <1>1, <3>1 DEF Cycle, Stages, CycleStages
    <2>4. /\ cyc[p].log \in 1..Len(logs) /\ cyc[p].log \in 1..Len(logs')
          /\ logs'[cyc[p].log] = logs[cyc[p].log]
      BY <1>1, <1>4, <2>2 DEF PrecheckApproves, At, Stage, Analysed, CycleStages, Grows
    <2>5. Stage(p)'
      BY <1>1, <1>2, <1>4, <2>3, <2>4 DEF PrecheckApproves, At, Stage, Analysed, Checked,
         Decided, CycleStages, Actionable
    <2>6. StageOK'
      BY <1>1, <2>2, <2>3, <2>5, OtherStages
    <2>7. TypeOK'
      BY <1>1, <1>2, <2>2, <2>3 DEF TypeOK, settings, market, job, ghosts
    <2>8. QED
      BY <2>6, <2>7 DEF TypeInv
  <1>5. CASE PrecheckHolds(p)
    <2>1. Return(p) /\ cyc[p].at \in Checked \cup {"saved"}
      BY <1>5 DEF PrecheckHolds, At, Checked, CycleStages
    <2>2. logs' \in Seq(Log) /\ Len(logs') = Len(logs) + 1 /\ Grows
      BY <1>1, <1>2, <1>5, HoldIsAnswer, LogGrows DEF PrecheckHolds
    <2>3. /\ Stage(p)' /\ cyc' \in [Proc -> Cycle]
          /\ \A q \in Proc \ {p} : cyc'[q] = cyc[q]
      BY <1>1, <2>1, <2>2, ReturnStage, ReturnFields
    <2>4. StageOK'
      BY <1>1, <2>2, <2>3, OtherStages
    <2>5. TypeOK'
      BY <1>1, <1>2, <2>2, <2>3 DEF TypeOK, settings, market, job, ghosts
    <2>6. QED
      BY <2>4, <2>5 DEF TypeInv
  <1>6. QED
    BY <1>3, <1>4, <1>5

\* An order placed by a cycle is typed.
LEMMA AiOrderTyped ==
    ASSUME TypeInv, NEW p \in Proc, cyc[p].at \in {"order", "fill"}
    PROVE  /\ AiOrder(p) \in Order
           /\ AiOrder(p).proc = p
           /\ AiOrder(p).sym = cyc[p].sym
           /\ AiOrder(p).side = logs[cyc[p].log].dec
           /\ AiOrder(p).mode = cyc[p].xmode
           /\ AiOrder(p).kind = "ai"
           /\ AiOrder(p).primary = cyc[p].log
           /\ AiOrder(p).exec = cyc[p].exec
  <1>1. cyc[p] \in Cycle /\ Stage(p)
    BY DEF TypeInv, TypeOK, StageOK
  <1>2. /\ cyc[p].sym \in Symbols
        /\ logs[cyc[p].log].dec \in {"BUY", "SELL"}
        /\ cyc[p].xmode \in Modes
    BY <1>1 DEF Stage, CycleStages, Checked, Decided
  <1>3. QED
    BY <1>1, <1>2 DEF AiOrder, Order, Cycle, Analysis

LEMMA HeldTyped ==
    ASSUME TypeOK, NEW m \in Modes, NEW s \in Symbols, NEW side, NEW full
    PROVE  HeldAfter(m, s, side, full) \in [Modes -> SUBSET Symbols]
  BY DEF TypeOK, HeldAfter

\* Placing and recording an order keeps types and stages.
LEMMA TypeOrderSteps ==
    ASSUME TypeInv, NEW p \in Proc, NEW full \in BOOLEAN, NEW answered \in BOOLEAN,
           LiveOrder(p, full, answered) \/ PaperFill(p, full)
    PROVE  TypeInv'
  <1>1. /\ TypeOK /\ StageOK /\ Stage(p) /\ cyc[p] \in Cycle
        /\ cyc \in [Proc -> Cycle] /\ cyc[p].at \in {"order", "fill"}
        /\ orders \in Seq(Order) /\ Len(orders) \in Nat
    BY DEF TypeInv, TypeOK, StageOK, LiveOrder, PaperFill, At
  <1>2. /\ Place(AiOrder(p)) /\ logs' = logs
        /\ UNCHANGED <<running, settings, logs, job, lq, ghosts>>
    BY DEF LiveOrder, PaperFill
  <1>3. /\ orders' \in Seq(Order) /\ Len(orders') = Len(orders) + 1 /\ Grows
    BY <1>1, <1>2, AiOrderTyped, OrderGrows
  <1>4. held' \in [Modes -> SUBSET Symbols]
    <2>1. cyc[p].sym \in Symbols /\ cyc[p].xmode \in Modes
      BY <1>1 DEF Stage, CycleStages, Decided
    <2>2. CASE LiveOrder(p, full, answered)
      BY <1>1, <2>1, <2>2, HeldTyped DEF LiveOrder
    <2>3. CASE PaperFill(p, full)
      <3>1. cyc[p].xmode = "paper"
        BY <1>1, <2>3 DEF PaperFill, At, Stage
      <3>2. QED
        BY <1>1, <2>1, <2>3, <3>1, HeldTyped DEF PaperFill
    <2>4. QED
      BY <2>2, <2>3
  <1>5. history' \subseteq 1..Len(orders')
    BY <1>1, <1>3 DEF LiveOrder, PaperFill, TypeOK
  <1>6. /\ cyc' \in [Proc -> Cycle] /\ Stage(p)'
        /\ \A q \in Proc \ {p} : cyc'[q] = cyc[q]
    <2>1. CASE Return(p)
      BY <1>1, <1>3, <2>1, ReturnStage, ReturnFields DEF Checked, CycleStages
    <2>2. CASE ~Return(p)
      <3>1. /\ cyc' = [cyc EXCEPT ![p].at = "record", ![p].ord = Len(orders) + 1]
            /\ cyc[p].at = "order" /\ cyc[p].xmode = "live"
        BY <2>2 DEF LiveOrder, PaperFill, At
      <3>2. /\ cyc' \in [Proc -> Cycle] /\ \A q \in Proc \ {p} : cyc'[q] = cyc[q]
            /\ cyc'[p].at = "record" /\ cyc'[p].ord = Len(orders) + 1
            /\ cyc'[p].sym = cyc[p].sym /\ cyc'[p].log = cyc[p].log
            /\ cyc'[p].xmode = cyc[p].xmode
        <4> DEFINE i == Len(orders) + 1
        <4>1. i \in Nat /\ cyc' = [cyc EXCEPT ![p].at = "record", ![p].ord = i]
          BY <1>1, <3>1
        <4> HIDE DEF i
        <4>2. /\ cyc' \in [Proc -> Cycle] /\ \A q \in Proc \ {p} : cyc'[q] = cyc[q]
              /\ cyc'[p].at = "record" /\ cyc'[p].ord = i
              /\ cyc'[p].sym = cyc[p].sym /\ cyc'[p].log = cyc[p].log
              /\ cyc'[p].xmode = cyc[p].xmode
          BY <1>1, <4>1 DEF Cycle, Stages, CycleStages
        <4>3. QED
          BY <4>2 DEF i
      <3>3. Stage(p)'
        BY <1>1, <1>2, <1>3, <3>1, <3>2 DEF Stage, Analysed, Checked, Decided, CycleStages,
           Actionable
      <3>4. QED
        BY <3>2, <3>3
    <2>3. QED
      BY <2>1, <2>2
  <1>7. StageOK'
    BY <1>1, <1>3, <1>6, OtherStages
  <1>8. TypeOK'
    BY <1>1, <1>2, <1>3, <1>4, <1>5, <1>6 DEF TypeOK, settings, job, ghosts
  <1>9. QED
    BY <1>7, <1>8 DEF TypeInv

LEMMA TypeRecord ==
    ASSUME TypeInv, NEW p \in Proc, Record(p)
    PROVE  TypeInv'
  <1>1. /\ TypeOK /\ StageOK /\ Stage(p) /\ Return(p) /\ cyc[p].at = "record"
        /\ UNCHANGED <<running, settings, logs, held, orders, job, lq, ghosts>>
        /\ history' = history \cup {cyc[p].ord}
    BY DEF TypeInv, StageOK, Record, At
  <1>2. Grows
    BY <1>1, GrowsWhenUnchanged
  <1>3. /\ Stage(p)' /\ cyc' \in [Proc -> Cycle]
        /\ \A q \in Proc \ {p} : cyc'[q] = cyc[q]
    BY <1>1, <1>2, ReturnStage, ReturnFields DEF Checked, CycleStages
  <1>4. cyc[p].ord \in 1..Len(orders)
    BY <1>1 DEF Stage
  <1>5. TypeOK'
    BY <1>1, <1>3, <1>4 DEF TypeOK, settings, job, ghosts
  <1>6. QED
    BY <1>1, <1>2, <1>3, <1>5, OtherStages DEF TypeInv

LEMMA TypeRequest ==
    ASSUME TypeInv, NEW p \in Proc, NEW s \in Symbols, Request(p, s)
    PROVE  TypeInv'
  <1>1. /\ UNCHANGED <<running, settings, logs, market, job, lq, ghosts>>
        /\ cyc \in [Proc -> Cycle]
    BY DEF TypeInv, TypeOK, Request
  <1>2. [Idle EXCEPT !.at = "analyzing", !.sym = s] \in Cycle
    BY DEF Idle, Cycle, Stages, CycleStages
  <1>3. /\ cyc' \in [Proc -> Cycle] /\ \A q \in Proc \ {p} : cyc'[q] = cyc[q]
        /\ cyc'[p].at = "analyzing" /\ cyc'[p].sym = s
    BY <1>1, <1>2 DEF Request, Idle
  <1>4. Stage(p)'
    BY <1>3 DEF Stage, Analysed, Checked, Decided, CycleStages
  <1>5. QED
    BY <1>1, <1>3, <1>4, OneCycleMoves

LEMMA TypeReply ==
    ASSUME TypeInv, NEW p \in Proc, Reply(p)
    PROVE  TypeInv'
  <1>1. /\ UNCHANGED <<running, settings, logs, market, job, lq, ghosts>>
        /\ Stage(p) /\ cyc[p] \in Cycle /\ cyc \in [Proc -> Cycle]
    BY DEF TypeInv, TypeOK, StageOK, Reply
  <1> DEFINE b == RowOfAnalysis(p)
  <1>2. b \in BOOLEAN
    BY DEF RowOfAnalysis
  <1>3. cyc' = [cyc EXCEPT ![p].at = "replied", ![p].created = b] /\ cyc[p].at = "reply"
    BY DEF Reply, At
  <1> HIDE DEF b
  <1>4. /\ cyc' \in [Proc -> Cycle] /\ \A q \in Proc \ {p} : cyc'[q] = cyc[q]
        /\ cyc'[p].at = "replied" /\ cyc'[p].sym = cyc[p].sym /\ cyc'[p].log = cyc[p].log
    BY <1>1, <1>2, <1>3 DEF Cycle, Stages
  <1>5. Stage(p)'
    BY <1>1, <1>3, <1>4 DEF Stage, Analysed, Checked, Decided, CycleStages
  <1>6. QED
    BY <1>1, <1>4, <1>5, OneCycleMoves

-----------------------------------------------------------------------------
(* Types and stages of the job's own steps *)

\* Steps of the job that change only its record, and place no order.
LEMMA TypeRiskSteps ==
    ASSUME TypeInv,
           \/ RiskSkipped \/ RiskMode \/ RiskHoldings \/ RiskReadMode \/ RiskDone
           \/ RiskUnrecorded
           \/ \E s \in Symbols : RiskItemKept(s) \/ RiskPaperRead(s)
    PROVE  TypeInv'
  <1>1. /\ TypeOK /\ Stage(Sched) /\ cyc[Sched] \in Cycle /\ cyc \in [Proc -> Cycle]
        /\ Sched \in Proc /\ mode \in Modes /\ held \in [Modes -> SUBSET Symbols]
    BY DEF TypeInv, TypeOK, StageOK, Proc
  <1>2. UNCHANGED <<running, settings, logs, market, job, lq, ghosts>>
    BY DEF RiskSkipped, RiskMode, RiskHoldings, RiskReadMode, RiskDone, RiskUnrecorded,
       RiskItemKept, RiskPaperRead
  <1> DEFINE Others == \A q \in Proc \ {Sched} : cyc'[q] = cyc[q]
  <1>3. CASE RiskSkipped \/ RiskDone
    <2>1. [Idle EXCEPT !.at = "watch"] \in Cycle
      BY DEF Idle, Cycle, Stages
    <2>2. cyc' \in [Proc -> Cycle] /\ Others /\ cyc'[Sched].at = "watch"
      BY <1>1, <1>3, <2>1 DEF RiskSkipped, RiskDone, Idle
    <2>3. Stage(Sched)'
      BY <2>2 DEF Stage, Analysed, Checked, Decided, CycleStages
    <2>4. QED
      BY <1>1, <1>2, <2>2, <2>3, OneCycleMoves
  <1>4. CASE RiskMode
    <2>1. /\ cyc' \in [Proc -> Cycle] /\ Others
          /\ cyc'[Sched].at = "tpholdings" /\ cyc'[Sched].smode = mode
      BY <1>1, <1>4 DEF RiskMode, Cycle, Stages, RiskStages
    <2>2. Stage(Sched)'
      BY <1>1, <1>2, <2>1 DEF Stage, Analysed, Checked, Decided, CycleStages, settings
    <2>3. QED
      BY <1>1, <1>2, <2>1, <2>2, OneCycleMoves
  <1>5. CASE RiskHoldings
    <2>1. PICK priced \in BOOLEAN :
             cyc' = [cyc EXCEPT ![Sched].at = "tpmode", ![Sched].priced = priced,
                                ![Sched].snap = held[cyc[Sched].smode]]
      BY <1>5 DEF RiskHoldings, Priced
    <2>2. held[cyc[Sched].smode] \in SUBSET Symbols
      BY <1>1, <1>5 DEF RiskHoldings, At, Stage
    <2>3. cyc' \in [Proc -> Cycle] /\ Others /\ cyc'[Sched].at = "tpmode"
      BY <1>1, <2>1, <2>2 DEF Cycle, Stages, RiskStages
    <2>4. Stage(Sched)'
      BY <2>3 DEF Stage, Analysed, Checked, Decided, CycleStages
    <2>5. QED
      BY <1>1, <1>2, <2>3, <2>4, OneCycleMoves
  <1>6. CASE RiskReadMode
    <2>1. /\ cyc' \in [Proc -> Cycle] /\ Others
          /\ cyc'[Sched].at = "tpitems" /\ cyc'[Sched].xmode = mode
      BY <1>1, <1>6 DEF RiskReadMode, Cycle, Stages, RiskStages
    <2>2. Stage(Sched)'
      BY <1>1, <1>2, <2>1 DEF Stage, Analysed, Checked, Decided, CycleStages, settings
    <2>3. QED
      BY <1>1, <1>2, <2>1, <2>2, OneCycleMoves
  <1>7. CASE RiskUnrecorded
    <2>1. cyc[Sched].at \in {"tpfill", "tprecord"} /\ cyc[Sched].xmode \in Modes
      BY <1>1, <1>7 DEF RiskUnrecorded, At, Stage
    <2>2. /\ cyc' \in [Proc -> Cycle] /\ Others
          /\ cyc'[Sched].at = "tpitems" /\ cyc'[Sched].xmode = cyc[Sched].xmode
      BY <1>1, <1>7 DEF RiskUnrecorded, NextItem, Cycle, Stages, RiskStages
    <2>3. Stage(Sched)'
      BY <2>1, <2>2 DEF Stage, Analysed, Checked, Decided, CycleStages
    <2>4. QED
      BY <1>1, <1>2, <2>2, <2>3, OneCycleMoves
  <1>8. CASE \E s \in Symbols : RiskItemKept(s) \/ RiskPaperRead(s)
    <2>1. PICK s \in Symbols : RiskItemKept(s) \/ RiskPaperRead(s)
      BY <1>8
    <2>2. cyc[Sched].at = "tpitems" /\ cyc[Sched].xmode \in Modes
      BY <1>1, <2>1 DEF RiskItemKept, RiskPaperRead, At, Stage
    <2>3. CASE RiskItemKept(s)
      <3>1. /\ cyc' \in [Proc -> Cycle] /\ Others
            /\ cyc'[Sched].at = "tpitems" /\ cyc'[Sched].xmode = cyc[Sched].xmode
        BY <1>1, <2>2, <2>3 DEF RiskItemKept, Cycle, Stages, RiskStages
      <3>2. Stage(Sched)'
        BY <2>2, <3>1 DEF Stage, Analysed, Checked, Decided, CycleStages
      <3>3. QED
        BY <1>1, <1>2, <3>1, <3>2, OneCycleMoves
    <2>4. CASE RiskPaperRead(s)
      <3>1. /\ cyc' \in [Proc -> Cycle] /\ Others
            /\ cyc'[Sched].at = "tpfill" /\ cyc'[Sched].xmode = cyc[Sched].xmode
            /\ cyc'[Sched].sym = s
        BY <1>1, <2>2, <2>4 DEF RiskPaperRead, Cycle, Stages, RiskStages
      <3>2. cyc[Sched].xmode = "paper"
        BY <2>4 DEF RiskPaperRead
      <3>3. Stage(Sched)'
        BY <2>2, <3>1, <3>2 DEF Stage, Analysed, Checked, Decided, CycleStages
      <3>4. QED
        BY <1>1, <1>2, <3>1, <3>3, OneCycleMoves
    <2>5. QED
      BY <2>1, <2>3, <2>4
  <1>9. QED
    BY <1>3, <1>4, <1>5, <1>6, <1>7, <1>8

LEMMA RiskOrderTyped ==
    ASSUME TypeOK, NEW s \in Symbols, cyc[Sched].xmode \in Modes
    PROVE  /\ RiskOrder(s) \in Order
           /\ RiskOrder(s).kind = "tpsl"
  <1>1. Sched \in Proc /\ cyc[Sched] \in Cycle
    BY DEF TypeOK, Proc
  <1>2. QED
    BY <1>1 DEF RiskOrder, Order, Cycle

\* The job's sales at a threshold and their records.
LEMMA TypeRiskSales ==
    ASSUME TypeInv,
           \/ \E s \in Symbols, answered \in BOOLEAN : RiskLiveSell(s, answered)
           \/ RiskPaperFill \/ RiskRecord
    PROVE  TypeInv'
  <1>1. /\ TypeOK /\ StageOK /\ Stage(Sched) /\ cyc[Sched] \in Cycle
        /\ cyc \in [Proc -> Cycle] /\ Sched \in Proc
        /\ orders \in Seq(Order) /\ Len(orders) \in Nat
    BY DEF TypeInv, TypeOK, StageOK, Proc
  <1> DEFINE Others == \A q \in Proc \ {Sched} : cyc'[q] = cyc[q]
  <1>2. CASE \E s \in Symbols, answered \in BOOLEAN : RiskLiveSell(s, answered)
    <2>1. PICK s \in Symbols, answered \in BOOLEAN : RiskLiveSell(s, answered)
      BY <1>2
    <2>2. cyc[Sched].at = "tpitems" /\ cyc[Sched].xmode \in Modes /\ cyc[Sched].xmode = "live"
      BY <1>1, <2>1 DEF RiskLiveSell, At, Stage
    <2>3. /\ orders' \in Seq(Order) /\ Len(orders') = Len(orders) + 1 /\ Grows
          /\ UNCHANGED <<running, settings, logs, history, job, lq, ghosts>>
      BY <1>1, <2>1, <2>2, RiskOrderTyped, OrderGrows DEF RiskLiveSell
    <2>4. held' \in [Modes -> SUBSET Symbols]
      BY <1>1, <2>1, <2>2, HeldTyped DEF RiskLiveSell
    <2>5. /\ cyc' \in [Proc -> Cycle] /\ Others /\ cyc'[Sched].xmode = cyc[Sched].xmode
          /\ \/ cyc'[Sched].at = "tpitems"
             \/ /\ cyc'[Sched].at = "tprecord" /\ cyc'[Sched].ord = Len(orders) + 1
                /\ cyc'[Sched].sym = s
      <3> DEFINE i == Len(orders) + 1
      <3>a. i \in Nat
        BY <1>1
      <3>1. cyc' = IF answered
                THEN [cyc EXCEPT ![Sched].at = "tprecord", ![Sched].snap = @ \ {s},
                                 ![Sched].sym = s, ![Sched].ord = i]
                ELSE [cyc EXCEPT ![Sched].snap = @ \ {s}]
        BY <2>1 DEF RiskLiveSell
      <3> HIDE DEF i
      <3>2. CASE answered
        <4>1. /\ cyc' \in [Proc -> Cycle] /\ Others /\ cyc'[Sched].xmode = cyc[Sched].xmode
              /\ cyc'[Sched].at = "tprecord" /\ cyc'[Sched].ord = i /\ cyc'[Sched].sym = s
          BY <1>1, <3>a, <3>1, <3>2 DEF Cycle, Stages, RiskStages
        <4>2. QED
          BY <4>1 DEF i
      <3>3. CASE ~answered
        BY <1>1, <2>2, <3>1, <3>3 DEF Cycle, Stages, RiskStages
      <3>4. QED
        BY <3>2, <3>3
    <2>6. Stage(Sched)'
      BY <1>1, <2>2, <2>3, <2>5 DEF Stage, Analysed, Checked, Decided, CycleStages
    <2>7. TypeOK'
      BY <1>1, <2>3, <2>4, <2>5 DEF TypeOK, settings, job, ghosts
    <2>8. QED
      BY <1>1, <2>3, <2>5, <2>6, <2>7, OtherStages DEF TypeInv
  <1>3. CASE RiskPaperFill
    <2>1. /\ cyc[Sched].at = "tpfill" /\ cyc[Sched].xmode \in Modes
          /\ cyc[Sched].xmode = "paper" /\ cyc[Sched].sym \in Symbols
      BY <1>1, <1>3 DEF RiskPaperFill, At, Stage
    <2>2. /\ orders' \in Seq(Order) /\ Len(orders') = Len(orders) + 1 /\ Grows
          /\ UNCHANGED <<running, settings, logs, todo, jobFrom, lq, ghosts>>
      BY <1>1, <1>3, <2>1, RiskOrderTyped, OrderGrows DEF RiskPaperFill
    <2>3. held' \in [Modes -> SUBSET Symbols]
      BY <1>1, <1>3, <2>1, HeldTyped DEF RiskPaperFill
    <2>4. /\ cyc' \in [Proc -> Cycle] /\ Others
          /\ cyc'[Sched].at = "tpitems" /\ cyc'[Sched].xmode = cyc[Sched].xmode
      BY <1>1, <1>3 DEF RiskPaperFill, NextItem, Cycle, Stages, RiskStages
    <2>5. Stage(Sched)'
      BY <2>1, <2>4 DEF Stage, Analysed, Checked, Decided, CycleStages
    <2>a. history \subseteq 1..Len(orders) /\ sold \subseteq Symbols
      BY <1>1 DEF TypeOK
    <2>b. history' = history \cup {Len(orders) + 1} /\ sold' = sold \cup {cyc[Sched].sym}
      BY <1>3 DEF RiskPaperFill
    <2>6. history' \subseteq 1..Len(orders') /\ sold' \subseteq Symbols
      <3>1. \A i \in history' : i \in 1..Len(orders')
        BY <1>1, <2>2, <2>a, <2>b
      <3>2. sold' \subseteq Symbols
        BY <2>1, <2>a, <2>b
      <3>3. QED
        BY <3>1, <3>2
    <2>7. TypeOK'
      BY <1>1, <2>2, <2>3, <2>4, <2>6 DEF TypeOK, settings, ghosts
    <2>8. QED
      BY <1>1, <2>2, <2>4, <2>5, <2>7, OtherStages DEF TypeInv
  <1>4. CASE RiskRecord
    <2>1. /\ cyc[Sched].at = "tprecord" /\ cyc[Sched].xmode \in Modes
          /\ cyc[Sched].ord \in 1..Len(orders) /\ cyc[Sched].sym \in Symbols
      BY <1>1, <1>4 DEF RiskRecord, At, Stage
    <2>2. UNCHANGED <<running, settings, logs, held, orders, todo, jobFrom, lq, ghosts>>
      BY <1>4 DEF RiskRecord
    <2>3. Grows
      BY <1>1, <2>2, GrowsWhenUnchanged
    <2>4. /\ cyc' \in [Proc -> Cycle] /\ Others
          /\ cyc'[Sched].at = "tpitems" /\ cyc'[Sched].xmode = cyc[Sched].xmode
      BY <1>1, <1>4 DEF RiskRecord, NextItem, Cycle, Stages, RiskStages
    <2>5. Stage(Sched)'
      BY <2>1, <2>4 DEF Stage, Analysed, Checked, Decided, CycleStages
    <2>6. TypeOK'
      BY <1>1, <1>4, <2>1, <2>2, <2>4 DEF RiskRecord, TypeOK, settings, ghosts
    <2>7. QED
      BY <1>1, <2>3, <2>4, <2>5, <2>6, OtherStages DEF TypeInv
  <1>5. QED
    BY <1>2, <1>3, <1>4

\* The steps of the job around its cycles.
LEMMA TypeJobSteps ==
    ASSUME TypeInv,
           \/ StartJob \/ Watch \/ WatchFails \/ JobEnds
           \/ \E s \in Symbols : NextSymbol(s)
    PROVE  TypeInv'
  <1>1. /\ TypeOK /\ StageOK /\ cyc[Sched] \in Cycle /\ cyc \in [Proc -> Cycle]
        /\ Sched \in Proc /\ orders \in Seq(Order) /\ Len(orders) \in Nat
    BY DEF TypeInv, TypeOK, StageOK, Proc
  <1>2. UNCHANGED <<running, settings, logs, market, lq, ghosts>>
    BY DEF StartJob, Watch, WatchFails, JobEnds, NextSymbol
  <1>3. Grows
    BY <1>1, <1>2, GrowsWhenUnchanged DEF market
  <1>4. todo' \subseteq Symbols /\ sold' \subseteq Symbols /\ jobFrom' \in 0..Len(orders)
    <2>1. /\ todo \subseteq Symbols /\ sold \subseteq Symbols /\ jobFrom \in 0..Len(orders)
          /\ Watchlist \subseteq Symbols
      BY <1>1, SetsAssumption DEF TypeOK
    <2>2. /\ todo' = todo \/ todo' = Remaining \/ \E s \in Symbols : todo' = todo \ {s}
          /\ sold' = sold \/ sold' = {}
      BY DEF StartJob, Watch, WatchFails, JobEnds, NextSymbol
    <2>3. jobFrom' = jobFrom \/ jobFrom' = Len(orders)
      BY DEF StartJob, Watch, WatchFails, JobEnds, NextSymbol
    <2>4. QED
      BY <1>1, <2>1, <2>2, <2>3 DEF Remaining
  <1>5. /\ cyc' \in [Proc -> Cycle] /\ \A q \in Proc \ {Sched} : cyc'[q] = cyc[q]
        /\ \/ cyc'[Sched].at \in {"tpsl", "next", "idle"}
           \/ cyc'[Sched].at = "analyzing" /\ cyc'[Sched].sym \in Symbols
    <2>1. CASE StartJob \/ Watch
      <3>1. PICK stage \in {"tpsl", "next"} : cyc' = [cyc EXCEPT ![Sched].at = stage]
        BY <2>1 DEF StartJob, Watch, GoTo
      <3>2. QED
        BY <1>1, <3>1 DEF Cycle, Stages, RiskStages
    <2>2. CASE WatchFails \/ JobEnds
      <3>1. cyc' = [cyc EXCEPT ![Sched] = Idle] /\ Idle.at = "idle"
        BY <2>2 DEF WatchFails, JobEnds, Idle
      <3>2. QED
        BY <1>1, <3>1, IdleTyped
    <2>3. CASE \E s \in Symbols : NextSymbol(s)
      <3>1. PICK s \in Symbols : NextSymbol(s)
        BY <2>3
      <3>2. [Idle EXCEPT !.at = "analyzing", !.sym = s] \in Cycle
        BY DEF Idle, Cycle, Stages, CycleStages
      <3>3. QED
        BY <1>1, <3>1, <3>2 DEF NextSymbol, Idle
    <2>4. QED
      BY <2>1, <2>2, <2>3
  <1>6. Stage(Sched)'
    BY <1>5 DEF Stage, Analysed, Checked, Decided, CycleStages
  <1>7. TypeOK'
    BY <1>1, <1>2, <1>4, <1>5 DEF TypeOK, settings, market, ghosts
  <1>8. QED
    BY <1>1, <1>3, <1>5, <1>6, <1>7, OtherStages DEF TypeInv

\* Operators and restarts.
LEMMA TypeOperatorSteps ==
    ASSUME TypeInv, OperatorStep \/ Crash
    PROVE  TypeInv'
  <1>1. /\ TypeOK /\ StageOK /\ cyc \in [Proc -> Cycle]
        /\ orders \in Seq(Order) /\ Len(orders) \in Nat
    BY DEF TypeInv, TypeOK
  <1>2. InFlight \subseteq 1..Len(logs)
    BY <1>1 DEF InFlight, PastCheck, StageOK, Stage, Analysed
  <1>3. {cyc[p].log : p \in {q \in Proc : PastLock(q)}} \subseteq 1..Len(logs)
    BY <1>1 DEF PastLock, StageOK, Stage, Analysed, CycleStages
  <1>4. CASE StartBot \/ StopBot \/ LiquidationStops
    <2>1. UNCHANGED <<settings, logs, market, cyc, job, unlocked>>
      BY <1>4 DEF StartBot, StopBot, LiquidationStops
    <2>2. /\ running' \in BOOLEAN /\ late' \subseteq 1..Len(logs)
          /\ lq' \in [at : {"idle", "stopped", "selling"}, todo : SUBSET Symbols]
      BY <1>1, <1>2, <1>4 DEF StartBot, StopBot, LiquidationStops, TypeOK
    <2>3. TypeOK'
      BY <1>1, <2>1, <2>2 DEF TypeOK, settings, market, job
    <2>4. StageOK'
      BY <1>1, <2>1 DEF StageOK, Stage, market, Actionable
    <2>5. QED
      BY <2>3, <2>4 DEF TypeInv
  <1>5. CASE \/ \E m \in Modes : SetMode(m)
             \/ \E b \in BOOLEAN : SetLiveBuy(b) \/ SetShadow(b)
    <2>1. UNCHANGED <<running, logs, market, cyc, job, lq, late>>
      BY <1>5 DEF SetMode, SetLiveBuy, SetShadow, ghosts
    <2>2. /\ mode' \in Modes /\ liveBuy' \in BOOLEAN /\ shadow' \in BOOLEAN
          /\ unlocked' \subseteq 1..Len(logs)
      BY <1>1, <1>3, <1>5 DEF SetMode, SetLiveBuy, SetShadow, TypeOK, ghosts
    <2>3. TypeOK'
      BY <1>1, <2>1, <2>2 DEF TypeOK, market, job
    <2>4. StageOK'
      BY <1>1, <2>1 DEF StageOK, Stage, market, Actionable
    <2>5. QED
      BY <2>3, <2>4 DEF TypeInv
  <1>6. CASE \/ LiquidationReads \/ LiquidationEnds
             \/ \E s \in Symbols : LiquidationSaleFails(s)
    <2>1. UNCHANGED <<running, settings, logs, market, cyc, job, ghosts>>
      BY <1>6 DEF LiquidationReads, LiquidationEnds, LiquidationSaleFails
    <2>2. lq' \in [at : {"idle", "stopped", "selling"}, todo : SUBSET Symbols]
      BY <1>1, <1>6 DEF LiquidationReads, LiquidationEnds, LiquidationSaleFails, TypeOK
    <2>3. TypeOK'
      BY <1>1, <2>1, <2>2 DEF TypeOK, settings, market, job, ghosts
    <2>4. StageOK'
      BY <1>1, <2>1 DEF StageOK, Stage, market, Actionable
    <2>5. QED
      BY <2>3, <2>4 DEF TypeInv
  <1>7. CASE \E s \in Symbols : LiquidationSells(s)
    <2>1. PICK s \in Symbols : LiquidationSells(s)
      BY <1>7
    <2>2. PICK o \in Order : Place(o)
      <3>1. "live" \in Modes
        BY <2>1 DEF LiquidationSells
      <3>2. QED
        BY <2>1, <3>1 DEF LiquidationSells, Order
    <2>3. UNCHANGED <<running, settings, logs, history, cyc, job, ghosts>>
      BY <2>1 DEF LiquidationSells
    <2>4. orders' \in Seq(Order) /\ Len(orders') = Len(orders) + 1 /\ Grows
      BY <1>1, <2>2, <2>3, OrderGrows
    <2>5. held' \in [Modes -> SUBSET Symbols]
      BY <1>1, <2>1, HeldTyped DEF LiquidationSells
    <2>6. lq' \in [at : {"idle", "stopped", "selling"}, todo : SUBSET Symbols]
      BY <1>1, <2>1 DEF LiquidationSells, TypeOK
    <2>7. TypeOK'
      BY <1>1, <2>3, <2>4, <2>5, <2>6 DEF TypeOK, settings, job, ghosts
    <2>8. StageOK'
      BY <1>1, <2>3, <2>4 DEF StageOK, Stage, Grows, Actionable, Analysed, Checked, CycleStages,
         Decided
    <2>9. QED
      BY <2>7, <2>8 DEF TypeInv
  <1>8. CASE Crash
    <2>1. UNCHANGED <<running, settings, logs, market, jobFrom, ghosts>>
      BY <1>8 DEF Crash
    <2>2. cyc' \in [Proc -> Cycle] /\ \A p \in Proc : cyc'[p].at = "idle"
      BY <1>8, IdleTyped DEF Crash, Idle
    <2>3. StageOK'
      BY <2>2 DEF StageOK, Stage, Analysed, Checked, Decided, CycleStages
    <2>4. TypeOK'
      BY <1>1, <1>8, <2>1, <2>2 DEF Crash, TypeOK, settings, market, ghosts
    <2>5. QED
      BY <2>3, <2>4 DEF TypeInv
  <1>9. QED
    BY <1>4, <1>5, <1>6, <1>7, <1>8 DEF OperatorStep

-----------------------------------------------------------------------------
(* The theorem of types *)

LEMMA TypeStep ==
    ASSUME TypeInv, [Next]_vars
    PROVE  TypeInv'
  <1>1. CASE UNCHANGED vars
    BY <1>1 DEF TypeInv, TypeOK, StageOK, Stage, Actionable, vars, settings, market, job, ghosts
  <1>2. ASSUME NEW p \in Proc, CycleStep(p)
        PROVE  TypeInv'
    BY <1>2, TypeCheckSteps, TypeReturnSteps, TypeRaiseSteps, TypeLogSteps, TypeOrderSteps,
       TypeRecord DEF CycleStep
  <1>3. ASSUME NEW p \in Manual, ManualStep(p)
        PROVE  TypeInv'
    <2>1. p \in Proc
      BY DEF Proc
    <2>2. CASE CycleStep(p)
      BY <1>2, <2>1, <2>2
    <2>3. CASE \E s \in Symbols : Request(p, s)
      BY <2>1, <2>3, TypeRequest
    <2>4. CASE Reply(p)
      BY <2>1, <2>4, TypeReply
    <2>5. QED
      BY <1>3, <2>2, <2>3, <2>4 DEF ManualStep
  <1>4. CASE StartJob \/ JobStep
    <2>1. Sched \in Proc
      BY DEF Proc
    <2>2. QED
      BY <1>2, <1>4, <2>1, TypeJobSteps, TypeRiskSteps, TypeRiskSales DEF JobStep
  <1>5. CASE OperatorStep \/ Crash
    BY <1>5, TypeOperatorSteps
  <1>6. QED
    BY <1>1, <1>3, <1>4, <1>5 DEF Next

LEMMA TypeInit == Init => TypeInv
  <1> SUFFICES ASSUME Init PROVE TypeInv
    OBVIOUS
  <1>1. cyc \in [Proc -> Cycle] /\ \A p \in Proc : cyc[p].at = "idle"
    BY IdleTyped DEF Init, Idle
  <1>2. StageOK
    BY <1>1 DEF StageOK, Stage, Analysed, Checked, Decided, CycleStages
  <1>3. TypeOK
    <2>1. /\ <<>> \in Seq(Log) /\ <<>> \in Seq(Order) /\ Len(<<>>) = 0
      OBVIOUS
    <2>2. held \in [Modes -> SUBSET Symbols]
      BY DEF Init
    <2>3. /\ lq \in [at : {"idle", "stopped", "selling"}, todo : SUBSET Symbols]
          /\ jobFrom \in 0..Len(orders)
      BY <2>1 DEF Init
    <2>4. QED
      BY <1>1, <2>1, <2>2, <2>3 DEF Init, TypeOK
  <1>4. QED
    BY <1>2, <1>3 DEF TypeInv

\* Every reachable state is typed, and every local variable that a stage of the
\* executor relies on names what it should.
THEOREM TypeCorrect == Spec => []TypeInv
  <1>1. TypeInv /\ [Next]_vars => TypeInv'
    BY TypeStep
  <1>2. QED
    BY TypeInit, <1>1, PTL DEF Spec

\* Every variable keeps its type, for every number of requests and symbols.
COROLLARY TypeOKCorrect == Spec => []TypeOK
  <1>1. TypeInv => TypeOK
    BY DEF TypeInv
  <1>2. QED
    BY <1>1, TypeCorrect, PTL

-----------------------------------------------------------------------------
(* The three shapes of a step, for the invariants about analyses and orders *)

\* An actor keeps the analysis it holds or drops it; it gets past the checks only
\* from behind them, or through them while the bot runs.
Advance(q) ==
    /\ cyc'[q].log \in {0, cyc[q].log}
    /\ cyc'[q].at \in CycleStages \ {"record"} =>
          cyc'[q].log = 0 \/ cyc[q].at \in CycleStages \ {"record"}
    /\ cyc'[q].at \in Checked =>
          /\ cyc'[q].log = cyc[q].log
          /\ cyc[q].at \in Checked \/ running

\* No AI order is placed and no analysis handed out.
Quiet ==
    /\ Grows
    /\ \A i \in AiOrders' : i \in AiOrders
    /\ \A q \in Proc : Advance(q)

\* p gets the analysis it has just saved.
Saves(p) ==
    /\ Grows
    /\ orders' = orders
    /\ Len(logs') = Len(logs) + 1
    /\ cyc'[p].log = Len(logs) + 1
    /\ cyc'[p].at = "saved"
    /\ \A q \in Proc \ {p} : cyc'[q] = cyc[q]

\* p places its order, and is done with its analysis.
Orders(p) ==
    /\ Grows
    /\ logs' = logs
    /\ Len(orders') = Len(orders) + 1
    /\ orders'[Len(orders) + 1] = AiOrder(p)
    /\ cyc[p].at \in {"order", "fill"}
    /\ cyc'[p].log \in {0, cyc[p].log}
    /\ cyc'[p].at \in {"record", "reply", "next"}
    /\ cyc'[p].at = "record" => cyc'[p].log = cyc[p].log
    /\ \A q \in Proc \ {p} : cyc'[q] = cyc[q]

LEMMA SameAdvances ==
    ASSUME NEW q \in Proc, cyc'[q] = cyc[q]
    PROVE  Advance(q)
  BY DEF Advance

LEMMA QuietWhenOneMoves ==
    ASSUME Grows, orders' = orders, NEW p \in Proc, Advance(p),
           \A q \in Proc \ {p} : cyc'[q] = cyc[q]
    PROVE  Quiet
  BY SameAdvances DEF Quiet, AiOrders

LEMMA ReturnAdvances ==
    ASSUME TypeOK, NEW p \in Proc, Return(p)
    PROVE  Advance(p) /\ \A q \in Proc \ {p} : cyc'[q] = cyc[q]
  BY ReturnFields DEF Advance, CycleStages, Checked

LEMMA RaiseAdvances ==
    ASSUME TypeOK, NEW p \in Proc, Raise(p)
    PROVE  Advance(p) /\ \A q \in Proc \ {p} : cyc'[q] = cyc[q]
  BY RaiseFields DEF Advance, CycleStages, Checked

LEMMA CheckStepsQuiet ==
    ASSUME TypeInv, NEW p \in Proc,
           \/ Admit(p) \/ PortfolioMode(p) \/ PortfolioHoldings(p) \/ ReadMode(p)
           \/ Gate(p) \/ Unlock(p) \/ PaperRead(p) \/ PrecheckApproves(p)
    PROVE  Quiet
  <1>1. cyc[p] \in Cycle /\ cyc \in [Proc -> Cycle] /\ TypeOK
    BY DEF TypeInv, TypeOK
  <1>2. /\ \A q \in Proc \ {p} : cyc'[q] = cyc[q]
        /\ cyc'[p].log = cyc[p].log
        /\ cyc[p].at \in CycleStages \ {"record", "saved", "analyzing"}
           \/ (cyc[p].at = "saved" /\ running)
    <2>1. CASE Admit(p)
      BY <1>1, <2>1 DEF Admit, LoadAnalysis, Tradable, At, CycleStages, Cycle
    <2>2. CASE PortfolioMode(p)
      BY <1>1, <2>2 DEF PortfolioMode, At, CycleStages, Cycle
    <2>3. CASE PortfolioHoldings(p)
      <3>1. PICK b : cyc' = [cyc EXCEPT ![p].at = "mode", ![p].priced = b,
                                        ![p].snap = held[cyc[p].smode]]
        BY <2>3 DEF PortfolioHoldings
      <3>2. QED
        BY <1>1, <2>3, <3>1 DEF PortfolioHoldings, At, CycleStages, Cycle
    <2>4. CASE ReadMode(p)
      BY <1>1, <2>4 DEF ReadMode, At, CycleStages, Cycle
    <2>5. CASE Gate(p) \/ Unlock(p) \/ PaperRead(p)
      BY <1>1, <2>5 DEF Gate, Unlock, PaperRead, GoTo, At, CycleStages, Cycle
    <2>6. CASE PrecheckApproves(p)
      BY <1>1, <2>6 DEF PrecheckApproves, At, CycleStages, Cycle
    <2>7. QED
      BY <2>1, <2>2, <2>3, <2>4, <2>5, <2>6
  <1>3. Advance(p)
    BY <1>2 DEF Advance, Checked, CycleStages
  <1>4. Grows /\ orders' = orders
    <2>1. CASE PrecheckApproves(p)
      <3>1. PICK a \in Answer : AppendLog(cyc[p].sym, a, "precheck")
        BY <2>1, HoldIsAnswer DEF PrecheckApproves
      <3>2. cyc[p].sym \in Symbols /\ orders' = orders
        BY <2>1 DEF PrecheckApproves, TypeInv, StageOK, Stage, At, CycleStages, market
      <3>3. QED
        BY <1>1, <3>1, <3>2, LogGrows
    <2>2. CASE ~PrecheckApproves(p)
      <3>1. UNCHANGED <<logs, market>>
        BY <2>2 DEF Admit, PortfolioMode, PortfolioHoldings, ReadMode, Gate, Unlock, PaperRead
      <3>2. QED
        BY <1>1, <3>1, GrowsWhenUnchanged DEF market
    <2>3. QED
      BY <2>1, <2>2
  <1>5. QED
    BY <1>2, <1>3, <1>4, QuietWhenOneMoves

LEMMA EndStepsQuiet ==
    ASSUME TypeInv, NEW p \in Proc,
           \/ Decline(p) \/ PortfolioFails(p) \/ GateRefuses(p) \/ Locked(p)
           \/ Skip(p) \/ Unresolved(p) \/ Record(p) \/ PrecheckHolds(p)
           \/ AnalysisFails(p) \/ CheckRaises(p) \/ RolledBack(p)
    PROVE  Quiet
  <1>1. TypeOK
    BY DEF TypeInv
  <1>2. Advance(p) /\ \A q \in Proc \ {p} : cyc'[q] = cyc[q]
    <2>1. CASE AnalysisFails(p) \/ CheckRaises(p) \/ RolledBack(p)
      BY <1>1, <2>1, RaiseAdvances DEF AnalysisFails, CheckRaises, RolledBack
    <2>2. CASE ~(AnalysisFails(p) \/ CheckRaises(p) \/ RolledBack(p))
      BY <1>1, <2>2, ReturnAdvances DEF Decline, PortfolioFails, GateRefuses, Locked, Skip,
         Unresolved, Record, PrecheckHolds
    <2>3. QED
      BY <2>1, <2>2
  <1>3. Grows /\ orders' = orders
    <2>1. CASE PrecheckHolds(p)
      <3>1. AppendLog(cyc[p].sym, Hold, "precheck") /\ orders' = orders
        BY <2>1 DEF PrecheckHolds, market
      <3>2. cyc[p].sym \in Symbols
        BY <2>1 DEF PrecheckHolds, TypeInv, StageOK, Stage, At, CycleStages
      <3>3. QED
        BY <1>1, <3>1, <3>2, LogGrows, HoldIsAnswer
    <2>2. CASE ~PrecheckHolds(p)
      <3>1. UNCHANGED <<logs, orders>>
        BY <2>2 DEF Decline, PortfolioFails, GateRefuses, Locked, Skip, Unresolved, Record,
           AnalysisFails, CheckRaises, RolledBack, market
      <3>2. QED
        BY <1>1, <3>1, GrowsWhenUnchanged
    <2>3. QED
      BY <2>1, <2>2
  <1>4. QED
    BY <1>2, <1>3, QuietWhenOneMoves

LEMMA ManualStepsQuiet ==
    ASSUME TypeInv, NEW p \in Proc, Reply(p) \/ \E s \in Symbols : Request(p, s)
    PROVE  Quiet
  <1>1. cyc[p] \in Cycle /\ cyc \in [Proc -> Cycle] /\ TypeOK
    BY DEF TypeInv, TypeOK
  <1>2. Advance(p) /\ \A q \in Proc \ {p} : cyc'[q] = cyc[q]
    <2>1. CASE Reply(p)
      BY <1>1, <2>1 DEF Reply, Advance, Cycle, CycleStages, Checked
    <2>2. CASE \E s \in Symbols : Request(p, s)
      BY <1>1, <2>2 DEF Request, Idle, Advance, CycleStages, Checked
    <2>3. QED
      BY <2>1, <2>2
  <1>3. Grows /\ orders' = orders
    BY <1>1, GrowsWhenUnchanged DEF Reply, Request, market
  <1>4. QED
    BY <1>2, <1>3, QuietWhenOneMoves

LEMMA SaveShape ==
    ASSUME TypeInv, NEW p \in Proc, AnalysisSaved(p)
    PROVE  Saves(p)
  <1>1. cyc[p] \in Cycle /\ cyc \in [Proc -> Cycle] /\ TypeOK /\ Len(logs) \in Nat
    BY DEF TypeInv, TypeOK
  <1>2. PICK a \in Answer : AppendLog(cyc[p].sym, a, "primary")
    BY HoldIsAnswer DEF AnalysisSaved
  <1>3. cyc[p].sym \in Symbols /\ orders' = orders
    BY DEF AnalysisSaved, TypeInv, StageOK, Stage, At, CycleStages, market
  <1>4. Grows /\ Len(logs') = Len(logs) + 1
    BY <1>1, <1>2, <1>3, LogGrows
  <1>5. /\ cyc'[p].log = Len(logs) + 1 /\ cyc'[p].at = "saved"
        /\ \A q \in Proc \ {p} : cyc'[q] = cyc[q]
    <2> DEFINE id == Len(logs) + 1
    <2>1. id \in Nat /\ cyc' = [cyc EXCEPT ![p].at = "saved", ![p].log = id]
      BY <1>1 DEF AnalysisSaved
    <2> HIDE DEF id
    <2>2. /\ cyc'[p].log = id /\ cyc'[p].at = "saved"
          /\ \A q \in Proc \ {p} : cyc'[q] = cyc[q]
      BY <1>1, <2>1 DEF Cycle
    <2>3. QED
      BY <2>2 DEF id
  <1>6. QED
    BY <1>3, <1>4, <1>5 DEF Saves

LEMMA OrderShape ==
    ASSUME TypeInv, NEW p \in Proc, NEW full \in BOOLEAN, NEW answered \in BOOLEAN,
           LiveOrder(p, full, answered) \/ PaperFill(p, full)
    PROVE  Orders(p)
  <1>1. /\ cyc[p] \in Cycle /\ cyc \in [Proc -> Cycle] /\ TypeOK /\ Len(orders) \in Nat
        /\ cyc[p].at \in {"order", "fill"} /\ Place(AiOrder(p)) /\ logs' = logs
    BY DEF TypeInv, TypeOK, LiveOrder, PaperFill, At
  <1>2. /\ Len(orders') = Len(orders) + 1 /\ orders'[Len(orders) + 1] = AiOrder(p) /\ Grows
    BY <1>1, AiOrderTyped, OrderGrows
  <1>3. /\ cyc'[p].log \in {0, cyc[p].log} /\ cyc'[p].at \in {"record", "reply", "next"}
        /\ cyc'[p].at = "record" => cyc'[p].log = cyc[p].log
        /\ \A q \in Proc \ {p} : cyc'[q] = cyc[q]
    <2>1. CASE Return(p)
      BY <1>1, <2>1, ReturnFields
    <2>2. CASE ~Return(p)
      <3> DEFINE i == Len(orders) + 1
      <3>1. cyc' = [cyc EXCEPT ![p].at = "record", ![p].ord = i]
        BY <2>2 DEF LiveOrder, PaperFill
      <3> HIDE DEF i
      <3>2. QED
        BY <1>1, <3>1 DEF Cycle
    <2>3. QED
      BY <2>1, <2>2
  <1>4. QED
    BY <1>1, <1>2, <1>3 DEF Orders

\* The job's own steps leave the other actors, and take its own to no stage of a
\* cycle but the first.
LEMMA JobStepsMove ==
    ASSUME TypeInv,
           \/ StartJob \/ Watch \/ WatchFails \/ JobEnds
           \/ RiskSkipped \/ RiskMode \/ RiskHoldings \/ RiskReadMode \/ RiskDone
           \/ RiskUnrecorded \/ RiskPaperFill \/ RiskRecord
           \/ \E s \in Symbols : NextSymbol(s) \/ RiskItemKept(s) \/ RiskPaperRead(s)
           \/ \E s \in Symbols, answered \in BOOLEAN : RiskLiveSell(s, answered)
    PROVE  /\ \A q \in Proc \ {Sched} : cyc'[q] = cyc[q]
           /\ cyc'[Sched].log \in {0, cyc[Sched].log}
           /\ \/ cyc'[Sched].at \notin CycleStages
              \/ cyc'[Sched].at = "analyzing" /\ cyc'[Sched].log = 0
  <1>1. /\ cyc[Sched] \in Cycle /\ cyc \in [Proc -> Cycle] /\ TypeOK /\ Sched \in Proc
        /\ orders \in Seq(Order) /\ Len(orders) \in Nat /\ Stage(Sched)
    BY DEF TypeInv, TypeOK, Proc, StageOK
  <1>2. CASE StartJob \/ Watch
    BY <1>1, <1>2 DEF StartJob, Watch, GoTo, Cycle, CycleStages
  <1>3. CASE WatchFails \/ JobEnds \/ RiskSkipped \/ RiskDone
    BY <1>1, <1>3 DEF WatchFails, JobEnds, RiskSkipped, RiskDone, Idle, CycleStages
  <1>4. CASE RiskMode \/ RiskReadMode
    BY <1>1, <1>4 DEF RiskMode, RiskReadMode, Cycle, CycleStages
  <1>5. CASE RiskHoldings
    <2>1. PICK b : cyc' = [cyc EXCEPT ![Sched].at = "tpmode", ![Sched].priced = b,
                                      ![Sched].snap = held[cyc[Sched].smode]]
      BY <1>5 DEF RiskHoldings
    <2>2. QED
      BY <1>1, <2>1 DEF Cycle, CycleStages
  <1>6. CASE RiskUnrecorded \/ RiskPaperFill \/ RiskRecord
    <2>1. cyc' = NextItem
      BY <1>6 DEF RiskUnrecorded, RiskPaperFill, RiskRecord
    <2>2. QED
      BY <1>1, <2>1 DEF NextItem, Cycle, CycleStages
  <1>7. CASE \E s \in Symbols : NextSymbol(s)
    BY <1>1, <1>7 DEF NextSymbol, Idle, CycleStages
  <1>8. CASE \E s \in Symbols : RiskItemKept(s) \/ RiskPaperRead(s)
    <2>1. PICK s \in Symbols : RiskItemKept(s) \/ RiskPaperRead(s)
      BY <1>8
    <2>2. CASE RiskItemKept(s)
      BY <1>1, <2>2 DEF RiskItemKept, At, Cycle, CycleStages
    <2>3. CASE RiskPaperRead(s)
      BY <1>1, <2>3 DEF RiskPaperRead, At, Cycle, CycleStages
    <2>4. QED
      BY <2>1, <2>2, <2>3
  <1>9. CASE \E s \in Symbols, answered \in BOOLEAN : RiskLiveSell(s, answered)
    <2>1. PICK s \in Symbols, answered \in BOOLEAN : RiskLiveSell(s, answered)
      BY <1>9
    <2> DEFINE i == Len(orders) + 1
    <2>2. cyc' = IF answered
              THEN [cyc EXCEPT ![Sched].at = "tprecord", ![Sched].snap = @ \ {s},
                               ![Sched].sym = s, ![Sched].ord = i]
              ELSE [cyc EXCEPT ![Sched].snap = @ \ {s}]
      BY <2>1 DEF RiskLiveSell
    <2> HIDE DEF i
    <2>3. cyc[Sched].at = "tpitems"
      BY <2>1 DEF RiskLiveSell, At
    <2>4. QED
      BY <1>1, <2>2, <2>3 DEF Cycle, CycleStages
  <1>10. QED
    BY <1>2, <1>3, <1>4, <1>5, <1>6, <1>7, <1>8, <1>9

\* Everything the job does around its cycles is quiet: its orders are not AI orders.
LEMMA JobStepsQuiet ==
    ASSUME TypeInv,
           \/ StartJob \/ Watch \/ WatchFails \/ JobEnds
           \/ RiskSkipped \/ RiskMode \/ RiskHoldings \/ RiskReadMode \/ RiskDone
           \/ RiskUnrecorded \/ RiskPaperFill \/ RiskRecord
           \/ \E s \in Symbols : NextSymbol(s) \/ RiskItemKept(s) \/ RiskPaperRead(s)
           \/ \E s \in Symbols, answered \in BOOLEAN : RiskLiveSell(s, answered)
    PROVE  Quiet
  <1>1. /\ cyc[Sched] \in Cycle /\ cyc \in [Proc -> Cycle] /\ TypeOK /\ Sched \in Proc
        /\ orders \in Seq(Order) /\ Len(orders) \in Nat /\ Stage(Sched)
    BY DEF TypeInv, TypeOK, Proc, StageOK
  <1>2. /\ \A q \in Proc \ {Sched} : cyc'[q] = cyc[q]
        /\ cyc'[Sched].log \in {0, cyc[Sched].log}
        /\ \/ cyc'[Sched].at \notin CycleStages
           \/ cyc'[Sched].at = "analyzing" /\ cyc'[Sched].log = 0
    BY JobStepsMove
  <1>3. Advance(Sched)
    BY <1>2 DEF Advance, Checked, CycleStages
  <1>4. \A q \in Proc : Advance(q)
    BY <1>2, <1>3, SameAdvances
  <1>5. Grows /\ \A i \in AiOrders' : i \in AiOrders
    <2>1. CASE \E s \in Symbols, answered \in BOOLEAN : RiskLiveSell(s, answered)
      <3>1. PICK s \in Symbols, answered \in BOOLEAN : RiskLiveSell(s, answered)
        BY <2>1
      <3>2. /\ RiskOrder(s) \in Order /\ RiskOrder(s).kind = "tpsl"
            /\ Place(RiskOrder(s)) /\ logs' = logs
        BY <1>1, <3>1, RiskOrderTyped DEF RiskLiveSell, Stage, At
      <3>3. QED
        BY <1>1, <3>2, OrderGrows DEF AiOrders, Grows
    <2>2. CASE RiskPaperFill
      <3>1. cyc[Sched].sym \in Symbols /\ cyc[Sched].xmode \in Modes
        BY <1>1, <2>2 DEF RiskPaperFill, Stage, At
      <3>2. /\ RiskOrder(cyc[Sched].sym) \in Order /\ RiskOrder(cyc[Sched].sym).kind = "tpsl"
            /\ Place(RiskOrder(cyc[Sched].sym)) /\ logs' = logs
        BY <1>1, <2>2, <3>1, RiskOrderTyped DEF RiskPaperFill
      <3>3. QED
        BY <1>1, <3>2, OrderGrows DEF AiOrders, Grows
    <2>3. CASE UNCHANGED <<logs, orders>>
      BY <1>1, <2>3, GrowsWhenUnchanged DEF AiOrders
    <2>4. QED
      BY <2>1, <2>2, <2>3 DEF StartJob, Watch, WatchFails, JobEnds, RiskSkipped, RiskMode,
         RiskHoldings, RiskReadMode, RiskDone, RiskUnrecorded, RiskRecord, NextSymbol,
         RiskItemKept, RiskPaperRead, market
  <1>6. QED
    BY <1>4, <1>5 DEF Quiet

LEMMA OperatorStepsQuiet ==
    ASSUME TypeInv, OperatorStep \/ Crash
    PROVE  Quiet
  <1>1. TypeOK /\ orders \in Seq(Order) /\ Len(orders) \in Nat
    BY DEF TypeInv, TypeOK
  <1>2. \A q \in Proc : Advance(q)
    <2>1. CASE Crash
      BY <2>1 DEF Crash, Idle, Advance, CycleStages, Checked
    <2>2. CASE OperatorStep
      <3>1. cyc' = cyc
        BY <2>2 DEF OperatorStep, StartBot, StopBot, SetMode, SetLiveBuy, SetShadow,
           LiquidationStops, LiquidationReads, LiquidationEnds, LiquidationSells,
           LiquidationSaleFails
      <3>2. QED
        BY <3>1, SameAdvances
    <2>3. QED
      BY <2>1, <2>2
  <1>3. Grows /\ \A i \in AiOrders' : i \in AiOrders
    <2>1. CASE \E s \in Symbols : LiquidationSells(s)
      <3>1. PICK s \in Symbols : LiquidationSells(s)
        BY <2>1
      <3>2. PICK o \in Order : o.kind = "liquidation" /\ Place(o)
        BY <3>1 DEF LiquidationSells, Order
      <3>3. logs' = logs
        BY <3>1 DEF LiquidationSells
      <3>4. QED
        BY <1>1, <3>2, <3>3, OrderGrows DEF AiOrders, Grows
    <2>2. CASE ~\E s \in Symbols : LiquidationSells(s)
      <3>1. UNCHANGED <<logs, orders>>
        BY <2>2 DEF OperatorStep, StartBot, StopBot, SetMode, SetLiveBuy, SetShadow,
           LiquidationStops, LiquidationReads, LiquidationEnds, LiquidationSaleFails, Crash,
           market
      <3>2. QED
        BY <1>1, <3>1, GrowsWhenUnchanged DEF AiOrders
    <2>3. QED
      BY <2>1, <2>2
  <1>4. QED
    BY <1>2, <1>3 DEF Quiet

\* Every step is quiet, hands out a new analysis, or places one AI order.
LEMMA StepShapes ==
    ASSUME TypeInv, [Next]_vars
    PROVE  Quiet \/ \E p \in Proc : Saves(p) \/ Orders(p)
  <1>1. CASE UNCHANGED vars
    <2>1. Grows /\ orders' = orders /\ cyc' = cyc
      BY <1>1, GrowsWhenUnchanged DEF TypeInv, vars, market
    <2>2. QED
      BY <2>1, SameAdvances DEF Quiet, AiOrders
  <1>2. ASSUME NEW p \in Proc, CycleStep(p)
        PROVE  Quiet \/ Saves(p) \/ Orders(p)
    BY <1>2, CheckStepsQuiet, EndStepsQuiet, SaveShape, OrderShape DEF CycleStep
  <1>3. ASSUME NEW p \in Manual, ManualStep(p)
        PROVE  Quiet \/ Saves(p) \/ Orders(p)
    BY <1>2, <1>3, ManualStepsQuiet DEF ManualStep, Proc
  <1>4. CASE StartJob \/ JobStep
    <2>1. Sched \in Proc
      BY DEF Proc
    <2>2. QED
      BY <1>2, <1>4, <2>1, JobStepsQuiet DEF JobStep
  <1>5. CASE OperatorStep \/ Crash
    BY <1>5, OperatorStepsQuiet
  <1>6. Manual \subseteq Proc
    BY DEF Proc
  <1>7. QED
    BY <1>1, <1>3, <1>4, <1>5, <1>6 DEF Next

-----------------------------------------------------------------------------
(* Analyses and the orders they are spent on *)

LEMMA SpendQuiet ==
    ASSUME SpendInv, Quiet
    PROVE  SpendInv'
  <1>1. Grows /\ \A q \in Proc : Advance(q)
    BY DEF Quiet
  <1>2. \A i \in AiOrders' : i \in AiOrders /\ orders'[i] = orders[i]
    BY <1>1 DEF Quiet, AiOrders, Grows
  <1>3. \A i \in AiOrders : /\ orders[i].primary \in 1..Len(logs)
                            /\ logs'[orders[i].primary] = logs[orders[i].primary]
    BY <1>1 DEF SpendInv, ExactAnalysis, Grows
  <1>4. ExactAnalysis'
    BY <1>1, <1>2, <1>3 DEF SpendInv, ExactAnalysis, Grows, Actionable
  <1>5. AnalysisSpentOnce'
    BY <1>2 DEF SpendInv, AnalysisSpentOnce
  <1>6. LogKnown' /\ Unshared'
    <2>1. \A q \in Proc : cyc'[q].log \in {0, cyc[q].log}
      BY <1>1 DEF Advance
    <2>2. Unshared'
      BY <2>1 DEF SpendInv, Unshared
    <2>3. LogKnown'
      BY <1>1, <2>1 DEF SpendInv, LogKnown, Grows
    <2>4. QED
      BY <2>2, <2>3
  <1>7. Unspent'
    <2> SUFFICES ASSUME NEW q \in Proc, NEW i \in AiOrders',
                        cyc'[q].at \in CycleStages \ {"record"}
                 PROVE  orders'[i].primary # cyc'[q].log
      BY DEF Unspent
    <2>1. orders'[i].primary = orders[i].primary /\ orders[i].primary # 0
      BY <1>2, <1>3
    <2>2. CASE cyc'[q].log = 0
      BY <2>1, <2>2
    <2>3. CASE cyc'[q].log # 0
      BY <1>1, <1>2, <2>1, <2>3 DEF Advance, SpendInv, Unspent
    <2>4. QED
      BY <2>2, <2>3
  <1>8. QED
    BY <1>4, <1>5, <1>6, <1>7 DEF SpendInv

LEMMA SpendSaves ==
    ASSUME SpendInv, NEW p \in Proc, Saves(p)
    PROVE  SpendInv'
  <1>1. Grows /\ orders' = orders /\ AiOrders' = AiOrders
    BY DEF Saves, AiOrders
  <1>2. \A i \in AiOrders : /\ orders[i].primary \in 1..Len(logs)
                            /\ logs'[orders[i].primary] = logs[orders[i].primary]
    BY <1>1 DEF SpendInv, ExactAnalysis, Grows
  <1>3. ExactAnalysis'
    BY <1>1, <1>2 DEF SpendInv, ExactAnalysis, Grows, Actionable
  <1>4. AnalysisSpentOnce'
    BY <1>1 DEF SpendInv, AnalysisSpentOnce
  <1>5. \A q \in Proc \ {p} : cyc'[q] = cyc[q] /\ cyc[q].log \in 0..Len(logs)
    BY DEF Saves, SpendInv, LogKnown
  <1>6. cyc'[p].log = Len(logs) + 1 /\ Len(logs) \in Nat
    BY <1>1 DEF Saves, Grows
  <1>7. LogKnown'
    <2>1. Len(logs') = Len(logs) + 1
      BY DEF Saves
    <2>2. QED
      BY <1>5, <1>6, <2>1 DEF LogKnown
  <1>8. Unshared'
    BY <1>5, <1>6 DEF SpendInv, Unshared
  <1>9. Unspent'
    BY <1>1, <1>2, <1>5, <1>6 DEF SpendInv, Unspent
  <1>10. QED
    BY <1>3, <1>4, <1>7, <1>8, <1>9 DEF SpendInv

LEMMA SpendOrders ==
    ASSUME TypeInv, SpendInv, NEW p \in Proc, Orders(p)
    PROVE  SpendInv'
  <1> DEFINE n == Len(orders) + 1
             o == orders'[n]
  <1>1. Grows /\ logs' = logs /\ Len(orders) \in Nat /\ Len(orders') = n
    BY DEF Orders, Grows
  <1>2. /\ o.primary = cyc[p].log /\ o.sym = cyc[p].sym /\ o.side = logs[cyc[p].log].dec
    BY DEF Orders, AiOrder, Analysis
  <1>3. /\ cyc[p].log \in 1..Len(logs)
        /\ logs[cyc[p].log].sym = cyc[p].sym
        /\ logs[cyc[p].log].kind = "primary"
        /\ Actionable(logs[cyc[p].log])
    BY DEF Orders, TypeInv, StageOK, Stage, Analysed, Checked, CycleStages
  <1>4. \A i \in AiOrders' : i = n \/ (i \in AiOrders /\ orders'[i] = orders[i])
    BY <1>1 DEF AiOrders, Grows
  <1>5. \A i \in AiOrders : i # n /\ orders[i].primary # cyc[p].log
    BY <1>1 DEF Orders, AiOrders, SpendInv, Unspent, CycleStages
  <1>6. \A q \in Proc \ {p} : cyc'[q] = cyc[q] /\ cyc[q].log # cyc[p].log
    BY <1>3 DEF Orders, SpendInv, Unshared
  <1>7. cyc'[p].log \in {0, cyc[p].log} /\ cyc'[p].at \notin CycleStages \ {"record"}
    BY DEF Orders, CycleStages
  <1> HIDE DEF n, o
  <1>8. ExactAnalysis'
    <2> SUFFICES ASSUME NEW i \in AiOrders'
                 PROVE  /\ orders'[i].primary \in 1..Len(logs)
                        /\ logs[orders'[i].primary].kind = "primary"
                        /\ logs[orders'[i].primary].sym = orders'[i].sym
                        /\ logs[orders'[i].primary].dec = orders'[i].side
                        /\ Actionable(logs[orders'[i].primary])
      BY <1>1 DEF ExactAnalysis, Actionable
    <2>1. CASE i = n
      BY <1>2, <1>3, <2>1 DEF o
    <2>2. CASE i # n
      BY <1>4, <2>2 DEF SpendInv, ExactAnalysis
    <2>3. QED
      BY <2>1, <2>2
  <1>9. AnalysisSpentOnce'
    BY <1>2, <1>4, <1>5 DEF SpendInv, AnalysisSpentOnce, o
  <1>10. LogKnown' /\ Unshared'
    BY <1>1, <1>3, <1>6, <1>7 DEF SpendInv, LogKnown, Unshared
  <1>11. Unspent'
    BY <1>2, <1>4, <1>6, <1>7 DEF SpendInv, Unspent, o
  <1>12. QED
    BY <1>8, <1>9, <1>10, <1>11 DEF SpendInv

LEMMA SpendInit == Init => SpendInv
  <1> SUFFICES ASSUME Init PROVE SpendInv
    OBVIOUS
  <1>1. AiOrders = {} /\ \A p \in Proc : cyc[p].log = 0 /\ Len(logs) = 0
    BY DEF Init, AiOrders, Idle
  <1>2. QED
    BY <1>1 DEF SpendInv, ExactAnalysis, AnalysisSpentOnce, LogKnown, Unshared, Unspent

LEMMA SpendStep ==
    ASSUME TypeInv, SpendInv, [Next]_vars
    PROVE  SpendInv'
  BY StepShapes, SpendQuiet, SpendSaves, SpendOrders

\* In every reachable state each AI order carries out the one saved analysis it
\* was given, and no analysis has been spent on two orders.
THEOREM Spending == Spec => []SpendInv
  <1>1. TypeInv /\ SpendInv /\ [Next]_vars => SpendInv'
    BY SpendStep
  <1>2. QED
    BY SpendInit, <1>1, TypeCorrect, PTL DEF Spec

\* execute_ai_trade trades on the analysis whose id it is given, of the order's own
\* symbol and side, and confident enough.
COROLLARY ExactAnalysisCorrect == Spec => []ExactAnalysis
  <1>1. SpendInv => ExactAnalysis
    BY DEF SpendInv
  <1>2. QED
    BY <1>1, Spending, PTL

\* No two AI orders, of whichever cycles, come of one analysis.
COROLLARY AnalysisSpentOnceCorrect == Spec => []AnalysisSpentOnce
  <1>1. SpendInv => AnalysisSpentOnce
    BY DEF SpendInv
  <1>2. QED
    BY <1>1, Spending, PTL

-----------------------------------------------------------------------------
(* The stop *)

\* A step leaves the status alone, starts the bot, or stops it and notes who is
\* past the check.
LEMMA StatusSteps ==
    ASSUME [Next]_vars
    PROVE  \/ running' = running /\ late' = late
           \/ running' = TRUE
           \/ /\ running' = FALSE
              /\ late' = IF running THEN InFlight ELSE late
              /\ cyc' = cyc /\ logs' = logs
  <1>1. CASE UNCHANGED vars
    BY <1>1 DEF vars, ghosts
  <1>2. ASSUME NEW p \in Proc, CycleStep(p)
        PROVE  running' = running /\ late' = late
    BY <1>2 DEF CycleStep, AnalysisSaved, AnalysisFails, Admit, Decline, PortfolioMode,
       PortfolioHoldings, PortfolioFails, ReadMode, Gate, GateRefuses, Unlock, Locked,
       PrecheckApproves, PrecheckHolds, CheckRaises, LiveOrder, PaperRead, Skip, PaperFill,
       Record, Unresolved, RolledBack, ghosts
  <1>3. ASSUME NEW p \in Manual, ManualStep(p)
        PROVE  running' = running /\ late' = late
    BY <1>2, <1>3 DEF ManualStep, Request, Reply, ghosts, Proc
  <1>4. CASE StartJob \/ JobStep
    BY <1>2, <1>4 DEF JobStep, StartJob, Watch, WatchFails, JobEnds, RiskSkipped, RiskMode,
       RiskHoldings, RiskReadMode, RiskDone, RiskUnrecorded, RiskPaperFill, RiskRecord,
       NextSymbol, RiskItemKept, RiskPaperRead, RiskLiveSell, ghosts, Proc
  <1>5. CASE OperatorStep \/ Crash
    BY <1>5 DEF OperatorStep, StartBot, StopBot, SetMode, SetLiveBuy, SetShadow,
       LiquidationStops, LiquidationReads, LiquidationEnds, LiquidationSells,
       LiquidationSaleFails, Crash, ghosts
  <1>6. QED
    BY <1>1, <1>3, <1>4, <1>5 DEF Next

\* While the bot is stopped nobody gets past the check.
LEMMA InFlightShrinks ==
    ASSUME TypeInv, [Next]_vars, ~running
    PROVE  InFlight' \subseteq InFlight
  <1> SUFFICES ASSUME NEW q \in Proc, PastCheck(q)'
               PROVE  PastCheck(q) /\ cyc'[q].log = cyc[q].log
    BY DEF InFlight
  <1>1. cyc'[q].at \in Checked
    BY DEF PastCheck, Checked
  <1>2. CASE Quiet
    BY <1>1, <1>2 DEF Quiet, Advance, PastCheck, Checked
  <1>3. ASSUME NEW p \in Proc, Saves(p)
        PROVE  PastCheck(q) /\ cyc'[q].log = cyc[q].log
    BY <1>1, <1>3 DEF Saves, PastCheck, Checked, CycleStages
  <1>4. ASSUME NEW p \in Proc, Orders(p)
        PROVE  PastCheck(q) /\ cyc'[q].log = cyc[q].log
    BY <1>1, <1>4 DEF Orders, PastCheck, Checked, CycleStages
  <1>5. QED
    BY <1>2, <1>3, <1>4, StepShapes

LEMMA StopStep ==
    ASSUME TypeInv, StopNoted, [Next]_vars
    PROVE  StopNoted'
  <1> SUFFICES ASSUME ~running' PROVE InFlight' \subseteq late'
    BY DEF StopNoted
  <1>1. CASE running' = running /\ late' = late
    BY <1>1, InFlightShrinks DEF StopNoted
  <1>2. CASE /\ running' = FALSE
             /\ late' = IF running THEN InFlight ELSE late
             /\ cyc' = cyc /\ logs' = logs
    <2>1. InFlight' = InFlight
      BY <1>2 DEF InFlight, PastCheck
    <2>2. QED
      BY <1>2, <2>1 DEF StopNoted
  <1>3. QED
    BY <1>1, <1>2, StatusSteps

\* An order placed while the bot is stopped is of a cycle that the stop noted.
LEMMA OrderWhenStopped ==
    ASSUME TypeInv, StopNoted, [Next]_vars, ~running,
           NEW i \in NewOrders, orders'[i].kind = "ai"
    PROVE  orders'[i].primary \in late
  <1>1. CASE Quiet
    <2>1. i \in AiOrders' /\ i \notin AiOrders
      BY <1>1 DEF AiOrders, NewOrders, Quiet, Grows
    <2>2. QED
      BY <1>1, <2>1 DEF Quiet
  <1>2. ASSUME NEW p \in Proc, Saves(p)
        PROVE  FALSE
    BY <1>2 DEF Saves, NewOrders, Grows
  <1>3. ASSUME NEW p \in Proc, Orders(p)
        PROVE  orders'[i].primary \in late
    <2>1. i = Len(orders) + 1
      BY <1>3 DEF Orders, NewOrders, Grows
    <2>2. orders'[i].primary = cyc[p].log
      BY <1>3, <2>1 DEF Orders, AiOrder
    <2>3. cyc[p].log \in InFlight
      BY <1>3 DEF Orders, InFlight, PastCheck, CycleStages
    <2>4. QED
      BY <2>2, <2>3 DEF StopNoted
  <1>4. QED
    BY <1>1, <1>2, <1>3, StepShapes

\* After a stop the only AI orders are of the cycles that had passed the running
\* check of execute_ai_trade before it.
THEOREM StopBoundsOrdersCorrect == Spec => StopBoundsOrders
  <1>1. Init => StopNoted
    BY DEF Init, StopNoted
  <1>2. TypeInv /\ StopNoted /\ [Next]_vars => StopNoted'
    BY StopStep
  <1>3. TypeInv /\ StopNoted /\ [Next]_vars =>
          [\A i \in NewOrders :
             (orders'[i].kind = "ai" /\ ~running) => orders'[i].primary \in late]_vars
    BY OrderWhenStopped
  <1>4. QED
    BY <1>1, <1>2, <1>3, TypeCorrect, PTL DEF Spec, StopBoundsOrders
-----------------------------------------------------------------------------
(* The lock on live BUYs *)

StillPastLock(q) == PastLock(q) /\ cyc'[q].log = cyc[q].log

\* An actor that does not move is past the lock if it was.
LEMMA LockWhenStill ==
    ASSUME TypeInv, Grows, NEW q \in Proc, cyc'[q] = cyc[q], PastLock(q)'
    PROVE  StillPastLock(q)
  <1>1. cyc[q].at \in {"precheck", "order", "record"}
    BY DEF PastLock
  <1>2. cyc[q].log \in 1..Len(logs)
    BY <1>1 DEF TypeInv, StageOK, Stage, Analysed, CycleStages
  <1>3. logs'[cyc[q].log] = logs[cyc[q].log]
    BY <1>2 DEF Grows
  <1>4. QED
    BY <1>3 DEF StillPastLock, PastLock, Analysis

\* The steps that take a cycle to its order: none takes a live BUY past the lock
\* while it is on.
LEMMA LockCheckSteps ==
    ASSUME TypeInv, Grows, ~liveBuy, NEW p \in Proc, PastLock(p)',
           \/ Admit(p) \/ PortfolioMode(p) \/ PortfolioHoldings(p) \/ ReadMode(p)
           \/ Gate(p) \/ Unlock(p) \/ PaperRead(p) \/ PrecheckApproves(p)
    PROVE  StillPastLock(p)
  <1>1. cyc[p] \in Cycle /\ cyc \in [Proc -> Cycle] /\ Stage(p)
    BY DEF TypeInv, TypeOK, StageOK
  <1>2. cyc'[p].at \in {"precheck", "order", "record"} /\ cyc'[p].xmode = "live"
        /\ logs'[cyc'[p].log].dec = "BUY"
    BY DEF PastLock, Analysis
  <1>3. CASE Admit(p)
    BY <1>1, <1>2, <1>3 DEF Admit, Cycle
  <1>4. CASE PortfolioMode(p)
    BY <1>1, <1>2, <1>4 DEF PortfolioMode, Cycle
  <1>5. CASE PortfolioHoldings(p)
    <2>1. PICK b : cyc' = [cyc EXCEPT ![p].at = "mode", ![p].priced = b,
                                      ![p].snap = held[cyc[p].smode]]
      BY <1>5 DEF PortfolioHoldings
    <2>2. cyc'[p].at = "mode"
      BY <1>1, <2>1 DEF Cycle
    <2>3. QED
      BY <1>2, <2>2
  <1>6. CASE ReadMode(p)
    <2>1. cyc'[p].log = cyc[p].log /\ logs' = logs
      BY <1>1, <1>6 DEF ReadMode
    <2>2. cyc'[p].at = "gate"
      BY <1>1, <1>2, <1>6, <2>1 DEF ReadMode, Analysis
    <2>3. QED
      BY <1>2, <2>2
  <1>7. CASE Gate(p)
    BY <1>1, <1>2, <1>7 DEF Gate, GoTo, Cycle
  <1>8. CASE Unlock(p)
    BY <1>8 DEF Unlock, LiveBuyOpen
  <1>9. CASE PaperRead(p)
    BY <1>1, <1>2, <1>9 DEF PaperRead, GoTo, Cycle
  <1>10. CASE PrecheckApproves(p)
    BY <1>1, <1>10 DEF PrecheckApproves, StillPastLock, PastLock, Analysis, At, Stage, Cycle
  <1>11. QED
    BY <1>3, <1>4, <1>5, <1>6, <1>7, <1>8, <1>9, <1>10

\* An order is of a cycle that is past the lock; the other steps of a cycle leave
\* its stages.
LEMMA LockCycleSteps ==
    ASSUME TypeInv, Grows, ~liveBuy, NEW p \in Proc, CycleStep(p),
           NEW q \in Proc, PastLock(q)'
    PROVE  StillPastLock(q)
  <1>1. cyc \in [Proc -> Cycle] /\ cyc[p] \in Cycle /\ TypeOK
    BY DEF TypeInv, TypeOK
  <1>2. CASE Return(p) \/ Raise(p)
    <2>1. /\ cyc'[p].at \notin {"precheck", "order", "record"}
          /\ \A r \in Proc \ {p} : cyc'[r] = cyc[r]
      BY <1>1, <1>2, ReturnFields, RaiseFields
    <2>2. QED
      BY <2>1, LockWhenStill DEF PastLock
  <1>3. CASE \/ Admit(p) \/ PortfolioMode(p) \/ PortfolioHoldings(p) \/ ReadMode(p)
             \/ Gate(p) \/ Unlock(p) \/ PaperRead(p) \/ PrecheckApproves(p)
    <2>1. \A r \in Proc \ {p} : cyc'[r] = cyc[r]
      BY <1>1, <1>3 DEF Admit, PortfolioMode, PortfolioHoldings, ReadMode, Gate, Unlock,
         PaperRead, PrecheckApproves, GoTo
    <2>2. QED
      BY <1>3, <2>1, LockCheckSteps, LockWhenStill
  <1>4. CASE AnalysisSaved(p)
    <2>1. cyc'[p].at = "saved" /\ \A r \in Proc \ {p} : cyc'[r] = cyc[r]
      BY <1>4, SaveShape DEF Saves
    <2>2. QED
      BY <2>1, LockWhenStill DEF PastLock
  <1>5. ASSUME NEW full \in BOOLEAN, NEW answered \in BOOLEAN,
               LiveOrder(p, full, answered), ~Return(p)
        PROVE  StillPastLock(q)
    <2> DEFINE i == Len(orders) + 1
    <2>1. cyc' = [cyc EXCEPT ![p].at = "record", ![p].ord = i] /\ logs' = logs
      BY <1>5 DEF LiveOrder
    <2> HIDE DEF i
    <2>2. /\ cyc'[p].log = cyc[p].log /\ cyc'[p].xmode = cyc[p].xmode /\ cyc[p].at = "order"
          /\ \A r \in Proc \ {p} : cyc'[r] = cyc[r]
      BY <1>1, <1>5, <2>1 DEF Cycle, LiveOrder, At
    <2>3. QED
      BY <2>1, <2>2, LockWhenStill DEF StillPastLock, PastLock, Analysis
  <1>6. QED
    BY <1>2, <1>3, <1>4, <1>5 DEF CycleStep, Decline, PortfolioFails, GateRefuses, Locked,
       PrecheckHolds, CheckRaises, Skip, PaperFill, Record, Unresolved, RolledBack, AnalysisFails

\* The job's own steps.
LEMMA LockJobSteps ==
    ASSUME TypeInv, Grows, NEW q \in Proc, PastLock(q)',
           \/ StartJob \/ Watch \/ WatchFails \/ JobEnds
           \/ RiskSkipped \/ RiskMode \/ RiskHoldings \/ RiskReadMode \/ RiskDone
           \/ RiskUnrecorded \/ RiskPaperFill \/ RiskRecord
           \/ \E s \in Symbols : NextSymbol(s) \/ RiskItemKept(s) \/ RiskPaperRead(s)
           \/ \E s \in Symbols, answered \in BOOLEAN : RiskLiveSell(s, answered)
    PROVE  StillPastLock(q)
  <1>1. /\ \A r \in Proc \ {Sched} : cyc'[r] = cyc[r]
        /\ cyc'[Sched].at \notin {"precheck", "order", "record"}
    BY JobStepsMove DEF CycleStages
  <1>2. QED
    BY <1>1, LockWhenStill DEF PastLock

\* While the lock is on nobody gets past it with a live BUY.
LEMMA PastLockShrinks ==
    ASSUME TypeInv, [Next]_vars, ~liveBuy
    PROVE  BuysPastLock' \subseteq BuysPastLock
  <1> SUFFICES ASSUME NEW q \in Proc, PastLock(q)'
               PROVE  StillPastLock(q)
    BY DEF BuysPastLock, StillPastLock
  <1>1. Grows
    BY StepShapes DEF Quiet, Saves, Orders
  <1>2. ASSUME NEW p \in Proc, CycleStep(p)
        PROVE  StillPastLock(q)
    BY <1>1, <1>2, LockCycleSteps
  <1>3. ASSUME NEW p \in Manual, ManualStep(p)
        PROVE  StillPastLock(q)
    <2>1. p \in Proc /\ cyc \in [Proc -> Cycle]
      BY DEF Proc, TypeInv, TypeOK
    <2>2. ASSUME Reply(p) \/ \E s \in Symbols : Request(p, s)
          PROVE  /\ cyc'[p].at \in {"replied", "analyzing"}
                 /\ \A r \in Proc \ {p} : cyc'[r] = cyc[r]
      BY <2>1, <2>2 DEF Reply, Request, Cycle, Idle
    <2>3. QED
      BY <1>1, <1>2, <1>3, <2>1, <2>2, LockWhenStill DEF ManualStep, PastLock
  <1>4. CASE StartJob \/ JobStep
    <2>1. CASE CycleStep(Sched)
      BY <1>2, <2>1 DEF Proc
    <2>2. CASE ~CycleStep(Sched)
      BY <1>1, <1>4, <2>2, LockJobSteps DEF JobStep
    <2>3. QED
      BY <2>1, <2>2
  <1>5. CASE UNCHANGED vars \/ OperatorStep
    <2>1. cyc' = cyc
      BY <1>5 DEF vars, OperatorStep, StartBot, StopBot, SetMode, SetLiveBuy, SetShadow,
         LiquidationStops, LiquidationReads, LiquidationEnds, LiquidationSells,
         LiquidationSaleFails
    <2>2. QED
      BY <1>1, <2>1, LockWhenStill
  <1>6. CASE Crash
    BY <1>6 DEF Crash, PastLock, Idle
  <1>7. QED
    BY <1>3, <1>4, <1>5, <1>6 DEF Next

\* A step leaves the lock alone, opens it, or closes it and notes who is past it.
LEMMA LockSteps ==
    ASSUME [Next]_vars
    PROVE  \/ liveBuy' = liveBuy /\ unlocked' = unlocked
           \/ liveBuy' = TRUE
           \/ /\ liveBuy' = FALSE
              /\ unlocked' = IF liveBuy THEN BuysPastLock ELSE unlocked
              /\ cyc' = cyc /\ logs' = logs
  <1>1. CASE UNCHANGED vars
    BY <1>1 DEF vars, settings, ghosts
  <1>2. ASSUME NEW p \in Proc, CycleStep(p)
        PROVE  liveBuy' = liveBuy /\ unlocked' = unlocked
    BY <1>2 DEF CycleStep, AnalysisSaved, AnalysisFails, Admit, Decline, PortfolioMode,
       PortfolioHoldings, PortfolioFails, ReadMode, Gate, GateRefuses, Unlock, Locked,
       PrecheckApproves, PrecheckHolds, CheckRaises, LiveOrder, PaperRead, Skip, PaperFill,
       Record, Unresolved, RolledBack, settings, ghosts
  <1>3. ASSUME NEW p \in Manual, ManualStep(p)
        PROVE  liveBuy' = liveBuy /\ unlocked' = unlocked
    BY <1>2, <1>3 DEF ManualStep, Request, Reply, settings, ghosts, Proc
  <1>4. CASE StartJob \/ JobStep
    BY <1>2, <1>4 DEF JobStep, StartJob, Watch, WatchFails, JobEnds, RiskSkipped, RiskMode,
       RiskHoldings, RiskReadMode, RiskDone, RiskUnrecorded, RiskPaperFill, RiskRecord,
       NextSymbol, RiskItemKept, RiskPaperRead, RiskLiveSell, settings, ghosts, Proc
  <1>5. ASSUME NEW b \in BOOLEAN, SetLiveBuy(b)
        PROVE  \/ liveBuy' = TRUE
               \/ /\ liveBuy' = FALSE
                  /\ unlocked' = IF liveBuy THEN BuysPastLock ELSE unlocked
                  /\ cyc' = cyc /\ logs' = logs
    BY <1>5 DEF SetLiveBuy, BuysPastLock
  <1>6. CASE OperatorStep \/ Crash
    BY <1>5, <1>6 DEF OperatorStep, StartBot, StopBot, SetMode, SetShadow,
       LiquidationStops, LiquidationReads, LiquidationEnds, LiquidationSells,
       LiquidationSaleFails, Crash, settings, ghosts
  <1>7. QED
    BY <1>1, <1>3, <1>4, <1>6 DEF Next

LEMMA LockStep ==
    ASSUME TypeInv, LockNoted, [Next]_vars
    PROVE  LockNoted'
  <1> SUFFICES ASSUME ~liveBuy' PROVE BuysPastLock' \subseteq unlocked'
    BY DEF LockNoted
  <1>1. CASE liveBuy' = liveBuy /\ unlocked' = unlocked
    BY <1>1, PastLockShrinks DEF LockNoted
  <1>2. CASE /\ liveBuy' = FALSE
             /\ unlocked' = IF liveBuy THEN BuysPastLock ELSE unlocked
             /\ cyc' = cyc /\ logs' = logs
    <2>1. BuysPastLock' = BuysPastLock
      BY <1>2 DEF BuysPastLock, PastLock, Analysis
    <2>2. QED
      BY <1>2, <2>1 DEF LockNoted
  <1>3. QED
    BY <1>1, <1>2, LockSteps

\* A live AI BUY placed while the lock is on is of a cycle that locking noted.
LEMMA BuyWhenLocked ==
    ASSUME TypeInv, LockNoted, [Next]_vars, ~liveBuy, NEW i \in NewOrders,
           orders'[i].kind = "ai", orders'[i].mode = "live", orders'[i].side = "BUY"
    PROVE  orders'[i].primary \in unlocked
  <1>1. CASE Quiet
    <2>1. i \in AiOrders' /\ i \notin AiOrders
      BY <1>1 DEF AiOrders, NewOrders, Quiet, Grows
    <2>2. QED
      BY <1>1, <2>1 DEF Quiet
  <1>2. ASSUME NEW p \in Proc, Saves(p)
        PROVE  FALSE
    BY <1>2 DEF Saves, NewOrders, Grows
  <1>3. ASSUME NEW p \in Proc, Orders(p)
        PROVE  orders'[i].primary \in unlocked
    <2>1. i = Len(orders) + 1
      BY <1>3 DEF Orders, NewOrders, Grows
    <2>2. /\ orders'[i].primary = cyc[p].log
          /\ cyc[p].xmode = "live"
          /\ Analysis(p).dec = "BUY"
      BY <1>3, <2>1 DEF Orders, AiOrder
    <2>3. cyc[p].at = "order"
      BY <1>3, <2>2 DEF Orders, TypeInv, StageOK, Stage
    <2>4. cyc[p].log \in BuysPastLock
      BY <2>2, <2>3 DEF BuysPastLock, PastLock
    <2>5. QED
      BY <2>2, <2>4 DEF LockNoted
  <1>4. QED
    BY <1>1, <1>2, <1>3, StepShapes

\* After locking, the only live AI BUYs are of the cycles that had found the lock
\* off (_load_live_buy_enabled) before.
THEOREM LockBoundsLiveBuysCorrect == Spec => LockBoundsLiveBuys
  <1>1. Init => LockNoted
    BY DEF Init, LockNoted, BuysPastLock, PastLock, Idle
  <1>2. TypeInv /\ LockNoted /\ [Next]_vars => LockNoted'
    BY LockStep
  <1>3. TypeInv /\ LockNoted /\ [Next]_vars =>
          [\A i \in NewOrders :
             (/\ orders'[i].kind = "ai"
              /\ orders'[i].mode = "live"
              /\ orders'[i].side = "BUY"
              /\ ~liveBuy) => orders'[i].primary \in unlocked]_vars
    BY BuyWhenLocked
  <1>4. QED
    BY <1>1, <1>2, <1>3, TypeCorrect, PTL DEF Spec, LockBoundsLiveBuys

-----------------------------------------------------------------------------
(* Who moves, and what a step leaves in the record of the actor that moves *)

\* What the job does around its cycles.
JobOwn ==
    \/ StartJob \/ Watch \/ WatchFails \/ JobEnds
    \/ RiskSkipped \/ RiskMode \/ RiskHoldings \/ RiskReadMode \/ RiskDone
    \/ RiskUnrecorded \/ RiskPaperFill \/ RiskRecord
    \/ \E s \in Symbols : NextSymbol(s) \/ RiskItemKept(s) \/ RiskPaperRead(s)
    \/ \E s \in Symbols, answered \in BOOLEAN : RiskLiveSell(s, answered)

ManualOwn(p) == Reply(p) \/ \E s \in Symbols : Request(p, s)

Checks(p) ==
    \/ Admit(p) \/ PortfolioMode(p) \/ PortfolioHoldings(p) \/ ReadMode(p)
    \/ Gate(p) \/ Unlock(p) \/ PaperRead(p) \/ PrecheckApproves(p)

\* A check goes one stage on and keeps the symbol and the analysis.
LEMMA CheckFields ==
    ASSUME TypeInv, NEW p \in Proc, Checks(p)
    PROVE  /\ \A q \in Proc \ {p} : cyc'[q] = cyc[q]
           /\ cyc'[p].sym = cyc[p].sym
           /\ cyc'[p].log = cyc[p].log
           /\ cyc'[p].created = cyc[p].created
           /\ cyc[p].at \in CycleStages \ {"analyzing", "record"}
           /\ \/ cyc'[p].at \in {"admitted", "holdings"}
              \/ /\ PortfolioHoldings(p)
                 /\ cyc[p].at = "holdings"
                 /\ cyc'[p].at = "mode"
                 /\ cyc'[p].snap = held[cyc[p].smode]
                 /\ cyc'[p].priced \in Priced(held[cyc[p].smode])
              \/ /\ cyc[p].at = "mode"
                 /\ cyc'[p].at = IF Analysis(p).dec = "BUY" THEN "gate" ELSE "order"
                 /\ cyc'[p].exec = cyc[p].log
                 /\ cyc'[p].snap = cyc[p].snap
                 /\ cyc'[p].priced = cyc[p].priced
              \/ /\ Gate(p)
                 /\ cyc[p].at = "gate"
                 /\ cyc'[p].at = IF cyc[p].xmode = "live" THEN "lock" ELSE "order"
                 /\ cyc'[p] = [cyc[p] EXCEPT !.at = cyc'[p].at]
              \/ /\ Unlock(p)
                 /\ cyc[p].at = "lock"
                 /\ cyc'[p].at = "precheck"
                 /\ cyc'[p] = [cyc[p] EXCEPT !.at = "precheck"]
              \/ /\ PaperRead(p)
                 /\ cyc[p].at = "order"
                 /\ cyc'[p].at = "fill"
                 /\ cyc'[p] = [cyc[p] EXCEPT !.at = "fill"]
              \/ /\ PrecheckApproves(p)
                 /\ cyc[p].at = "precheck"
                 /\ cyc'[p].at = "order"
                 /\ cyc'[p].exec = Len(logs) + 1
                 /\ cyc'[p].snap = cyc[p].snap
                 /\ cyc'[p].priced = cyc[p].priced
                 /\ cyc'[p].xmode = cyc[p].xmode
  <1>1. cyc[p] \in Cycle /\ cyc \in [Proc -> Cycle] /\ Len(logs) \in Nat
    BY DEF TypeInv, TypeOK
  <1>2. CASE Admit(p)
    BY <1>1, <1>2 DEF Admit, LoadAnalysis, At, CycleStages, Cycle
  <1>3. CASE PortfolioMode(p)
    BY <1>1, <1>3 DEF PortfolioMode, At, CycleStages, Cycle
  <1>4. CASE PortfolioHoldings(p)
    <2>1. PICK b \in Priced(held[cyc[p].smode]) :
             cyc' = [cyc EXCEPT ![p].at = "mode", ![p].priced = b,
                                ![p].snap = held[cyc[p].smode]]
      BY <1>4 DEF PortfolioHoldings
    <2>2. cyc[p].at = "holdings"
      BY <1>4 DEF PortfolioHoldings, At
    <2>3. QED
      BY <1>1, <1>4, <2>1, <2>2 DEF CycleStages, Cycle
  <1>5. CASE ReadMode(p)
    BY <1>1, <1>5 DEF ReadMode, At, CycleStages, Cycle
  <1>6. CASE Gate(p)
    BY <1>1, <1>6 DEF Gate, GoTo, At, CycleStages, Cycle
  <1>7. CASE Unlock(p)
    BY <1>1, <1>7 DEF Unlock, GoTo, At, CycleStages, Cycle
  <1>8. CASE PaperRead(p)
    BY <1>1, <1>8 DEF PaperRead, GoTo, At, CycleStages, Cycle
  <1>9. CASE PrecheckApproves(p)
    <2> DEFINE id == Len(logs) + 1
    <2>1. cyc' = [cyc EXCEPT ![p].at = "order", ![p].exec = id] /\ cyc[p].at = "precheck"
      BY <1>9 DEF PrecheckApproves, At
    <2> HIDE DEF id
    <2>2. /\ \A q \in Proc \ {p} : cyc'[q] = cyc[q]
          /\ cyc'[p].sym = cyc[p].sym
          /\ cyc'[p].log = cyc[p].log
          /\ cyc'[p].created = cyc[p].created
          /\ cyc'[p].at = "order"
          /\ cyc'[p].exec = id
          /\ cyc'[p].snap = cyc[p].snap
          /\ cyc'[p].priced = cyc[p].priced
          /\ cyc'[p].xmode = cyc[p].xmode
      BY <1>1, <2>1 DEF Cycle
    <2>3. QED
      BY <1>9, <2>1, <2>2 DEF CycleStages, id
  <1>10. QED
    BY <1>2, <1>3, <1>4, <1>5, <1>6, <1>7, <1>8, <1>9 DEF Checks

\* The other steps of a cycle.
LEMMA CycleMoves ==
    ASSUME TypeInv, NEW p \in Proc, CycleStep(p)
    PROVE  /\ \A q \in Proc \ {p} : cyc'[q] = cyc[q]
           /\ cyc[p].at \in CycleStages
           /\ \/ Checks(p)
              \/ Return(p) \/ Raise(p)
              \/ /\ cyc'[p].at \in {"saved", "record"}
                 /\ cyc'[p].sym = cyc[p].sym
                 /\ cyc'[p].created = cyc[p].created
  <1>1. cyc[p] \in Cycle /\ cyc \in [Proc -> Cycle] /\ TypeOK
    BY DEF TypeInv, TypeOK
  <1>2. cyc[p].at \in CycleStages
    BY DEF CycleStep, AnalysisSaved, AnalysisFails, Admit, Decline, PortfolioMode,
       PortfolioHoldings, PortfolioFails, ReadMode, Gate, GateRefuses, Unlock, Locked,
       PrecheckApproves, PrecheckHolds, CheckRaises, LiveOrder, PaperRead, Skip, PaperFill,
       Record, Unresolved, RolledBack, At, CycleStages
  <1>3. CASE Checks(p)
    BY <1>2, <1>3, CheckFields
  <1>4. CASE Return(p) \/ Raise(p)
    BY <1>1, <1>2, <1>4, ReturnFields, RaiseFields
  <1>5. CASE AnalysisSaved(p)
    <2> DEFINE id == Len(logs) + 1
    <2>1. cyc' = [cyc EXCEPT ![p].at = "saved", ![p].log = id]
      BY <1>5 DEF AnalysisSaved
    <2> HIDE DEF id
    <2>2. QED
      BY <1>1, <1>2, <2>1 DEF Cycle
  <1>6. ASSUME NEW full \in BOOLEAN, NEW answered \in BOOLEAN,
               LiveOrder(p, full, answered), ~Return(p)
        PROVE  /\ \A q \in Proc \ {p} : cyc'[q] = cyc[q]
               /\ cyc'[p].at = "record"
               /\ cyc'[p].sym = cyc[p].sym
               /\ cyc'[p].created = cyc[p].created
    <2> DEFINE i == Len(orders) + 1
    <2>1. cyc' = [cyc EXCEPT ![p].at = "record", ![p].ord = i]
      BY <1>6 DEF LiveOrder
    <2> HIDE DEF i
    <2>2. QED
      BY <1>1, <2>1 DEF Cycle
  <1>7. QED
    BY <1>2, <1>3, <1>4, <1>5, <1>6 DEF CycleStep, Checks, Decline, PortfolioFails, GateRefuses,
       Locked, PrecheckHolds, CheckRaises, Skip, PaperFill, Record, Unresolved, RolledBack,
       AnalysisFails

\* What the requests of a manual cycle leave.
LEMMA ManualFields ==
    ASSUME TypeInv, NEW p \in Proc, ManualOwn(p)
    PROVE  /\ \A q \in Proc \ {p} : cyc'[q] = cyc[q]
           /\ \/ /\ Reply(p)
                 /\ cyc[p].at = "reply"
                 /\ cyc'[p].at = "replied"
                 /\ cyc'[p].log = cyc[p].log
                 /\ cyc'[p].created = RowOfAnalysis(p)
              \/ /\ cyc'[p].at = "analyzing"
                 /\ cyc'[p].log = 0
                 /\ cyc'[p].created = FALSE
  <1>1. cyc[p] \in Cycle /\ cyc \in [Proc -> Cycle]
    BY DEF TypeInv, TypeOK
  <1>2. CASE Reply(p)
    <2>1. PICK b : /\ b = RowOfAnalysis(p)
                   /\ cyc' = [cyc EXCEPT ![p].at = "replied", ![p].created = b]
      BY <1>2 DEF Reply
    <2>2. cyc[p].at = "reply"
      BY <1>2 DEF Reply, At
    <2>3. /\ \A q \in Proc \ {p} : cyc'[q] = cyc[q]
          /\ cyc'[p].at = "replied"
          /\ cyc'[p].log = cyc[p].log
          /\ cyc'[p].created = b
      BY <1>1, <2>1 DEF Cycle
    <2>4. QED
      BY <1>2, <2>1, <2>2, <2>3
  <1>3. CASE \E s \in Symbols : Request(p, s)
    BY <1>1, <1>3 DEF Request, Idle
  <1>4. QED
    BY <1>2, <1>3 DEF ManualOwn

\* An actor's record changes only by its own steps, and by a restart.
LEMMA WhoMoves ==
    ASSUME TypeInv, [Next]_vars, NEW q \in Proc, cyc'[q] # cyc[q]
    PROVE  \/ CycleStep(q)
           \/ (q \in Manual /\ ManualOwn(q))
           \/ q = Sched /\ JobOwn
           \/ Crash /\ cyc'[q] = Idle
  <1>1. CASE UNCHANGED vars
    BY <1>1 DEF vars
  <1>2. ASSUME NEW p \in Manual, ManualStep(p)
        PROVE  CycleStep(q) \/ (q \in Manual /\ ManualOwn(q))
    <2>1. p \in Proc /\ (CycleStep(p) \/ ManualOwn(p))
      BY <1>2 DEF ManualStep, ManualOwn, Proc
    <2>2. q = p
      BY <2>1, CycleMoves, ManualFields
    <2>3. QED
      BY <1>2, <2>1, <2>2
  <1>3. CASE StartJob \/ JobStep
    <2>1. Sched \in Proc /\ (CycleStep(Sched) \/ JobOwn)
      BY <1>3 DEF JobStep, JobOwn, Proc
    <2>2. q = Sched
      BY <2>1, CycleMoves, JobStepsMove DEF JobOwn
    <2>3. QED
      BY <2>1, <2>2
  <1>4. CASE OperatorStep
    <2>1. cyc' = cyc
      BY <1>4 DEF OperatorStep, StartBot, StopBot, SetMode, SetLiveBuy, SetShadow,
         LiquidationStops, LiquidationReads, LiquidationEnds, LiquidationSells,
         LiquidationSaleFails
    <2>2. QED
      BY <2>1
  <1>5. CASE Crash
    BY <1>5 DEF Crash
  <1>6. QED
    BY <1>1, <1>2, <1>3, <1>4, <1>5 DEF Next

\* The rows of the history stay.
LEMMA HistoryGrows ==
    ASSUME [Next]_vars
    PROVE  history \subseteq history'
  <1>1. CASE UNCHANGED vars
    BY <1>1 DEF vars, market
  <1>2. ASSUME NEW p \in Proc, CycleStep(p)
        PROVE  history \subseteq history'
    BY <1>2 DEF CycleStep, AnalysisSaved, AnalysisFails, Admit, Decline, PortfolioMode,
       PortfolioHoldings, PortfolioFails, ReadMode, Gate, GateRefuses, Unlock, Locked,
       PrecheckApproves, PrecheckHolds, CheckRaises, LiveOrder, PaperRead, Skip, PaperFill,
       Record, Unresolved, RolledBack, market
  <1>3. ASSUME NEW p \in Manual, ManualStep(p)
        PROVE  history \subseteq history'
    BY <1>2, <1>3 DEF ManualStep, Request, Reply, market, Proc
  <1>4. CASE StartJob \/ JobStep
    BY <1>2, <1>4 DEF JobStep, StartJob, Watch, WatchFails, JobEnds, RiskSkipped, RiskMode,
       RiskHoldings, RiskReadMode, RiskDone, RiskUnrecorded, RiskPaperFill, RiskRecord,
       NextSymbol, RiskItemKept, RiskPaperRead, RiskLiveSell, market, Proc
  <1>5. CASE OperatorStep \/ Crash
    BY <1>5 DEF OperatorStep, StartBot, StopBot, SetMode, SetLiveBuy, SetShadow,
       LiquidationStops, LiquidationReads, LiquidationEnds, LiquidationSells,
       LiquidationSaleFails, Crash, market
  <1>6. QED
    BY <1>1, <1>3, <1>4, <1>5 DEF Next

\* The job's own steps keep no report of an order, and start from none of the
\* stages that only a manual cycle reaches.
LEMMA JobCreated ==
    ASSUME TypeInv, JobOwn
    PROVE  /\ cyc'[Sched].created \in {FALSE, cyc[Sched].created}
           /\ cyc[Sched].at \in {"idle", "watch", "next"} \cup RiskStages
  <1>1. cyc[Sched] \in Cycle /\ cyc \in [Proc -> Cycle] /\ Sched \in Proc
    BY DEF TypeInv, TypeOK, Proc
  <1>2. cyc[Sched].at \in {"idle", "watch", "next"} \cup RiskStages
    BY DEF JobOwn, StartJob, Watch, WatchFails, JobEnds, RiskSkipped, RiskMode, RiskHoldings,
       RiskReadMode, RiskDone, RiskUnrecorded, RiskPaperFill, RiskRecord, NextSymbol,
       RiskItemKept, RiskPaperRead, RiskLiveSell, At, RiskStages
  <1> SUFFICES cyc'[Sched].created = FALSE \/ cyc'[Sched].created = cyc[Sched].created
    BY <1>2
  <1>3. CASE StartJob \/ Watch
    BY <1>1, <1>3 DEF StartJob, Watch, GoTo, Cycle
  <1>4. CASE WatchFails \/ JobEnds \/ RiskSkipped \/ RiskDone
    <2>1. \/ cyc' = [cyc EXCEPT ![Sched] = Idle]
          \/ cyc' = [cyc EXCEPT ![Sched] = [Idle EXCEPT !.at = "watch"]]
      BY <1>4 DEF WatchFails, JobEnds, RiskSkipped, RiskDone
    <2>2. QED
      BY <1>1, <2>1 DEF Idle
  <1>5. CASE RiskMode \/ RiskReadMode
    BY <1>1, <1>5 DEF RiskMode, RiskReadMode, Cycle
  <1>6. CASE RiskHoldings
    <2>1. PICK b : cyc' = [cyc EXCEPT ![Sched].at = "tpmode", ![Sched].priced = b,
                                      ![Sched].snap = held[cyc[Sched].smode]]
      BY <1>6 DEF RiskHoldings
    <2>2. QED
      BY <1>1, <2>1 DEF Cycle
  <1>7. CASE RiskUnrecorded \/ RiskPaperFill \/ RiskRecord
    <2>1. cyc' = NextItem
      BY <1>7 DEF RiskUnrecorded, RiskPaperFill, RiskRecord
    <2>2. QED
      BY <1>1, <2>1 DEF NextItem, Cycle
  <1>8. CASE \E s \in Symbols : NextSymbol(s)
    BY <1>1, <1>8 DEF NextSymbol, Idle
  <1>9. CASE \E s \in Symbols : RiskItemKept(s) \/ RiskPaperRead(s)
    <2>1. PICK s \in Symbols : RiskItemKept(s) \/ RiskPaperRead(s)
      BY <1>9
    <2>2. CASE RiskItemKept(s)
      BY <1>1, <2>2 DEF RiskItemKept, Cycle
    <2>3. CASE RiskPaperRead(s)
      BY <1>1, <2>3 DEF RiskPaperRead, Cycle
    <2>4. QED
      BY <2>1, <2>2, <2>3
  <1>10. CASE \E s \in Symbols, answered \in BOOLEAN : RiskLiveSell(s, answered)
    <2>1. PICK s \in Symbols, answered \in BOOLEAN : RiskLiveSell(s, answered)
      BY <1>10
    <2> DEFINE i == Len(orders) + 1
    <2>2. cyc' = IF answered
              THEN [cyc EXCEPT ![Sched].at = "tprecord", ![Sched].snap = @ \ {s},
                               ![Sched].sym = s, ![Sched].ord = i]
              ELSE [cyc EXCEPT ![Sched].snap = @ \ {s}]
      BY <2>1 DEF RiskLiveSell
    <2> HIDE DEF i
    <2>3. QED
      BY <1>1, <2>2 DEF Cycle
  <1>11. QED
    BY <1>3, <1>4, <1>5, <1>6, <1>7, <1>8, <1>9, <1>10 DEF JobOwn

-----------------------------------------------------------------------------
(* The confirmation of a live BUY *)

\* The entry id of the logs confirms a BUY of s that entry primary proposed.
Confirmed(id, primary, s) ==
    /\ id \in 1..Len(logs)
    /\ id > primary
    /\ LET a == logs[id] IN
         /\ a.kind = "precheck"
         /\ a.sym = s
         /\ a.dec = "BUY"
         /\ Actionable(a)

\* A cycle about to place a live BUY holds its confirmation.
BuyConfirmed(p) ==
    (cyc[p].at = "order" /\ cyc[p].xmode = "live" /\ Analysis(p).dec = "BUY") =>
        Confirmed(cyc[p].exec, cyc[p].log, cyc[p].sym)

ReviewInv == LiveBuyReviewed /\ \A p \in Proc : BuyConfirmed(p)

\* A confirmation stays one.
LEMMA ConfirmedStays ==
    ASSUME Grows, NEW id, NEW primary, NEW s, Confirmed(id, primary, s)
    PROVE  Confirmed(id, primary, s)'
  BY DEF Confirmed, Grows, Actionable

\* The only way to "order" for a live BUY is PrecheckApproves.
LEMMA ConfirmedStep ==
    ASSUME TypeInv, ReviewInv, [Next]_vars, NEW p \in Proc
    PROVE  BuyConfirmed(p)'
  <1> SUFFICES ASSUME cyc'[p].at = "order", cyc'[p].xmode = "live",
                      logs'[cyc'[p].log].dec = "BUY"
               PROVE  Confirmed(cyc[p].exec, cyc[p].log, cyc[p].sym)'
    BY DEF BuyConfirmed, Analysis
  <1>1. Grows /\ TypeOK /\ Stage(p)
    BY StepShapes DEF Quiet, Saves, Orders, TypeInv, StageOK
  <1>2. ASSUME cyc[p].log \in 1..Len(logs), cyc'[p].log = cyc[p].log
        PROVE  logs[cyc[p].log].dec = "BUY"
    BY <1>1, <1>2 DEF Grows
  <1>3. CASE cyc'[p] = cyc[p]
    <2>1. cyc[p].log \in 1..Len(logs)
      BY <1>1, <1>3 DEF Stage, Analysed, CycleStages
    <2>2. Confirmed(cyc[p].exec, cyc[p].log, cyc[p].sym)
      BY <1>2, <1>3, <2>1 DEF ReviewInv, BuyConfirmed, Analysis
    <2>3. QED
      BY <1>1, <1>3, <2>2 DEF Confirmed, Grows, Actionable
  <1>4. CASE Checks(p)
    <2>1. cyc'[p].log = cyc[p].log /\ cyc[p].log \in 1..Len(logs)
      BY <1>1, <1>4, CheckFields DEF Stage, Analysed, CycleStages
    <2>2. logs[cyc[p].log].dec = "BUY"
      BY <1>2, <2>1
    <2>3. CASE Gate(p)
      BY <2>3, <1>1 DEF Gate, GoTo, TypeOK, Cycle
    <2>4. CASE PrecheckApproves(p)
      <3>1. PICK a \in Answer : Approved(a) /\ AppendLog(cyc[p].sym, a, "precheck")
        BY <2>4, HoldIsAnswer DEF PrecheckApproves
      <3>2. cyc[p].sym \in Symbols /\ orders' = orders
        BY <1>1, <2>4 DEF PrecheckApproves, Stage, At, CycleStages, market
      <3>3. /\ Len(logs') = Len(logs) + 1 /\ Len(logs) \in Nat
            /\ logs'[Len(logs) + 1] = [sym |-> cyc[p].sym, dec |-> a.dec, conf |-> a.conf,
                                       weight |-> a.weight, kind |-> "precheck"]
        BY <1>1, <3>1, <3>2, LogGrows DEF Grows
      <3>4. cyc'[p].exec = Len(logs) + 1 /\ cyc'[p].sym = cyc[p].sym
        <4>1. cyc[p].at = "precheck" /\ cyc'[p].at = "order"
          BY <2>4 DEF PrecheckApproves, At
        <4>2. QED
          BY <1>4, <4>1, CheckFields
      <3> DEFINE id == Len(logs) + 1
      <3>5. id \in 1..Len(logs') /\ id > cyc[p].log
        BY <2>1, <3>3
      <3> HIDE DEF id
      <3>6. /\ logs'[id].kind = "precheck" /\ logs'[id].sym = cyc[p].sym
            /\ logs'[id].dec = "BUY" /\ Actionable(logs'[id])
        BY <3>1, <3>3 DEF Approved, Actionable, id
      <3>7. cyc'[p].exec = id
        BY <3>4 DEF id
      <3>8. QED
        BY <2>1, <3>4, <3>5, <3>6, <3>7 DEF Confirmed, Actionable
    <2>5. CASE ~(Gate(p) \/ PrecheckApproves(p))
      BY <1>4, <2>2, <2>5, CheckFields DEF Analysis
    <2>6. QED
      BY <2>3, <2>4, <2>5
  <1>5. CASE CycleStep(p) /\ ~Checks(p)
    BY <1>1, <1>5, CycleMoves, ReturnFields, RaiseFields
  <1>6. CASE p \in Manual /\ ManualOwn(p)
    BY <1>6, ManualFields
  <1>7. CASE p = Sched /\ JobOwn
    BY <1>7, JobStepsMove DEF JobOwn, CycleStages
  <1>8. CASE cyc'[p] = Idle
    BY <1>8 DEF Idle
  <1>9. QED
    BY <1>3, <1>4, <1>5, <1>6, <1>7, <1>8, WhoMoves

LEMMA ReviewStep ==
    ASSUME TypeInv, SpendInv, ReviewInv, [Next]_vars
    PROVE  ReviewInv'
  <1>1. Grows
    BY StepShapes DEF Quiet, Saves, Orders
  <1> SUFFICES ASSUME NEW i \in AiOrders', orders'[i].mode = "live", orders'[i].side = "BUY"
               PROVE  Confirmed(orders[i].exec, orders[i].primary, orders[i].sym)'
    BY ConfirmedStep DEF ReviewInv, LiveBuyReviewed, Confirmed
  <1>2. CASE i \in AiOrders
    <2>1. orders'[i] = orders[i]
      BY <1>1, <1>2 DEF AiOrders, Grows
    <2>2. Confirmed(orders[i].exec, orders[i].primary, orders[i].sym)
      BY <1>2, <2>1 DEF ReviewInv, LiveBuyReviewed, Confirmed
    <2>3. QED
      BY <1>1, <2>1, <2>2 DEF Confirmed, Grows, Actionable
  <1>3. CASE i \notin AiOrders
    <2>1. PICK p \in Proc : Orders(p)
      BY <1>3, StepShapes DEF Quiet, Saves, AiOrders
    <2>2. i = Len(orders) + 1
      BY <1>1, <1>3, <2>1 DEF Orders, AiOrders, Grows
    <2>3. /\ orders'[i].exec = cyc[p].exec /\ orders'[i].primary = cyc[p].log
          /\ orders'[i].sym = cyc[p].sym /\ cyc[p].xmode = "live" /\ Analysis(p).dec = "BUY"
      BY <2>1, <2>2 DEF Orders, AiOrder
    <2>4. cyc[p].at = "order"
      BY <2>1, <2>3 DEF Orders, TypeInv, StageOK, Stage
    <2>5. Confirmed(cyc[p].exec, cyc[p].log, cyc[p].sym)
      BY <2>3, <2>4 DEF ReviewInv, BuyConfirmed
    <2>6. QED
      BY <1>1, <2>3, <2>5 DEF Confirmed, Grows, Actionable
  <1>4. QED
    BY <1>2, <1>3

\* _run_buy_precheck stands between every live AI BUY and its order: what sizes the
\* order is a confirmation saved after the analysis, whatever other cycles save.
THEOREM LiveBuyReviewedCorrect == Spec => []LiveBuyReviewed
  <1>1. Init => ReviewInv
    BY DEF Init, ReviewInv, LiveBuyReviewed, BuyConfirmed, AiOrders, Idle
  <1>2. TypeInv /\ SpendInv /\ ReviewInv /\ [Next]_vars => ReviewInv'
    BY ReviewStep
  <1>3. ReviewInv => LiveBuyReviewed
    BY DEF ReviewInv
  <1>4. QED
    BY <1>1, <1>2, <1>3, TypeCorrect, Spending, PTL DEF Spec

-----------------------------------------------------------------------------
(* What a manual cycle reports *)

\* The analysis executed is the primary one or a confirmation.
OwnOrPrecheck(id, primary) ==
    id = primary \/ (id \in 1..Len(logs) /\ logs[id].kind = "precheck")

ExecKnown ==
    /\ \A i \in AiOrders : OwnOrPrecheck(orders[i].exec, orders[i].primary)
    /\ \A p \in Proc : cyc[p].at \in Decided => OwnOrPrecheck(cyc[p].exec, cyc[p].log)

\* The order of the analysis that an actor holds is the actor's own.
PlacedByOwner ==
    \A p \in Proc, i \in AiOrders :
        (cyc[p].log # 0 /\ orders[i].primary = cyc[p].log) => orders[i].proc = p

ReportedWhenReplied == \A p \in Proc : cyc[p].created => cyc[p].at = "replied"

ReportInv == ExecKnown /\ PlacedByOwner /\ ReportedWhenReplied /\ ReportSound

LEMMA ExecKnownStep ==
    ASSUME TypeInv, ReportInv, [Next]_vars
    PROVE  ExecKnown'
  <1>1. Grows /\ TypeOK
    BY StepShapes DEF Quiet, Saves, Orders, TypeInv
  <1>2. ASSUME NEW id, NEW primary, OwnOrPrecheck(id, primary)
        PROVE  id = primary \/ (id \in 1..Len(logs') /\ logs'[id].kind = "precheck")
    BY <1>1, <1>2 DEF OwnOrPrecheck, Grows
  <1>3. ASSUME NEW i \in AiOrders'
        PROVE  OwnOrPrecheck(orders[i].exec, orders[i].primary)'
    <2>1. CASE i \in AiOrders
      <3>1. orders'[i] = orders[i]
        BY <1>1, <2>1 DEF AiOrders, Grows
      <3>2. QED
        BY <1>2, <2>1, <3>1 DEF ReportInv, ExecKnown, OwnOrPrecheck
    <2>2. CASE i \notin AiOrders
      <3>1. PICK p \in Proc : Orders(p)
        BY <2>2, StepShapes DEF Quiet, Saves, AiOrders
      <3>2. i = Len(orders) + 1
        BY <1>1, <2>2, <3>1 DEF Orders, AiOrders, Grows
      <3>3. orders'[i].exec = cyc[p].exec /\ orders'[i].primary = cyc[p].log
        BY <3>1, <3>2 DEF Orders, AiOrder
      <3>4. OwnOrPrecheck(cyc[p].exec, cyc[p].log)
        BY <3>1 DEF Orders, ReportInv, ExecKnown, Decided
      <3>5. QED
        BY <1>2, <3>3, <3>4 DEF OwnOrPrecheck
    <2>3. QED
      BY <2>1, <2>2
  <1>4. ASSUME NEW p \in Proc, cyc'[p].at \in Decided
        PROVE  OwnOrPrecheck(cyc[p].exec, cyc[p].log)'
    <2>1. CASE cyc'[p] = cyc[p]
      BY <1>2, <1>4, <2>1 DEF ReportInv, ExecKnown, OwnOrPrecheck
    <2>2. CASE Checks(p)
      <3>1. CASE PrecheckApproves(p)
        <4>1. PICK a \in Answer : Approved(a) /\ AppendLog(cyc[p].sym, a, "precheck")
          BY <3>1, HoldIsAnswer DEF PrecheckApproves
        <4>2. cyc[p].sym \in Symbols /\ orders' = orders
          BY <3>1 DEF PrecheckApproves, TypeInv, StageOK, Stage, At, CycleStages, market
        <4>a. /\ Len(logs') = Len(logs) + 1 /\ Len(logs) \in Nat
              /\ logs'[Len(logs) + 1] = [sym |-> cyc[p].sym, dec |-> a.dec, conf |-> a.conf,
                                         weight |-> a.weight, kind |-> "precheck"]
          BY <1>1, <4>1, <4>2, LogGrows DEF Grows
        <4>3. /\ Len(logs') = Len(logs) + 1 /\ Len(logs) \in Nat
              /\ logs'[Len(logs) + 1].kind = "precheck"
          BY <4>a
        <4>4. cyc'[p].exec = Len(logs) + 1
          <5>1. cyc[p].at = "precheck"
            BY <3>1 DEF PrecheckApproves, At
          <5>2. QED
            BY <1>4, <2>2, <5>1, CheckFields DEF Decided
        <4>5. QED
          BY <4>3, <4>4 DEF OwnOrPrecheck
      <3>2. CASE ~PrecheckApproves(p)
        <4>1. CASE cyc'[p].exec = cyc[p].log
          BY <2>2, <4>1, CheckFields DEF OwnOrPrecheck
        <4>2. CASE cyc'[p].exec # cyc[p].log
          <5>1. /\ cyc[p].at \in Decided /\ cyc'[p].log = cyc[p].log
                /\ cyc'[p].exec = cyc[p].exec
            BY <1>1, <1>4, <2>2, <3>2, <4>2, CheckFields DEF Decided, TypeOK, Cycle
          <5>2. QED
            BY <1>2, <5>1 DEF ReportInv, ExecKnown, OwnOrPrecheck
        <4>3. QED
          BY <4>1, <4>2
      <3>3. QED
        BY <3>1, <3>2
    <2>3. CASE CycleStep(p) /\ ~Checks(p)
      BY <1>1, <1>4, <2>3, CycleMoves, ReturnFields, RaiseFields DEF Decided
    <2>4. CASE p \in Manual /\ ManualOwn(p)
      BY <1>4, <2>4, ManualFields DEF Decided
    <2>5. CASE p = Sched /\ JobOwn
      BY <1>4, <2>5, JobStepsMove DEF JobOwn, CycleStages, Decided
    <2>6. CASE cyc'[p] = Idle
      BY <1>4, <2>6 DEF Idle, Decided
    <2>7. QED
      BY <2>1, <2>2, <2>3, <2>4, <2>5, <2>6, WhoMoves
  <1>5. QED
    BY <1>3, <1>4 DEF ExecKnown

LEMMA OwnerStep ==
    ASSUME TypeInv, SpendInv, ReportInv, [Next]_vars
    PROVE  PlacedByOwner'
  <1> SUFFICES ASSUME NEW p \in Proc, NEW i \in AiOrders', cyc'[p].log # 0,
                      orders'[i].primary = cyc'[p].log
               PROVE  orders'[i].proc = p
    BY DEF PlacedByOwner
  <1>1. Grows
    BY StepShapes DEF Quiet, Saves, Orders
  <1>2. ASSUME i \in AiOrders
        PROVE  orders'[i] = orders[i] /\ orders[i].primary \in 1..Len(logs)
    BY <1>1, <1>2 DEF AiOrders, Grows, SpendInv, ExactAnalysis
  <1>3. CASE Quiet
    BY <1>2, <1>3 DEF Quiet, Advance, ReportInv, PlacedByOwner
  <1>4. ASSUME NEW q \in Proc, Saves(q)
        PROVE  orders'[i].proc = p
    <2>1. i \in AiOrders
      BY <1>4 DEF Saves, AiOrders
    <2>2. p # q
      BY <1>1, <1>2, <1>4, <2>1 DEF Saves, Grows
    <2>3. QED
      BY <1>2, <1>4, <2>1, <2>2 DEF Saves, ReportInv, PlacedByOwner
  <1>5. ASSUME NEW q \in Proc, Orders(q)
        PROVE  orders'[i].proc = p
    <2>1. cyc'[p].log = cyc[p].log
      BY <1>5 DEF Orders
    <2>2. CASE i \in AiOrders
      BY <1>2, <2>1, <2>2 DEF ReportInv, PlacedByOwner
    <2>3. CASE i \notin AiOrders
      <3>1. i = Len(orders) + 1
        BY <1>1, <1>5, <2>3 DEF Orders, AiOrders, Grows
      <3>2. orders'[i].primary = cyc[q].log /\ orders'[i].proc = q
        BY <1>5, <3>1 DEF Orders, AiOrder
      <3>3. p = q
        BY <2>1, <3>2 DEF SpendInv, Unshared
      <3>4. QED
        BY <3>2, <3>3
    <2>4. QED
      BY <2>2, <2>3
  <1>6. QED
    BY <1>3, <1>4, <1>5, StepShapes

LEMMA ReportStep ==
    ASSUME TypeInv, SpendInv, ReportInv, [Next]_vars
    PROVE  ReportInv'
  <1>1. Grows /\ TypeOK /\ history \subseteq history' /\ history \subseteq 1..Len(orders)
    BY StepShapes, HistoryGrows DEF Quiet, Saves, Orders, TypeInv, TypeOK
  <1>2. ASSUME NEW p \in Proc, cyc'[p].created, cyc'[p] # cyc[p]
        PROVE  p \in Manual /\ Reply(p) /\ cyc'[p].at = "replied" /\ RowOfAnalysis(p)
               /\ cyc'[p].log = cyc[p].log /\ cyc[p].at = "reply"
    <2>1. CASE CycleStep(p)
      <3>1. cyc[p].at # "replied" /\ ~cyc[p].created
        BY <2>1, CycleMoves DEF CycleStages, ReportInv, ReportedWhenReplied
      <3>2. QED
        BY <1>1, <1>2, <2>1, <3>1, CycleMoves, CheckFields, ReturnFields, RaiseFields
    <2>2. CASE p \in Manual /\ ManualOwn(p)
      BY <1>2, <2>2, ManualFields
    <2>3. CASE p = Sched /\ JobOwn
      <3>1. cyc[Sched].at # "replied"
        BY <2>3, JobCreated DEF RiskStages
      <3>2. QED
        BY <1>2, <2>3, <3>1, JobCreated DEF ReportInv, ReportedWhenReplied
    <2>4. CASE cyc'[p] = Idle
      BY <1>2, <2>4 DEF Idle
    <2>5. QED
      BY <1>2, <2>1, <2>2, <2>3, <2>4, WhoMoves
  <1>3. ReportedWhenReplied'
    BY <1>2 DEF ReportInv, ReportedWhenReplied
  <1>4. ReportSound'
    <2> SUFFICES ASSUME NEW p \in Manual, cyc'[p].created
                 PROVE  \E i \in history' : /\ orders'[i].kind = "ai"
                                            /\ orders'[i].proc = p
                                            /\ orders'[i].primary = cyc'[p].log
      BY DEF ReportSound
    <2>1. p \in Proc
      BY DEF Proc
    <2>2. \A i \in history : orders'[i] = orders[i]
      BY <1>1 DEF Grows
    <2>3. CASE cyc'[p] = cyc[p]
      <3>1. PICK i \in history : /\ orders[i].kind = "ai"
                                 /\ orders[i].proc = p
                                 /\ orders[i].primary = cyc[p].log
        BY <2>3 DEF ReportInv, ReportSound
      <3>2. QED
        BY <1>1, <2>2, <2>3, <3>1
    <2>4. CASE cyc'[p] # cyc[p]
      <3>1. RowOfAnalysis(p) /\ cyc'[p].log = cyc[p].log /\ cyc[p].at = "reply"
        BY <1>2, <2>1, <2>4
      <3>2. PICK i \in history : orders[i].kind = "ai" /\ orders[i].exec = cyc[p].log
        BY <3>1 DEF RowOfAnalysis
      <3>3. /\ cyc[p].log \in 1..Len(logs) /\ logs[cyc[p].log].kind = "primary"
            /\ i \in AiOrders
        BY <1>1, <2>1, <3>1, <3>2 DEF TypeInv, StageOK, Stage, Analysed, AiOrders
      <3>4. orders[i].primary = cyc[p].log
        BY <3>2, <3>3 DEF ReportInv, ExecKnown, OwnOrPrecheck
      <3>5. orders[i].proc = p
        BY <2>1, <3>3, <3>4 DEF ReportInv, PlacedByOwner
      <3>6. QED
        BY <1>1, <2>2, <3>1, <3>2, <3>4, <3>5
    <2>5. QED
      BY <2>3, <2>4
  <1>5. QED
    BY <1>3, <1>4, ExecKnownStep, OwnerStep DEF ReportInv

\* The manual cycle says that it traded only when its own order is in the history.
THEOREM ReportSoundCorrect == Spec => []ReportSound
  <1>1. Init => ReportInv
    BY DEF Init, ReportInv, ExecKnown, PlacedByOwner, ReportedWhenReplied, ReportSound, AiOrders,
       Idle, Proc, Decided
  <1>2. TypeInv /\ SpendInv /\ ReportInv /\ [Next]_vars => ReportInv'
    BY ReportStep
  <1>3. ReportInv => ReportSound
    BY DEF ReportInv
  <1>4. QED
    BY <1>1, <1>2, <1>3, TypeCorrect, Spending, PTL DEF Spec

-----------------------------------------------------------------------------
(* What the job sold, it does not trade again *)

\* The job trades only while nothing it still has to process is sold, and its
\* check precedes all its AI orders.
JobInv ==
    /\ cyc[Sched].at = "idle" => sold = {}
    /\ cyc[Sched].at \in RiskStages \cup {"watch"} =>
          \A i \in AiOrders : i > jobFrom => orders[i].proc # Sched
    /\ cyc[Sched].at \in CycleStages \cup {"next"} => todo \cap sold = {}
    /\ cyc[Sched].at \in CycleStages => cyc[Sched].sym \notin sold
    /\ cyc[Sched].at \notin {"reply", "replied"}
    /\ LiquidatedNotRetraded

\* A new AI order is of the actor that moves.
LEMMA NewAiOrder ==
    ASSUME TypeInv, [Next]_vars, NEW i \in AiOrders', i \notin AiOrders
    PROVE  \E p \in Proc : /\ Orders(p)
                           /\ i = Len(orders) + 1
                           /\ orders'[i].proc = p
                           /\ orders'[i].sym = cyc[p].sym
                           /\ cyc'[p] # cyc[p]
  <1>1. PICK p \in Proc : Orders(p)
    BY StepShapes DEF Quiet, Saves, AiOrders
  <1>2. i = Len(orders) + 1
    BY <1>1 DEF Orders, AiOrders, Grows
  <1>3. orders'[i].proc = p /\ orders'[i].sym = cyc[p].sym
    BY <1>1, <1>2 DEF Orders, AiOrder
  <1>4. cyc'[p].at # cyc[p].at
    BY <1>1 DEF Orders
  <1>5. QED
    BY <1>1, <1>2, <1>3, <1>4

\* An AI order that is not new is as it was.
LEMMA OldAiOrder ==
    ASSUME TypeInv, [Next]_vars, NEW i \in AiOrders
    PROVE  i \in Nat /\ i <= Len(orders) /\ orders'[i] = orders[i]
  <1>1. Grows
    BY StepShapes DEF Quiet, Saves, Orders
  <1>2. QED
    BY <1>1 DEF Grows, AiOrders

\* Only the job and a restart change the variables of the job.
LEMMA JobUntouched ==
    ASSUME UNCHANGED vars \/ OperatorStep \/ \E p \in Manual : ManualStep(p)
    PROVE  job' = job
  <1>1. ASSUME NEW p, CycleStep(p) \/ Reply(p) \/ \E s \in Symbols : Request(p, s)
        PROVE  job' = job
    BY <1>1 DEF CycleStep, AnalysisSaved, AnalysisFails, Admit, Decline, PortfolioMode,
       PortfolioHoldings, PortfolioFails, ReadMode, Gate, GateRefuses, Unlock, Locked,
       PrecheckApproves, PrecheckHolds, CheckRaises, LiveOrder, PaperRead, Skip, PaperFill,
       Record, Unresolved, RolledBack, Request, Reply
  <1>2. QED
    BY <1>1 DEF vars, ManualStep, OperatorStep, StartBot, StopBot, SetMode, SetLiveBuy,
       SetShadow, LiquidationStops, LiquidationReads, LiquidationEnds, LiquidationSells,
       LiquidationSaleFails

LEMMA CycleKeepsJob ==
    ASSUME NEW p, CycleStep(p)
    PROVE  job' = job
  BY DEF CycleStep, AnalysisSaved, AnalysisFails, Admit, Decline, PortfolioMode,
     PortfolioHoldings, PortfolioFails, ReadMode, Gate, GateRefuses, Unlock, Locked,
     PrecheckApproves, PrecheckHolds, CheckRaises, LiveOrder, PaperRead, Skip, PaperFill,
     Record, Unresolved, RolledBack

\* The five ways the job goes on.
LEMMA JobStages ==
    ASSUME TypeInv, JobOwn
    PROVE  \/ /\ cyc[Sched].at = "idle" /\ cyc'[Sched].at = "tpsl"
              /\ jobFrom' = Len(orders) /\ sold' = sold
           \/ /\ cyc[Sched].at \in RiskStages
              /\ cyc'[Sched].at \in RiskStages \cup {"watch"} /\ jobFrom' = jobFrom
           \/ /\ cyc[Sched].at = "watch" /\ cyc'[Sched].at = "next"
              /\ todo' = Watchlist \ sold /\ sold' = sold /\ jobFrom' = jobFrom
           \/ cyc'[Sched].at = "idle" /\ sold' = {} /\ jobFrom' = jobFrom
           \/ /\ cyc[Sched].at = "next" /\ cyc'[Sched].at = "analyzing"
              /\ cyc'[Sched].sym \in todo /\ todo' = todo \ {cyc'[Sched].sym}
              /\ sold' = sold /\ jobFrom' = jobFrom
  <1>1. cyc[Sched] \in Cycle /\ cyc \in [Proc -> Cycle] /\ Sched \in Proc
    BY DEF TypeInv, TypeOK, Proc
  <1>2. CASE StartJob
    BY <1>1, <1>2 DEF StartJob, GoTo, At, Cycle
  <1>3. CASE Watch
    BY <1>1, <1>3 DEF Watch, GoTo, At, Cycle, Remaining
  <1>4. CASE WatchFails \/ JobEnds
    <2>1. cyc' = [cyc EXCEPT ![Sched] = Idle] /\ sold' = {} /\ jobFrom' = jobFrom
      BY <1>4 DEF WatchFails, JobEnds
    <2>2. QED
      BY <1>1, <2>1 DEF Idle
  <1>5. CASE \E s \in Symbols : NextSymbol(s)
    BY <1>1, <1>5 DEF NextSymbol, At, Idle
  <1>6. ASSUME \/ RiskSkipped \/ RiskMode \/ RiskHoldings \/ RiskReadMode \/ RiskDone
               \/ RiskUnrecorded \/ RiskPaperFill \/ RiskRecord
               \/ \E s \in Symbols : RiskItemKept(s) \/ RiskPaperRead(s)
               \/ \E s \in Symbols, answered \in BOOLEAN : RiskLiveSell(s, answered)
        PROVE  /\ cyc[Sched].at \in RiskStages
               /\ cyc'[Sched].at \in RiskStages \cup {"watch"} /\ jobFrom' = jobFrom
    <2>1. cyc[Sched].at \in RiskStages /\ jobFrom' = jobFrom
      BY <1>6 DEF RiskSkipped, RiskMode, RiskHoldings, RiskReadMode, RiskDone, RiskUnrecorded,
         RiskPaperFill, RiskRecord, RiskItemKept, RiskPaperRead, RiskLiveSell, At, RiskStages,
         job
    <2>2. CASE RiskSkipped \/ RiskDone
      <3>1. cyc' = [cyc EXCEPT ![Sched] = [Idle EXCEPT !.at = "watch"]]
        BY <2>2 DEF RiskSkipped, RiskDone
      <3>2. QED
        BY <1>1, <2>1, <3>1 DEF Idle
    <2>3. CASE RiskMode \/ RiskReadMode
      BY <1>1, <2>1, <2>3 DEF RiskMode, RiskReadMode, Cycle, RiskStages
    <2>4. CASE RiskHoldings
      <3>1. PICK b : cyc' = [cyc EXCEPT ![Sched].at = "tpmode", ![Sched].priced = b,
                                        ![Sched].snap = held[cyc[Sched].smode]]
        BY <2>4 DEF RiskHoldings
      <3>2. QED
        BY <1>1, <2>1, <3>1 DEF Cycle, RiskStages
    <2>5. CASE RiskUnrecorded \/ RiskPaperFill \/ RiskRecord
      <3>1. cyc' = NextItem
        BY <2>5 DEF RiskUnrecorded, RiskPaperFill, RiskRecord
      <3>2. QED
        BY <1>1, <2>1, <3>1 DEF NextItem, Cycle, RiskStages
    <2>6. CASE \E s \in Symbols : RiskItemKept(s)
      BY <1>1, <2>1, <2>6 DEF RiskItemKept, Cycle, RiskStages
    <2>7. CASE \E s \in Symbols : RiskPaperRead(s)
      BY <1>1, <2>1, <2>7 DEF RiskPaperRead, Cycle, RiskStages
    <2>8. CASE \E s \in Symbols, answered \in BOOLEAN : RiskLiveSell(s, answered)
      <3>1. PICK s \in Symbols, answered \in BOOLEAN : RiskLiveSell(s, answered)
        BY <2>8
      <3> DEFINE i == Len(orders) + 1
      <3>2. cyc' = IF answered
                THEN [cyc EXCEPT ![Sched].at = "tprecord", ![Sched].snap = @ \ {s},
                                 ![Sched].sym = s, ![Sched].ord = i]
                ELSE [cyc EXCEPT ![Sched].snap = @ \ {s}]
        BY <3>1 DEF RiskLiveSell
      <3> HIDE DEF i
      <3>3. cyc'[Sched].at \in {cyc[Sched].at, "tprecord"}
        BY <1>1, <3>2 DEF Cycle
      <3>4. QED
        BY <2>1, <3>3 DEF RiskStages
    <2>9. QED
      BY <1>6, <2>2, <2>3, <2>4, <2>5, <2>6, <2>7, <2>8
  <1>7. QED
    BY <1>2, <1>3, <1>4, <1>5, <1>6 DEF JobOwn

LEMMA JobInvStep ==
    ASSUME TypeInv, JobInv, [Next]_vars
    PROVE  JobInv'
  <1>1. /\ Sched \in Proc /\ TypeOK /\ Sched \notin Manual
        /\ jobFrom \in Nat /\ Len(orders) \in Nat /\ cyc[Sched].at \in Stages
    BY NamesAssumption DEF TypeInv, TypeOK, Proc, Cycle
  <1>2. ASSUME UNCHANGED vars \/ OperatorStep \/ \E p \in Manual : ManualStep(p)
        PROVE  JobInv'
    <2>1. job' = job
      BY <1>2, JobUntouched
    <2>2. cyc'[Sched] = cyc[Sched]
      <3>1. CASE UNCHANGED vars \/ OperatorStep
        BY <3>1 DEF vars, OperatorStep, StartBot, StopBot, SetMode, SetLiveBuy, SetShadow,
           LiquidationStops, LiquidationReads, LiquidationEnds, LiquidationSells,
           LiquidationSaleFails
      <3>2. CASE \E p \in Manual : ManualStep(p)
        <4>1. PICK p \in Manual : CycleStep(p) \/ ManualOwn(p)
          BY <3>2 DEF ManualStep, ManualOwn
        <4>2. p \in Proc /\ p # Sched
          BY <1>1 DEF Proc
        <4>3. QED
          BY <1>1, <4>1, <4>2, CycleMoves, ManualFields
      <3>3. QED
        BY <1>2, <3>1, <3>2
    <2>3. \A i \in AiOrders' : i \in AiOrders \/ orders'[i].proc # Sched
      BY <2>2, NewAiOrder
    <2>4. QED
      BY <2>1, <2>2, <2>3, OldAiOrder DEF JobInv, LiquidatedNotRetraded, job
  <1>3. CASE CycleStep(Sched)
    <2>1. job' = job /\ cyc[Sched].at \in CycleStages
      BY <1>1, <1>3, CycleKeepsJob, CycleMoves
    <2>2. \/ cyc'[Sched].at \in CycleStages /\ cyc'[Sched].sym = cyc[Sched].sym
          \/ cyc'[Sched].at = "next"
      <3>1. CASE Checks(Sched)
        BY <1>1, <3>1, CheckFields DEF CycleStages
      <3>2. CASE Return(Sched) \/ Raise(Sched)
        BY <1>1, <3>2, ReturnFields, RaiseFields
      <3>3. QED
        BY <1>1, <1>3, <3>1, <3>2, CycleMoves DEF CycleStages
    <2>3. \A i \in AiOrders' : \/ i \in AiOrders
                               \/ orders'[i].proc # Sched
                               \/ orders'[i].sym = cyc[Sched].sym
      BY NewAiOrder
    <2>4. cyc[Sched].sym \notin sold /\ todo \cap sold = {}
      BY <2>1 DEF JobInv
    <2>5. LiquidatedNotRetraded'
      BY <2>1, <2>3, <2>4, OldAiOrder DEF JobInv, LiquidatedNotRetraded, job
    <2>6. QED
      BY <2>1, <2>2, <2>4, <2>5 DEF JobInv, job, CycleStages, RiskStages
  <1>4. CASE JobOwn
    <2>1. \A i \in AiOrders' : i \in AiOrders
      BY <1>4, JobStepsQuiet DEF JobOwn, Quiet
    <2>2. CASE /\ cyc[Sched].at = "idle" /\ cyc'[Sched].at = "tpsl"
               /\ jobFrom' = Len(orders) /\ sold' = sold
      BY <1>1, <2>1, <2>2, OldAiOrder DEF JobInv, LiquidatedNotRetraded, CycleStages, RiskStages
    <2>3. CASE /\ cyc[Sched].at \in RiskStages
               /\ cyc'[Sched].at \in RiskStages \cup {"watch"} /\ jobFrom' = jobFrom
      <3>1. \A i \in AiOrders' : i > jobFrom' => orders'[i].proc # Sched
        BY <2>1, <2>3, OldAiOrder DEF JobInv
      <3>2. QED
        BY <2>3, <3>1 DEF JobInv, LiquidatedNotRetraded, CycleStages, RiskStages
    <2>4. CASE /\ cyc[Sched].at = "watch" /\ cyc'[Sched].at = "next"
               /\ todo' = Watchlist \ sold /\ sold' = sold /\ jobFrom' = jobFrom
      BY <2>1, <2>4, OldAiOrder DEF JobInv, LiquidatedNotRetraded, CycleStages, RiskStages
    <2>5. CASE cyc'[Sched].at = "idle" /\ sold' = {} /\ jobFrom' = jobFrom
      BY <2>5 DEF JobInv, LiquidatedNotRetraded, CycleStages, RiskStages
    <2>6. CASE /\ cyc[Sched].at = "next" /\ cyc'[Sched].at = "analyzing"
               /\ cyc'[Sched].sym \in todo /\ todo' = todo \ {cyc'[Sched].sym}
               /\ sold' = sold /\ jobFrom' = jobFrom
      BY <2>1, <2>6, OldAiOrder DEF JobInv, LiquidatedNotRetraded, CycleStages, RiskStages
    <2>7. QED
      BY <1>4, <2>2, <2>3, <2>4, <2>5, <2>6, JobStages
  <1>5. CASE Crash
    <2>1. sold' = {} /\ cyc'[Sched].at = "idle"
      BY <1>1, <1>5 DEF Crash, Idle
    <2>2. QED
      BY <2>1 DEF JobInv, LiquidatedNotRetraded, CycleStages, RiskStages
  <1>6. QED
    BY <1>2, <1>3, <1>4, <1>5 DEF Next, JobStep, JobOwn

\* run_ai_trade_cycle leaves out of its watchlist what its take-profit / stop-loss
\* check has just liquidated.
THEOREM LiquidatedNotRetradedCorrect == Spec => []LiquidatedNotRetraded
  <1>1. Init => JobInv
    BY DEF Init, JobInv, LiquidatedNotRetraded, AiOrders, Idle, Proc, RiskStages, CycleStages
  <1>2. TypeInv /\ JobInv /\ [Next]_vars => JobInv'
    BY JobInvStep
  <1>3. JobInv => LiquidatedNotRetraded
    BY DEF JobInv
  <1>4. QED
    BY <1>1, <1>2, <1>3, TypeCorrect, PTL DEF Spec

-----------------------------------------------------------------------------
(* The cap on positions *)

\* An actor that may still open a position, or write back one that it has read.
Opening(p) ==
    \/ /\ cyc[p].at \in {"mode", "gate", "lock", "precheck", "order", "fill"}
       /\ Analysis(p).dec = "BUY"
       /\ WithinCap(p)
    \/ cyc[p].at = "fill" /\ Analysis(p).dec = "SELL"

Openers == {p \in Proc : Opening(p)}
Wanted == {cyc[p].sym : p \in Openers}

\* The positions held, and those that the actors may open without looking again.
Reach(m) == held[m] \cup Wanted

\* A BUY past the gate is within the cap, on the portfolio that it was decided on.
CapChecked ==
    \A p \in Proc :
        (/\ cyc[p].at \in {"lock", "precheck", "order", "fill"}
         /\ Analysis(p).dec = "BUY") => WithinCap(p)

CapInv(m) ==
    /\ CapChecked
    /\ Cardinality(Reach(m)) + 1 <= MaxPositions + Cardinality(Proc)

\* Finitely many symbols and requests, one mode, and prices that are always there.
OnePricedMode(m) ==
    /\ IsFiniteSet(Symbols)
    /\ IsFiniteSet(Manual)
    /\ Modes = {m}
    /\ "outage" \notin Environment

\* The image of a finite set has no more elements than the set.
LEMMA ImageBound ==
    ASSUME NEW A, IsFiniteSet(A), NEW f \in [A -> Symbols]
    PROVE  /\ IsFiniteSet({f[x] : x \in A})
           /\ Cardinality({f[x] : x \in A}) <= Cardinality(A)
  <1> DEFINE T == {f[x] : x \in A}
  <1>1. f \in [A -> T] /\ \A t \in T : \E x \in A : f[x] = t
    OBVIOUS
  <1>2. f \in Surjection(A, T)
    BY <1>1 DEF Surjection
  <1>3. QED
    BY <1>2, FS_Surjection

\* An analysis that is held decides what it decided.
LEMMA DecisionStays ==
    ASSUME TypeInv, [Next]_vars, NEW p \in Proc, cyc[p].at \in Checked,
           cyc'[p].log = cyc[p].log
    PROVE  Analysis(p)' = Analysis(p) /\ Analysis(p).dec \in {"BUY", "SELL"}
  <1>1. Grows
    BY StepShapes DEF Quiet, Saves, Orders
  <1>2. cyc[p].log \in 1..Len(logs) /\ logs[cyc[p].log].dec \in {"BUY", "SELL"}
    BY DEF TypeInv, StageOK, Stage, Checked, Analysed, CycleStages
  <1>3. QED
    BY <1>1, <1>2 DEF Analysis, Grows

\* The cap is decided on the symbol and the portfolio of the cycle.
LEMMA SameWithinCap ==
    ASSUME NEW p, cyc'[p].sym = cyc[p].sym, cyc'[p].snap = cyc[p].snap,
           cyc'[p].priced = cyc[p].priced
    PROVE  WithinCap(p)' = WithinCap(p)
  BY DEF WithinCap, Active

LEMMA CapCheckedStep ==
    ASSUME TypeInv, CapChecked, [Next]_vars
    PROVE  CapChecked'
  <1> SUFFICES ASSUME NEW p \in Proc, cyc'[p].at \in {"lock", "precheck", "order", "fill"},
                      Analysis(p)'.dec = "BUY"
               PROVE  WithinCap(p)'
    BY DEF CapChecked
  <1>1. TypeOK
    BY DEF TypeInv
  <1>2. CASE cyc'[p] = cyc[p]
    <2>1. Analysis(p).dec = "BUY"
      BY <1>2, DecisionStays DEF Checked, CycleStages
    <2>2. QED
      BY <1>2, <2>1, SameWithinCap DEF CapChecked
  <1>3. CASE Checks(p)
    <2>1. cyc'[p].log = cyc[p].log /\ cyc'[p].sym = cyc[p].sym
      BY <1>3, CheckFields
    <2>2. cyc[p].at \in {"mode", "gate", "lock", "precheck", "order"}
      BY <1>3, CheckFields
    <2>3. Analysis(p).dec = "BUY"
      BY <2>1, <2>2, DecisionStays DEF Checked, CycleStages
    <2>4. cyc[p].at # "mode" /\ cyc'[p].snap = cyc[p].snap /\ cyc'[p].priced = cyc[p].priced
      <3>1. cyc[p].at # "mode"
        BY <1>3, <2>3, CheckFields
      <3>2. cyc[p] \in Cycle
        BY <1>1 DEF TypeOK
      <3>3. QED
        BY <1>3, <2>2, <3>1, <3>2, CheckFields DEF Cycle
    <2>5. CASE Gate(p)
      BY <2>1, <2>4, <2>5, SameWithinCap DEF Gate
    <2>6. CASE cyc[p].at \in {"lock", "precheck", "order"}
      BY <2>1, <2>3, <2>4, <2>6, SameWithinCap DEF CapChecked
    <2>7. QED
      BY <1>3, <2>2, <2>4, <2>5, <2>6, CheckFields
  <1>4. CASE CycleStep(p) /\ ~Checks(p)
    BY <1>1, <1>4, CycleMoves, ReturnFields, RaiseFields
  <1>5. CASE p \in Manual /\ ManualOwn(p)
    BY <1>5, ManualFields
  <1>6. CASE p = Sched /\ JobOwn
    BY <1>6, JobStepsMove DEF JobOwn, CycleStages
  <1>7. CASE cyc'[p] = Idle
    BY <1>7 DEF Idle
  <1>8. QED
    BY <1>2, <1>3, <1>4, <1>5, <1>6, <1>7, WhoMoves

\* Whoever may open a position could already, opens one that is held, or has just
\* read a portfolio with room.
LEMMA OpenersStep ==
    ASSUME TypeInv, CapChecked, [Next]_vars, NEW m, OnePricedMode(m), NEW p \in Openers'
    PROVE  \/ p \in Openers /\ cyc'[p].sym = cyc[p].sym
           \/ cyc'[p].sym \in held[m]
           \/ PortfolioHoldings(p) /\ Cardinality(held[m]) < MaxPositions
  <1>1. TypeOK /\ p \in Proc /\ Stage(p) /\ Opening(p)'
    BY DEF TypeInv, StageOK, Openers
  <1> USE DEF Openers
  <1>2. CASE cyc'[p] = cyc[p]
    <2>1. Analysis(p)' = Analysis(p)
      BY <1>1, <1>2, DecisionStays DEF Opening, Checked, CycleStages
    <2>2. QED
      BY <1>1, <1>2, <2>1, SameWithinCap DEF Opening
  <1>3. CASE Checks(p)
    <2>1. cyc'[p].log = cyc[p].log /\ cyc'[p].sym = cyc[p].sym
      BY <1>1, <1>3, CheckFields
    <2>2. cyc'[p].at \in {"mode", "gate", "lock", "precheck", "order", "fill"}
      BY <1>1 DEF Opening
    <2>3. cyc[p].at \in {"holdings", "mode", "gate", "lock", "precheck", "order"}
      BY <1>1, <1>3, <2>2, CheckFields
    <2>4. Analysis(p)' = Analysis(p) /\ Analysis(p).dec \in {"BUY", "SELL"}
      BY <1>1, <2>1, <2>3, DecisionStays DEF Checked, CycleStages
    <2>5. CASE cyc[p].at = "holdings"
      <3>1. /\ PortfolioHoldings(p) /\ cyc'[p].snap = held[cyc[p].smode]
            /\ cyc'[p].priced \in Priced(held[cyc[p].smode]) /\ cyc'[p].at = "mode"
        BY <1>1, <1>3, <2>2, <2>5, CheckFields
      <3>2. cyc[p].smode = m /\ cyc'[p].priced = TRUE
        BY <1>1, <2>5, <3>1 DEF Stage, OnePricedMode, Priced
      <3>3. WithinCap(p)'
        BY <1>1, <3>1 DEF Opening
      <3>4. QED
        BY <3>1, <3>2, <3>3 DEF WithinCap, Active
    <2>6. CASE cyc[p].at = "mode"
      <3>1. /\ cyc'[p].at = IF Analysis(p).dec = "BUY" THEN "gate" ELSE "order"
            /\ cyc'[p].snap = cyc[p].snap /\ cyc'[p].priced = cyc[p].priced
        BY <1>1, <1>3, <2>2, <2>6, CheckFields
      <3>2. Analysis(p).dec = "BUY" /\ WithinCap(p)'
        BY <1>1, <2>4, <3>1 DEF Opening
      <3>3. WithinCap(p)
        BY <2>1, <3>1, <3>2, SameWithinCap
      <3>4. QED
        BY <1>1, <2>1, <2>6, <3>2, <3>3 DEF Opening
    <2>7. CASE cyc[p].at \in {"gate", "lock", "precheck"}
      <3>1. /\ cyc'[p].at # "fill"
            /\ cyc'[p].snap = cyc[p].snap /\ cyc'[p].priced = cyc[p].priced
        BY <1>1, <1>3, <2>2, <2>7, CheckFields DEF TypeOK, Cycle
      <3>2. QED
        BY <1>1, <2>1, <2>4, <2>7, <3>1, SameWithinCap DEF Opening
    <2>8. CASE cyc[p].at = "order"
      <3>1. PaperRead(p)
        BY <1>1, <1>3, <2>2, <2>8, CheckFields
      <3>2. CASE Analysis(p).dec = "BUY"
        BY <1>1, <2>1, <2>8, <3>2 DEF CapChecked, Opening
      <3>3. CASE Analysis(p).dec = "SELL"
        <4>1. "paper" = m
          BY <1>1, <2>8, <3>1 DEF PaperRead, OnePricedMode, Stage, Decided
        <4>2. QED
          BY <2>1, <3>1, <3>3, <4>1 DEF PaperRead
      <3>4. QED
        BY <2>4, <3>2, <3>3
    <2>9. QED
      BY <2>3, <2>5, <2>6, <2>7, <2>8
  <1>4. CASE CycleStep(p) /\ ~Checks(p)
    BY <1>1, <1>4, CycleMoves, ReturnFields, RaiseFields DEF Opening
  <1>5. CASE p \in Manual /\ ManualOwn(p)
    BY <1>1, <1>5, ManualFields DEF Opening
  <1>6. CASE p = Sched /\ JobOwn
    BY <1>1, <1>6, JobStepsMove DEF JobOwn, CycleStages, Opening
  <1>7. CASE cyc'[p] = Idle
    BY <1>1, <1>7 DEF Idle, Opening
  <1>8. QED
    BY <1>1, <1>2, <1>3, <1>4, <1>5, <1>6, <1>7, WhoMoves

\* A sale of all of a position opens none, and any order opens at most its own.
LEMMA HeldAfterBound ==
    ASSUME held \in [Modes -> SUBSET Symbols], NEW m \in Modes, NEW x, NEW s,
           NEW side, NEW full \in BOOLEAN
    PROVE  /\ HeldAfter(x, s, side, full)[m] \subseteq held[m] \cup {s}
           /\ (side = "SELL" /\ (full \/ x = "live")) =>
                 HeldAfter(x, s, side, full)[m] \subseteq held[m]
  BY DEF HeldAfter

\* Every position held after a step was in reach before it.
LEMMA HeldStep ==
    ASSUME TypeInv, CapChecked, [Next]_vars, NEW m, OnePricedMode(m)
    PROVE  held'[m] \subseteq Reach(m)
  <1>1. /\ held \in [Modes -> SUBSET Symbols] /\ m \in Modes /\ StageOK
        /\ \A p \in Openers : cyc[p].sym \in Reach(m)
        /\ held[m] \subseteq Reach(m)
    BY DEF TypeInv, TypeOK, OnePricedMode, Reach, Wanted
  <1>2. ASSUME NEW p \in Proc, NEW full \in BOOLEAN, NEW answered \in BOOLEAN,
               LiveOrder(p, full, answered)
        PROVE  held'[m] \subseteq Reach(m)
    <2>1. /\ held' = HeldAfter("live", cyc[p].sym, Analysis(p).dec, full)
          /\ cyc[p].at = "order"
      BY <1>2 DEF LiveOrder, At
    <2>2. Analysis(p).dec \in {"BUY", "SELL"}
      BY <1>1, <2>1 DEF StageOK, Stage, Analysis, Checked, CycleStages
    <2>3. Analysis(p).dec = "BUY" => p \in Openers
      BY <2>1 DEF CapChecked, Openers, Opening
    <2>4. QED
      BY <1>1, <2>1, <2>2, <2>3, HeldAfterBound
  <1>3. ASSUME NEW p \in Proc, NEW full \in BOOLEAN, PaperFill(p, full)
        PROVE  held'[m] \subseteq Reach(m)
    <2>1. /\ held' = HeldAfter("paper", cyc[p].sym, Analysis(p).dec, full)
          /\ cyc[p].at = "fill"
      BY <1>3 DEF PaperFill, At
    <2>2. Analysis(p).dec \in {"BUY", "SELL"}
      BY <1>1, <2>1 DEF StageOK, Stage, Analysis, Checked, CycleStages
    <2>3. p \in Openers
      BY <2>1, <2>2 DEF CapChecked, Openers, Opening
    <2>4. QED
      BY <1>1, <2>1, <2>3, HeldAfterBound
  <1>4. ASSUME NEW x, NEW s, held' = HeldAfter(x, s, "SELL", TRUE)
        PROVE  held'[m] \subseteq Reach(m)
    BY <1>1, <1>4, HeldAfterBound
  <1>5. ASSUME held' = held
        PROVE  held'[m] \subseteq Reach(m)
    BY <1>1, <1>5
  <1>6. ASSUME NEW p \in Proc, CycleStep(p)
        PROVE  held'[m] \subseteq Reach(m)
    BY <1>2, <1>3, <1>5, <1>6 DEF CycleStep, AnalysisSaved, AnalysisFails, Admit, Decline,
       PortfolioMode, PortfolioHoldings, PortfolioFails, ReadMode, Gate, GateRefuses, Unlock,
       Locked, PrecheckApproves, PrecheckHolds, CheckRaises, PaperRead, Skip, Record,
       Unresolved, RolledBack, market
  <1>7. ASSUME NEW p \in Manual, ManualStep(p)
        PROVE  held'[m] \subseteq Reach(m)
    BY <1>5, <1>6, <1>7 DEF ManualStep, Request, Reply, market, Proc
  <1>8. CASE StartJob \/ JobStep
    BY <1>4, <1>5, <1>6, <1>8 DEF JobStep, StartJob, Watch, WatchFails, JobEnds, RiskSkipped,
       RiskMode, RiskHoldings, RiskReadMode, RiskDone, RiskUnrecorded, RiskPaperFill, RiskRecord,
       NextSymbol, RiskItemKept, RiskPaperRead, RiskLiveSell, market, Proc
  <1>9. CASE UNCHANGED vars \/ OperatorStep \/ Crash
    BY <1>4, <1>5, <1>9 DEF vars, OperatorStep, StartBot, StopBot, SetMode, SetLiveBuy,
       SetShadow, LiquidationStops, LiquidationReads, LiquidationEnds, LiquidationSells,
       LiquidationSaleFails, Crash, market
  <1>10. QED
    BY <1>7, <1>8, <1>9 DEF Next

\* The sizes that the bound is made of.
ReachSized(m) ==
    /\ IsFiniteSet(Reach(m))
    /\ Cardinality(held[m]) \in Nat /\ Cardinality(Reach(m)) \in Nat
    /\ Cardinality(Proc) \in Nat
    /\ Cardinality(held[m]) <= Cardinality(Reach(m))
    /\ Cardinality(Reach(m)) <= Cardinality(held[m]) + Cardinality(Proc)

LEMMA ReachSizes ==
    ASSUME TypeInv, NEW m, OnePricedMode(m)
    PROVE  ReachSized(m)
  <1>1. IsFiniteSet(held[m])
    BY FS_Subset DEF TypeInv, TypeOK, OnePricedMode
  <1>2. IsFiniteSet(Proc)
    BY FS_AddElement DEF Proc, OnePricedMode
  <1>3. IsFiniteSet(Openers) /\ Cardinality(Openers) <= Cardinality(Proc)
    BY <1>2, FS_Subset DEF Openers
  <1>4. IsFiniteSet(Wanted) /\ Cardinality(Wanted) <= Cardinality(Openers)
    <2> DEFINE f == [p \in Openers |-> cyc[p].sym]
    <2>1. \A p \in Openers : cyc[p].sym \in Symbols
      BY DEF Openers, Opening, TypeInv, StageOK, Stage, CycleStages
    <2>2. f \in [Openers -> Symbols]
      BY <2>1
    <2>3. {f[p] : p \in Openers} = Wanted
      BY DEF Wanted
    <2> HIDE DEF f
    <2>4. QED
      BY <1>3, <2>2, <2>3, ImageBound
  <1>5. /\ IsFiniteSet(Reach(m))
        /\ Cardinality(Reach(m)) = Cardinality(held[m]) + Cardinality(Wanted)
                                      - Cardinality(held[m] \cap Wanted)
    BY <1>1, <1>4, FS_Union DEF Reach
  <1>6. Cardinality(held[m] \cap Wanted) \in Nat
    BY <1>1, FS_Intersection, FS_CardinalityType
  <1>7. Cardinality(held[m]) <= Cardinality(Reach(m))
    BY <1>5, FS_Subset DEF Reach
  <1>8. /\ Cardinality(held[m]) \in Nat /\ Cardinality(Wanted) \in Nat
        /\ Cardinality(Openers) \in Nat /\ Cardinality(Proc) \in Nat
        /\ Cardinality(Reach(m)) \in Nat
    BY <1>1, <1>2, <1>3, <1>4, <1>5, FS_CardinalityType
  <1>9. QED
    BY <1>1, <1>3, <1>4, <1>5, <1>6, <1>7, <1>8 DEF ReachSized

LEMMA CapStep ==
    ASSUME TypeInv, NEW m, OnePricedMode(m), ReachSized(m), ReachSized(m)', CapInv(m),
           [Next]_vars
    PROVE  CapInv(m)'
  <1>1. CapChecked'
    BY CapCheckedStep DEF CapInv
  <1>2. /\ IsFiniteSet(Reach(m)) /\ Cardinality(Reach(m)) \in Nat /\ Cardinality(Proc) \in Nat
        /\ Cardinality(Reach(m)) + 1 <= MaxPositions + Cardinality(Proc)
    BY DEF CapInv, ReachSized
  <1>3. /\ Cardinality(held'[m]) \in Nat /\ Cardinality(Reach(m)') \in Nat
        /\ Cardinality(Reach(m)') <= Cardinality(held'[m]) + Cardinality(Proc)
    BY DEF ReachSized
  <1>4. CASE \E p \in Proc : PortfolioHoldings(p) /\ Cardinality(held[m]) < MaxPositions
    <2>1. held' = held
      BY <1>4 DEF PortfolioHoldings, market
    <2>2. Cardinality(Reach(m)') + 1 <= MaxPositions + Cardinality(Proc)
      BY <1>2, <1>3, <1>4, <2>1, NumbersAssumption
    <2>3. QED
      BY <1>1, <2>2 DEF CapInv
  <1>5. CASE ~\E p \in Proc : PortfolioHoldings(p) /\ Cardinality(held[m]) < MaxPositions
    <2>1. \A p \in Openers' : cyc'[p].sym \in Reach(m)
      BY <1>5, OpenersStep DEF CapInv, Reach, Wanted, Openers
    <2>2. Reach(m)' \subseteq Reach(m)
      BY <2>1, HeldStep DEF CapInv, Reach, Wanted
    <2>3. Cardinality(Reach(m)') <= Cardinality(Reach(m))
      BY <1>2, <2>2, FS_Subset
    <2>4. Cardinality(Reach(m)') + 1 <= MaxPositions + Cardinality(Proc)
      BY <1>2, <1>3, <2>3, NumbersAssumption
    <2>5. QED
      BY <1>1, <2>4 DEF CapInv
  <1>6. QED
    BY <1>4, <1>5

LEMMA CapInit ==
    ASSUME Init, NEW m, OnePricedMode(m)
    PROVE  CapInv(m)
  <1>1. Openers = {} /\ CapChecked
    BY DEF Init, Idle, Openers, Opening, CapChecked
  <1>2. Reach(m) = held[m]
    BY <1>1 DEF Reach, Wanted
  <1>3. Cardinality(held[m]) <= MaxPositions /\ IsFiniteSet(held[m])
    BY FS_Subset DEF Init, OnePricedMode
  <1>4. Cardinality(Proc) \in Nat /\ Cardinality(Proc) >= 1
    <2>1. Sched \notin Manual /\ IsFiniteSet(Manual)
      BY NamesAssumption DEF OnePricedMode
    <2>2. Cardinality(Proc) = Cardinality(Manual) + 1 /\ Cardinality(Manual) \in Nat
      BY <2>1, FS_AddElement, FS_CardinalityType DEF Proc
    <2>3. QED
      BY <2>2
  <1>5. Cardinality(held[m]) \in Nat
    BY <1>3, FS_CardinalityType
  <1>6. QED
    BY <1>1, <1>2, <1>3, <1>4, <1>5, NumbersAssumption DEF CapInv

\* The entry gate decides on a portfolio that may be stale: with prices there, and
\* one mode in use, each actor beside the first can push one position past the cap.
THEOREM CapOvershootCorrect ==
    ASSUME NEW m, OnePricedMode(m)
    PROVE  Spec => []CapOvershoot
  <1>1. Init => CapInv(m)
    BY CapInit
  <1>a. TypeInv => ReachSized(m)
    BY ReachSizes
  <1>2. TypeInv /\ ReachSized(m) /\ ReachSized(m)' /\ CapInv(m) /\ [Next]_vars => CapInv(m)'
    BY CapStep
  <1>3. TypeInv /\ CapInv(m) => CapOvershoot
    <2> SUFFICES ASSUME TypeInv, CapInv(m) PROVE CapOvershoot
      OBVIOUS
    <2>1. Cardinality(held[m]) + 1 <= MaxPositions + Cardinality(Proc)
      BY ReachSizes, NumbersAssumption DEF CapInv, ReachSized
    <2>2. QED
      BY <2>1 DEF CapOvershoot, OnePricedMode
  <1>4. QED
    BY <1>1, <1>a, <1>2, <1>3, TypeCorrect, PTL DEF Spec

=============================================================================
