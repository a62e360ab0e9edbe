------------------------- MODULE PaperLedgerProofs -------------------------
(***************************************************************************)
(* Proofs about PaperLedger, for every value of its constants.             *)
(***************************************************************************)
EXTENDS PaperLedger, TLAPS

-----------------------------------------------------------------------------
(* The inductive invariant *)

\* Ids are handed out once, and an absent row holds nothing.
RowsKnown ==
    \A i \in Ids : /\ rows[i].sym = NoSymbol => rows[i].qty = 0
                   /\ rows[i].sym # NoSymbol => i <= next

\* What a session that nobody has overtaken holds, before and after it changed the
\* objects it loaded.
Loaded(w) ==
    (/\ ses[w].fresh
     /\ ses[w].at = "cash" \/ (ses[w].at = "items" /\ ses[w].cached)) => ses[w].cash = cash

Changed(w) ==
    (ses[w].fresh /\ ses[w].at = "ready") =>
        \/ /\ ses[w].side = "BUY"
           /\ \E n \in 1..cash : /\ ses[w].cash = cash - n
                                 /\ ses[w].qty = rows[ses[w].row].qty + n
        \/ /\ ses[w].side = "SELL"
           /\ \E k \in 1..rows[ses[w].row].qty :
                 /\ ses[w].cash = cash + k
                 /\ ses[w].qty = rows[ses[w].row].qty - k

\* The locals of a session.
Session(w) ==
    /\ ses[w].at \in {"cash", "ready"} => ses[w].sym \in Symbols
    /\ ses[w].at = "cash" => ses[w].amount > 0 /\ ~ses[w].mine
    /\ (ses[w].at = "cash" /\ ses[w].side = "BUY") => ses[w].amount <= ses[w].cash
    /\ ses[w].at = "ready" => ses[w].row \in Ids
    /\ w # Risk => ses[w].at # "items"
    /\ w = Risk => /\ ses[w].side = "SELL" /\ ~ses[w].mine
                   /\ ses[w].at = "idle" => ~ses[w].cached

\* A row that a session has inserted is its own, and the first of its symbol that
\* is its own.
Pending(w) == ses[w].at = "ready" /\ ses[w].mine
Inserted(w) ==
    Pending(w) =>
        /\ ses[w].row <= next
        /\ rows[ses[w].row].sym = NoSymbol
        /\ \A i \in RowsOf(ses[w].sym) : rows[i].by # w
        /\ \A v \in Sessions \ {w} : Pending(v) => ses[v].row # ses[w].row

SessionOK(w) == Session(w) /\ Loaded(w) /\ Changed(w) /\ Inserted(w)
SessionsOK == \A w \in Sessions : SessionOK(w)

\* What a reset that nobody has overtaken has deleted, and then loaded.
ResetOK ==
    (reset.at # "idle" /\ reset.fresh) =>
        /\ reset.ids = {i \in Ids : rows[i].sym # NoSymbol}
        /\ reset.at = "read" => reset.cash = cash

LInv == TypeOK /\ RowsKnown /\ SessionsOK /\ ResetOK /\ OneRowPerWriter

-----------------------------------------------------------------------------
(* Lemmas *)

\* The sets that the types are made of.
LEMMA Members ==
    /\ "idle" \in Stages /\ "items" \in Stages /\ "cash" \in Stages /\ "ready" \in Stages
    /\ "BUY" \in Sides /\ "SELL" \in Sides
    /\ Symbols \subseteq SymbolOrNone /\ NoSymbol \in SymbolOrNone
    /\ 0 \in Cash /\ 0 \in Qtys /\ 0 \in IdOrNone /\ Default \in Cash
    /\ Ids \subseteq IdOrNone
    /\ MaxQty \in Nat /\ 0 \in Nat
    /\ Risk \in Sessions /\ Writers \subseteq Sessions
  BY LedgerAssumption
     DEF Stages, Sides, SymbolOrNone, Cash, Qtys, IdOrNone, Ids, Sessions

\* A session with nothing loaded is well typed, and so is a row that is absent.
LEMMA ClosedTyped == Closed \in SessionType /\ NoRow \in RowType /\ NoReset \in ResetType
  BY Members DEF Closed, SessionType, NoRow, RowType, NoReset, ResetType

\* What a session holds is well typed.
LEMMA SessionTyped == ASSUME TypeOK, NEW w \in Sessions PROVE ses[w] \in SessionType
  BY DEF TypeOK

\* What becomes of a session that has committed, or was refused, is well typed.
LEMMA ReopenedTyped ==
    ASSUME TypeOK, NEW w \in Sessions, NEW c \in BOOLEAN
    PROVE  Reopened(w, c) \in SessionType
  <1> DEFINE n == IF c THEN ses[w].cash ELSE 0
             f == c /\ ses[w].fresh
  <1>1. n \in Cash /\ f \in BOOLEAN
    BY SessionTyped, Members DEF SessionType
  <1>2. Reopened(w, c) = IF w = Risk
                           THEN [Closed EXCEPT !.at = "items", !.cached = c, !.cash = n,
                                               !.fresh = f]
                           ELSE Closed
    BY DEF Reopened
  <1> HIDE DEF n, f
  <1>3. [Closed EXCEPT !.at = "items", !.cached = c, !.cash = n, !.fresh = f] \in SessionType
    BY <1>1, ClosedTyped, Members DEF SessionType
  <1>4. QED
    BY <1>2, <1>3, ClosedTyped

\* The check goes on with nothing but the cash object it holds.
LEMMA RiskReopened ==
    ASSUME NEW w, w = Risk, NEW c \in BOOLEAN, ses[w].fresh \in BOOLEAN
    PROVE  /\ Reopened(w, c).at = "items" /\ Reopened(w, c).side = "SELL"
           /\ Reopened(w, c).cached = c /\ ~Reopened(w, c).mine
           /\ c => /\ Reopened(w, c).cash = ses[w].cash
                   /\ Reopened(w, c).fresh = ses[w].fresh
  <1>1. Reopened(w, c) = [Closed EXCEPT !.at = "items", !.cached = c,
                                        !.cash = IF c THEN ses[w].cash ELSE 0,
                                        !.fresh = c /\ ses[w].fresh]
    BY DEF Reopened
  <1>2. QED
    BY <1>1 DEF Closed

\* A position that a SELECT finds is a committed one of the symbol.
LEMMA FirstFound ==
    ASSUME TypeOK, NEW s, NEW r \in First(s)
    PROVE  r \in Ids /\ r \in IdOrNone /\ rows[r].sym = s /\ rows[r].qty \in Qtys
  <1>1. r \in Ids /\ rows[r].sym = s
    BY DEF First, Found, RowsOf
  <1>2. rows[r] \in RowType
    BY <1>1 DEF TypeOK
  <1>3. QED
    BY <1>1, <1>2, Members DEF RowType

-----------------------------------------------------------------------------
(* Every step keeps the types *)

\* Loading.
LEMMA LoadTypes ==
    ASSUME TypeOK,
           \/ \E w \in Writers, side \in Sides, s \in Symbols, n \in Amounts :
                 LoadCash(w, side, s, n)
           \/ RiskBegins
           \/ RiskEnds
           \/ \E s \in Symbols : RiskItem(s)
    PROVE  TypeOK'
  <1>1. ASSUME NEW w \in Writers, NEW side \in Sides, NEW s \in Symbols, NEW n \in Amounts,
               LoadCash(w, side, s, n)
        PROVE  TypeOK'
    <2>1. cash \in Cash /\ n \in Nat
      BY LedgerAssumption DEF TypeOK
    <2>2. [Closed EXCEPT !.at = "cash", !.side = side, !.sym = s, !.amount = n,
                         !.cash = cash, !.fresh = TRUE] \in SessionType
      BY <2>1, ClosedTyped, Members DEF SessionType
    <2>3. QED
      BY <1>1, <2>2 DEF LoadCash, TypeOK
  <1>2. CASE RiskBegins
    <2>1. ses[Risk] \in SessionType
      BY Members DEF TypeOK
    <2>2. [ses[Risk] EXCEPT !.at = "items"] \in SessionType
      BY <2>1, Members DEF SessionType
    <2>3. QED
      BY <1>2, <2>2 DEF RiskBegins, TypeOK
  <1>3. CASE RiskEnds
    BY <1>3, ClosedTyped DEF RiskEnds, TypeOK
  <1>4. ASSUME NEW s \in Symbols, RiskItem(s) PROVE TypeOK'
    <2> DEFINE c == IF ses[Risk].cached THEN ses[Risk].cash ELSE cash
               f == ses[Risk].cached => ses[Risk].fresh
    <2>1. ses[Risk] \in SessionType
      BY Members DEF TypeOK
    <2>2. c \in Cash /\ f \in BOOLEAN
      BY <2>1 DEF SessionType, TypeOK
    <2>3. ses' = [ses EXCEPT ![Risk] =
                    [ses[Risk] EXCEPT !.at = "cash", !.sym = s, !.amount = MaxQty,
                                      !.cached = TRUE, !.cash = c, !.fresh = f]]
      BY <1>4 DEF RiskItem
    <2> HIDE DEF c, f
    <2>4. [ses[Risk] EXCEPT !.at = "cash", !.sym = s, !.amount = MaxQty, !.cached = TRUE,
                            !.cash = c, !.fresh = f] \in SessionType
      BY <2>1, <2>2, Members DEF SessionType
    <2>5. QED
      BY <1>4, <2>3, <2>4 DEF RiskItem, TypeOK
  <1>5. QED
    BY <1>1, <1>2, <1>3, <1>4

\* Changing what was loaded.
LEMMA ChangeTypes ==
    ASSUME TypeOK, NEW w \in Sessions, BuyMore(w) \/ BuyFirst(w) \/ Sell(w) \/ Skip(w)
    PROVE  TypeOK'
  <1>1. /\ ses[w] \in SessionType /\ ses[w].amount \in Nat /\ ses[w].cash \in Cash
        /\ ses[w].cached \in BOOLEAN
    BY DEF TypeOK, SessionType
  <1>2. CASE BuyMore(w)
    <2>1. PICK r \in First(ses[w].sym) :
             /\ rows[r].qty + ses[w].amount <= MaxQty
             /\ ses' = [ses EXCEPT ![w] =
                          [ses[w] EXCEPT !.at = "ready", !.row = r,
                                         !.qty = rows[r].qty + ses[w].amount,
                                         !.cash = Clip(ses[w].cash, ses[w].amount)]]
      BY <1>2 DEF BuyMore
    <2>2. r \in IdOrNone /\ rows[r].qty + ses[w].amount \in Qtys
      BY <1>1, <2>1, FirstFound, Members DEF Qtys
    <2>3. Clip(ses[w].cash, ses[w].amount) \in Cash
      BY <1>1, LedgerAssumption DEF Cash, Clip
    <2>4. [ses[w] EXCEPT !.at = "ready", !.row = r, !.qty = rows[r].qty + ses[w].amount,
                         !.cash = Clip(ses[w].cash, ses[w].amount)] \in SessionType
      BY <1>1, <2>2, <2>3, Members DEF SessionType
    <2>5. QED
      BY <1>2, <2>1, <2>4 DEF BuyMore, TypeOK
  <1>3. CASE BuyFirst(w)
    <2>1. next + 1 \in IdOrNone /\ ses[w].amount \in Qtys
      BY <1>1, <1>3, LedgerAssumption DEF BuyFirst, TypeOK, IdOrNone, Qtys
    <2>2. Clip(ses[w].cash, ses[w].amount) \in Cash
      BY <1>1, LedgerAssumption DEF Cash, Clip
    <2>3. [ses[w] EXCEPT !.at = "ready", !.row = next + 1, !.mine = TRUE,
                         !.qty = ses[w].amount, !.cash = Clip(ses[w].cash, ses[w].amount)]
            \in SessionType
      BY <1>1, <2>1, <2>2, Members DEF SessionType
    <2>4. QED
      BY <1>3, <2>1, <2>3 DEF BuyFirst, TypeOK
  <1>4. CASE Sell(w)
    <2>1. PICK r \in First(ses[w].sym) :
             LET k == Sold(ses[w].amount, rows[r].qty) IN
             /\ rows[r].qty > 0
             /\ ses[w].cash + k <= MaxCash
             /\ ses' = [ses EXCEPT ![w] =
                          [ses[w] EXCEPT !.at = "ready", !.row = r,
                                         !.qty = Clip(rows[r].qty, k),
                                         !.cash = Proceeds(w, k)]]
      BY <1>4 DEF Sell
    <2> DEFINE k == Sold(ses[w].amount, rows[r].qty)
    <2>2. r \in IdOrNone /\ rows[r].qty \in Nat /\ rows[r].qty <= MaxQty
      BY <2>1, FirstFound, LedgerAssumption DEF Qtys
    <2>3. k \in Nat
      BY <1>1, <2>2 DEF Sold
    <2>4. Clip(rows[r].qty, k) \in Qtys
      <3> HIDE DEF k
      <3> QED
        BY <2>2, <2>3, LedgerAssumption DEF Qtys, Clip
    <2>5. Proceeds(w, k) \in Cash
      BY <1>1, <2>1, <2>3, LedgerAssumption DEF Proceeds, Cash
    <2>6. ses' = [ses EXCEPT ![w] =
                    [ses[w] EXCEPT !.at = "ready", !.row = r,
                                   !.qty = Clip(rows[r].qty, k), !.cash = Proceeds(w, k)]]
      BY <2>1
    <2> HIDE DEF k
    <2>7. [ses[w] EXCEPT !.at = "ready", !.row = r, !.qty = Clip(rows[r].qty, k),
                         !.cash = Proceeds(w, k)] \in SessionType
      BY <1>1, <2>2, <2>4, <2>5, Members DEF SessionType
    <2>8. QED
      BY <1>4, <2>6, <2>7 DEF Sell, TypeOK
  <1>5. CASE Skip(w)
    BY <1>1, <1>5, ReopenedTyped DEF Skip, TypeOK
  <1>6. QED
    BY <1>2, <1>3, <1>4, <1>5

\* Committing.
LEMMA CommitTypes == ASSUME TypeOK, NEW w \in Sessions, Commit(w) PROVE TypeOK'
  <1> DEFINE f == [ses EXCEPT ![w] = Reopened(w, ses[w].cached)]
  <1>1. /\ ses[w].cached \in BOOLEAN /\ ses[w].cash \in Cash /\ ses[w].qty \in Qtys
        /\ ses[w].sym \in SymbolOrNone
    BY DEF TypeOK, SessionType
  <1>2. f \in [Sessions -> SessionType]
    BY <1>1, ReopenedTyped DEF TypeOK
  <1>3. ses' = Outdate(f, w)
    BY DEF Commit
  <1> HIDE DEF f
  <1>4. ASSUME NEW v \in Sessions
        PROVE  f[v] \in SessionType /\ [f[v] EXCEPT !.fresh = FALSE] \in SessionType
    BY <1>2 DEF SessionType
  <1>5. ses' \in [Sessions -> SessionType]
    BY <1>3, <1>4 DEF Outdate
  <1>6. ASSUME ses[w].row \in Ids
        PROVE  [sym |-> ses[w].sym, qty |-> ses[w].qty,
                by |-> IF ses[w].mine THEN w ELSE rows[ses[w].row].by] \in RowType
    BY <1>1, <1>6 DEF TypeOK, RowType
  <1>7. rows' \in [Ids -> RowType]
    BY <1>6 DEF Commit, TypeOK
  <1>8. reset' \in ResetType
    BY DEF Commit, TypeOK, ResetType
  <1>9. QED
    BY <1>1, <1>5, <1>7, <1>8 DEF Commit, TypeOK

\* Rolling back, resetting and crashing.
LEMMA OtherTypes ==
    ASSUME TypeOK,
           \/ \E w \in Sessions : Rollback(w)
           \/ ResetDeletes \/ ResetReadsCash \/ ResetCommits \/ ResetFails
           \/ Crash
    PROVE  TypeOK'
  <1>1. ASSUME NEW w \in Sessions, Rollback(w) PROVE TypeOK'
    BY <1>1, ReopenedTyped DEF Rollback, AfterRollback, TypeOK
  <1>2. CASE ResetDeletes \/ ResetReadsCash
    <2>1. CASE ResetDeletes
      <3>1. [NoReset EXCEPT !.at = "deleted", !.fresh = TRUE,
                            !.ids = {i \in Ids : rows[i].sym # NoSymbol}] \in ResetType
        BY ClosedTyped DEF ResetType
      <3>2. QED
        BY <2>1, <3>1 DEF ResetDeletes, TypeOK
    <2>2. CASE ResetReadsCash
      BY <2>2 DEF ResetReadsCash, TypeOK, ResetType
    <2>3. QED
      BY <1>2, <2>1, <2>2
  <1>3. CASE ResetCommits
    <2>1. ASSUME NEW v \in Sessions PROVE [ses[v] EXCEPT !.fresh = FALSE] \in SessionType
      <3>1. ses[v] \in SessionType
        BY SessionTyped
      <3>2. QED
        BY <3>1 DEF SessionType
    <2>2. ses' \in [Sessions -> SessionType]
      BY <1>3, <2>1 DEF ResetCommits
    <2>3. rows' \in [Ids -> RowType]
      BY <1>3, ClosedTyped DEF ResetCommits, TypeOK
    <2>4. QED
      BY <1>3, <2>2, <2>3, ClosedTyped, Members DEF ResetCommits, TypeOK
  <1>4. CASE ResetFails
    BY <1>4, ClosedTyped DEF ResetFails, TypeOK
  <1>5. CASE Crash
    BY <1>5, ClosedTyped DEF Crash, TypeOK
  <1>6. QED
    BY <1>1, <1>2, <1>3, <1>4, <1>5

LEMMA TypeStep == TypeOK /\ [Next]_vars => TypeOK'
  BY LoadTypes, ChangeTypes, CommitTypes, OtherTypes DEF Next, Fill, vars, TypeOK

-----------------------------------------------------------------------------
(* Every step keeps the inductive invariant *)

\* A step of one session that commits nothing keeps it if the session keeps its part.
LEMMA LocalStep ==
    ASSUME LInv, TypeOK', NEW w \in Sessions, UNCHANGED <<cash, rows, reset>>,
           next <= next', \A v \in Sessions \ {w} : ses'[v] = ses[v], SessionOK(w)'
    PROVE  LInv'
  <1>1. next \in Nat /\ next' \in Nat /\ MaxRows \in Nat
    BY LedgerAssumption DEF LInv, TypeOK, IdOrNone
  <1>2. RowsKnown'
    BY <1>1 DEF LInv, RowsKnown, Ids
  <1>3. ASSUME NEW v \in Sessions PROVE SessionOK(v)'
    <2>1. CASE v = w
      BY <2>1
    <2>2. CASE v # w
      <3>1. ses'[v] = ses[v] /\ SessionOK(v)
        BY <2>2 DEF LInv, SessionsOK
      <3>2. Session(v)' /\ Loaded(v)' /\ Changed(v)'
        BY <3>1 DEF SessionOK, Session, Loaded, Changed
      <3>3. ASSUME Pending(v)' PROVE ses[v].row \in Nat /\ ses[v].row <= next'
        <4>1. ses[v].row \in Nat
          BY <1>1 DEF LInv, TypeOK, SessionType, IdOrNone
        <4>2. ses[v].row <= next
          BY <3>1, <3>3 DEF SessionOK, Inserted, Pending
        <4>3. QED
          BY <1>1, <4>1, <4>2
      <3>4. ASSUME Pending(v)', NEW u \in Sessions \ {v}, Pending(u)'
            PROVE  ses'[u].row # ses'[v].row
        <4>1. CASE u = w
          BY <2>2, <3>4, <4>1 DEF SessionOK, Inserted
        <4>2. CASE u # w
          BY <3>1, <3>4, <4>2 DEF SessionOK, Inserted, Pending
        <4>3. QED
          BY <4>1, <4>2
      <3>5. Inserted(v)'
        BY <3>1, <3>3, <3>4 DEF SessionOK, Inserted, Pending, RowsOf
      <3>6. QED
        BY <3>2, <3>5 DEF SessionOK
    <2>3. QED
      BY <2>1, <2>2
  <1>4. ResetOK' /\ OneRowPerWriter'
    BY DEF LInv, ResetOK, OneRowPerWriter, RowsOf
  <1>5. QED
    BY <1>2, <1>3, <1>4 DEF LInv, SessionsOK

\* Loading the cash.
LEMMA LoadStep ==
    ASSUME LInv, TypeOK', NEW w \in Writers, NEW side \in Sides, NEW s \in Symbols,
           NEW n \in Amounts, LoadCash(w, side, s, n)
    PROVE  LInv'
  <1>1. ses' = [ses EXCEPT ![w] = [Closed EXCEPT !.at = "cash", !.side = side, !.sym = s,
                                                 !.amount = n, !.cash = cash, !.fresh = TRUE]]
    BY DEF LoadCash
  <1>2. w \in Sessions /\ w # Risk /\ n \in Nat /\ n > 0 /\ ses \in [Sessions -> SessionType]
    BY LedgerAssumption DEF LInv, TypeOK, Sessions
  <1>3. /\ ses'[w].at = "cash" /\ ses'[w].side = side /\ ses'[w].sym = s
        /\ ses'[w].amount = n /\ ses'[w].cash = cash /\ ~ses'[w].mine
    BY <1>1, <1>2 DEF Closed
  <1>4. side = "BUY" => n <= cash
    BY DEF LoadCash, Affordable
  <1>5. SessionOK(w)'
    BY <1>2, <1>3, <1>4 DEF LoadCash, SessionOK, Session, Loaded, Changed, Inserted, Pending
  <1>6. next \in Nat /\ next' = next
    BY LedgerAssumption DEF LoadCash, LInv, TypeOK, IdOrNone
  <1>7. QED
    BY <1>1, <1>2, <1>5, <1>6, LocalStep DEF LoadCash

\* The check's session begins, ends, and comes to an item.
LEMMA RiskStep ==
    ASSUME LInv, TypeOK', RiskBegins \/ RiskEnds \/ \E s \in Symbols : RiskItem(s)
    PROVE  LInv'
  <1>1. /\ Risk \in Sessions /\ ses \in [Sessions -> SessionType]
        /\ ses[Risk] \in SessionType /\ SessionOK(Risk)
    BY Members DEF LInv, TypeOK, SessionsOK
  <1>2. next \in Nat
    BY LedgerAssumption DEF LInv, TypeOK, IdOrNone
  <1>3. CASE RiskBegins
    <2>1. ses' = [ses EXCEPT ![Risk] = [ses[Risk] EXCEPT !.at = "items"]]
      BY <1>3 DEF RiskBegins
    <2>2. /\ ses'[Risk].at = "items" /\ ses'[Risk].side = ses[Risk].side
          /\ ses'[Risk].mine = ses[Risk].mine /\ ses'[Risk].cached = ses[Risk].cached
      BY <1>1, <2>1 DEF SessionType
    <2>3. SessionOK(Risk)'
      BY <1>1, <1>3, <2>2
         DEF RiskBegins, At, SessionOK, Session, Loaded, Changed, Inserted, Pending
    <2>4. QED
      BY <1>1, <1>2, <1>3, <2>1, <2>3, LocalStep DEF RiskBegins
  <1>4. CASE RiskEnds
    <2>1. ses' = [ses EXCEPT ![Risk] = Closed]
      BY <1>4 DEF RiskEnds
    <2>2. ses'[Risk] = Closed
      BY <1>1, <2>1
    <2>3. SessionOK(Risk)'
      BY <2>2 DEF Closed, SessionOK, Session, Loaded, Changed, Inserted, Pending
    <2>4. QED
      BY <1>1, <1>2, <1>4, <2>1, <2>3, LocalStep DEF RiskEnds
  <1>5. ASSUME NEW s \in Symbols, RiskItem(s) PROVE LInv'
    <2> DEFINE c == IF ses[Risk].cached THEN ses[Risk].cash ELSE cash
               f == ses[Risk].cached => ses[Risk].fresh
    <2>1. ses' = [ses EXCEPT ![Risk] =
                    [ses[Risk] EXCEPT !.at = "cash", !.sym = s, !.amount = MaxQty,
                                      !.cached = TRUE, !.cash = c, !.fresh = f]]
      BY <1>5 DEF RiskItem
    <2>2. /\ ses'[Risk].at = "cash" /\ ses'[Risk].side = ses[Risk].side
          /\ ses'[Risk].sym = s /\ ses'[Risk].amount = MaxQty /\ ses'[Risk].cash = c
          /\ ses'[Risk].fresh = f /\ ses'[Risk].mine = ses[Risk].mine
      BY <1>1, <2>1 DEF SessionType
    <2>3. ses[Risk].side = "SELL" /\ ~ses[Risk].mine
      BY <1>1 DEF SessionOK, Session
    <2>4. f => c = cash
      BY <1>1, <1>5 DEF RiskItem, At, SessionOK, Loaded
    <2>5. UNCHANGED <<cash, rows, next, reset>>
      BY <1>5 DEF RiskItem
    <2> HIDE DEF c, f
    <2>6. ses'[Risk].fresh => ses'[Risk].cash = cash'
      BY <2>2, <2>4, <2>5
    <2>7. /\ Session(Risk)'
          /\ (Changed(Risk) /\ Inserted(Risk))'
      BY <2>2, <2>3, LedgerAssumption DEF Session, Changed, Inserted, Pending
    <2>8. Loaded(Risk)'
      BY <2>6 DEF Loaded
    <2>9. \A v \in Sessions \ {Risk} : ses'[v] = ses[v]
      BY <1>1, <2>1
    <2>10. QED
      BY <1>1, <1>2, <2>5, <2>7, <2>8, <2>9, LocalStep DEF SessionOK
  <1>6. QED
    BY <1>3, <1>4, <1>5

\* The session buys or sells, in memory.
LEMMA ChangeStep ==
    ASSUME LInv, TypeOK', NEW w \in Sessions, BuyMore(w) \/ BuyFirst(w) \/ Sell(w)
    PROVE  LInv'
  <1>1. /\ ses \in [Sessions -> SessionType] /\ ses[w] \in SessionType
        /\ SessionOK(w) /\ At(w, "cash")
    BY DEF LInv, TypeOK, SessionsOK, BuyMore, BuyFirst, Sell
  <1>2. /\ next \in Nat /\ ses[w].amount \in Nat /\ ses[w].cash \in Nat /\ cash \in Nat
    BY <1>1, LedgerAssumption DEF LInv, TypeOK, SessionType, IdOrNone, Cash
  <1>3. /\ ses[w].sym \in Symbols /\ ses[w].amount > 0 /\ ~ses[w].mine
        /\ w = Risk => ses[w].side = "SELL"
        /\ ses[w].side = "BUY" => ses[w].amount <= ses[w].cash
        /\ ses[w].fresh => ses[w].cash = cash
    BY <1>1 DEF SessionOK, Session, Loaded, At
  <1>4. CASE BuyMore(w)
    <2>1. PICK r \in First(ses[w].sym) :
             ses' = [ses EXCEPT ![w] =
                       [ses[w] EXCEPT !.at = "ready", !.row = r,
                                      !.qty = rows[r].qty + ses[w].amount,
                                      !.cash = Clip(ses[w].cash, ses[w].amount)]]
      BY <1>4 DEF BuyMore
    <2>2. r \in Ids /\ rows[r].qty \in Nat
      BY <2>1, FirstFound, LedgerAssumption DEF LInv, Qtys
    <2>3. /\ ses'[w].at = "ready" /\ ses'[w].row = r /\ ses'[w].side = ses[w].side
          /\ ses'[w].qty = rows[r].qty + ses[w].amount /\ ses'[w].sym = ses[w].sym
          /\ ses'[w].cash = Clip(ses[w].cash, ses[w].amount)
          /\ ses'[w].mine = ses[w].mine /\ ses'[w].fresh = ses[w].fresh
      BY <1>1, <2>1 DEF SessionType
    <2>4. ses[w].side = "BUY" /\ UNCHANGED <<cash, rows, next, reset>>
      BY <1>4 DEF BuyMore
    <2>5. Clip(ses[w].cash, ses[w].amount) = ses[w].cash - ses[w].amount
      BY <1>2, <1>3, <2>4 DEF Clip
    <2>6. Session(w)' /\ Loaded(w)' /\ Inserted(w)'
      BY <1>3, <2>2, <2>3, <2>4 DEF Session, Loaded, Inserted, Pending
    <2>7. ASSUME ses[w].fresh
          PROVE  /\ ses[w].amount \in 1..cash
                 /\ ses'[w].cash = cash' - ses[w].amount
                 /\ ses'[w].qty = rows'[ses'[w].row].qty + ses[w].amount
      BY <1>2, <1>3, <2>2, <2>3, <2>4, <2>5, <2>7
    <2>8. Changed(w)'
      BY <2>3, <2>4, <2>7 DEF Changed
    <2>9. QED
      BY <1>1, <1>2, <2>1, <2>4, <2>6, <2>8, LocalStep DEF SessionOK
  <1>5. CASE BuyFirst(w)
    <2>1. ses' = [ses EXCEPT ![w] =
                    [ses[w] EXCEPT !.at = "ready", !.row = next + 1, !.mine = TRUE,
                                   !.qty = ses[w].amount,
                                   !.cash = Clip(ses[w].cash, ses[w].amount)]]
      BY <1>5 DEF BuyFirst
    <2>2. /\ ses'[w].at = "ready" /\ ses'[w].row = next + 1 /\ ses'[w].side = ses[w].side
          /\ ses'[w].qty = ses[w].amount /\ ses'[w].sym = ses[w].sym
          /\ ses'[w].cash = Clip(ses[w].cash, ses[w].amount) /\ ses'[w].mine
          /\ ses'[w].fresh = ses[w].fresh
      BY <1>1, <2>1 DEF SessionType
    <2>3. /\ ses[w].side = "BUY" /\ UNCHANGED <<cash, rows, reset>> /\ next' = next + 1
          /\ next < MaxRows /\ RowsOf(ses[w].sym) = {}
      BY <1>5 DEF BuyFirst, Found
    <2>4. next + 1 \in Ids
      BY <1>2, <2>3, LedgerAssumption DEF Ids
    <2>5. rows[next + 1].sym = NoSymbol /\ rows[next + 1].qty = 0
      BY <1>2, <2>4 DEF LInv, RowsKnown
    <2>6. Clip(ses[w].cash, ses[w].amount) = ses[w].cash - ses[w].amount
      BY <1>2, <1>3, <2>3 DEF Clip
    <2>7. Session(w)' /\ Loaded(w)'
      BY <1>3, <2>2, <2>3, <2>4 DEF Session, Loaded
    <2>8. ASSUME ses[w].fresh
          PROVE  /\ ses[w].amount \in 1..cash
                 /\ ses'[w].cash = cash' - ses[w].amount
                 /\ ses'[w].qty = rows'[ses'[w].row].qty + ses[w].amount
      BY <1>2, <1>3, <2>2, <2>3, <2>5, <2>6, <2>8
    <2>9. Changed(w)'
      BY <2>2, <2>3, <2>8 DEF Changed
    <2>10. ASSUME NEW v \in Sessions \ {w}, Pending(v)' PROVE ses'[v].row # next + 1
      <3>1. ses'[v] = ses[v]
        BY <1>1, <2>1
      <3>2. ses[v].row <= next
        BY <2>10, <3>1 DEF LInv, SessionsOK, SessionOK, Inserted, Pending
      <3>3. ses[v].row \in Nat
        BY LedgerAssumption DEF LInv, TypeOK, SessionType, IdOrNone
      <3>4. QED
        BY <1>2, <3>1, <3>2, <3>3
    <2>11. Inserted(w)'
      BY <1>2, <2>2, <2>3, <2>5, <2>10 DEF Inserted, RowsOf
    <2>12. QED
      BY <1>1, <1>2, <2>1, <2>3, <2>7, <2>9, <2>11, LocalStep DEF SessionOK
  <1>6. CASE Sell(w)
    <2>1. PICK r \in First(ses[w].sym) :
             LET k == Sold(ses[w].amount, rows[r].qty) IN
             /\ rows[r].qty > 0
             /\ ses' = [ses EXCEPT ![w] =
                          [ses[w] EXCEPT !.at = "ready", !.row = r,
                                         !.qty = Clip(rows[r].qty, k),
                                         !.cash = Proceeds(w, k)]]
      BY <1>6 DEF Sell
    <2> DEFINE k == Sold(ses[w].amount, rows[r].qty)
    <2>2. r \in Ids /\ rows[r].qty \in Nat
      BY <2>1, FirstFound, LedgerAssumption DEF LInv, Qtys
    <2>3. k \in 1..rows[r].qty
      BY <1>2, <1>3, <2>1, <2>2 DEF Sold
    <2>4. ses' = [ses EXCEPT ![w] =
                    [ses[w] EXCEPT !.at = "ready", !.row = r,
                                   !.qty = Clip(rows[r].qty, k), !.cash = Proceeds(w, k)]]
      BY <2>1
    <2> HIDE DEF k
    <2>5. /\ ses'[w].at = "ready" /\ ses'[w].row = r /\ ses'[w].side = ses[w].side
          /\ ses'[w].qty = Clip(rows[r].qty, k) /\ ses'[w].sym = ses[w].sym
          /\ ses'[w].cash = ses[w].cash + k
          /\ ses'[w].mine = ses[w].mine /\ ses'[w].fresh = ses[w].fresh
      BY <1>1, <2>4 DEF SessionType, Proceeds
    <2>6. ses[w].side = "SELL" /\ UNCHANGED <<cash, rows, next, reset>>
      BY <1>6 DEF Sell
    <2>7. Clip(rows[r].qty, k) = rows[r].qty - k
      BY <2>2, <2>3 DEF Clip
    <2>8. Session(w)' /\ Loaded(w)' /\ Inserted(w)'
      BY <1>3, <2>2, <2>5, <2>6 DEF Session, Loaded, Inserted, Pending
    <2>9. Changed(w)'
      BY <1>3, <2>3, <2>5, <2>6, <2>7 DEF Changed
    <2>10. QED
      BY <1>1, <1>2, <2>4, <2>6, <2>8, <2>9, LocalStep DEF SessionOK
  <1>7. QED
    BY <1>4, <1>5, <1>6

\* The session has nothing to sell, or rolls back.
LEMMA ReopenStep ==
    ASSUME LInv, TypeOK', NEW w \in Sessions, Skip(w) \/ Rollback(w)
    PROVE  LInv'
  <1>1. /\ ses \in [Sessions -> SessionType] /\ ses[w] \in SessionType /\ SessionOK(w)
        /\ next \in Nat
    BY LedgerAssumption DEF LInv, TypeOK, SessionsOK, IdOrNone
  <1>2. PICK c \in BOOLEAN : /\ ses' = [ses EXCEPT ![w] = Reopened(w, c)]
                             /\ c => At(w, "cash")
    BY <1>1 DEF Skip, Rollback, AfterRollback, SessionType
  <1>3. UNCHANGED <<cash, rows, next, reset>>
    BY DEF Skip, Rollback
  <1>4. ses'[w] = Reopened(w, c)
    BY <1>1, <1>2
  <1>5. CASE w = Risk
    <2>1. /\ ses'[w].at = "items" /\ ses'[w].side = "SELL"
          /\ ~ses'[w].mine /\ ses'[w].cached = c
          /\ c => ses'[w].cash = ses[w].cash /\ ses'[w].fresh = ses[w].fresh
      BY <1>1, <1>4, <1>5, RiskReopened DEF SessionType
    <2>2. Session(w)' /\ Changed(w)' /\ Inserted(w)'
      BY <1>1, <1>5, <2>1 DEF SessionOK, Session, Changed, Inserted, Pending
    <2>3. Loaded(w)'
      BY <1>1, <1>2, <1>3, <2>1 DEF SessionOK, Loaded, At
    <2>4. QED
      BY <2>2, <2>3, <1>1, <1>2, <1>3, LocalStep DEF SessionOK
  <1>6. CASE w # Risk
    <2>1. ses'[w] = Closed
      BY <1>4, <1>6 DEF Reopened
    <2>2. SessionOK(w)'
      BY <1>6, <2>1 DEF Closed, SessionOK, Session, Loaded, Changed, Inserted, Pending
    <2>3. QED
      BY <1>1, <1>2, <1>3, <2>2, LocalStep
  <1>7. QED
    BY <1>5, <1>6

\* What a commit does to the rows.
LEMMA CommitRows ==
    ASSUME LInv, NEW w \in Sessions, Commit(w)
    PROVE  LET r == ses[w].row IN
           /\ r \in Ids /\ r <= next
           /\ rows'[r].sym = ses[w].sym /\ ses[w].sym \in Symbols
           /\ rows'[r].qty = ses[w].qty
           /\ \A i \in Ids \ {r} : rows'[i] = rows[i]
           /\ \/ ses[w].mine /\ rows[r].sym = NoSymbol /\ rows'[r].by = w
              \/ ~ses[w].mine /\ rows[r].sym = ses[w].sym /\ rows'[r].by = rows[r].by
  <1> DEFINE r == ses[w].row
  <1>1. SessionOK(w) /\ ses[w].mine \in BOOLEAN /\ rows \in [Ids -> RowType]
    BY DEF LInv, SessionsOK, TypeOK, SessionType
  <1>2. r \in Ids /\ ses[w].sym \in Symbols
    BY <1>1 DEF Commit, At, SessionOK, Session
  <1>3. rows' = [rows EXCEPT ![r] = [sym |-> ses[w].sym, qty |-> ses[w].qty,
                                     by |-> IF ses[w].mine THEN w ELSE rows[r].by]]
    BY DEF Commit
  <1>4. CASE ses[w].mine
    BY <1>1, <1>2, <1>3, <1>4 DEF Commit, At, SessionOK, Inserted, Pending
  <1>5. CASE ~ses[w].mine
    <2>1. rows[r].sym = ses[w].sym /\ r <= next
      BY <1>2, <1>5, LedgerAssumption DEF Commit, Writable, LInv, RowsKnown
    <2>2. QED
      BY <1>1, <1>2, <1>3, <1>5, <2>1
  <1>6. QED
    BY <1>1, <1>4, <1>5

\* The session commits: whatever the others have loaded is outdated.
LEMMA CommitStep ==
    ASSUME LInv, TypeOK', NEW w \in Sessions, Commit(w)
    PROVE  LInv'
  <1> DEFINE r == ses[w].row
             s == ses[w].sym
  <1>1. /\ r \in Ids /\ r <= next /\ rows'[r].sym = s /\ s \in Symbols /\ s # NoSymbol
        /\ \A i \in Ids \ {r} : rows'[i] = rows[i]
        /\ \/ ses[w].mine /\ rows[r].sym = NoSymbol /\ rows'[r].by = w
           \/ ~ses[w].mine /\ rows[r].sym = s /\ rows'[r].by = rows[r].by
    BY CommitRows, LedgerAssumption
  <1>2. /\ ses \in [Sessions -> SessionType] /\ ses[w] \in SessionType /\ SessionOK(w)
        /\ ses[w].at = "ready"
    BY DEF LInv, TypeOK, SessionsOK, Commit, At
  <1>3. next' = next /\ cash' = ses[w].cash
    BY DEF Commit
  <1>4. \A i \in Ids : rows'[i].sym = rows[i].sym \/ (rows[i].sym = NoSymbol /\ i = r)
    BY <1>1
  <1>5. RowsKnown'
    BY <1>1, <1>3 DEF LInv, RowsKnown
  <1>6. ASSUME NEW v \in Sessions \ {w}
        PROVE  /\ ses'[v].at = ses[v].at /\ ses'[v].side = ses[v].side
               /\ ses'[v].sym = ses[v].sym /\ ses'[v].amount = ses[v].amount
               /\ ses'[v].cash = ses[v].cash /\ ses'[v].cached = ses[v].cached
               /\ ses'[v].row = ses[v].row /\ ses'[v].mine = ses[v].mine
               /\ ~ses'[v].fresh
    <2>1. ses[v] \in SessionType
      BY <1>2
    <2>2. ses'[v] = [ses[v] EXCEPT !.fresh = FALSE]
      BY <1>2 DEF Commit, Outdate
    <2>3. QED
      BY <2>1, <2>2 DEF SessionType
  <1>7. /\ ses'[w] = Reopened(w, ses[w].cached)
        /\ ses[w].cached \in BOOLEAN /\ ses[w].fresh \in BOOLEAN
    BY <1>2 DEF Commit, Outdate, SessionType
  <1>8. ~Pending(w)'
    BY <1>7 DEF Reopened, Closed, Pending, SessionType
  <1>9. SessionOK(w)'
    <2>1. CASE w = Risk
      <3>1. /\ ses'[w].at = "items" /\ ses'[w].side = "SELL" /\ ~ses'[w].mine
            /\ ses'[w].cached => ses'[w].cash = ses[w].cash
        BY <1>7, <2>1, RiskReopened
      <3>2. QED
        BY <1>2, <1>3, <2>1, <3>1
           DEF SessionOK, Session, Loaded, Changed, Inserted, Pending
    <2>2. CASE w # Risk
      <3>1. ses'[w] = Closed
        BY <1>7, <2>2 DEF Reopened
      <3>2. QED
        BY <2>2, <3>1 DEF Closed, SessionOK, Session, Loaded, Changed, Inserted, Pending
    <2>3. QED
      BY <2>1, <2>2
  <1>10. ASSUME NEW v \in Sessions \ {w} PROVE SessionOK(v)'
    <2>1. SessionOK(v)
      BY DEF LInv, SessionsOK
    <2>2. Session(v)' /\ Loaded(v)' /\ Changed(v)'
      BY <1>6, <2>1 DEF SessionOK, Session, Loaded, Changed
    <2>3. ASSUME Pending(v)' PROVE Inserted(v)'
      <3>1. Pending(v)
        BY <1>6, <2>3 DEF Pending
      <3>2. ses[v].row # r
        <4>1. CASE ses[w].mine
          BY <1>2, <2>1, <3>1, <4>1 DEF SessionOK, Inserted, Pending
        <4>2. CASE ~ses[w].mine
          BY <1>1, <2>1, <3>1, <4>2 DEF SessionOK, Inserted
        <4>3. QED
          BY <4>1, <4>2
      <3>3. ses[v].row \in Ids
        BY <2>1, <3>1 DEF SessionOK, Session, Pending
      <3>4. ses'[v].row <= next' /\ rows'[ses'[v].row].sym = NoSymbol
        BY <1>1, <1>3, <1>6, <2>1, <3>1, <3>2, <3>3 DEF SessionOK, Inserted
      <3>5. ASSUME NEW i \in Ids, rows'[i].sym = ses[v].sym PROVE rows'[i].by # v
        <4>1. CASE i # r
          BY <1>1, <2>1, <3>1, <3>5, <4>1 DEF SessionOK, Inserted, RowsOf
        <4>2. CASE i = r /\ ses[w].mine
          BY <1>1, <4>2
        <4>3. CASE i = r /\ ~ses[w].mine
          BY <1>1, <2>1, <3>1, <3>5, <4>3 DEF SessionOK, Inserted, RowsOf
        <4>4. QED
          BY <4>1, <4>2, <4>3
      <3>6. ASSUME NEW u \in Sessions \ {v}, Pending(u)' PROVE ses'[u].row # ses'[v].row
        <4>1. u # w
          BY <1>8, <3>6
        <4>2. Pending(u)
          BY <1>6, <3>6, <4>1 DEF Pending
        <4>3. QED
          BY <1>6, <2>1, <3>1, <4>1, <4>2 DEF SessionOK, Inserted
      <3>7. QED
        BY <1>6, <3>4, <3>5, <3>6 DEF Inserted, RowsOf
    <2>4. QED
      BY <2>2, <2>3 DEF SessionOK, Inserted
  <1>11. ResetOK'
    BY DEF Commit, LInv, TypeOK, ResetType, ResetOK
  <1>12. OneRowPerWriter'
    <2>1. SUFFICES ASSUME NEW t \in Symbols, NEW i \in Ids, NEW j \in Ids,
                          rows'[i].sym = t, rows'[j].sym = t, rows'[i].by = rows'[j].by,
                          i # j
                   PROVE  FALSE
      BY DEF OneRowPerWriter, RowsOf
    <2>2. CASE ~ses[w].mine
      BY <1>1, <2>1, <2>2 DEF LInv, OneRowPerWriter, RowsOf
    <2>3. CASE ses[w].mine
      <3>1. \A k \in Ids : rows[k].sym = s => rows[k].by # w
        BY <1>2, <2>3 DEF SessionOK, Inserted, Pending, RowsOf
      <3>2. CASE i # r /\ j # r
        BY <1>1, <2>1, <3>2 DEF LInv, OneRowPerWriter, RowsOf
      <3>3. CASE i = r \/ j = r
        BY <1>1, <2>1, <2>3, <3>1, <3>3
      <3>4. QED
        BY <3>2, <3>3
    <2>4. QED
      BY <2>2, <2>3
  <1>13. QED
    BY <1>5, <1>9, <1>10, <1>11, <1>12 DEF LInv, SessionsOK

\* The reset deletes, loads the cash, commits or fails.
LEMMA ResetStep ==
    ASSUME LInv, TypeOK', ResetDeletes \/ ResetReadsCash \/ ResetCommits \/ ResetFails
    PROVE  LInv'
  <1>1. CASE ResetDeletes \/ ResetReadsCash
    <2>1. UNCHANGED <<cash, rows, next, ses>>
      BY <1>1 DEF ResetDeletes, ResetReadsCash
    <2>2. RowsKnown' /\ OneRowPerWriter'
      BY <2>1 DEF LInv, RowsKnown, OneRowPerWriter, RowsOf
    <2>3. SessionsOK'
      BY <2>1 DEF LInv, SessionsOK, SessionOK, Session, Loaded, Changed, Inserted, Pending,
                  RowsOf
    <2>4. CASE ResetDeletes
      <3>1. /\ reset'.at = "deleted"
            /\ reset'.ids = {i \in Ids : rows[i].sym # NoSymbol}
        BY <2>4 DEF ResetDeletes, NoReset
      <3>2. ResetOK'
        BY <2>1, <3>1 DEF ResetOK
      <3>3. QED
        BY <2>2, <2>3, <3>2 DEF LInv
    <2>5. CASE ResetReadsCash
      <3>1. /\ reset.at = "deleted" /\ reset'.cash = cash /\ reset'.ids = reset.ids
            /\ reset'.fresh = reset.fresh
        BY <2>5 DEF ResetReadsCash, LInv, TypeOK, ResetType
      <3>2. ResetOK'
        BY <2>1, <3>1 DEF LInv, ResetOK
      <3>3. QED
        BY <2>2, <2>3, <3>2 DEF LInv
    <2>6. QED
      BY <1>1, <2>4, <2>5
  <1>2. CASE ResetFails
    <2>1. UNCHANGED <<cash, rows, next, ses>>
      BY <1>2 DEF ResetFails
    <2>2. RowsKnown' /\ OneRowPerWriter'
      BY <2>1 DEF LInv, RowsKnown, OneRowPerWriter, RowsOf
    <2>3. SessionsOK'
      BY <2>1 DEF LInv, SessionsOK, SessionOK, Session, Loaded, Changed, Inserted, Pending,
                  RowsOf
    <2>4. ResetOK'
      BY <1>2 DEF ResetFails, NoReset, ResetOK
    <2>5. QED
      BY <2>2, <2>3, <2>4 DEF LInv
  <1>3. CASE ResetCommits
    <2>1. \A i \in Ids : rows'[i] = NoRow \/ rows'[i] = rows[i]
      BY <1>3 DEF ResetCommits
    <2>2. next' = next /\ reset' = NoReset
      BY <1>3 DEF ResetCommits
    <2>3. \A i \in Ids : \/ rows'[i].sym = NoSymbol /\ rows'[i].qty = 0
                         \/ rows'[i] = rows[i]
      BY <2>1 DEF NoRow
    <2>4. RowsKnown'
      BY <2>2, <2>3 DEF LInv, RowsKnown
    <2>5. OneRowPerWriter'
      BY <2>3, LedgerAssumption DEF LInv, OneRowPerWriter, RowsOf
    <2>6. ASSUME NEW v \in Sessions
          PROVE  /\ ses'[v].at = ses[v].at /\ ses'[v].side = ses[v].side
                 /\ ses'[v].sym = ses[v].sym /\ ses'[v].amount = ses[v].amount
                 /\ ses'[v].cash = ses[v].cash /\ ses'[v].cached = ses[v].cached
                 /\ ses'[v].row = ses[v].row /\ ses'[v].mine = ses[v].mine
                 /\ ~ses'[v].fresh
      <3>1. ses[v] \in SessionType
        BY DEF LInv, TypeOK
      <3>2. ses'[v] = [ses[v] EXCEPT !.fresh = FALSE]
        BY <1>3 DEF ResetCommits
      <3>3. QED
        BY <3>1, <3>2 DEF SessionType
    <2>7. ASSUME NEW v \in Sessions PROVE SessionOK(v)'
      <3>1. SessionOK(v)
        BY DEF LInv, SessionsOK
      <3>2. Session(v)' /\ Loaded(v)' /\ Changed(v)'
        BY <2>6, <3>1 DEF SessionOK, Session, Loaded, Changed
      <3>3. ASSUME Pending(v)' PROVE Inserted(v)'
        <4>1. Pending(v) /\ ses[v].row \in Ids /\ ses[v].sym \in Symbols
          BY <2>6, <3>1, <3>3 DEF SessionOK, Session, Pending
        <4>2. ses'[v].row <= next' /\ rows'[ses'[v].row].sym = NoSymbol
          BY <2>2, <2>3, <2>6, <3>1, <4>1 DEF SessionOK, Inserted
        <4>3. ASSUME NEW i \in Ids, rows'[i].sym = ses[v].sym PROVE rows'[i].by # v
          <5>1. rows'[i] = rows[i]
            BY <2>3, <4>1, <4>3, LedgerAssumption
          <5>2. QED
            BY <3>1, <4>1, <4>3, <5>1 DEF SessionOK, Inserted, RowsOf
        <4>4. ASSUME NEW u \in Sessions \ {v}, Pending(u)'
              PROVE  ses'[u].row # ses'[v].row
          <5>1. Pending(u)
            BY <2>6, <4>4 DEF Pending
          <5>2. QED
            BY <2>6, <3>1, <4>1, <5>1 DEF SessionOK, Inserted
        <4>5. QED
          BY <2>6, <4>2, <4>3, <4>4 DEF Inserted, RowsOf
      <3>4. QED
        BY <3>2, <3>3 DEF SessionOK, Inserted
    <2>8. ResetOK'
      BY <2>2 DEF NoReset, ResetOK
    <2>9. QED
      BY <2>4, <2>5, <2>7, <2>8 DEF LInv, SessionsOK
  <1>4. QED
    BY <1>1, <1>2, <1>3

\* The process dies.
LEMMA CrashStep == ASSUME LInv, TypeOK', Crash PROVE LInv'
  <1>1. UNCHANGED <<cash, rows, next>> /\ reset' = NoReset
    BY DEF Crash
  <1>2. RowsKnown' /\ OneRowPerWriter'
    BY <1>1 DEF LInv, RowsKnown, OneRowPerWriter, RowsOf
  <1>3. ASSUME NEW w \in Sessions PROVE SessionOK(w)'
    <2>1. ses'[w] = Closed
      BY DEF Crash
    <2>2. QED
      BY <2>1 DEF Closed, SessionOK, Session, Loaded, Changed, Inserted, Pending
  <1>4. ResetOK'
    BY <1>1 DEF NoReset, ResetOK
  <1>5. QED
    BY <1>2, <1>3, <1>4 DEF LInv, SessionsOK

\* The inductive invariant holds at first, and every step keeps it.
LEMMA LInvInit == Init => LInv
  <1> SUFFICES ASSUME Init PROVE LInv
    OBVIOUS
  <1>1. TypeOK
    BY ClosedTyped, Members DEF Init, TypeOK
  <1>2. RowsKnown /\ OneRowPerWriter
    BY LedgerAssumption DEF Init, NoRow, RowsKnown, OneRowPerWriter, RowsOf
  <1>3. ASSUME NEW w \in Sessions PROVE SessionOK(w)
    <2>1. ses[w] = Closed
      BY DEF Init
    <2>2. QED
      BY <2>1 DEF Closed, SessionOK, Session, Loaded, Changed, Inserted, Pending
  <1>4. ResetOK
    BY DEF Init, NoReset, ResetOK
  <1>5. QED
    BY <1>1, <1>2, <1>3, <1>4 DEF LInv, SessionsOK

LEMMA LInvStep == LInv /\ [Next]_vars => LInv'
  <1> SUFFICES ASSUME LInv, [Next]_vars PROVE LInv'
    OBVIOUS
  <1>1. TypeOK'
    BY TypeStep DEF LInv
  <1>2. CASE UNCHANGED vars
    BY <1>2 DEF vars, LInv, TypeOK, RowsKnown, SessionsOK, SessionOK, Session, Loaded,
                Changed, Inserted, Pending, ResetOK, OneRowPerWriter, RowsOf
  <1>3. QED
    BY <1>1, <1>2, LoadStep, RiskStep, ChangeStep, ReopenStep, CommitStep, ResetStep,
       CrashStep
       DEF Next, Fill

-----------------------------------------------------------------------------
(* Theorems *)

\* Every variable keeps its type.
THEOREM LedgerTypeOKCorrect == Spec => []TypeOK
  <1>1. Init => TypeOK
    BY LedgerAssumption, ClosedTyped, Members DEF Init, TypeOK
  <1>2. QED
    BY <1>1, TypeStep, PTL DEF Spec

\* The inductive invariant: what a session holds is what nobody has changed, and a row it
\* has inserted is the only one of its own.
THEOREM LInvCorrect == Spec => []LInv
  BY LInvInit, LInvStep, PTL DEF Spec

\* Several rows of one symbol come of different sessions only.
THEOREM OneRowPerWriterCorrect == Spec => []OneRowPerWriter
  <1>1. LInv => OneRowPerWriter
    BY DEF LInv
  <1>2. QED
    BY <1>1, LInvCorrect, PTL

\* A commit that nobody came before is one fill of the ledger.
LEMMA CommitIsFill ==
    ASSUME LInv, NEW w \in Sessions, Commit(w), ses[w].fresh
    PROVE  Abstract!Next
  <1> DEFINE r == ses[w].row
             lots == [i \in Ids |-> rows[i].qty]
  <1>1. /\ r \in Ids /\ rows'[r].qty = ses[w].qty
        /\ \A i \in Ids \ {r} : rows'[i] = rows[i]
    BY CommitRows
  <1>2. Changed(w) /\ ses[w].at = "ready" /\ cash' = ses[w].cash
    BY DEF LInv, SessionsOK, SessionOK, Commit, At
  <1>3. lots' = [lots EXCEPT ![r] = ses[w].qty]
    BY <1>1
  <1>4. lots[r] = rows[r].qty
    BY <1>1
  <1> HIDE DEF lots
  <1>5. CASE \E n \in 1..cash : ses[w].cash = cash - n /\ ses[w].qty = rows[r].qty + n
    <2>1. PICK n \in 1..cash : ses[w].cash = cash - n /\ ses[w].qty = rows[r].qty + n
      BY <1>5
    <2>2. Abstract!Buy(r, n)
      BY <1>2, <1>3, <1>4, <2>1 DEF Abstract!Buy, lots
    <2>3. QED
      BY <1>1, <2>1, <2>2 DEF Abstract!Next
  <1>6. CASE \E n \in 1..rows[r].qty : ses[w].cash = cash + n /\ ses[w].qty = rows[r].qty - n
    <2>1. PICK n \in 1..rows[r].qty :
             ses[w].cash = cash + n /\ ses[w].qty = rows[r].qty - n
      BY <1>6
    <2>2. Abstract!Sell(r, n)
      BY <1>2, <1>3, <1>4, <2>1 DEF Abstract!Sell, lots
    <2>3. QED
      BY <1>1, <1>4, <2>1, <2>2 DEF Abstract!Next, lots
  <1>7. QED
    BY <1>2, <1>5, <1>6 DEF Changed

\* A reset that nobody came before starts the ledger over.
LEMMA CommitIsReset ==
    ASSUME LInv, ResetCommits, reset.fresh
    PROVE  Abstract!Next
  <1>1. reset.cash = cash /\ reset.ids = {i \in Ids : rows[i].sym # NoSymbol}
    BY DEF LInv, ResetOK, ResetCommits
  <1>2. cash' = Default
    BY <1>1 DEF ResetCommits
  <1>3. \A i \in Ids : rows'[i].qty = 0
    BY <1>1 DEF ResetCommits, NoRow, LInv, RowsKnown
  <1>4. Abstract!Reset
    BY <1>2, <1>3 DEF Abstract!Reset
  <1>5. QED
    BY <1>4 DEF Abstract!Next

\* A session that commits before any other has, since it loaded the cash, makes one fill of
\* the ledger, and a reset that does since it began to delete starts it over.
THEOREM AloneIsAtomicCorrect == Spec => AloneIsAtomic
  <1> DEFINE lots == [i \in Ids |-> rows[i].qty]
  <1>1. LInv /\ [Next]_vars =>
          [UNCHANGED <<cash, rows>> \/ Overtaken \/ Abstract!Next]_<<cash, lots>>
    <2> SUFFICES ASSUME LInv, [Next]_vars, ~Overtaken
                 PROVE  UNCHANGED <<cash, rows>> \/ Abstract!Next
      OBVIOUS
    <2>1. ASSUME NEW w \in Sessions, Commit(w) PROVE Abstract!Next
      <3>1. ses[w] \in SessionType /\ ses \in [Sessions -> SessionType]
        BY DEF LInv, TypeOK
      <3>2. /\ ses'[w] = Reopened(w, ses[w].cached)
            /\ ses[w].cached \in BOOLEAN /\ ses[w].fresh \in BOOLEAN
        BY <2>1, <3>1 DEF Commit, Outdate, SessionType
      <3>3. ses'[w].at # "ready"
        <4>1. CASE w = Risk
          BY <3>2, <4>1, RiskReopened
        <4>2. CASE w # Risk
          BY <3>2, <4>2 DEF Reopened, Closed
        <4>3. QED
          BY <4>1, <4>2
      <3>4. ses[w].fresh
        BY <2>1, <3>1, <3>3 DEF Overtaken, Commit, At, SessionType
      <3>5. QED
        BY <2>1, <3>4, CommitIsFill
    <2>2. CASE ResetCommits
      <3>1. reset.at = "read" /\ reset'.at # "read"
        BY <2>2 DEF ResetCommits, NoReset
      <3>2. QED
        BY <2>2, <3>1, CommitIsReset DEF Overtaken
    <2>3. UNCHANGED <<cash, rows>> \/ (\E w \in Sessions : Commit(w)) \/ ResetCommits
      BY DEF Next, vars, LoadCash, RiskBegins, RiskEnds, RiskItem, Fill, BuyMore, BuyFirst,
             Sell, Skip, Rollback, ResetDeletes, ResetReadsCash, ResetFails, Crash
    <2>4. QED
      BY <2>1, <2>2, <2>3
  <1>2. QED
    BY <1>1, LInvCorrect, PTL DEF Spec, AloneIsAtomic
=============================================================================
