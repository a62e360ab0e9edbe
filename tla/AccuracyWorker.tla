--------------------------- MODULE AccuracyWorker ---------------------------
(***************************************************************************)
(* The evaluation of past analyses (services/trading/accuracy_worker.py)   *)
(* and the calibration that reads it (load_buy_confidence_calibration of   *)
(* services/trading/entry_policy.py), for the BUY analyses of one symbol   *)
(* and, ahead of them or between them, analyses that nothing can be said   *)
(* of because the exchange has no candles of their market.                 *)
(*                                                                         *)
(* A pass takes the oldest analyses that have no label, looks up the       *)
(* prices of each, and commits all labels at the end.  BUYs of the symbol  *)
(* are refused while too few of its latest labels are SUCCESS.             *)
(***************************************************************************)
EXTENDS Naturals, Sequences, SequencesExt, FiniteSetsExt

CONSTANTS
    Rows,      \* rows of ai_analysis_logs; one that has a label serves again for a new one
    Dead,      \* rows of a market without candles
    Batch,     \* ACCURACY_BATCH_SIZE
    Latest,    \* the number of labels that the calibration reads
    MinRate,   \* ai_calibration_min_success_rate, in per cent
    Confidence,     \* what the analyses say of themselves, in per cent
    MinConfidence,  \* DEFAULT_MIN_CALIBRATED_CONFIDENCE
    MaxFaults  \* bound: look-ups, commits and passes that fail

ASSUME AccuracyAssumption ==
    /\ Dead \subseteq Rows
    /\ {Batch, Latest} \subseteq Nat \ {0}
    /\ {MinRate, Confidence, MinConfidence} \subseteq 0..100
    /\ MaxFaults \in Nat
    /\ Cardinality(Dead) < Batch

VARIABLES
    pending,  \* the rows without a label, oldest first
    right,    \* whether the price goes the way that the analysis says
    aged,     \* how many of them were created 60 minutes ago or more
    pass,     \* whether the worker is at work
    batch,    \* the rows that it still has to look up
    found,    \* the rows that got a label in its session
    labels,   \* the labels committed for the symbol, as far as the calibration reads them
    faults    \* steps that failed

vars == <<pending, right, aged, pass, batch, found, labels, faults>>

Init ==
    /\ pending = <<>>
    /\ right \in [Rows -> {TRUE}]
    /\ aged = 0
    /\ pass = FALSE
    /\ batch = <<>>
    /\ found = <<>>
    /\ labels = <<>>
    /\ faults = 0

-----------------------------------------------------------------------------
(* The analyses *)

\* A BUY or SELL is saved; whether it is right is for the market to say.
Analyse(row) ==
    /\ row \notin Range(pending)
    /\ pending' = Append(pending, row)
    /\ \E is \in BOOLEAN : right' = [right EXCEPT ![row] = is \/ row \in Dead]
    /\ UNCHANGED <<aged, pass, batch, found, labels, faults>>

Age ==
    /\ aged < Len(pending)
    /\ aged' = aged + 1
    /\ UNCHANGED <<pending, right, pass, batch, found, labels, faults>>

-----------------------------------------------------------------------------
(* A pass of the worker *)

\* Of the rows old enough, the oldest: ORDER BY created_at LIMIT.
NewestOf(old) == SubSeq(old, IF Len(old) > Batch THEN Len(old) - Batch + 1 ELSE 1, Len(old))
Chosen(old) == SubSeq(old, 1, Min({Batch, Len(old)}))

Begin ==
    /\ ~pass
    /\ aged > 0
    /\ pass' = TRUE
    /\ batch' = Chosen(SubSeq(pending, 1, aged))
    /\ UNCHANGED <<pending, right, aged, found, labels, faults>>

\* A row without prices is passed over, with no trace of it.
Evaluate ==
    /\ pass
    /\ batch # <<>>
    /\ batch' = Tail(batch)
    /\ found' = IF Head(batch) \in Dead THEN found ELSE Append(found, Head(batch))
    /\ UNCHANGED <<pending, right, aged, pass, labels, faults>>

LookupFails ==
    /\ pass
    /\ batch # <<>>
    /\ faults < MaxFaults
    /\ faults' = faults + 1
    /\ batch' = Tail(batch)
    /\ UNCHANGED <<pending, right, aged, pass, found, labels>>

\* The latest labels by accuracy_checked_at.
FirstLabels(all) == SubSeq(all, 1, Min({Latest, Len(all)}))
LatestLabels(all) == SubSeq(all, IF Len(all) > Latest THEN Len(all) - Latest + 1 ELSE 1, Len(all))

Commit ==
    /\ pass
    /\ batch = <<>>
    /\ labels' = LatestLabels(labels \o [k \in DOMAIN found |-> right[found[k]]])
    /\ pending' = SelectSeq(pending, LAMBDA row : row \notin Range(found))
    /\ aged' = aged - Len(found)
    /\ found' = <<>>
    /\ pass' = FALSE
    /\ UNCHANGED <<right, batch, faults>>

\* The commit fails and is rolled back, or the process restarts: no label is left.
PassFails ==
    /\ pass
    /\ faults < MaxFaults
    /\ faults' = faults + 1
    /\ pass' = FALSE
    /\ batch' = <<>>
    /\ found' = <<>>
    /\ UNCHANGED <<pending, right, aged, labels>>

Worker == Begin \/ Evaluate \/ LookupFails \/ Commit \/ PassFails

Next == Age \/ Worker \/ \E row \in Rows : Analyse(row)

Spec == Init /\ [][Next]_vars

\* Time passes, and the job comes around and ends: Upbit's client has a timeout, and the
\* database, whose calls have none, is assumed to answer.
FairSpec == Spec /\ WF_vars(Age) /\ WF_vars(Worker)

-----------------------------------------------------------------------------
(* The calibration *)

Successes == Cardinality({k \in DOMAIN labels : labels[k]})

\* In per cent; 50 when there is no label.
Rate == IF labels = <<>> THEN 50 ELSE (100 * Successes) \div Len(labels)

\* The confidence counts for less, or more, as the rate is below 50 or above.
Calibrated == Min({100, (Confidence * Rate) \div 50})

\* Neither is a reason to refuse a BUY.
Open == (labels # <<>> => Rate >= MinRate) /\ Calibrated >= MinConfidence

-----------------------------------------------------------------------------
(* Properties *)

\* Each analysis that prices exist for gets its label, though those without stay ahead of
\* it for good, as long as they do not fill a batch.
Labelled ==
    \A row \in Rows \ Dead :
        (row \in Range(SubSeq(pending, 1, aged))) ~> (row \notin Range(pending))

\* Bad labels do not refuse BUYs for good: the analyses go on while BUYs are refused, and
\* once those that follow are right, the rate lets BUYs pass again and again.
Reopens ==
    /\ []<>(\E row \in Rows \ Dead : row \in Range(pending))
    /\ <>[](\A row \in Range(pending) : right[row])
    => []<>Open
=============================================================================
