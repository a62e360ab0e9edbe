------------------------ MODULE ProviderRouterProofs ------------------------
(***************************************************************************)
(* Proofs that ProviderRouter keeps its types, that a call gives up only   *)
(* when each provider it may use was blocked or has failed it, and that a  *)
(* block ends early only by a mark of the provider itself or by an older   *)
(* copy of the document: for any providers, calls and lengths of blocks.   *)
(***************************************************************************)
EXTENDS ProviderRouter, TLAPS

Entry == [blocked : Blocks, failed : BOOLEAN]

Stages == {"idle", "ask", "read", "write", "unavailable"}
Call   == [at : Stages, usable : SUBSET Providers, left : SUBSET Providers, mark : Marks,
           doc : Doc, skipped : SUBSET Providers, tried : SUBSET Providers]

\* What a call of c has: whom it has still to ask is wanted, and somebody as long as it
\* asks; what it is about to write is a mark; and each provider that it might use was
\* blocked, has failed it or is still to be asked.
CallOK(c, k) ==
    /\ k \in Call
    /\ k.left \subseteq Wanted(c)
    /\ k.at \in {"ask", "read", "write"} => k.left # {}
    /\ k.at \in {"idle", "unavailable"} => k.left = {}
    /\ k.at \in {"read", "write"} => k.mark.kind # "none"
    /\ k.usable \subseteq k.skipped \cup k.tried \cup k.left

CopiesOK ==
    /\ enabled \subseteq Providers
    /\ status \in Doc
    /\ faults \in 0..MaxFaults
    /\ DOMAIN call = Calls
    /\ \A c \in Calls : CallOK(c, call[c])

\* The bounds are numbers, and time does not run below zero.
LEMMA BlocksAre ==
    /\ 0 \in Blocks /\ BlockTimes \subseteq Blocks /\ Blocks \subseteq Nat
    /\ \A n \in Blocks : Sooner(n) \in Blocks /\ (n > 1 => Sooner(n) > 0)
  BY RouterAssumption DEF Blocks, BlockTimes, Sooner

LEMMA DocIs == Doc = [Providers -> Entry]
  BY DEF Doc, Entry

-----------------------------------------------------------------------------
(* Marks and time *)

\* A mark changes one provider's part of the document.
LEMMA MarkedOK ==
    ASSUME NEW doc \in Doc, NEW p \in Providers, NEW mark \in Marks, mark.kind # "none"
    PROVE  /\ Marked(doc, p, mark) \in Doc
           /\ \A q \in Providers : q # p => Marked(doc, p, mark)[q] = doc[q]
  <1>1. mark.kind \in {"ok", "error", "limited"} /\ mark.block \in Blocks
    BY DEF Marks
  <1>2. ASSUME NEW e \in Entry
        PROVE  /\ [doc EXCEPT ![p] = e] \in Doc
               /\ \A q \in Providers : q # p => [doc EXCEPT ![p] = e][q] = doc[q]
    BY DocIs
  <1>3. CASE mark.kind = "ok"
    <2>1. Marked(doc, p, mark) = [doc EXCEPT ![p] = [blocked |-> 0, failed |-> FALSE]]
      BY <1>3 DEF Marked
    <2>2. [blocked |-> 0, failed |-> FALSE] \in Entry
      BY BlocksAre DEF Entry
    <2> QED
      BY <1>2, <2>1, <2>2
  <1>4. CASE mark.kind = "error"
    <2>1. Marked(doc, p, mark) = [doc EXCEPT ![p] = [doc[p] EXCEPT !.failed = TRUE]]
      BY <1>4 DEF Marked
    <2>2. [doc[p] EXCEPT !.failed = TRUE] \in Entry
      BY DocIs DEF Entry
    <2> QED
      BY <1>2, <2>1, <2>2
  <1>5. CASE mark.kind = "limited"
    <2>1. Marked(doc, p, mark) = [doc EXCEPT ![p] = [blocked |-> mark.block, failed |-> TRUE]]
      BY <1>5 DEF Marked
    <2>2. [blocked |-> mark.block, failed |-> TRUE] \in Entry
      BY <1>1 DEF Entry
    <2> QED
      BY <1>2, <2>1, <2>2
  <1> QED
    BY <1>1, <1>3, <1>4, <1>5

\* Time shortens a block by one tick.
LEMMA SoonerOK ==
    ASSUME NEW doc \in Doc
    PROVE  /\ SoonerDoc(doc) \in Doc
           /\ \A p \in Providers : doc[p].blocked > 1 => SoonerDoc(doc)[p].blocked > 0
  <1>1. ASSUME NEW p \in Providers
        PROVE  /\ [doc[p] EXCEPT !.blocked = Sooner(doc[p].blocked)] \in Entry
               /\ [doc[p] EXCEPT !.blocked = Sooner(doc[p].blocked)].blocked
                      = Sooner(doc[p].blocked)
               /\ doc[p].blocked \in Blocks
    <2>1. doc[p] \in Entry
      BY DocIs
    <2> QED
      BY <2>1, BlocksAre DEF Entry
  <1>2. SoonerDoc(doc) = [p \in Providers |-> [doc[p] EXCEPT !.blocked = Sooner(doc[p].blocked)]]
    BY DEF SoonerDoc
  <1> QED
    BY <1>1, <1>2, BlocksAre, DocIs

LEMMA IdleOK ==
    ASSUME NEW c
    PROVE  CallOK(c, Idle) /\ Idle.at = "idle"
  <1>1. NoDoc \in Doc
    BY BlocksAre DEF NoDoc, Doc
  <1>2. NoMark \in Marks
    BY BlocksAre DEF NoMark, Marks
  <1>3. Idle \in Call
    BY <1>1, <1>2 DEF Idle, Call, Stages
  <1>4. /\ Idle.at = "idle" /\ Idle.left = {} /\ Idle.usable = {}
    BY DEF Idle
  <1> QED
    BY <1>3, <1>4 DEF CallOK

-----------------------------------------------------------------------------
(* The invariant *)

\* A step of one call changes its record and leaves those of the others alone.
LEMMA OthersKept ==
    ASSUME CopiesOK, NEW c \in Calls, NEW k, CallOK(c, k),
           call' = [call EXCEPT ![c] = k], status' \in Doc,
           enabled' = enabled, faults' \in 0..MaxFaults
    PROVE  CopiesOK'
  <1>1. DOMAIN call' = Calls /\ \A d \in Calls : call'[d] = IF d = c THEN k ELSE call[d]
    BY DEF CopiesOK
  <1>2. \A d \in Calls : CallOK(d, call'[d])
    BY <1>1 DEF CopiesOK
  <1> QED
    BY <1>1, <1>2 DEF CopiesOK

\* Whom a call wants is a provider.
LEMMA WantedAre == \A c \in Calls : Wanted(c) \subseteq Providers
  BY RouterAssumption DEF Wanted

\* What a call begins with.
LEMMA LoadOK ==
    ASSUME CopiesOK, NEW c \in Calls, Load(c)
    PROVE  CopiesOK'
  <1> DEFINE usable  == Wanted(c) \cap enabled \cap Keyed
             skipped == {p \in usable : status[p].blocked > 0}
             k == [call[c] EXCEPT !.at = IF MayAsk(c) = {} THEN "unavailable" ELSE "ask",
                                  !.usable = usable, !.left = MayAsk(c), !.skipped = skipped]
  <1>1. call' = [call EXCEPT ![c] = k]
    BY DEF Load, CopiesOK
  <1>2. call[c] \in Call
    BY DEF CopiesOK, CallOK
  <1>3. /\ usable \subseteq Providers /\ skipped \subseteq usable
        /\ MayAsk(c) \subseteq usable
        /\ usable \subseteq skipped \cup MayAsk(c)
        /\ usable \subseteq Wanted(c)
    <2>1. \A p \in Providers : status[p].blocked \in Nat
      BY BlocksAre, DocIs DEF CopiesOK, Entry
    <2> QED
      BY <2>1, WantedAre DEF MayAsk, Candidates
  <1> HIDE DEF usable, skipped
  <1>4. /\ k \in Call
        /\ k.at = IF MayAsk(c) = {} THEN "unavailable" ELSE "ask"
        /\ k.usable = usable /\ k.left = MayAsk(c) /\ k.skipped = skipped
    BY <1>2, <1>3 DEF Call, Stages
  <1> HIDE DEF k
  <1>5. CallOK(c, k)
    BY <1>3, <1>4 DEF CallOK
  <1>6. status' \in Doc /\ enabled' = enabled /\ faults' \in 0..MaxFaults
    BY DEF Load, CopiesOK
  <1> QED
    BY <1>1, <1>5, <1>6, OthersKept

\* What a call goes on with once it has written.
LEMMA AfterWrite ==
    ASSUME CopiesOK, NEW c \in Calls, WriteStatus(c)
    PROVE  \E k : call' = [call EXCEPT ![c] = k] /\ CallOK(c, k) /\ k.at # "write"
  <1>1. PICK p \in call[c].left :
            call' = [call EXCEPT ![c] =
              IF call[c].mark.kind = "ok" THEN Idle
              ELSE [Idle EXCEPT !.at = NextIsAsked(call[c].mark, call[c].left \ {p}),
                                !.usable = call[c].usable, !.left = call[c].left \ {p},
                                !.skipped = call[c].skipped,
                                !.tried = call[c].tried \cup {p}]]
    BY DEF WriteStatus
  <1> DEFINE q    == call[c]
             rest == q.left \ {p}
             next == [Idle EXCEPT !.at = NextIsAsked(q.mark, rest), !.usable = q.usable,
                                  !.left = rest, !.skipped = q.skipped,
                                  !.tried = q.tried \cup {p}]
             k    == IF q.mark.kind = "ok" THEN Idle ELSE next
  <1>2. call' = [call EXCEPT ![c] = k]
    BY <1>1
  <1>3. CallOK(c, Idle) /\ Idle.at # "write" /\ Idle \in Call
    BY IdleOK DEF CallOK
  <1>4. /\ q \in Call /\ q.left \subseteq Wanted(c)
        /\ q.usable \subseteq q.skipped \cup q.tried \cup q.left
    BY DEF CopiesOK, CallOK
  <1>5. CallOK(c, next) /\ next.at # "write"
    <2>1. /\ q.usable \subseteq Providers /\ q.skipped \subseteq Providers
          /\ q.tried \subseteq Providers /\ q.left \subseteq Providers
          /\ p \in q.left
      BY <1>1, <1>4 DEF Call
    <2>2. /\ rest \subseteq Providers /\ q.tried \cup {p} \subseteq Providers
          /\ rest \subseteq Wanted(c)
          /\ q.usable \subseteq q.skipped \cup (q.tried \cup {p}) \cup rest
      BY <1>4, <2>1
    <2>3. NextIsAsked(q.mark, rest) = IF rest = {} THEN "unavailable" ELSE "ask"
      BY DEF NextIsAsked
    <2> HIDE DEF rest, q
    <2>4. /\ next \in Call
          /\ next.at = IF rest = {} THEN "unavailable" ELSE "ask"
          /\ next.left = rest /\ next.usable = q.usable /\ next.skipped = q.skipped
          /\ next.tried = q.tried \cup {p}
      BY <1>3, <2>1, <2>2, <2>3 DEF Call, Stages
    <2> HIDE DEF next
    <2> QED
      BY <2>2, <2>4 DEF CallOK
  <1> HIDE DEF next
  <1>6. CallOK(c, k) /\ k.at # "write"
    BY <1>3, <1>5
  <1> HIDE DEF k
  <1> QED
    BY <1>2, <1>6

LEMMA CopiesOKInit == ASSUME Init PROVE CopiesOK
  <1>1. status \in Doc
    BY BlocksAre DEF Init, NoDoc, Doc
  <1>2. 0 \in 0..MaxFaults
    BY RouterAssumption
  <1> QED
    BY <1>1, <1>2, IdleOK DEF Init, CopiesOK

LEMMA CopiesOKStep ==
    ASSUME CopiesOK, [Next]_vars
    PROVE  CopiesOK'
  <1>0. /\ status \in Doc /\ enabled \subseteq Providers /\ faults \in 0..MaxFaults
        /\ \A c \in Calls : CallOK(c, call[c]) /\ call[c] \in Call
    BY DEF CopiesOK, CallOK
  <1>1. ASSUME NEW c \in Calls, Load(c) PROVE CopiesOK'
    BY <1>1, LoadOK
  <1>2. ASSUME NEW c \in Calls, Ask(c) PROVE CopiesOK'
    <2>1. PICK mark \in Outcomes :
             call' = [call EXCEPT ![c] = [call[c] EXCEPT !.at = "read", !.mark = mark]]
      BY <1>2 DEF Ask, CopiesOK
    <2> DEFINE k == [call[c] EXCEPT !.at = "read", !.mark = mark]
    <2>2. mark \in Marks /\ mark.kind # "none"
      BY BlocksAre DEF Outcomes, Marks
    <2>3. /\ k \in Call /\ k.at = "read" /\ k.mark = mark
          /\ k.left = call[c].left /\ k.usable = call[c].usable
          /\ k.skipped = call[c].skipped /\ k.tried = call[c].tried
      BY <1>0, <2>2 DEF Call, Stages
    <2>4. CallOK(c, k)
      BY <1>0, <1>2, <2>2, <2>3 DEF CallOK, Ask, At
    <2> QED
      BY <1>0, <1>2, <2>1, <2>4, OthersKept DEF Ask
  <1>3. ASSUME NEW c \in Calls, ReadStatus(c) PROVE CopiesOK'
    <2> DEFINE k == [call[c] EXCEPT !.at = "write", !.doc = status]
    <2>1. call' = [call EXCEPT ![c] = k]
      BY <1>3 DEF ReadStatus, CopiesOK
    <2>2. /\ k \in Call /\ k.at = "write" /\ k.mark = call[c].mark
          /\ k.left = call[c].left /\ k.usable = call[c].usable
          /\ k.skipped = call[c].skipped /\ k.tried = call[c].tried
      BY <1>0 DEF Call, Stages
    <2>3. CallOK(c, k)
      BY <1>0, <1>3, <2>2 DEF CallOK, ReadStatus, At
    <2> QED
      BY <1>0, <1>3, <2>1, <2>3, OthersKept DEF ReadStatus
  <1>4. ASSUME NEW c \in Calls, WriteStatus(c) PROVE CopiesOK'
    <2>1. PICK p \in call[c].left : status' = Marked(call[c].doc, p, call[c].mark)
      BY <1>4 DEF WriteStatus
    <2>2. status' \in Doc
      <3>1. call[c].doc \in Doc /\ call[c].mark \in Marks /\ p \in Providers
        BY <1>0 DEF Call
      <3>2. call[c].mark.kind # "none"
        BY <1>0, <1>4 DEF CallOK, WriteStatus, At
      <3> QED
        BY <2>1, <3>1, <3>2, MarkedOK
    <2>3. PICK k : call' = [call EXCEPT ![c] = k] /\ CallOK(c, k)
      BY <1>4, AfterWrite
    <2> QED
      BY <1>0, <1>4, <2>2, <2>3, OthersKept DEF WriteStatus
  <1>5. ASSUME NEW c \in Calls, WriteFails(c) \/ Return(c) PROVE CopiesOK'
    <2>1. /\ call' = [call EXCEPT ![c] = Idle] /\ status' = status /\ enabled' = enabled
      BY <1>5 DEF WriteFails, Return
    <2>2. faults' \in 0..MaxFaults
      BY <1>0, <1>5, RouterAssumption DEF WriteFails, Return
    <2> QED
      BY <1>0, <2>1, <2>2, IdleOK, OthersKept
  <1>6. ASSUME NEW p \in Providers, Toggle(p) PROVE CopiesOK'
    <2>1. enabled' \subseteq Providers /\ status' = status /\ call' = call /\ faults' = faults
      BY <1>0, <1>6 DEF Toggle
    <2> QED
      BY <2>1 DEF CopiesOK
  <1>7. ASSUME Tick PROVE CopiesOK'
    <2>1. status' \in Doc
      BY <1>0, <1>7, SoonerOK DEF Tick
    <2>2. ASSUME NEW c \in Calls PROVE CallOK(c, call'[c])
      <3> DEFINE doc == SoonerDoc(call[c].doc)
                 n   == Sooner(call[c].mark.block)
                 mark == [call[c].mark EXCEPT !.block = n]
                 k    == [call[c] EXCEPT !.doc = doc, !.mark = mark]
      <3>1. call'[c] = k
        BY <1>7, <2>2 DEF Tick
      <3>2. call[c].doc \in Doc /\ call[c].mark \in Marks
        BY <1>0, <2>2 DEF Call
      <3>3. doc \in Doc /\ n \in Blocks
        BY <3>2, SoonerOK, BlocksAre DEF Marks
      <3> HIDE DEF doc, n
      <3>4. mark \in Marks /\ mark.kind = call[c].mark.kind
        BY <3>2, <3>3 DEF Marks
      <3> HIDE DEF mark
      <3>5. /\ k \in Call /\ k.at = call[c].at /\ k.mark = mark
            /\ k.left = call[c].left /\ k.usable = call[c].usable
            /\ k.skipped = call[c].skipped /\ k.tried = call[c].tried
        BY <1>0, <2>2, <3>3, <3>4 DEF Call
      <3> HIDE DEF k
      <3> QED
        BY <1>0, <2>2, <3>1, <3>4, <3>5 DEF CallOK
    <2>3. DOMAIN call' = Calls /\ enabled' = enabled /\ faults' = faults
      BY <1>7 DEF Tick
    <2> QED
      BY <1>0, <2>1, <2>2, <2>3 DEF CopiesOK
  <1>8. CASE UNCHANGED vars
    BY <1>8 DEF vars, CopiesOK
  <1> QED
    BY <1>1, <1>2, <1>3, <1>4, <1>5, <1>6, <1>7, <1>8 DEF Next, CallStep

\* The document and every copy of it stay whole, whatever calls overlap.
THEOREM CopiesOKCorrect == Spec => []CopiesOK
  BY CopiesOKInit, CopiesOKStep, PTL DEF Spec

\* Every variable keeps its type, whatever calls overlap.
THEOREM TypeOKCorrect == Spec => []TypeOK
  <1>1. CopiesOK => TypeOK
    BY DEF CopiesOK, CallOK, Call, TypeOK
  <1> QED
    BY <1>1, CopiesOKCorrect, PTL

\* A call gives up only when each provider that it may use was blocked as it began or
\* has failed it, whatever the other calls and the settings do meanwhile.
THEOREM GivesUpWhenSpentCorrect == Spec => []GivesUpWhenSpent
  <1>1. CopiesOK => GivesUpWhenSpent
    <2> SUFFICES ASSUME CopiesOK, NEW c \in Calls, At(c, "unavailable")
                 PROVE  call[c].usable \subseteq call[c].skipped \cup call[c].tried
      BY DEF GivesUpWhenSpent
    <2>1. CallOK(c, call[c]) /\ call[c].at = "unavailable"
      BY DEF CopiesOK, At
    <2> QED
      BY <2>1 DEF CallOK
  <1> QED
    BY <1>1, CopiesOKCorrect, PTL

-----------------------------------------------------------------------------
(* Blocks *)

LEMMA BlockKeptStep ==
    ASSUME CopiesOK, CopiesOK', [Next]_vars
    PROVE  [\A p \in Providers : (status[p].blocked > 1 /\ status'[p].blocked = 0) =>
         \E c \in Calls :
            /\ At(c, "write") /\ ~At(c, "write")'
            /\ Asks(c, p) \/ call[c].doc[p] # status[p]]_vars
  <1> SUFFICES ASSUME NEW p \in Providers, status[p].blocked > 1, status'[p].blocked = 0
               PROVE  \E c \in Calls :
                        /\ At(c, "write") /\ ~At(c, "write")'
                        /\ Asks(c, p) \/ call[c].doc[p] # status[p]
    OBVIOUS
  <1>0. status \in Doc /\ status[p].blocked \in Nat
    BY BlocksAre, DocIs DEF CopiesOK, Entry
  <1>1. ASSUME NEW c \in Calls, WriteStatus(c)
        PROVE  /\ At(c, "write") /\ ~At(c, "write")'
               /\ Asks(c, p) \/ call[c].doc[p] # status[p]
    <2>1. At(c, "write")
      BY <1>1 DEF WriteStatus
    <2>2. call'[c].at # "write"
      BY <1>1, AfterWrite DEF CopiesOK
    <2>3. Asks(c, p) \/ call[c].doc[p] # status[p]
      <3>1. PICK q \in call[c].left :
                Asks(c, q) /\ status' = Marked(call[c].doc, q, call[c].mark)
        BY <1>1 DEF WriteStatus
      <3>2. /\ call[c].doc \in Doc /\ call[c].mark \in Marks /\ q \in Providers
            /\ call[c].mark.kind # "none"
        BY <2>1 DEF CopiesOK, CallOK, Call, At
      <3>3. q # p => status'[p] = call[c].doc[p]
        BY <3>1, <3>2, MarkedOK
      <3> QED
        BY <1>0, <3>1, <3>3
    <2> QED
      BY <2>1, <2>2, <2>3 DEF At
  <1>2. ASSUME Tick PROVE FALSE
    <2>1. status' = SoonerDoc(status)
      BY <1>2 DEF Tick
    <2> QED
      BY <1>0, <2>1, SoonerOK
  <1>3. ASSUME UNCHANGED status PROVE FALSE
    BY <1>0, <1>3
  <1>4. CASE \E c \in Calls : WriteStatus(c)
    BY <1>1, <1>4
  <1>5. CASE Tick \/ UNCHANGED status
    BY <1>2, <1>3, <1>5
  <1> QED
    BY <1>4, <1>5 DEF Next, CallStep, Load, Ask, ReadStatus, WriteFails, Return, Toggle, vars

\* A block ends before its time only by a mark of the provider itself, or by a call
\* whose copy of the document was older, for any providers, calls and blocks.
THEOREM BlockKeptCorrect == Spec => BlockKept
  <1>1. CopiesOK /\ CopiesOK' /\ [Next]_vars
        => [\A p \in Providers : (status[p].blocked > 1 /\ status'[p].blocked = 0) =>
         \E c \in Calls :
            /\ At(c, "write") /\ ~At(c, "write")'
            /\ Asks(c, p) \/ call[c].doc[p] # status[p]]_vars
    BY BlockKeptStep
  <1> QED
    BY <1>1, CopiesOKCorrect, PTL DEF Spec, BlockKept
=============================================================================
