------------------------- MODULE NewsIngestionProofs -------------------------
(***************************************************************************)
(* Theorems about NewsIngestion: what a run that no other one has met      *)
(* knows of the index it works on.                                         *)
(*                                                                         *)
(* Runs are not kept apart, so that nothing holds of a run as such: every  *)
(* write of another may undo what it relies on.  The invariant is          *)
(* therefore about the runs that are alone, and a step is sorted by whose  *)
(* it is: a run that begins ends the others' being alone, and while one is *)
(* alone all other runs are idle, so that the next step is its own.        *)
(***************************************************************************)
EXTENDS NewsIngestion, FiniteSetTheorems, TLAPS

-----------------------------------------------------------------------------
(* The inductive invariant *)

Stages == {"idle", "check", "drop", "create", "fetch", "embed", "upsert", "stale", "search",
           "backfill", "expire", "store"}

RunRec ==
    [at : Stages, docs : SUBSET Doc, embedded : SUBSET ChunkIds, skip : BOOLEAN,
     indexed : BOOLEAN, todo : SUBSET Sources, hits : SUBSET (ChunkIds \X Texts),
     flawed : BOOLEAN, unfilled : BOOLEAN, alone : BOOLEAN, got : SUBSET Sources,
     whole : BOOLEAN]

\* The documents of a run have one text per article, and dummies are not mixed with
\* real ones; without a flaw they are real.
DocsOK(q) ==
    /\ \A d, e \in q.docs : d.article = e.article => d = e
    /\ RealSources(q.docs) # {} => \A d \in q.docs : ~IsDummy(d.article)
    /\ (q.at \in {"embed", "upsert", "stale"} /\ ~q.flawed) => RealSources(q.docs) # {}
    /\ q.todo \subseteq RealSources(q.docs)

\* What a run has not done yet at a stage has left no result.
StageOK(q) ==
    /\ q.at # "stale" => q.todo = {}
    /\ q.whole => q.at \in {"backfill", "expire", "store"}
    /\ q.at = "idle" => ~q.alone

RunsOK ==
    /\ run \in [Runs -> RunRec]
    /\ \A r \in Runs : DocsOK(run[r]) /\ StageOK(run[r])

\* The index and the other variables; an index that is not there holds nothing.
IndexOK ==
    /\ latest \in [Sources -> Nat]
    /\ \A s \in Sources : latest[s] \in 1..MaxArticle[s]
    /\ store \in {"absent", "outdated", "ready"}
    /\ index \in [ChunkIds -> {None} \cup [text : Texts, vector : Texts \cup {"none"}]]
    /\ \A c \in Held : c[2] = 2 => index[c].text = "body"
    /\ store = "absent" => Held = {}
    /\ record \in {"none", "failed", "partial", "success"}
    /\ faults \in 0..MaxFaults

\* What a run that is alone knows of the index: of each source it has indexed, a chunk
\* of its own is there; what its search found still stands; and without a flaw, no dummy
\* is left, and no vector is missing but those it found.
Listing(q) == \A s \in q.got : \E c \in Held : c[1][1] = s /\ \E d \in q.docs : d.article = c[1]
Found(q)   == \A h \in q.hits : index[h[1]].text = h[2]
Filled(q)  ==
    /\ DummyHeld = {}
    /\ (q.whole /\ q.at = "backfill") => Missing \subseteq {h[1] : h \in q.hits}
    /\ (q.whole /\ q.at \in {"expire", "store"} /\ ~q.unfilled) => Missing = {}

Knows(q) ==
    /\ q.at = "stale" => Listing(q)
    /\ q.at = "backfill" => Found(q)
    /\ (q.at \in {"search", "backfill", "expire", "store"} /\ q.indexed /\ ~q.flawed) =>
          Filled(q)

AloneOK(r) == (\A q \in Runs \ {r} : At(q, "idle")) /\ Knows(run[r])

NewsInv == IndexOK /\ RunsOK /\ \A r \in Runs : run[r].alone => AloneOK(r)

-----------------------------------------------------------------------------
(* Articles, chunks and documents *)

\* A chunk is of an article of a source, and a part of it.
LEMMA ChunkParts ==
    ASSUME NEW c \in ChunkIds
    PROVE  /\ c = <<c[1], c[2]>>
           /\ c[1] \in Articles /\ c[2] \in {1, 2}
           /\ c[1][1] \in Sources
           /\ c[1][2] \in 0..MaxArticle[c[1][1]]
           /\ c[1][2] \in Nat
  <1>1. c = <<c[1], c[2]>> /\ c[1] \in Articles /\ c[2] \in {1, 2}
    BY DEF ChunkIds
  <1>2. PICK s \in Sources : c[1] \in {s} \X (0..MaxArticle[s])
    BY <1>1 DEF Articles
  <1>3. c[1][1] = s /\ c[1][2] \in 0..MaxArticle[s]
    BY <1>2
  <1> QED
    BY <1>1, <1>2, <1>3

\* A number up to the last one makes an article of its source.
LEMMA ArticlesOf ==
    ASSUME NEW s \in Sources, NEW n \in 0..MaxArticle[s]
    PROVE  <<s, n>> \in Articles
  <1>1. <<s, n>> \in {s} \X (0..MaxArticle[s])
    OBVIOUS
  <1> QED
    BY <1>1 DEF Articles

\* A chunk of documents is of one of them, which is the document of its text.
LEMMA ChunksOfDocs ==
    ASSUME NEW docs \in SUBSET Doc, NEW c \in ChunksOf(docs),
           \A d, e \in docs : d.article = e.article => d = e
    PROVE  /\ c \in ChunkIds
           /\ \E d \in docs : d.article = c[1] /\ c[2] \in Parts(d.text) /\ TextIn(docs, c) = d.text
           /\ TextIn(docs, c) \in Texts
           /\ c[2] = 2 => TextIn(docs, c) = "body"
  <1>1. PICK d \in docs : c \in {<<d.article, i>> : i \in Parts(d.text)}
    BY DEF ChunksOf
  <1>2. PICK i \in Parts(d.text) : c = <<d.article, i>>
    BY <1>1
  <1>3. d.article \in Articles /\ d.text \in Texts
    BY DEF Doc
  <1>4. i \in {1, 2}
    BY DEF Parts
  <1>5. c \in ChunkIds /\ c[1] = d.article /\ c[2] = i
    BY <1>2, <1>3, <1>4 DEF ChunkIds
  <1>6. (CHOOSE e \in docs : e.article = c[1]) = d
    BY <1>5
  <1>7. TextIn(docs, c) = d.text
    BY <1>6 DEF TextIn
  <1>8. i = 2 => d.text = "body"
    BY DEF Parts
  <1> QED
    BY <1>2, <1>3, <1>5, <1>7, <1>8

\* Chunks of documents are chunks.
LEMMA ChunksTyped ==
    ASSUME NEW docs \in SUBSET Doc
    PROVE  ChunksOf(docs) \subseteq ChunkIds
  <1> SUFFICES ASSUME NEW c \in ChunksOf(docs)
               PROVE  c \in ChunkIds
    OBVIOUS
  <1>1. PICK d \in docs : c \in {<<d.article, i>> : i \in Parts(d.text)}
    BY DEF ChunksOf
  <1>2. PICK i \in Parts(d.text) : c = <<d.article, i>>
    BY <1>1
  <1>3. d.article \in Articles
    BY DEF Doc
  <1>4. i \in {1, 2}
    BY DEF Parts
  <1> QED
    BY <1>2, <1>3, <1>4 DEF ChunkIds

\* There are finitely many chunks.
LEMMA ChunksFinite == IsFiniteSet(ChunkIds) /\ IsFiniteSet(ChunkIds \X Texts)
  <1> DEFINE F == [s \in Sources |-> {s} \X (0..MaxArticle[s])]
             T == {{s} \X (0..MaxArticle[s]) : s \in Sources}
  <1>1. F \in Surjection(Sources, T)
    BY DEF Surjection
  <1>2. IsFiniteSet(Sources)
    BY NewsAssumption
  <1>3. IsFiniteSet(T)
    BY <1>1, <1>2, FS_Surjection
  <1>4. \A t \in T : IsFiniteSet(t)
    <2> SUFFICES ASSUME NEW s \in Sources
                 PROVE  IsFiniteSet({s} \X (0..MaxArticle[s]))
      OBVIOUS
    <2>1. MaxArticle[s] \in Nat
      BY NewsAssumption
    <2>2. IsFiniteSet(0..MaxArticle[s])
      BY <2>1, FS_Interval
    <2>3. IsFiniteSet({s})
      BY FS_Singleton
    <2> QED
      BY <2>2, <2>3, FS_Product
  <1>5. IsFiniteSet(Articles)
    <2> HIDE DEF T
    <2>1. IsFiniteSet(UNION T)
      BY <1>3, <1>4, FS_UNION
    <2> QED
      BY <2>1 DEF T, Articles
  <1>6. IsFiniteSet({1, 2}) /\ IsFiniteSet(Texts)
    <2>1. {1, 2} = {1} \cup {2} /\ Texts = {"summary"} \cup {"body"}
      BY DEF Texts
    <2>2. IsFiniteSet({1}) /\ IsFiniteSet({2}) /\ IsFiniteSet({"summary"}) /\ IsFiniteSet({"body"})
      BY FS_Singleton
    <2>3. IsFiniteSet({1} \cup {2})
      BY <2>2, FS_Union
    <2>4. IsFiniteSet({"summary"} \cup {"body"})
      BY <2>2, FS_Union
    <2> QED
      BY <2>1, <2>3, <2>4
  <1>7. IsFiniteSet(ChunkIds)
    BY <1>5, <1>6, FS_Product DEF ChunkIds
  <1> QED
    BY <1>6, <1>7, FS_Product

-----------------------------------------------------------------------------
(* The shape of a step of one run *)

\* A run that does nothing.
LEMMA IdleOK ==
    /\ Idle \in RunRec
    /\ DocsOK(Idle) /\ StageOK(Idle)
    /\ Idle.at = "idle" /\ ~Idle.alone
  <1>1. Idle \in RunRec
    BY DEF Idle, RunRec, Stages
  <1> QED
    BY <1>1 DEF Idle, DocsOK, StageOK, RealSources

\* What becomes of the runs when one of them, and it alone, goes on.
LEMMA OneRun ==
    ASSUME RunsOK, NEW r \in Runs, NEW q \in RunRec, Set(r, q), DocsOK(q), StageOK(q)
    PROVE  /\ RunsOK'
           /\ run'[r] = q
           /\ \A p \in Runs \ {r} : run'[p] = run[p]
  <1>1. run' \in [Runs -> RunRec] /\ run'[r] = q /\ \A p \in Runs \ {r} : run'[p] = run[p]
    BY DEF RunsOK, Set
  <1>2. \A p \in Runs : DocsOK(run'[p]) /\ StageOK(run'[p])
    BY <1>1 DEF RunsOK
  <1> QED
    BY <1>1, <1>2 DEF RunsOK

\* Nobody but the one that is alone goes on, so that the invariant is a matter of what
\* the one that goes on makes of its own record and of the index.
LEMMA OneStep ==
    ASSUME NewsInv, NEW r \in Runs, ~At(r, "idle"), NEW q \in RunRec, Set(r, q),
           DocsOK(q), StageOK(q), IndexOK', q.alone => run[r].alone /\ Knows(q)'
    PROVE  NewsInv'
  <1>1. RunsOK' /\ run'[r] = q /\ \A p \in Runs \ {r} : run'[p] = run[p]
    BY OneRun DEF NewsInv
  <1>2. ASSUME NEW p \in Runs, run'[p].alone
        PROVE  AloneOK(p)'
    <2>1. CASE p # r
      <3>1. AloneOK(p)
        BY <1>1, <1>2, <2>1 DEF NewsInv
      <3> QED
        BY <2>1, <3>1 DEF AloneOK
    <2>2. CASE p = r
      <3>1. AloneOK(r)
        BY <1>1, <1>2, <2>2 DEF NewsInv
      <3>2. \A k \in Runs \ {r} : At(k, "idle")'
        BY <1>1, <3>1 DEF AloneOK, At
      <3>3. Knows(q)'
        BY <1>1, <1>2, <2>2
      <3>4. Knows(run[r])'
        BY <1>1, <3>3 DEF Knows, Listing, Found, Filled
      <3> QED
        BY <2>2, <3>2, <3>4 DEF AloneOK
    <2> QED
      BY <2>1, <2>2
  <1> QED
    BY <1>1, <1>2 DEF NewsInv

\* A step that fails is counted while there is room.
LEMMA Counted ==
    ASSUME IndexOK, NEW failing \in MayFail, Count(failing)
    PROVE  faults' \in 0..MaxFaults
  <1>1. failing \in BOOLEAN
    BY DEF MayFail
  <1>2. CASE failing
    <2>1. faults < MaxFaults
      BY <1>2 DEF MayFail
    <2>2. faults' = faults + 1
      BY <1>2 DEF Count
    <2> QED
      BY <2>1, <2>2, NewsAssumption DEF IndexOK
  <1>3. CASE ~failing
    BY <1>3 DEF IndexOK, Count
  <1> QED
    BY <1>1, <1>2, <1>3

\* The same of a step that fails for sure.
LEMMA CountedOne ==
    ASSUME IndexOK, faults < MaxFaults, Count(TRUE)
    PROVE  faults' \in 0..MaxFaults
  BY NewsAssumption DEF IndexOK, Count

\* The index stays, and with it what is said of it.
LEMMA IndexStays ==
    ASSUME IndexOK, UNCHANGED <<latest, store, index>>,
           record' \in {"none", "failed", "partial", "success"}, faults' \in 0..MaxFaults
    PROVE  IndexOK'
  <1>1. Held' = Held
    BY DEF Held
  <1> QED
    BY <1>1 DEF IndexOK

-----------------------------------------------------------------------------
(* A run before it writes *)

\* Each action of a run keeps the invariant.
LEMMA CheckIndexOK ==
    ASSUME NewsInv, NEW r \in Runs, CheckIndex(r)
    PROVE  NewsInv'
  <1>0. PICK q : q = [run[r] EXCEPT !.at = AfterCheck]
    OBVIOUS
  <1>1. run[r] \in RunRec /\ run[r].at = "check" /\ DocsOK(run[r]) /\ StageOK(run[r])
    BY DEF NewsInv, RunsOK, CheckIndex, At
  <1>2. AfterCheck \in {"fetch", "create", "drop"}
    BY DEF AfterCheck, NewsInv, IndexOK
  <1>3. q \in RunRec /\ q.at = AfterCheck /\ q.docs = run[r].docs /\ q.todo = run[r].todo
        /\ q.whole = run[r].whole /\ q.alone = run[r].alone
    BY <1>0, <1>1, <1>2 DEF RunRec, Stages
  <1>4. Set(r, q)
    BY <1>0 DEF CheckIndex, GoTo
  <1>5. DocsOK(q) /\ StageOK(q) /\ Knows(q)'
    BY <1>1, <1>2, <1>3 DEF DocsOK, StageOK, Knows
  <1>6. IndexOK'
    BY IndexStays DEF CheckIndex, NewsInv, IndexOK
  <1> QED
    BY <1>1, <1>3, <1>4, <1>5, <1>6, OneStep DEF At

LEMMA DropIndexOK ==
    ASSUME NewsInv, NEW r \in Runs, DropIndex(r)
    PROVE  NewsInv'
  <1>0. PICK q : q = [run[r] EXCEPT !.at = "create"]
    OBVIOUS
  <1>1. run[r] \in RunRec /\ run[r].at = "drop" /\ DocsOK(run[r]) /\ StageOK(run[r])
    BY DEF NewsInv, RunsOK, DropIndex, At
  <1>3. q \in RunRec /\ q.at = "create" /\ q.docs = run[r].docs /\ q.todo = run[r].todo
        /\ q.whole = run[r].whole /\ q.alone = run[r].alone
    BY <1>0, <1>1 DEF RunRec, Stages
  <1>4. Set(r, q)
    BY <1>0 DEF DropIndex, GoTo
  <1>5. DocsOK(q) /\ StageOK(q) /\ Knows(q)'
    BY <1>1, <1>3 DEF DocsOK, StageOK, Knows
  <1>6. IndexOK'
    BY DEF DropIndex, NewsInv, IndexOK, Emptied, Held
  <1> QED
    BY <1>1, <1>3, <1>4, <1>5, <1>6, OneStep DEF At

LEMMA CreateIndexOK ==
    ASSUME NewsInv, NEW r \in Runs, CreateIndex(r)
    PROVE  NewsInv'
  <1>0. PICK q : q = [run[r] EXCEPT !.at = "fetch"]
    OBVIOUS
  <1>1. run[r] \in RunRec /\ run[r].at = "create" /\ DocsOK(run[r]) /\ StageOK(run[r])
    BY DEF NewsInv, RunsOK, CreateIndex, At
  <1>3. q \in RunRec /\ q.at = "fetch" /\ q.docs = run[r].docs /\ q.todo = run[r].todo
        /\ q.whole = run[r].whole /\ q.alone = run[r].alone
    BY <1>0, <1>1 DEF RunRec, Stages
  <1>4. Set(r, q)
    BY <1>0 DEF CreateIndex, GoTo
  <1>5. DocsOK(q) /\ StageOK(q) /\ Knows(q)'
    BY <1>1, <1>3 DEF DocsOK, StageOK, Knows
  <1>6. IndexOK'
    BY DEF CreateIndex, NewsInv, IndexOK, Held
  <1> QED
    BY <1>1, <1>3, <1>4, <1>5, <1>6, OneStep DEF At

\* A run that is flawed and goes to its end knows nothing.
LEMMA FlawedOK ==
    ASSUME NewsInv, NEW r \in Runs, ~At(r, "idle"), ~At(r, "stale"),
           UNCHANGED <<latest, store, index, record>>, faults' \in 0..MaxFaults,
           Set(r, [run[r] EXCEPT !.at = "store", !.flawed = TRUE])
    PROVE  NewsInv'
  <1>0. PICK q : q = [run[r] EXCEPT !.at = "store", !.flawed = TRUE]
    OBVIOUS
  <1>1. run[r] \in RunRec /\ run[r].at # "idle" /\ run[r].at # "stale" /\ DocsOK(run[r])
        /\ StageOK(run[r])
    BY DEF NewsInv, RunsOK, At
  <1>3. q \in RunRec /\ q.at = "store" /\ q.docs = run[r].docs /\ q.todo = run[r].todo
        /\ q.flawed /\ q.whole = run[r].whole /\ q.alone = run[r].alone
    BY <1>0, <1>1 DEF RunRec, Stages
  <1>5. DocsOK(q) /\ StageOK(q) /\ Knows(q)'
    BY <1>1, <1>3 DEF DocsOK, StageOK, Knows
  <1>6. IndexOK'
    BY IndexStays DEF NewsInv, IndexOK
  <1>7. Set(r, q)
    BY <1>0
  <1> QED
    BY <1>3, <1>5, <1>6, <1>7, OneStep

LEMMA CreatedByOtherOK ==
    ASSUME NewsInv, NEW r \in Runs, CreatedByOther(r)
    PROVE  NewsInv'
  BY FlawedOK DEF CreatedByOther, At, NewsInv, IndexOK

LEMMA IndexFailsOK ==
    ASSUME NewsInv, NEW r \in Runs, IndexFails(r)
    PROVE  NewsInv'
  <1>1. faults' \in 0..MaxFaults
    BY CountedOne DEF IndexFails, Fails, NewsInv
  <1> QED
    BY <1>1, FlawedOK DEF IndexFails, Fails, At

LEMMA ExpireFailsOK ==
    ASSUME NewsInv, NEW r \in Runs, ExpireFails(r)
    PROVE  NewsInv'
  <1>1. faults' \in 0..MaxFaults
    BY CountedOne DEF ExpireFails, Fails, NewsInv
  <1> QED
    BY <1>1, FlawedOK DEF ExpireFails, Fails, At

\* What is listed of a source are articles that it has published.
LEMMA ListedOK ==
    ASSUME IndexOK, NEW S \in SUBSET Sources, NEW a \in Listed(S)
    PROVE  a \in Articles /\ ~IsDummy(a)
  <1>1. PICK s \in S : a \in {s} \X Window(s)
    BY DEF Listed
  <1>2. a = <<s, a[2]>> /\ a[2] \in 1..latest[s]
    BY <1>1 DEF Window
  <1>3. latest[s] \in 1..MaxArticle[s] /\ MaxArticle[s] \in Nat
    BY NewsAssumption DEF IndexOK
  <1>4. a[2] \in 0..MaxArticle[s] /\ a[2] # 0
    BY <1>2, <1>3
  <1> QED
    BY <1>2, <1>4, ArticlesOf DEF IsDummy

\* A source that answered lists its newest article.
LEMMA NewestListed ==
    ASSUME IndexOK, NEW S, NEW s \in S, s \in Sources
    PROVE  <<s, latest[s]>> \in Listed(S)
  <1>1. latest[s] \in 1..MaxArticle[s] /\ MaxArticle[s] \in Nat /\ FetchLimit \in Nat \ {0}
    BY NewsAssumption DEF IndexOK
  <1>2. latest[s] \in Window(s)
    BY <1>1 DEF Window
  <1>3. <<s, latest[s]>> \in {s} \X Window(s)
    BY <1>2
  <1> QED
    BY <1>3 DEF Listed

\* Real documents, one per article.
LEMMA RealDocsOK ==
    ASSUME IndexOK, NEW S \in SUBSET Sources, NEW crawled
    PROVE  /\ RealDocs(S, crawled) \in SUBSET Doc
           /\ \A d, e \in RealDocs(S, crawled) : d.article = e.article => d = e
           /\ \A d \in RealDocs(S, crawled) : ~IsDummy(d.article)
  <1>1. ASSUME NEW d \in RealDocs(S, crawled)
        PROVE  /\ d = [article |-> d.article,
                       text |-> IF d.article \in crawled THEN "body" ELSE "summary"]
               /\ d \in Doc /\ ~IsDummy(d.article)
    <2>1. PICK a \in Listed(S) :
             d = [article |-> a, text |-> IF a \in crawled THEN "body" ELSE "summary"]
      BY <1>1 DEF RealDocs
    <2>2. a \in Articles /\ ~IsDummy(a)
      BY ListedOK
    <2> QED
      BY <2>1, <2>2 DEF Doc, Texts
  <1> QED
    BY <1>1

\* Dummies are no real documents.
LEMMA DummiesOK ==
    ASSUME NEW F \in SUBSET Sources
    PROVE  /\ Dummies(F) \in SUBSET Doc
           /\ \A d, e \in Dummies(F) : d.article = e.article => d = e
           /\ RealSources(Dummies(F)) = {}
  <1>1. ASSUME NEW d \in Dummies(F)
        PROVE  d = [article |-> d.article, text |-> "summary"] /\ d \in Doc /\ IsDummy(d.article)
    <2>1. PICK s \in F : d = [article |-> <<s, 0>>, text |-> "summary"]
      BY <1>1 DEF Dummies
    <2>2. 0 \in 0..MaxArticle[s]
      BY NewsAssumption
    <2>3. <<s, 0>> \in Articles
      BY <2>2, ArticlesOf
    <2> QED
      BY <2>1, <2>3 DEF Doc, Texts, IsDummy
  <1> QED
    BY <1>1 DEF RealSources

\* What a run has fetched: one text per article, no dummies beside real documents, and
\* real ones unless it is flawed.
LEMMA FetchedOK ==
    ASSUME IndexOK, NEW failing, NEW answered \in Served(Sources \ Keyless, failing),
           NEW crawled, NEW failed \in FailedApis(answered)
    PROVE  LET docs == Preferred(RealDocs(answered, crawled), Dummies(failed)) IN
           /\ docs \in SUBSET Doc
           /\ \A d, e \in docs : d.article = e.article => d = e
           /\ RealSources(docs) # {} => \A d \in docs : ~IsDummy(d.article)
           /\ FALSE \in SourceFlaws(answered) => RealSources(docs) # {}
  <1> DEFINE real == RealDocs(answered, crawled)
             docs == Preferred(real, Dummies(failed))
  <1>1. answered \in SUBSET Sources
    BY DEF Served
  <1>2. failed \in SUBSET Sources
    BY DEF FailedApis, Sources
  <1>3. /\ real \in SUBSET Doc
        /\ \A d, e \in real : d.article = e.article => d = e
        /\ \A d \in real : ~IsDummy(d.article)
    BY <1>1, RealDocsOK
  <1>4. /\ Dummies(failed) \in SUBSET Doc
        /\ \A d, e \in Dummies(failed) : d.article = e.article => d = e
        /\ RealSources(Dummies(failed)) = {}
    BY <1>2, DummiesOK
  <1>5. docs = real \/ docs = Dummies(failed)
    BY DEF Preferred
  <1>6. ASSUME FALSE \in SourceFlaws(answered)
        PROVE  RealSources(docs) # {}
    <2>1. PICK f : f \in Feeds
      BY NewsAssumption
    <2>2. f \in Sources \ Keyless
      BY <2>1, NewsAssumption DEF Sources
    <2>3. f \in answered
      BY <1>6, <2>2 DEF SourceFlaws
    <2>4. <<f, latest[f]>> \in Listed(answered)
      BY <2>2, <2>3, NewestListed
    <2>5. real # {}
      BY <2>4 DEF RealDocs
    <2>6. docs = real
      BY <2>5 DEF Preferred
    <2> HIDE DEF docs, real
    <2> QED
      BY <1>3, <2>5, <2>6 DEF RealSources
  <1> HIDE DEF docs, real
  <1>7. docs \in SUBSET Doc /\ \A d, e \in docs : d.article = e.article => d = e
    BY <1>3, <1>4, <1>5
  <1>8. RealSources(docs) # {} => \A d \in docs : ~IsDummy(d.article)
    BY <1>3, <1>4, <1>5
  <1> QED
    BY <1>6, <1>7, <1>8 DEF docs, real

LEMMA FetchOK ==
    ASSUME NewsInv, NEW r \in Runs, Fetch(r)
    PROVE  NewsInv'
  <1> DEFINE Fetched(q, failing, answered) ==
               \E crawled \in SUBSET Listed(Feeds \cap answered), failed \in FailedApis(answered),
                  flaw \in SourceFlaws(answered) :
                  LET docs == Preferred(RealDocs(answered, crawled), Dummies(failed)) IN
                  /\ Set(q, [run[q] EXCEPT !.at = "embed", !.docs = docs, !.flawed = flaw])
                  /\ Count(failing)
  <1>1. PICK failing \in MayFail :
          \E answered \in Served(Sources \ Keyless, failing) : Fetched(r, failing, answered)
    BY DEF Fetch
  <1>2. PICK answered \in Served(Sources \ Keyless, failing) : Fetched(r, failing, answered)
    BY <1>1
  <1>3. PICK crawled \in SUBSET Listed(Feeds \cap answered), failed \in FailedApis(answered),
             flaw \in SourceFlaws(answered) :
             LET docs == Preferred(RealDocs(answered, crawled), Dummies(failed)) IN
             /\ Set(r, [run[r] EXCEPT !.at = "embed", !.docs = docs, !.flawed = flaw])
             /\ Count(failing)
    BY <1>2
  <1>4. PICK docs : docs = Preferred(RealDocs(answered, crawled), Dummies(failed))
    OBVIOUS
  <1>5. flaw \in BOOLEAN
    BY DEF SourceFlaws
  <1>6. /\ docs \in SUBSET Doc
        /\ \A d, e \in docs : d.article = e.article => d = e
        /\ RealSources(docs) # {} => \A d \in docs : ~IsDummy(d.article)
        /\ FALSE \in SourceFlaws(answered) => RealSources(docs) # {}
    BY <1>4, FetchedOK DEF NewsInv
  <1>7. ~flaw => RealSources(docs) # {}
    BY <1>5, <1>6
  <1>8. PICK q : q = [run[r] EXCEPT !.at = "embed", !.docs = docs, !.flawed = flaw]
    OBVIOUS
  <1>9. Set(r, q) /\ Count(failing)
    BY <1>3, <1>4, <1>8
  <1>10. run[r] \in RunRec /\ run[r].at = "fetch" /\ StageOK(run[r])
    BY DEF NewsInv, RunsOK, Fetch, At
  <1>11. q \in RunRec /\ q.at = "embed" /\ q.docs = docs /\ q.todo = run[r].todo
         /\ q.whole = run[r].whole /\ q.alone = run[r].alone /\ q.flawed = flaw
    BY <1>5, <1>6, <1>8, <1>10 DEF RunRec, Stages
  <1>12. StageOK(q) /\ Knows(q)'
    BY <1>10, <1>11 DEF StageOK, Knows
  <1>13. DocsOK(q)
    BY <1>6, <1>7, <1>10, <1>11 DEF DocsOK, StageOK
  <1>14. IndexOK'
    BY <1>9, Counted, IndexStays DEF Fetch, NewsInv, IndexOK
  <1> QED
    BY <1>9, <1>10, <1>11, <1>12, <1>13, <1>14, OneStep DEF At

\* Embeddings are of the chunks that they were asked for.
LEMMA EmbeddingsOK ==
    ASSUME NEW chunks, NEW failing, NEW e \in Embeddings(chunks, failing)
    PROVE  e.got \subseteq chunks /\ e.quota \in BOOLEAN
  <1>1. PICK S \in Foremost(chunks) :
           \E gemini, openai \in Answers(failing), got \in Served(S, failing) \cup {S} :
              e = [got |-> IF "ok" \in {gemini, openai} THEN got ELSE {},
                   quota |-> OutOfQuota(gemini, openai)]
    BY DEF Embeddings
  <1>2. PICK gemini, openai \in Answers(failing), got \in Served(S, failing) \cup {S} :
              e = [got |-> IF "ok" \in {gemini, openai} THEN got ELSE {},
                   quota |-> OutOfQuota(gemini, openai)]
    BY <1>1
  <1>3. S \subseteq chunks
    BY DEF Foremost, Attempted
  <1>4. got \subseteq S
    BY DEF Served
  <1> QED
    BY <1>2, <1>3, <1>4 DEF OutOfQuota

LEMMA EmbedOK ==
    ASSUME NewsInv, NEW r \in Runs, Embed(r)
    PROVE  NewsInv'
  <1>1. PICK chunks : chunks = ChunksOf(run[r].docs)
    OBVIOUS
  <1>2. PICK failing \in MayFail :
          \E translated \in Translations(r, failing), e \in Embeddings(chunks, failing) :
             /\ Set(r, [run[r] EXCEPT !.at = "upsert", !.embedded = e.got, !.skip = e.quota,
                                      !.flawed = \/ @
                                                 \/ e.got # chunks
                                                 \/ /\ RealSources(run[r].docs) # {}
                                                    /\ ~translated])
             /\ Count(failing)
    BY <1>1 DEF Embed
  <1>3. PICK translated \in Translations(r, failing), e \in Embeddings(chunks, failing) :
             /\ Set(r, [run[r] EXCEPT !.at = "upsert", !.embedded = e.got, !.skip = e.quota,
                                      !.flawed = \/ run[r].flawed
                                                 \/ e.got # chunks
                                                 \/ /\ RealSources(run[r].docs) # {}
                                                    /\ ~translated])
             /\ Count(failing)
    BY <1>2
  <1>4. PICK flaw \in BOOLEAN : flaw = (\/ run[r].flawed
                                        \/ e.got # chunks
                                        \/ RealSources(run[r].docs) # {} /\ ~translated)
    OBVIOUS
  <1>5. PICK q : q = [run[r] EXCEPT !.at = "upsert", !.embedded = e.got, !.skip = e.quota,
                                    !.flawed = flaw]
    OBVIOUS
  <1>6. Set(r, q) /\ Count(failing)
    BY <1>3, <1>4, <1>5
  <1>7. run[r] \in RunRec /\ run[r].at = "embed" /\ DocsOK(run[r]) /\ StageOK(run[r])
    BY DEF NewsInv, RunsOK, Embed, At
  <1>8. e.got \subseteq ChunkIds /\ e.quota \in BOOLEAN
    BY <1>1, <1>7, EmbeddingsOK, ChunksTyped DEF RunRec
  <1>9. q \in RunRec /\ q.at = "upsert" /\ q.docs = run[r].docs /\ q.todo = run[r].todo
        /\ q.whole = run[r].whole /\ q.alone = run[r].alone /\ q.flawed = flaw
    BY <1>5, <1>7, <1>8 DEF RunRec, Stages
  <1>10. StageOK(q) /\ Knows(q)'
    BY <1>7, <1>9 DEF StageOK, Knows
  <1>11. DocsOK(q)
    BY <1>4, <1>7, <1>9 DEF DocsOK
  <1>12. IndexOK'
    BY <1>6, Counted, IndexStays DEF Embed, NewsInv, IndexOK
  <1> QED
    BY <1>6, <1>7, <1>9, <1>10, <1>11, <1>12, OneStep DEF At

-----------------------------------------------------------------------------
(* Writing and deleting *)

\* What a deletion leaves is as it was.
LEMMA EmptiedOK ==
    ASSUME IndexOK, NEW G, index' = Emptied(G), UNCHANGED <<latest, store, record, faults>>
    PROVE  /\ IndexOK'
           /\ Held' = Held \ G
           /\ \A c \in Held' : index'[c] = index[c]
           /\ Missing' = Missing \ G
           /\ DummyHeld' = DummyHeld \ G
  <1>1. /\ index' \in [ChunkIds -> {None} \cup [text : Texts, vector : Texts \cup {"none"}]]
        /\ \A c \in ChunkIds : index'[c] = IF c \in G THEN None ELSE index[c]
    BY DEF Emptied, IndexOK
  <1>2. Held' = Held \ G /\ \A c \in Held' : index'[c] = index[c]
    BY <1>1 DEF Held
  <1>3. IndexOK'
    BY <1>1, <1>2 DEF IndexOK
  <1>4. Missing' = Missing \ G /\ DummyHeld' = DummyHeld \ G
    BY <1>2 DEF Missing, DummyHeld
  <1> QED
    BY <1>2, <1>3, <1>4

\* What is indexed stands in the index, as the text of its document.
LEMMA UpsertOK ==
    ASSUME NewsInv, NEW r \in Runs, Upsert(r)
    PROVE  NewsInv'
  <1>1. PICK docs, chunks : docs = run[r].docs /\ chunks = ChunksOf(docs)
    OBVIOUS
  <1>2. PICK failing \in MayFail : \E in \in Served(ChunksOf(run[r].docs), failing) :
          /\ Count(failing)
          /\ index' = [c \in ChunkIds |-> IF c \in in THEN Indexed(r, c) ELSE index[c]]
          /\ store' = IF store = "absent" /\ in # {} THEN "outdated" ELSE store
          /\ Set(r, [run[r] EXCEPT
                !.at = IF in = {} THEN "expire" ELSE "stale",
                !.embedded = {},
                !.indexed = in # {},
                !.got = {c[1][1] : c \in in},
                !.docs = IF in = {} THEN {} ELSE @,
                !.todo = IF in = {} THEN {} ELSE RealSources(run[r].docs),
                !.flawed = @ \/ in # ChunksOf(run[r].docs)])
    BY DEF Upsert
  <1>3. PICK in \in Served(ChunksOf(run[r].docs), failing) :
          /\ Count(failing)
          /\ index' = [c \in ChunkIds |-> IF c \in in THEN Indexed(r, c) ELSE index[c]]
          /\ store' = IF store = "absent" /\ in # {} THEN "outdated" ELSE store
          /\ Set(r, [run[r] EXCEPT
                !.at = IF in = {} THEN "expire" ELSE "stale",
                !.embedded = {},
                !.indexed = in # {},
                !.got = {c[1][1] : c \in in},
                !.docs = IF in = {} THEN {} ELSE @,
                !.todo = IF in = {} THEN {} ELSE RealSources(run[r].docs),
                !.flawed = @ \/ in # ChunksOf(run[r].docs)])
    BY <1>2
  <1>4. run[r] \in RunRec /\ run[r].at = "upsert" /\ DocsOK(run[r]) /\ StageOK(run[r])
    BY DEF NewsInv, RunsOK, Upsert, At
  <1>5. docs \in SUBSET Doc /\ \A d, e \in docs : d.article = e.article => d = e
    BY <1>1, <1>4 DEF RunRec, DocsOK
  <1>6. in \subseteq chunks /\ in \subseteq ChunkIds
    BY <1>1, <1>5, ChunksTyped DEF Served
  <1>7. \A c \in in : /\ c \in ChunkIds /\ c[1][1] \in Sources
                      /\ \E d \in docs : d.article = c[1]
                      /\ Indexed(r, c) \in [text : Texts, vector : Texts \cup {"none"}]
                      /\ c[2] = 2 => Indexed(r, c).text = "body"
    BY <1>1, <1>5, <1>6, ChunksOfDocs, ChunkParts DEF Indexed
  <1>8. PICK indexed, flaw \in BOOLEAN :
             indexed = (in # {}) /\ flaw = (run[r].flawed \/ in # chunks)
    OBVIOUS
  <1>9. PICK got, todo : /\ got = {c[1][1] : c \in in}
                         /\ todo = IF in = {} THEN {} ELSE RealSources(docs)
    OBVIOUS
  <1>10. got \in SUBSET Sources /\ todo \in SUBSET Sources
    <2>1. \A d \in docs : d.article[1] \in Sources
      <3> SUFFICES ASSUME NEW d \in docs
                   PROVE  d.article[1] \in Sources
        OBVIOUS
      <3>1. <<d.article, 1>> \in ChunkIds
        BY <1>5 DEF Doc, ChunkIds
      <3> QED
        BY <3>1, ChunkParts
    <2> QED
      BY <1>7, <1>9, <2>1 DEF RealSources
  <1>11. PICK q : q = [run[r] EXCEPT
                !.at = IF in = {} THEN "expire" ELSE "stale",
                !.embedded = {},
                !.indexed = indexed,
                !.got = got,
                !.docs = IF in = {} THEN {} ELSE docs,
                !.todo = todo,
                !.flawed = flaw]
    OBVIOUS
  <1>12. Set(r, q)
    BY <1>1, <1>3, <1>8, <1>9, <1>11
  <1>13. /\ q \in RunRec /\ q.at = IF in = {} THEN "expire" ELSE "stale"
         /\ q.docs = IF in = {} THEN {} ELSE docs
         /\ q.todo = todo /\ q.got = got /\ q.indexed = indexed /\ q.flawed = flaw
         /\ q.whole = run[r].whole /\ q.alone = run[r].alone
    BY <1>4, <1>5, <1>10, <1>11 DEF RunRec, Stages
  <1>14. StageOK(q)
    BY <1>4, <1>9, <1>13 DEF StageOK
  <1>15. DocsOK(q)
    BY <1>1, <1>4, <1>8, <1>9, <1>13 DEF DocsOK, RealSources
  <1>16. /\ index' \in [ChunkIds -> {None} \cup [text : Texts, vector : Texts \cup {"none"}]]
         /\ \A c \in ChunkIds : index'[c] = IF c \in in THEN Indexed(r, c) ELSE index[c]
    BY <1>3, <1>7 DEF NewsInv, IndexOK
  <1>17. Held' = Held \cup in
    <2>1. \A c \in in : Indexed(r, c) # None
      BY <1>7 DEF None, Texts
    <2> QED
      BY <1>6, <1>16, <2>1 DEF Held
  <1>18. Knows(q)'
    <2>1. CASE in = {}
      BY <1>8, <1>13, <2>1 DEF Knows
    <2>2. CASE in # {}
      <3>1. \A s \in got : \E c \in in : c[1][1] = s /\ \E d \in docs : d.article = c[1]
        BY <1>7, <1>9
      <3>2. Listing(q)'
        BY <1>13, <1>17, <2>2, <3>1 DEF Listing
      <3> QED
        BY <1>13, <2>2, <3>2 DEF Knows
    <2> QED
      BY <2>1, <2>2
  <1>19. IndexOK'
    <2>1. faults' \in 0..MaxFaults
      BY <1>3, Counted DEF NewsInv
    <2>2. \A c \in Held' : c[2] = 2 => index'[c].text = "body"
      BY <1>6, <1>7, <1>16, <1>17 DEF NewsInv, IndexOK, Held
    <2>3. /\ store' \in {"absent", "outdated", "ready"}
          /\ store' = "absent" => Held' = {}
      BY <1>3, <1>17 DEF NewsInv, IndexOK
    <2>4. UNCHANGED <<latest, record>>
      BY DEF Upsert
    <2> QED
      BY <1>16, <2>1, <2>2, <2>3, <2>4 DEF NewsInv, IndexOK
  <1> QED
    BY <1>4, <1>12, <1>13, <1>14, <1>15, <1>18, <1>19, OneStep DEF At

\* Of what this run has indexed of a source, nothing is deleted as stale.
LEMMA DeleteStaleOK ==
    ASSUME NewsInv, NEW r \in Runs, NEW s, DeleteStale(r, s)
    PROVE  NewsInv'
  <1>0. PICK q : q = [run[r] EXCEPT !.todo = @ \ {s}]
    OBVIOUS
  <1>1. run[r] \in RunRec /\ run[r].at = "stale" /\ DocsOK(run[r]) /\ StageOK(run[r])
    BY DEF NewsInv, RunsOK, DeleteStale, At
  <1>2. /\ q \in RunRec /\ q.at = "stale" /\ q.docs = run[r].docs /\ q.todo \subseteq run[r].todo
        /\ q.flawed = run[r].flawed /\ q.whole = run[r].whole /\ q.alone = run[r].alone
        /\ q.got = run[r].got
    BY <1>0, <1>1 DEF RunRec, Stages
  <1>3. Set(r, q)
    BY <1>0 DEF DeleteStale
  <1>4. DocsOK(q) /\ StageOK(q)
    BY <1>1, <1>2 DEF DocsOK, StageOK
  <1>5. PICK G : /\ G = {c \in Held : c[1][1] = s /\ \A d \in run[r].docs : d.article # c[1]}
                 /\ index' = Emptied(G)
    BY DEF DeleteStale
  <1>6. IndexOK' /\ Held' = Held \ G
    BY <1>5, EmptiedOK DEF DeleteStale, NewsInv
  <1>7. ASSUME q.alone
        PROVE  Knows(q)'
    <2>1. Listing(run[r])
      BY <1>1, <1>2, <1>7 DEF NewsInv, AloneOK, Knows
    <2>2. Listing(q)'
      <3> SUFFICES ASSUME NEW t \in q.got
                   PROVE  \E c \in Held' : c[1][1] = t /\ \E d \in q.docs : d.article = c[1]
        BY DEF Listing
      <3>1. PICK c \in Held : c[1][1] = t /\ \E d \in q.docs : d.article = c[1]
        BY <1>2, <2>1 DEF Listing
      <3>2. c \notin G
        BY <1>2, <1>5, <3>1
      <3> QED
        BY <1>6, <3>1, <3>2
    <2> QED
      BY <1>2, <2>2 DEF Knows
  <1> QED
    BY <1>1, <1>2, <1>3, <1>4, <1>6, <1>7, OneStep DEF At

\* A run without a flaw has brought real documents, and so the dummies go.
LEMMA DeleteFallbackOK ==
    ASSUME NewsInv, NEW r \in Runs, DeleteFallback(r)
    PROVE  NewsInv'
  <1>0. PICK q : q = [run[r] EXCEPT !.at = IF run[r].skip THEN "expire" ELSE "search",
                                    !.docs = {}, !.got = {}, !.skip = FALSE]
    OBVIOUS
  <1>1. run[r] \in RunRec /\ run[r].at = "stale" /\ DocsOK(run[r]) /\ StageOK(run[r])
        /\ run[r].todo = {}
    BY DEF NewsInv, RunsOK, DeleteFallback, At
  <1>2. /\ q \in RunRec /\ q.at \in {"expire", "search"} /\ q.docs = {} /\ q.todo = {}
        /\ q.flawed = run[r].flawed /\ q.whole = run[r].whole /\ q.alone = run[r].alone
    BY <1>0, <1>1 DEF RunRec, Stages
  <1>3. Set(r, q)
    BY <1>0 DEF DeleteFallback
  <1>4. ~q.whole
    BY <1>1, <1>2 DEF StageOK
  <1>5. DocsOK(q) /\ StageOK(q)
    BY <1>2, <1>4 DEF DocsOK, StageOK, RealSources
  <1>6. PICK G : /\ G = IF DummiesReplaced(run[r].docs) THEN DummyHeld ELSE {}
                 /\ index' = Emptied(G)
    <2>1. index = Emptied({})
      BY DEF Emptied, NewsInv, IndexOK
    <2> QED
      BY <2>1 DEF DeleteFallback
  <1>7. IndexOK' /\ DummyHeld' = DummyHeld \ G
    BY <1>6, EmptiedOK DEF DeleteFallback, NewsInv
  <1>8. ~q.flawed => DummyHeld' = {}
    BY <1>1, <1>2, <1>6, <1>7 DEF DocsOK, DummiesReplaced
  <1>9. Knows(q)'
    BY <1>2, <1>4, <1>8 DEF Knows, Filled
  <1> QED
    BY <1>1, <1>2, <1>3, <1>5, <1>7, <1>9, OneStep DEF At

LEMMA DeleteFailsOK ==
    ASSUME NewsInv, NEW r \in Runs, DeleteFails(r)
    PROVE  NewsInv'
  <1>0. PICK q : q = [Idle EXCEPT !.at = "expire", !.alone = run[r].alone, !.indexed = TRUE,
                                  !.flawed = TRUE]
    OBVIOUS
  <1>1. run[r] \in RunRec /\ run[r].at = "stale"
    BY DEF NewsInv, RunsOK, DeleteFails, At
  <1>2. /\ q \in RunRec /\ q.at = "expire" /\ q.docs = {} /\ q.todo = {} /\ q.flawed /\ ~q.whole
        /\ q.alone = run[r].alone
    BY <1>0, <1>1, IdleOK DEF RunRec, Stages, Idle
  <1>3. Set(r, q)
    BY <1>0 DEF DeleteFails
  <1>4. DocsOK(q) /\ StageOK(q) /\ Knows(q)'
    BY <1>2 DEF DocsOK, StageOK, Knows, RealSources
  <1>5. IndexOK'
    BY CountedOne, IndexStays DEF DeleteFails, NewsInv, IndexOK
  <1> QED
    BY <1>1, <1>2, <1>3, <1>4, <1>5, OneStep DEF At

-----------------------------------------------------------------------------
(* Filling in, and the end of a run *)

\* When no dummy is there, a search that finds less than it may has found all chunks
\* without a vector.
LEMMA HitsAreAll ==
    ASSUME NEW H \in BackfillHits(BackfillLimit), DummyHeld = {}
    PROVE  /\ Cardinality(H) < BackfillLimit => Missing = H
           /\ H = {} => Missing = {}
  <1> DEFINE real == {c \in Missing : ~IsDummy(c[1])}
  <1>1. real = Missing
    BY DEF DummyHeld, Missing
  <1>2. Cardinality(H) = BackfillLimit \/ H = real
    BY DEF BackfillHits, Attempted
  <1>3. BackfillLimit \in Nat \ {0}
    BY NewsAssumption
  <1>4. Cardinality({}) = 0
    BY FS_EmptySet
  <1> HIDE DEF real
  <1>5. Cardinality(H) < BackfillLimit => Cardinality(H) # BackfillLimit
    BY <1>3
  <1>6. H = {} => Cardinality(H) # BackfillLimit
    BY <1>3, <1>4
  <1> QED
    BY <1>1, <1>2, <1>5, <1>6

\* A comparison is true or false.
LEMMA LessIsBoolean ==
    ASSUME NEW m \in Nat, NEW n \in Nat
    PROVE  \E b \in BOOLEAN : b = (m < n)
  <1>1. CASE m < n
    BY <1>1
  <1>2. CASE ~(m < n)
    <2>1. (m < n) = FALSE
      BY <1>2
    <2> WITNESS FALSE \in BOOLEAN
    <2> QED
      BY <2>1
  <1> QED
    BY <1>1, <1>2

\* What the search finds is what is missing, when it finds less than it may.
LEMMA BackfillSearchOK ==
    ASSUME NewsInv, NEW r \in Runs, BackfillSearch(r)
    PROVE  NewsInv'
  <1>1. PICK H \in BackfillHits(BackfillLimit) :
          Set(r, [run[r] EXCEPT !.at = IF H = {} THEN "expire" ELSE "backfill",
                                !.hits = {Hit(c) : c \in H},
                                !.whole = Cardinality(H) < BackfillLimit])
    BY DEF BackfillSearch
  <1>2. PICK hits : hits = {Hit(c) : c \in H}
    OBVIOUS
  <1>3. PICK whole \in BOOLEAN : whole = (Cardinality(H) < BackfillLimit)
    <2>1. H \in SUBSET ChunkIds
      BY DEF BackfillHits, Attempted, Missing, Held
    <2>2. Cardinality(H) \in Nat /\ BackfillLimit \in Nat
      BY <2>1, ChunksFinite, FS_Subset, FS_CardinalityType, NewsAssumption
    <2> QED
      BY <2>2, LessIsBoolean
  <1>4. PICK q : q = [run[r] EXCEPT !.at = IF H = {} THEN "expire" ELSE "backfill",
                                    !.hits = hits, !.whole = whole]
    OBVIOUS
  <1>5. Set(r, q)
    BY <1>1, <1>2, <1>3, <1>4
  <1>6. run[r] \in RunRec /\ run[r].at = "search" /\ DocsOK(run[r]) /\ StageOK(run[r])
    BY DEF NewsInv, RunsOK, BackfillSearch, At
  <1>7. H \subseteq Missing /\ H \subseteq ChunkIds
    BY DEF BackfillHits, Attempted, Missing, Held
  <1>8. \A h \in hits : h[1] \in H /\ h[2] = index[h[1]].text /\ h \in ChunkIds \X Texts
    <2> SUFFICES ASSUME NEW c \in H
                 PROVE  Hit(c) \in ChunkIds \X Texts
      BY <1>2 DEF Hit
    <2>1. c \in Held
      BY <1>7 DEF Missing
    <2>2. index[c] \in [text : Texts, vector : Texts \cup {"none"}]
      BY <2>1 DEF Held, NewsInv, IndexOK
    <2> QED
      BY <1>7, <2>2 DEF Hit
  <1>9. H = {h[1] : h \in hits}
    <2>1. ASSUME NEW c \in H
          PROVE  \E h \in hits : h[1] = c
      <3>1. Hit(c) \in hits /\ Hit(c)[1] = c
        BY <1>2 DEF Hit
      <3> QED
        BY <3>1
    <2> QED
      BY <1>8, <2>1
  <1>10. /\ q \in RunRec /\ q.at = (IF H = {} THEN "expire" ELSE "backfill")
         /\ q.docs = run[r].docs /\ q.todo = run[r].todo /\ q.hits = hits /\ q.whole = whole
         /\ q.flawed = run[r].flawed /\ q.indexed = run[r].indexed /\ q.alone = run[r].alone
    BY <1>4, <1>6, <1>8 DEF RunRec, Stages
  <1>11. DocsOK(q) /\ StageOK(q)
    BY <1>6, <1>10 DEF DocsOK, StageOK
  <1>12. UNCHANGED index /\ Held' = Held /\ Missing' = Missing /\ DummyHeld' = DummyHeld
    BY DEF BackfillSearch, Held, Missing, DummyHeld
  <1>13. ASSUME q.alone
         PROVE  Knows(q)'
    <2>1. Knows(run[r])
      BY <1>10, <1>13 DEF NewsInv, AloneOK
    <2>2. Found(q)'
      BY <1>8, <1>10, <1>12 DEF Found
    <2>3. ASSUME q.indexed, ~q.flawed
          PROVE  Filled(q)'
      <3>1. DummyHeld = {}
        BY <1>6, <1>10, <2>1, <2>3 DEF Knows, Filled
      <3>2. (whole => Missing = H) /\ (H = {} => Missing = {})
        BY <1>3, <3>1, HitsAreAll
      <3> QED
        BY <1>9, <1>10, <1>12, <3>1, <3>2 DEF Filled
    <2> QED
      BY <1>10, <2>2, <2>3 DEF Knows
  <1>14. IndexOK'
    BY IndexStays DEF BackfillSearch, NewsInv, IndexOK
  <1> QED
    BY <1>5, <1>6, <1>10, <1>11, <1>13, <1>14, OneStep DEF At

\* A write that counts as many chunks as were found has written them all.
LEMMA WrittenAll ==
    ASSUME NEW hits \in SUBSET (ChunkIds \X Texts), NEW written,
           written \subseteq {h[1] : h \in hits}, ~(Cardinality(written) < Cardinality(hits))
    PROVE  written = {h[1] : h \in hits}
  <1> DEFINE K == {h[1] : h \in hits}
             f == [h \in hits |-> h[1]]
  <1>1. IsFiniteSet(hits)
    BY ChunksFinite, FS_Subset
  <1>2. f \in Surjection(hits, K)
    BY DEF Surjection
  <1>3. IsFiniteSet(K) /\ Cardinality(K) <= Cardinality(hits)
    BY <1>1, <1>2, FS_Surjection
  <1> HIDE DEF K, f
  <1>4. written \in SUBSET K
    BY DEF K
  <1>5. /\ IsFiniteSet(written) /\ Cardinality(written) <= Cardinality(K)
        /\ Cardinality(K) = Cardinality(written) => K = written
    BY <1>3, <1>4, FS_Subset
  <1>6. Cardinality(written) \in Nat /\ Cardinality(K) \in Nat /\ Cardinality(hits) \in Nat
    BY <1>1, <1>3, <1>5, FS_CardinalityType
  <1>7. Cardinality(K) = Cardinality(written)
    BY <1>3, <1>5, <1>6
  <1> QED
    BY <1>5, <1>7 DEF K

\* What is written are vectors of the texts found, and all of them unless it says so.
LEMMA BackfillWriteOK ==
    ASSUME NewsInv, NEW r \in Runs, BackfillWrite(r)
    PROVE  NewsInv'
  <1>1. PICK failing \in MayFail :
          \E e \in Embeddings({h[1] : h \in run[r].hits}, failing) :
          \E written \in Served(e.got \cap Held, failing) \cup {e.got \cap Held} :
             /\ Count(failing)
             /\ index' = [c \in ChunkIds |->
                   IF c \in written
                     THEN [index[c] EXCEPT !.vector = (CHOOSE h \in run[r].hits : h[1] = c)[2]]
                     ELSE index[c]]
             /\ Set(r, [run[r] EXCEPT !.at = "expire", !.hits = {},
                            !.unfilled = Cardinality(written) < Cardinality(run[r].hits)])
    BY DEF BackfillWrite
  <1>2. PICK e \in Embeddings({h[1] : h \in run[r].hits}, failing) :
          \E written \in Served(e.got \cap Held, failing) \cup {e.got \cap Held} :
             /\ Count(failing)
             /\ index' = [c \in ChunkIds |->
                   IF c \in written
                     THEN [index[c] EXCEPT !.vector = (CHOOSE h \in run[r].hits : h[1] = c)[2]]
                     ELSE index[c]]
             /\ Set(r, [run[r] EXCEPT !.at = "expire", !.hits = {},
                            !.unfilled = Cardinality(written) < Cardinality(run[r].hits)])
    BY <1>1
  <1>3. PICK written \in Served(e.got \cap Held, failing) \cup {e.got \cap Held} :
             /\ Count(failing)
             /\ index' = [c \in ChunkIds |->
                   IF c \in written
                     THEN [index[c] EXCEPT !.vector = (CHOOSE h \in run[r].hits : h[1] = c)[2]]
                     ELSE index[c]]
             /\ Set(r, [run[r] EXCEPT !.at = "expire", !.hits = {},
                            !.unfilled = Cardinality(written) < Cardinality(run[r].hits)])
    BY <1>2
  <1>4. PICK unfilled \in BOOLEAN :
          unfilled = (Cardinality(written) < Cardinality(run[r].hits))
    <2>1. run[r].hits \in SUBSET (ChunkIds \X Texts)
      BY DEF NewsInv, RunsOK, RunRec
    <2>2. written \in SUBSET ChunkIds
      BY DEF Served, Held
    <2>3. Cardinality(written) \in Nat /\ Cardinality(run[r].hits) \in Nat
      BY <2>1, <2>2, ChunksFinite, FS_Subset, FS_CardinalityType
    <2> QED
      BY <2>3, LessIsBoolean
  <1>5. PICK q : q = [run[r] EXCEPT !.at = "expire", !.hits = {}, !.unfilled = unfilled]
    OBVIOUS
  <1>6. Set(r, q)
    BY <1>3, <1>4, <1>5
  <1>7. run[r] \in RunRec /\ run[r].at = "backfill" /\ DocsOK(run[r]) /\ StageOK(run[r])
    BY DEF NewsInv, RunsOK, BackfillWrite, At
  <1>8. /\ q \in RunRec /\ q.at = "expire" /\ q.docs = run[r].docs /\ q.todo = run[r].todo
        /\ q.unfilled = unfilled /\ q.whole = run[r].whole /\ q.flawed = run[r].flawed
        /\ q.indexed = run[r].indexed /\ q.alone = run[r].alone
    BY <1>5, <1>7 DEF RunRec, Stages
  <1>9. DocsOK(q) /\ StageOK(q)
    BY <1>7, <1>8 DEF DocsOK, StageOK
  <1>10. run[r].hits \in SUBSET (ChunkIds \X Texts)
    BY <1>7 DEF RunRec
  <1>11. written \subseteq Held /\ written \subseteq {h[1] : h \in run[r].hits}
    BY EmbeddingsOK DEF Served
  <1>12. \A c \in written : (CHOOSE h \in run[r].hits : h[1] = c)[2] \in Texts
    BY <1>10, <1>11
  <1>13. /\ index' \in [ChunkIds -> {None} \cup [text : Texts, vector : Texts \cup {"none"}]]
         /\ \A c \in ChunkIds \ written : index'[c] = index[c]
         /\ \A c \in written : /\ index'[c] \in [text : Texts, vector : Texts]
                               /\ index'[c].text = index[c].text
    BY <1>3, <1>11, <1>12 DEF NewsInv, IndexOK, Held
  <1>14. Held' = Held
    BY <1>11, <1>13 DEF Held, None, Texts
  <1>15. Missing' = Missing \ written
    BY <1>11, <1>13, <1>14 DEF Missing, Held, Texts
  <1>16. DummyHeld' = DummyHeld
    BY <1>14 DEF DummyHeld
  <1>17. ASSUME q.alone
         PROVE  Knows(q)'
    <2>1. Knows(run[r])
      BY <1>8, <1>17 DEF NewsInv, AloneOK
    <2>2. ASSUME q.indexed, ~q.flawed
          PROVE  Filled(q)'
      <3>1. Filled(run[r])
        BY <1>7, <1>8, <2>1, <2>2 DEF Knows
      <3>2. ASSUME q.whole, ~q.unfilled
            PROVE  Missing' = {}
        <4>1. Missing \subseteq {h[1] : h \in run[r].hits}
          BY <1>7, <1>8, <3>1, <3>2 DEF Filled
        <4>2. written = {h[1] : h \in run[r].hits}
          BY <1>4, <1>8, <1>10, <1>11, <3>2, WrittenAll
        <4> QED
          BY <1>15, <4>1, <4>2
      <3> QED
        BY <1>8, <1>16, <3>1, <3>2 DEF Filled
    <2> QED
      BY <1>8, <2>2 DEF Knows
  <1>18. IndexOK'
    <2>1. faults' \in 0..MaxFaults
      BY <1>3, Counted DEF NewsInv
    <2>2. \A c \in Held' : c[2] = 2 => index'[c].text = "body"
      BY <1>13, <1>14 DEF NewsInv, IndexOK, Held
    <2>3. UNCHANGED <<latest, store, record>>
      BY DEF BackfillWrite
    <2> QED
      BY <1>13, <1>14, <2>1, <2>2, <2>3 DEF NewsInv, IndexOK
  <1> QED
    BY <1>6, <1>7, <1>8, <1>9, <1>17, <1>18, OneStep DEF At

LEMMA BackfillFailsOK ==
    ASSUME NewsInv, NEW r \in Runs, BackfillFails(r)
    PROVE  NewsInv'
  <1>0. PICK q : q = [run[r] EXCEPT !.at = "expire", !.unfilled = TRUE]
    OBVIOUS
  <1>1. run[r] \in RunRec /\ run[r].at = "search" /\ DocsOK(run[r]) /\ StageOK(run[r])
    BY DEF NewsInv, RunsOK, BackfillFails, At
  <1>2. /\ q \in RunRec /\ q.at = "expire" /\ q.docs = run[r].docs /\ q.todo = run[r].todo
        /\ q.unfilled /\ q.whole = run[r].whole /\ q.flawed = run[r].flawed
        /\ q.indexed = run[r].indexed /\ q.alone = run[r].alone
    BY <1>0, <1>1 DEF RunRec, Stages
  <1>3. Set(r, q)
    BY <1>0 DEF BackfillFails
  <1>4. DocsOK(q) /\ StageOK(q)
    BY <1>1, <1>2 DEF DocsOK, StageOK
  <1>5. DummyHeld' = DummyHeld
    BY DEF BackfillFails, DummyHeld, Held
  <1>6. q.alone => Knows(q)'
    BY <1>1, <1>2, <1>5 DEF NewsInv, AloneOK, Knows, Filled
  <1>7. IndexOK'
    BY CountedOne, IndexStays DEF BackfillFails, NewsInv, IndexOK
  <1> QED
    BY <1>1, <1>2, <1>3, <1>4, <1>6, <1>7, OneStep DEF At

\* Whatever expires, what was missing or a dummy does not become more.
LEMMA DeleteExpiredOK ==
    ASSUME NewsInv, NEW r \in Runs, DeleteExpired(r)
    PROVE  NewsInv'
  <1>0. PICK q : q = [run[r] EXCEPT !.at = "store"]
    OBVIOUS
  <1>1. run[r] \in RunRec /\ run[r].at = "expire" /\ DocsOK(run[r]) /\ StageOK(run[r])
    BY DEF NewsInv, RunsOK, DeleteExpired, At
  <1>2. /\ q \in RunRec /\ q.at = "store" /\ q.docs = run[r].docs /\ q.todo = run[r].todo
        /\ q.unfilled = run[r].unfilled /\ q.whole = run[r].whole /\ q.flawed = run[r].flawed
        /\ q.indexed = run[r].indexed /\ q.alone = run[r].alone
    BY <1>0, <1>1 DEF RunRec, Stages
  <1>3. Set(r, q)
    BY <1>0 DEF DeleteExpired, GoTo
  <1>4. DocsOK(q) /\ StageOK(q)
    BY <1>1, <1>2 DEF DocsOK, StageOK
  <1>5. PICK G : index' = Emptied(G)
    BY DEF DeleteExpired
  <1>6. IndexOK' /\ DummyHeld' \subseteq DummyHeld /\ Missing' \subseteq Missing
    BY <1>5, EmptiedOK DEF DeleteExpired, NewsInv
  <1>7. q.alone => Knows(q)'
    BY <1>1, <1>2, <1>6 DEF NewsInv, AloneOK, Knows, Filled
  <1> QED
    BY <1>1, <1>2, <1>3, <1>4, <1>6, <1>7, OneStep DEF At

LEMMA StoreOK ==
    ASSUME NewsInv, NEW r \in Runs, Store(r) \/ StoreFails(r)
    PROVE  NewsInv'
  <1>0. PICK q : q = Idle
    OBVIOUS
  <1>1. Set(r, q) /\ ~At(r, "idle")
    BY <1>0 DEF Store, StoreFails, At
  <1>2. q \in RunRec /\ DocsOK(q) /\ StageOK(q) /\ ~q.alone
    BY <1>0, IdleOK
  <1>3. StatusOf(run[r]) \in {"failed", "partial", "success"}
    BY DEF StatusOf
  <1>4. IndexOK'
    BY <1>3, CountedOne, IndexStays DEF Store, StoreFails, NewsInv, IndexOK
  <1> QED
    BY <1>1, <1>2, <1>4, OneStep

-----------------------------------------------------------------------------
(* Runs begin, and the world goes on *)

\* Whoever begins is alone only when nobody else is active, and nobody else is alone then.
LEMMA StartOK ==
    ASSUME NewsInv, NEW r \in Runs, Start(r)
    PROVE  NewsInv'
  <1>1. run \in [Runs -> RunRec] /\ run[r].at = "idle"
    BY DEF NewsInv, RunsOK, Start, At
  <1>2. PICK alone \in BOOLEAN : alone = (Active = {})
    OBVIOUS
  <1>3. PICK q : q = [Idle EXCEPT !.at = "check", !.alone = alone]
    OBVIOUS
  <1>4. /\ q \in RunRec /\ q.at = "check" /\ q.docs = {} /\ q.todo = {} /\ ~q.whole
        /\ q.alone = alone
    BY <1>3, IdleOK DEF RunRec, Stages, Idle
  <1>5. run' = [p \in Runs |->
                  IF p = r THEN q
                  ELSE IF p \in Active THEN [run[p] EXCEPT !.alone = FALSE] ELSE run[p]]
    BY <1>2, <1>3 DEF Start
  <1>6. run'[r] = q
    BY <1>5
  <1>7. ASSUME NEW p \in Runs \ {r}
        PROVE  /\ run'[p] \in RunRec /\ DocsOK(run'[p]) /\ StageOK(run'[p])
               /\ ~run'[p].alone
    <2>1. run[p] \in RunRec /\ DocsOK(run[p]) /\ StageOK(run[p])
      BY DEF NewsInv, RunsOK
    <2>2. CASE p \in Active
      <3>1. PICK k : k = [run[p] EXCEPT !.alone = FALSE]
        OBVIOUS
      <3>2. /\ k \in RunRec /\ k.at = run[p].at /\ k.docs = run[p].docs /\ k.todo = run[p].todo
            /\ k.flawed = run[p].flawed /\ k.whole = run[p].whole /\ ~k.alone
        BY <2>1, <3>1 DEF RunRec
      <3>3. run'[p] = k
        BY <1>5, <2>2, <3>1
      <3>4. DocsOK(k) /\ StageOK(k)
        BY <2>1, <3>2 DEF DocsOK, StageOK
      <3> QED
        BY <3>2, <3>3, <3>4
    <2>3. CASE p \notin Active
      <3>1. run'[p] = run[p]
        BY <1>5, <2>3
      <3>2. run[p].at = "idle"
        BY <2>3 DEF Active, At
      <3> QED
        BY <2>1, <3>1, <3>2 DEF StageOK
    <2> QED
      BY <2>2, <2>3
  <1>8. DocsOK(q) /\ StageOK(q)
    BY <1>4 DEF DocsOK, StageOK, RealSources
  <1>9. run' \in [Runs -> RunRec]
    <2>1. run' = [p \in Runs |-> run'[p]]
      BY <1>5
    <2>2. \A p \in Runs : run'[p] \in RunRec
      BY <1>4, <1>6, <1>7
    <2> QED
      BY <2>1, <2>2
  <1>10. RunsOK'
    BY <1>6, <1>7, <1>8, <1>9 DEF RunsOK
  <1>11. ASSUME NEW p \in Runs, run'[p].alone
         PROVE  AloneOK(p)'
    <2>1. p = r
      BY <1>7, <1>11
    <2>2. Active = {}
      BY <1>2, <1>4, <1>6, <1>11, <2>1
    <2>3. \A k \in Runs \ {r} : run'[k] = run[k] /\ run[k].at = "idle"
      BY <1>5, <2>2 DEF Active, At
    <2>4. Knows(q)'
      BY <1>4 DEF Knows
    <2>5. Knows(run[r])'
      BY <1>6, <2>4 DEF Knows, Listing, Found, Filled
    <2>6. \A k \in Runs \ {r} : At(k, "idle")'
      BY <2>3 DEF At
    <2> QED
      BY <2>1, <2>5, <2>6 DEF AloneOK
  <1>12. IndexOK'
    BY IndexStays DEF Start, NewsInv, IndexOK
  <1> QED
    BY <1>10, <1>11, <1>12 DEF NewsInv

\* What a run knows depends on the index and on the runs alone.
LEMMA RunsStay ==
    ASSUME NewsInv, UNCHANGED <<index, run>>, IndexOK'
    PROVE  NewsInv'
  <1>1. RunsOK'
    BY DEF NewsInv, RunsOK
  <1>2. Held' = Held
    BY DEF Held
  <1>3. Missing' = Missing /\ DummyHeld' = DummyHeld
    BY <1>2 DEF Missing, DummyHeld
  <1>4. \A r \in Runs : Knows(run[r]) => Knows(run[r])'
    BY <1>2, <1>3 DEF Knows, Listing, Found, Filled
  <1>5. \A r \in Runs : run'[r].alone => AloneOK(r)'
    BY <1>4 DEF NewsInv, AloneOK, At
  <1> QED
    BY <1>1, <1>5 DEF NewsInv

\* The world goes on without the runs.
LEMMA PublishOK ==
    ASSUME NewsInv, NEW s \in Sources, Publish(s)
    PROVE  NewsInv'
  <1>1. /\ latest \in [Sources -> Nat] /\ latest[s] \in 1..MaxArticle[s]
        /\ MaxArticle[s] \in Nat /\ latest[s] < MaxArticle[s]
        /\ \A t \in Sources : latest[t] \in 1..MaxArticle[t]
    BY NewsAssumption DEF Publish, NewsInv, IndexOK
  <1>2. latest[s] + 1 \in 1..MaxArticle[s] /\ latest[s] + 1 \in Nat
    BY <1>1
  <1>3. latest' = [latest EXCEPT ![s] = latest[s] + 1]
    BY DEF Publish
  <1>4. latest' \in [Sources -> Nat] /\ \A t \in Sources : latest'[t] \in 1..MaxArticle[t]
    BY <1>1, <1>2, <1>3
  <1>5. Held' = Held
    BY DEF Publish, Held
  <1>6. IndexOK'
    BY <1>4, <1>5 DEF Publish, NewsInv, IndexOK
  <1> QED
    BY <1>6, RunsStay DEF Publish

LEMMA RecordAgesOK ==
    ASSUME NewsInv, RecordAges
    PROVE  NewsInv'
  <1>1. IndexOK'
    BY IndexStays DEF RecordAges, NewsInv, IndexOK
  <1> QED
    BY <1>1, RunsStay DEF RecordAges

LEMMA CrashOK ==
    ASSUME NewsInv, Crash
    PROVE  NewsInv'
  <1>1. run' \in [Runs -> RunRec] /\ \A r \in Runs : run'[r] = Idle
    BY IdleOK DEF Crash
  <1>2. RunsOK'
    BY <1>1, IdleOK DEF RunsOK
  <1>3. IndexOK'
    BY CountedOne, IndexStays DEF Crash, NewsInv, IndexOK
  <1> QED
    BY <1>1, <1>2, <1>3, IdleOK DEF NewsInv

\* The invariant holds at the beginning and is kept.
LEMMA NewsInit == Init => NewsInv
  <1> SUFFICES ASSUME Init
               PROVE  NewsInv
    OBVIOUS
  <1>1. run \in [Runs -> RunRec] /\ \A r \in Runs : run[r] = Idle
    BY IdleOK DEF Init
  <1>2. RunsOK
    BY <1>1, IdleOK DEF RunsOK
  <1>3. Held = {}
    BY DEF Init, Held
  <1>4. IndexOK
    BY <1>3, NewsAssumption DEF Init, IndexOK
  <1> QED
    BY <1>1, <1>2, <1>4, IdleOK DEF NewsInv

LEMMA NewsRunStep ==
    ASSUME NewsInv, NEW r \in Runs, RunStep(r)
    PROVE  NewsInv'
  <1>1. CASE CheckIndex(r) \/ DropIndex(r) \/ CreateIndex(r) \/ CreatedByOther(r) \/ IndexFails(r)
    BY <1>1, CheckIndexOK, DropIndexOK, CreateIndexOK, CreatedByOtherOK, IndexFailsOK
  <1>2. CASE Fetch(r) \/ Embed(r) \/ Upsert(r)
    BY <1>2, FetchOK, EmbedOK, UpsertOK
  <1>3. CASE (\E s \in Sources : DeleteStale(r, s)) \/ DeleteFallback(r) \/ DeleteFails(r)
    BY <1>3, DeleteStaleOK, DeleteFallbackOK, DeleteFailsOK
  <1>4. CASE BackfillSearch(r) \/ BackfillWrite(r) \/ BackfillFails(r)
    BY <1>4, BackfillSearchOK, BackfillWriteOK, BackfillFailsOK
  <1>5. CASE DeleteExpired(r) \/ ExpireFails(r) \/ Store(r) \/ StoreFails(r)
    BY <1>5, DeleteExpiredOK, ExpireFailsOK, StoreOK
  <1> QED
    BY <1>1, <1>2, <1>3, <1>4, <1>5 DEF RunStep

LEMMA NewsStep == NewsInv /\ [Next]_vars => NewsInv'
  <1> SUFFICES ASSUME NewsInv, [Next]_vars
               PROVE  NewsInv'
    OBVIOUS
  <1>1. CASE \E r \in Runs : RunStep(r) \/ Start(r)
    BY <1>1, NewsRunStep, StartOK
  <1>2. CASE \E s \in Sources : Publish(s)
    BY <1>2, PublishOK
  <1>3. CASE RecordAges \/ Crash
    BY <1>3, RecordAgesOK, CrashOK
  <1>4. CASE UNCHANGED vars
    <2>1. IndexOK'
      BY <1>4, IndexStays DEF vars, NewsInv, IndexOK
    <2> QED
      BY <1>4, <2>1, RunsStay DEF vars
  <1> QED
    BY <1>1, <1>2, <1>3, <1>4 DEF Next

-----------------------------------------------------------------------------
(* Theorems *)

\* What a run knows of the index while it is alone, and what it has done at each stage.
THEOREM NewsInvCorrect == Spec => []NewsInv
  BY NewsInit, NewsStep, PTL DEF Spec

\* Every variable keeps its type, and no part of a body stands beside another text.
THEOREM NewsTypeOKCorrect == Spec => []TypeOK
  <1>1. NewsInv => TypeOK
    BY DEF NewsInv, IndexOK, RunsOK, RunRec, TypeOK
  <1> QED
    BY <1>1, NewsInvCorrect, PTL

\* A success of a run that was alone, and saw every missing vector, is one that the
\* status API confirms.
THEOREM SuccessIsHealthyCorrect == Spec => []SuccessIsHealthy
  <1>1. ASSUME NewsInv, NEW r \in Runs, At(r, "store"), run[r].alone, run[r].whole,
               StatusOf(run[r]) = "success"
        PROVE  \/ StatusReply = [status |-> "healthy", warnings |-> {}]
               \/ StatusReply = [status |-> "empty", warnings |-> {"no_real_documents"}]
    <2>1. run[r].indexed /\ ~run[r].flawed /\ ~run[r].unfilled
      BY <1>1 DEF StatusOf
    <2>2. DummyHeld = {} /\ Missing = {}
      BY <1>1, <2>1 DEF NewsInv, AloneOK, Knows, Filled, At
    <2>3. CASE Held = {}
      <3>1. RagStatus = "empty"
        BY <2>3 DEF RagStatus
      <3>2. Cardinality(Missing) = 0 /\ Held \ DummyHeld = {} /\ Held \ Missing = {}
        BY <2>2, <2>3, FS_EmptySet
      <3>3. Warnings = {"no_real_documents"}
        BY <2>2, <2>3, <3>2 DEF Warnings
      <3> QED
        BY <3>1, <3>3 DEF StatusReply
    <2>4. CASE Held # {}
      <3>1. store # "absent"
        BY <1>1, <2>4 DEF NewsInv, IndexOK
      <3>2. RagStatus = "healthy"
        BY <2>2, <2>4, <3>1 DEF RagStatus
      <3>3. IsFiniteSet(Held)
        BY ChunksFinite, FS_Subset DEF Held
      <3>4. Cardinality(Held) \in Nat /\ Cardinality(Held) # 0 /\ Cardinality(Missing) = 0
        BY <2>2, <2>4, <3>3, FS_EmptySet, FS_CardinalityType
      <3>5. ~(Cardinality(Missing) >= Cardinality(Held))
        BY <3>4
      <3>6. Held \ DummyHeld = Held /\ Held \ Missing = Held
        BY <2>2
      <3>7. Warnings = {}
        BY <2>2, <2>4, <3>5, <3>6 DEF Warnings
      <3> QED
        BY <3>2, <3>7 DEF StatusReply
    <2> QED
      BY <2>3, <2>4
  <1>2. NewsInv => SuccessIsHealthy
    BY <1>1 DEF SuccessIsHealthy
  <1> QED
    BY <1>2, NewsInvCorrect, PTL

-----------------------------------------------------------------------------
(* What a step does to the chunks of the index *)

\* A chunk is left alone, or indexed as a whole.
LEMMA UpsertWrites ==
    ASSUME NewsInv, NEW r \in Runs, Upsert(r), NEW c \in ChunkIds
    PROVE  index'[c] \in {index[c], Indexed(r, c)}
  <1>1. \E in : index' = [k \in ChunkIds |-> IF k \in in THEN Indexed(r, k) ELSE index[k]]
    BY DEF Upsert
  <1> QED
    BY <1>1

\* A chunk is left alone, or it was there and gets the vector of a text that was found.
LEMMA BackfillWrites ==
    ASSUME NewsInv, NEW r \in Runs, BackfillWrite(r)
    PROVE  /\ run'[r].at = "expire"
           /\ \A c \in ChunkIds : \/ index'[c] = index[c]
                                  \/ /\ c \in Held
                                     /\ \E h \in run[r].hits :
                                           /\ h[1] = c
                                           /\ index'[c] = [index[c] EXCEPT !.vector = h[2]]
  <1>0. PICK failing \in MayFail :
          \E e \in Embeddings({h[1] : h \in run[r].hits}, failing) :
          \E written \in Served(e.got \cap Held, failing) \cup {e.got \cap Held} :
             /\ index' = [c \in ChunkIds |->
                   IF c \in written
                     THEN [index[c] EXCEPT !.vector = (CHOOSE h \in run[r].hits : h[1] = c)[2]]
                     ELSE index[c]]
             /\ Set(r, [run[r] EXCEPT !.at = "expire", !.hits = {},
                            !.unfilled = Cardinality(written) < Cardinality(run[r].hits)])
    BY DEF BackfillWrite
  <1>1. PICK e \in Embeddings({h[1] : h \in run[r].hits}, failing) :
          \E written \in Served(e.got \cap Held, failing) \cup {e.got \cap Held} :
             /\ index' = [c \in ChunkIds |->
                   IF c \in written
                     THEN [index[c] EXCEPT !.vector = (CHOOSE h \in run[r].hits : h[1] = c)[2]]
                     ELSE index[c]]
             /\ Set(r, [run[r] EXCEPT !.at = "expire", !.hits = {},
                            !.unfilled = Cardinality(written) < Cardinality(run[r].hits)])
    BY <1>0
  <1>2. PICK written \in Served(e.got \cap Held, failing) \cup {e.got \cap Held} :
             /\ index' = [c \in ChunkIds |->
                   IF c \in written
                     THEN [index[c] EXCEPT !.vector = (CHOOSE h \in run[r].hits : h[1] = c)[2]]
                     ELSE index[c]]
             /\ Set(r, [run[r] EXCEPT !.at = "expire", !.hits = {},
                            !.unfilled = Cardinality(written) < Cardinality(run[r].hits)])
    BY <1>1
  <1>3. written \subseteq Held /\ written \subseteq {h[1] : h \in run[r].hits}
    BY EmbeddingsOK DEF Served
  <1>4. run'[r].at = "expire"
    BY <1>2 DEF Set, NewsInv, RunsOK, RunRec
  <1>5. ASSUME NEW c \in written
        PROVE  \E h \in run[r].hits :
                  h[1] = c /\ index'[c] = [index[c] EXCEPT !.vector = h[2]]
    <2>1. PICK h : h = CHOOSE g \in run[r].hits : g[1] = c
      OBVIOUS
    <2>2. h \in run[r].hits /\ h[1] = c
      BY <1>3, <2>1
    <2>3. c \in ChunkIds
      BY <1>3 DEF Held
    <2>4. index'[c] = [index[c] EXCEPT !.vector = h[2]]
      BY <1>2, <2>1, <2>3
    <2> QED
      BY <2>2, <2>4
  <1>6. \A c \in ChunkIds \ written : index'[c] = index[c]
    BY <1>2
  <1> QED
    BY <1>3, <1>4, <1>5, <1>6

\* The other steps change a chunk only by deleting it.
LEMMA OthersDelete ==
    ASSUME NewsInv, [Next]_vars, \A r \in Runs : ~Upsert(r) /\ ~BackfillWrite(r),
           NEW c \in ChunkIds
    PROVE  index'[c] \in {index[c], None}
  <1>1. ASSUME NEW G, index' = Emptied(G)
        PROVE  index'[c] \in {index[c], None}
    BY <1>1 DEF Emptied
  <1>2. CASE UNCHANGED index
    BY <1>2
  <1>3. CASE \E G : index' = Emptied(G)
    BY <1>1, <1>3
  <1>4. ASSUME NEW r \in Runs, RunStep(r)
        PROVE  UNCHANGED index \/ \E G : index' = Emptied(G)
    <2>1. CASE DropIndex(r)
      BY <2>1 DEF DropIndex
    <2>2. CASE \E s \in Sources : DeleteStale(r, s)
      BY <2>2 DEF DeleteStale
    <2>3. CASE DeleteFallback(r)
      BY <2>3 DEF DeleteFallback
    <2>4. CASE DeleteExpired(r)
      BY <2>4 DEF DeleteExpired
    <2>5. CASE \/ CheckIndex(r) \/ CreateIndex(r) \/ CreatedByOther(r) \/ IndexFails(r)
               \/ Fetch(r) \/ Embed(r) \/ DeleteFails(r) \/ BackfillSearch(r) \/ BackfillFails(r)
               \/ ExpireFails(r) \/ Store(r) \/ StoreFails(r)
      BY <2>5 DEF CheckIndex, CreateIndex, CreatedByOther, IndexFails, Fetch, Embed, DeleteFails,
         BackfillSearch, BackfillFails, ExpireFails, Store, StoreFails, Fails
    <2> QED
      BY <1>4, <2>1, <2>2, <2>3, <2>4, <2>5 DEF RunStep
  <1>5. ASSUME \/ \E r \in Runs : Start(r)
               \/ \E s \in Sources : Publish(s)
               \/ RecordAges \/ Crash \/ UNCHANGED vars
        PROVE  UNCHANGED index
    BY <1>5 DEF Start, Publish, RecordAges, Crash, vars
  <1> QED
    BY <1>2, <1>3, <1>4, <1>5 DEF Next

\* Who takes a step is active, and whoever is at the deletion of stale documents goes on
\* deleting.
LEMMA StaleSteps ==
    ASSUME NEW p, RunStep(p)
    PROVE  /\ ~At(p, "idle")
           /\ At(p, "stale") => \/ \E t \in Sources : DeleteStale(p, t)
                                \/ DeleteFallback(p) \/ DeleteFails(p)
  BY DEF RunStep, At, CheckIndex, DropIndex, CreateIndex, CreatedByOther, IndexFails, Fetch, Embed,
     Upsert, DeleteStale, DeleteFallback, DeleteFails, BackfillSearch, BackfillWrite, BackfillFails,
     DeleteExpired, ExpireFails, Store, StoreFails

-----------------------------------------------------------------------------

\* A vector is of the text that its chunk holds, but for the backfill of a run that was
\* not alone.
THEOREM VectorOfTextCorrect == Spec => VectorOfText
  <1>1. NewsInv /\ [Next]_vars =>
          [\A c \in ChunkIds :
             (index'[c] # index[c] /\ index'[c].vector \notin {"none", index'[c].text}) =>
                \E r \in Runs : At(r, "backfill") /\ ~run[r].alone /\ ~At(r, "backfill")']_vars
    <2> SUFFICES ASSUME NewsInv, [Next]_vars, NEW c \in ChunkIds, index'[c] # index[c],
                        index'[c].vector \notin {"none", index'[c].text}
                 PROVE  \E r \in Runs : At(r, "backfill") /\ ~run[r].alone /\ ~At(r, "backfill")'
      OBVIOUS
    <2>1. ASSUME NEW r \in Runs, Upsert(r)
          PROVE  FALSE
      <3>1. index'[c] = Indexed(r, c)
        BY <2>1, UpsertWrites
      <3> QED
        BY <3>1 DEF Indexed
    <2>2. CASE \A r \in Runs : ~Upsert(r) /\ ~BackfillWrite(r)
      <3>1. index'[c] = None
        BY <2>2, OthersDelete
      <3> QED
        BY <3>1 DEF None
    <2>3. ASSUME NEW r \in Runs, BackfillWrite(r)
          PROVE  At(r, "backfill") /\ ~run[r].alone /\ ~At(r, "backfill")'
      <3>1. run'[r].at = "expire" /\ c \in Held
        BY <2>3, BackfillWrites
      <3>2. PICK h \in run[r].hits :
              h[1] = c /\ index'[c] = [index[c] EXCEPT !.vector = h[2]]
        BY <2>3, BackfillWrites
      <3>3. run[r].at = "backfill"
        BY <2>3 DEF BackfillWrite, At
      <3>4. index[c] \in [text : Texts, vector : Texts \cup {"none"}]
        BY <3>1 DEF Held, NewsInv, IndexOK
      <3>5. index'[c].vector = h[2] /\ index'[c].text = index[c].text
        BY <3>2, <3>4
      <3>6. ASSUME run[r].alone
            PROVE  FALSE
        <4>1. index[h[1]].text = h[2]
          BY <3>3, <3>6 DEF NewsInv, AloneOK, Knows, Found
        <4> QED
          BY <3>2, <3>5, <4>1
      <3> QED
        BY <3>1, <3>3, <3>6 DEF At
    <2> QED
      BY <2>1, <2>2, <2>3
  <1> QED
    BY <1>1, NewsInvCorrect, PTL DEF Spec, VectorOfText

\* A run that is alone leaves no source without a real chunk, unless it could index
\* nothing of what it fetched of it.
THEOREM KeepsNewsCorrect == Spec => KeepsNews
  <1>1. NewsInv /\ [Next]_vars =>
          [\A r \in Runs, s \in Sources :
             /\ At(r, "stale") /\ run[r].alone
             /\ (\E d \in run[r].docs : d.article[1] = s) => s \in run[r].got
             /\ RealOf(s) # {}
             => RealOf(s)' # {}]_vars
    <2> SUFFICES ASSUME NewsInv, [Next]_vars, NEW r \in Runs, NEW s \in Sources,
                        At(r, "stale"), run[r].alone,
                        (\E d \in run[r].docs : d.article[1] = s) => s \in run[r].got,
                        RealOf(s) # {}
                 PROVE  RealOf(s)' # {}
      OBVIOUS
    <2>1. (\A q \in Runs \ {r} : At(q, "idle")) /\ Listing(run[r])
      BY DEF NewsInv, AloneOK, Knows, At
    <2>2. CASE UNCHANGED index
      BY <2>2 DEF RealOf, Held
    <2>3. ASSUME NEW t \in Sources, DeleteStale(r, t)
          PROVE  RealOf(s)' # {}
      <3>1. PICK G : /\ G = {c \in Held : c[1][1] = t /\ \A d \in run[r].docs : d.article # c[1]}
                     /\ index' = Emptied(G)
        BY <2>3 DEF DeleteStale
      <3>2. Held' = Held \ G
        BY <2>3, <3>1, EmptiedOK DEF DeleteStale, NewsInv
      <3>3. CASE t # s
        BY <3>1, <3>2, <3>3 DEF RealOf
      <3>4. CASE t = s
        <4>1. s \in RealSources(run[r].docs) /\ \A d \in run[r].docs : ~IsDummy(d.article)
          BY <2>3, <3>4 DEF DeleteStale, NewsInv, RunsOK, DocsOK
        <4>2. s \in run[r].got
          BY <4>1 DEF RealSources
        <4>3. PICK c \in Held : c[1][1] = s /\ \E d \in run[r].docs : d.article = c[1]
          BY <2>1, <4>2 DEF Listing
        <4>4. c \in Held' /\ ~IsDummy(c[1])
          BY <3>1, <3>2, <4>1, <4>3
        <4> QED
          BY <4>3, <4>4 DEF RealOf
      <3> QED
        BY <3>3, <3>4
    <2>4. CASE DeleteFallback(r)
      <3>1. CASE index' = Emptied(DummyHeld)
        <4>1. Held' = Held \ DummyHeld
          BY <2>4, <3>1, EmptiedOK DEF DeleteFallback, NewsInv
        <4> QED
          BY <4>1 DEF RealOf, DummyHeld
      <3> QED
        BY <2>2, <2>4, <3>1 DEF DeleteFallback
    <2>5. CASE DeleteFails(r)
      BY <2>2, <2>5 DEF DeleteFails
    <2>6. CASE RunStep(r)
      BY <2>3, <2>4, <2>5, <2>6, StaleSteps
    <2>7. ASSUME NEW q \in Runs, RunStep(q)
          PROVE  q = r
      BY <2>1, <2>7, StaleSteps
    <2>8. ASSUME \/ \E q \in Runs : Start(q)
                 \/ \E t \in Sources : Publish(t)
                 \/ RecordAges \/ Crash \/ UNCHANGED vars
          PROVE  UNCHANGED index
      BY <2>8 DEF Start, Publish, RecordAges, Crash, vars
    <2> QED
      BY <2>2, <2>6, <2>7, <2>8 DEF Next
  <1> QED
    BY <1>1, NewsInvCorrect, PTL DEF Spec, KeepsNews
==============================================================================
