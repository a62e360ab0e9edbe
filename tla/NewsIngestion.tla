---------------------------- MODULE NewsIngestion ----------------------------
(***************************************************************************)
(* The market news index and the runs that fill it                         *)
(* (services/rag/ingestion.py, services/rag/opensearch_client.py) and what *)
(* the status API says of it (api/routes/news.py).                         *)
(*                                                                         *)
(* A run fetches every source, translates, embeds and indexes the chunks,  *)
(* deletes what the sources no longer list, fills in missing embeddings    *)
(* and stores a record of itself.  The scheduled job and the checks before a*)
(* BUY start runs, and nothing keeps two of them from running at once.     *)
(*                                                                         *)
(* An article is a source and a number, the dummies of a failing API are   *)
(* its number 0.  A text is the summary of the feed, one chunk, or the     *)
(* body that was crawled, two chunks.                                      *)
(***************************************************************************)
EXTENDS Naturals, FiniteSets

CONSTANTS
    Runs,            \* who starts runs, each one at a time
    Checks,          \* those that are checks before a BUY, not the job
    Feeds,           \* RSS feeds, whose articles are crawled
    Apis,            \* news APIs, which are replaced by dummies when they fail
    Keyless,         \* APIs without credentials, not enabled
    Quiet,           \* APIs without dummies when they list nothing: CryptoPanic
    MaxArticle,      \* per source, the articles it publishes
    FetchLimit,      \* newest articles taken of a source
    ScheduledFallback,  \* whether the scheduled job may translate with OpenAI
    EmbedLimit,      \* EMBEDDING_REQUEST_LIMIT_PER_RUN, in chunks
    BackfillLimit,   \* MISSING_EMBEDDING_BACKFILL_LIMIT, in chunks
    MaxFaults        \* bound: steps at which something fails

Sources == Feeds \cup Apis

ASSUME NewsAssumption ==
    /\ Feeds \cap Apis = {}
    /\ Keyless \subseteq Apis
    /\ Quiet \subseteq Apis
    /\ Checks \subseteq Runs
    /\ Feeds # {}
    /\ IsFiniteSet(Sources)
    /\ MaxArticle \in [Sources -> Nat \ {0}]
    /\ {FetchLimit, EmbedLimit, BackfillLimit} \subseteq Nat \ {0}
    /\ BackfillLimit <= EmbedLimit
    /\ MaxFaults \in Nat
    /\ ScheduledFallback \in BOOLEAN

VARIABLES
    latest,    \* per source, the number of its newest article
    store,     \* market_news: "absent", "outdated" (another mapping) or "ready"
    index,     \* per chunk, what market_news holds of it
    run,       \* per run, where it is and what it has
    record,    \* status of the latest run stored, "none" when it is not recent
    faults     \* steps so far at which a source, a provider, OpenSearch or the
               \* process failed

vars == <<latest, store, index, run, record, faults>>

Articles == UNION {{s} \X (0..MaxArticle[s]) : s \in Sources}
Texts    == {"summary", "body"}
ChunkIds == Articles \X {1, 2}
Doc      == [article : Articles, text : Texts]
None     == [text |-> "none", vector |-> "none"]

IsDummy(a) == a[2] = 0

\* A short text is one chunk, a longer one is split.
PartsAlwaysTwo(text) == {1, 2}
Parts(text) == IF text = "body" THEN {1, 2} ELSE {1}
ChunksOf(docs) == UNION {{<<d.article, i>> : i \in Parts(d.text)} : d \in docs}
TextIn(docs, c) == (CHOOSE d \in docs : d.article = c[1]).text

\* _source_parent_ids: the sources of which stale documents are deleted.
EverySource(docs) == Sources
RealSources(docs) == {d.article[1] : d \in {e \in docs : ~IsDummy(e.article)}}

Held      == {c \in ChunkIds : index[c] # None}
Missing   == {c \in Held : index[c].vector = "none"}
DummyHeld == {c \in Held : IsDummy(c[1])}
RealOf(s) == {c \in Held : c[1][1] = s /\ ~IsDummy(c[1])}

Emptied(gone) == [c \in ChunkIds |-> IF c \in gone THEN None ELSE index[c]]

\* Three fields are history: alone, that no other run was active at any time of this
\* one; got, the sources of which a chunk was indexed; whole, that the backfill
\* found every chunk without a vector.
Idle == [at |-> "idle", docs |-> {}, embedded |-> {}, skip |-> FALSE,
         indexed |-> FALSE, todo |-> {}, hits |-> {}, flawed |-> FALSE, unfilled |-> FALSE,
         alone |-> FALSE, got |-> {}, whole |-> FALSE]

Init ==
    /\ latest = [s \in Sources |-> 1]
    /\ store \in {"absent", "outdated", "ready"}
    /\ index = [c \in ChunkIds |-> None]
    /\ run = [r \in Runs |-> Idle]
    /\ record = "none"
    /\ faults = 0

At(r, stage) == run[r].at = stage
Active == {r \in Runs : ~At(r, "idle")}
Set(r, q) == run' = [run EXCEPT ![r] = q]
GoTo(r, stage) == Set(r, [run[r] EXCEPT !.at = stage])

\* Whether this step may be one that fails.
MayFail == IF faults < MaxFaults THEN BOOLEAN ELSE {FALSE}
Count(failing) == faults' = IF failing THEN faults + 1 ELSE faults

\* What is served of a set that is asked for.
Served(S, failing) == IF failing THEN SUBSET S \ {S} ELSE {S}

\* An exception is counted, and the clean-up of the finally block follows.
Fails(r, stage) ==
    /\ faults < MaxFaults
    /\ Count(TRUE)
    /\ Set(r, [run[r] EXCEPT !.at = stage, !.flawed = TRUE])
    /\ UNCHANGED <<latest, store, index, record>>

-----------------------------------------------------------------------------
(* A run begins *)

\* APScheduler runs the job once at a time; a check before a BUY starts a run only
\* when the latest record is not recent, whatever its status.
Start(r) ==
    /\ At(r, "idle")
    /\ r \in Checks => record = "none"
    /\ run' = [q \in Runs |->
                 IF q = r THEN [Idle EXCEPT !.at = "check", !.alone = Active = {}]
                 ELSE IF q \in Active THEN [run[q] EXCEPT !.alone = FALSE]
                 ELSE run[q]]
    /\ UNCHANGED <<latest, store, index, record, faults>>

\* ensure_market_news_index: an index of another mapping is deleted and made anew.
AfterCheck == CASE store = "ready"    -> "fetch"
                [] store = "absent"   -> "create"
                [] store = "outdated" -> "drop"

CheckIndex(r) ==
    /\ At(r, "check")
    /\ GoTo(r, AfterCheck)
    /\ UNCHANGED <<latest, store, index, record, faults>>

DropIndex(r) ==
    /\ At(r, "drop")
    /\ store' = "absent"
    /\ index' = Emptied(ChunkIds)
    /\ GoTo(r, "create")
    /\ UNCHANGED <<latest, record, faults>>

CreateIndex(r) ==
    /\ At(r, "create")
    /\ store = "absent"
    /\ store' = "ready"
    /\ GoTo(r, "fetch")
    /\ UNCHANGED <<latest, index, record, faults>>

\* Another run has created it meanwhile: OpenSearch refuses.
CreatedByOther(r) ==
    /\ At(r, "create")
    /\ store # "absent"
    /\ Set(r, [run[r] EXCEPT !.at = "store", !.flawed = TRUE])
    /\ UNCHANGED <<latest, store, index, record, faults>>

IndexFails(r) == run[r].at \in {"check", "drop", "create"} /\ Fails(r, "store")

-----------------------------------------------------------------------------
(* Fetching and embedding *)

Window(s) == {n \in 1..latest[s] : n + FetchLimit > latest[s]}

Listed(S) == UNION {{s} \X Window(s) : s \in S}

\* Of a feed's article the body is used when it was crawled and is long enough, the
\* feed's summary otherwise.
RealDocs(answered, crawled) ==
    {[article |-> a, text |-> IF a \in crawled THEN "body" ELSE "summary"] :
        a \in Listed(answered)}

\* The APIs that are replaced by dummies: those without credentials, and those that
\* did not answer, unless it was with an empty list.
FailedApis(answered) ==
    {F \in SUBSET (Apis \ answered) : (Apis \ (answered \cup Quiet)) \cup Keyless \subseteq F}

Dummies(failed) == {[article |-> <<s, 0>>, text |-> "summary"] : s \in failed}

\* _prefer_real_documents
Preferred(real, dummies) == IF real # {} THEN real ELSE dummies

\* What the health of the enabled sources may be: flawed if one did not answer, and flawed
\* or not if all did.  A feed may not parse cleanly, a query of Naver may fail, and of an
\* article that is not crawled the crawl failed, which is a flaw, or was skipped, which
\* is none (Google News).
SourceFlaws(answered) == IF (Sources \ Keyless) \ answered = {} THEN BOOLEAN ELSE {TRUE}

Fetch(r) ==
    /\ At(r, "fetch")
    /\ \E failing \in MayFail :
       \E answered \in Served(Sources \ Keyless, failing) :
       \E crawled \in SUBSET Listed(Feeds \cap answered), failed \in FailedApis(answered),
         flawed \in SourceFlaws(answered) :
          LET docs == Preferred(RealDocs(answered, crawled), Dummies(failed)) IN
          /\ Set(r, [run[r] EXCEPT !.at = "embed", !.docs = docs, !.flawed = flawed])
          /\ Count(failing)
    /\ UNCHANGED <<latest, store, index, record>>

Answers(failing) == IF failing THEN {"ok", "limited", "broken"} ELSE {"ok"}

\* Gemini, and OpenAI after it where its cost is allowed: a BUY check always pays.
Translated(r, gemini, openai) ==
    \/ gemini = "ok"
    \/ openai = "ok" /\ (r \in Checks \/ ScheduledFallback)
Translations(r, failing) == {Translated(r, gemini, openai) : gemini, openai \in Answers(failing)}

Attempted(chunks, limit) ==
    {S \in SUBSET chunks : \/ Cardinality(S) = limit
                           \/ Cardinality(S) < limit /\ S = chunks}

\* The chunks are in the order of the documents, the APIs before the feeds, and the first
\* ones get a vector.  A backfill asks for no more than the limit.
Before(c, d) == \/ c[1][1] \in Apis /\ d[1][1] \in Feeds
                \/ c[1] = d[1] /\ c[2] < d[2]
Foremost(chunks) ==
    {S \in Attempted(chunks, EmbedLimit) : \A c \in S, d \in chunks \ S : ~Before(d, c)}

\* Whether a provider that was asked is out of quota or has no credentials.
OutOfQuota(gemini, openai) ==
    \/ gemini = "limited"
    \/ gemini = "broken" /\ openai = "limited"

\* _generate_embeddings: Gemini, and OpenAI when it fails, for no more chunks than
\* the limit; single vectors may be of a wrong size.
Embeddings(chunks, failing) ==
    LET Result(gemini, openai, got) ==
            [got |-> IF "ok" \in {gemini, openai} THEN got ELSE {},
             quota |-> OutOfQuota(gemini, openai)]
    IN  UNION {{Result(gemini, openai, got) :
                    gemini, openai \in Answers(failing), got \in Served(S, failing) \cup {S}} :
               S \in Foremost(chunks)}

\* A real document that is not translated stays as it is.
Embed(r) ==
    /\ At(r, "embed")
    /\ LET chunks == ChunksOf(run[r].docs)
           real   == RealSources(run[r].docs) # {} IN
       \E failing \in MayFail :
       \E translated \in Translations(r, failing), e \in Embeddings(chunks, failing) :
          /\ Set(r, [run[r] EXCEPT !.at = "upsert", !.embedded = e.got, !.skip = e.quota,
                                   !.flawed = \/ @
                                              \/ e.got # chunks
                                              \/ real /\ ~translated])
          /\ Count(failing)
    /\ UNCHANGED <<latest, store, index, record>>

-----------------------------------------------------------------------------
(* Writing and deleting *)

\* What a chunk becomes when it is indexed: the whole document is replaced.
IndexedInPart(r, c) ==
    LET text == TextIn(run[r].docs, c) IN
    [text |-> text, vector |-> IF c \in run[r].embedded THEN text ELSE index[c].vector]
Indexed(r, c) ==
    LET text == TextIn(run[r].docs, c) IN
    [text |-> text, vector |-> IF c \in run[r].embedded THEN text ELSE "none"]

\* _bulk_upsert_chunks; OpenSearch makes an index that is not there, with a mapping
\* of its own.
Upsert(r) ==
    /\ At(r, "upsert")
    /\ LET docs   == run[r].docs
           chunks == ChunksOf(docs) IN
       \E failing \in MayFail : \E in \in Served(chunks, failing) :
          /\ Count(failing)
          /\ index' = [c \in ChunkIds |-> IF c \in in THEN Indexed(r, c) ELSE index[c]]
          /\ store' = IF store = "absent" /\ in # {} THEN "outdated" ELSE store
          /\ Set(r, [run[r] EXCEPT
                !.at = IF in = {} THEN "expire" ELSE "stale",
                !.embedded = {},
                !.indexed = in # {},
                !.got = {c[1][1] : c \in in},
                !.docs = IF in = {} THEN {} ELSE @,
                !.todo = IF in = {} THEN {} ELSE RealSources(docs),
                !.flawed = @ \/ in # chunks])
    /\ UNCHANGED <<latest, record>>

\* _delete_stale_source_documents, for one source: all it holds that this run has
\* not fetched, dummies included.
DeleteStale(r, s) ==
    /\ At(r, "stale")
    /\ s \in run[r].todo
    /\ index' = Emptied({c \in Held : c[1][1] = s /\ \A d \in run[r].docs : d.article # c[1]})
    /\ Set(r, [run[r] EXCEPT !.todo = @ \ {s}])
    /\ UNCHANGED <<latest, store, record, faults>>

\* Dummies go when the run has brought a real document.
DummiesKept(docs) == FALSE
DummiesReplaced(docs) == RealSources(docs) # {}

DeleteFallback(r) ==
    /\ At(r, "stale")
    /\ run[r].todo = {}
    /\ index' = IF DummiesReplaced(run[r].docs)
                  THEN Emptied(DummyHeld) ELSE index
    /\ Set(r, [run[r] EXCEPT !.at = IF run[r].skip THEN "expire" ELSE "search",
                             !.docs = {}, !.got = {}, !.skip = FALSE])
    /\ UNCHANGED <<latest, store, record, faults>>

DeleteFails(r) ==
    /\ At(r, "stale")
    /\ faults < MaxFaults
    /\ Count(TRUE)
    /\ Set(r, [Idle EXCEPT !.at = "expire", !.alone = run[r].alone, !.indexed = TRUE,
                           !.flawed = TRUE])
    /\ UNCHANGED <<latest, store, index, record>>

\* _build_missing_embedding_backfill_query: the newest missing first.
Newer(c, d) == c[1][2] > d[1][2]
BackfillHits(limit) ==
    LET real == {c \in Missing : ~IsDummy(c[1])} IN
    {S \in Attempted(real, limit) : \A c \in S, d \in real \ S : ~Newer(d, c)}

Hit(c) == <<c, index[c].text>>

BackfillSearch(r) ==
    /\ At(r, "search")
    /\ \E hits \in BackfillHits(BackfillLimit) :
          Set(r, [run[r] EXCEPT !.at = IF hits = {} THEN "expire" ELSE "backfill",
                                !.hits = {Hit(c) : c \in hits},
                                !.whole = Cardinality(hits) < BackfillLimit])
    /\ UNCHANGED <<latest, store, index, record, faults>>

\* The vectors are of the texts that the search found; an update of a chunk that is
\* gone is an error.
BackfillWrite(r) ==
    /\ At(r, "backfill")
    /\ \E failing \in MayFail :
       \E e \in Embeddings({h[1] : h \in run[r].hits}, failing) :
       \E written \in Served(e.got \cap Held, failing) \cup {e.got \cap Held} :
          /\ Count(failing)
          /\ index' = [c \in ChunkIds |->
                IF c \in written
                  THEN [index[c] EXCEPT !.vector = (CHOOSE h \in run[r].hits : h[1] = c)[2]]
                  ELSE index[c]]
          /\ Set(r, [run[r] EXCEPT !.at = "expire", !.hits = {},
                                   !.unfilled = Cardinality(written) < Cardinality(run[r].hits)])
    /\ UNCHANGED <<latest, store, record>>

BackfillFails(r) ==
    /\ At(r, "search")
    /\ faults < MaxFaults
    /\ Count(TRUE)
    /\ Set(r, [run[r] EXCEPT !.at = "expire", !.unfilled = TRUE])
    /\ UNCHANGED <<latest, store, index, record>>

\* _delete_expired_documents: of each source the articles up to some number are too
\* old by now.
DeleteExpired(r) ==
    /\ At(r, "expire")
    /\ \E gone \in UNION {{{c \in RealOf(s) : c[1][2] <= n} : n \in 0..latest[s]} :
                           s \in Sources} :
          index' = Emptied(gone)
    /\ GoTo(r, "store")
    /\ UNCHANGED <<latest, store, record, faults>>

ExpireFails(r) == At(r, "expire") /\ Fails(r, "store")

\* _resolve_ingestion_run_status
StatusOfBackfill(q) ==
    IF ~q.indexed THEN "failed" ELSE IF q.unfilled THEN "partial" ELSE "success"
StatusOf(q) ==
    IF ~q.indexed THEN "failed"
    ELSE IF q.flawed \/ q.unfilled THEN "partial" ELSE "success"

Store(r) ==
    /\ At(r, "store")
    /\ record' = StatusOf(run[r])
    /\ Set(r, Idle)
    /\ UNCHANGED <<latest, store, index, faults>>

StoreFails(r) ==
    /\ At(r, "store")
    /\ faults < MaxFaults
    /\ Count(TRUE)
    /\ Set(r, Idle)
    /\ UNCHANGED <<latest, store, index, record>>

-----------------------------------------------------------------------------
(* The world *)

Publish(s) ==
    /\ latest[s] < MaxArticle[s]
    /\ latest' = [latest EXCEPT ![s] = @ + 1]
    /\ UNCHANGED <<store, index, run, record, faults>>

\* max_age_minutes go by.
RecordAges ==
    /\ record # "none"
    /\ record' = "none"
    /\ UNCHANGED <<latest, store, index, run, faults>>

Crash ==
    /\ faults < MaxFaults
    /\ Active # {}
    /\ Count(TRUE)
    /\ run' = [r \in Runs |-> Idle]
    /\ UNCHANGED <<latest, store, index, record>>

-----------------------------------------------------------------------------

RunStep(r) ==
    \/ CheckIndex(r) \/ DropIndex(r) \/ CreateIndex(r) \/ CreatedByOther(r) \/ IndexFails(r)
    \/ Fetch(r) \/ Embed(r) \/ Upsert(r)
    \/ \E s \in Sources : DeleteStale(r, s)
    \/ DeleteFallback(r) \/ DeleteFails(r)
    \/ BackfillSearch(r) \/ BackfillWrite(r) \/ BackfillFails(r)
    \/ DeleteExpired(r) \/ ExpireFails(r) \/ Store(r) \/ StoreFails(r)

Next ==
    \/ \E r \in Runs : RunStep(r) \/ Start(r)
    \/ \E s \in Sources : Publish(s)
    \/ RecordAges \/ Crash

Spec == Init /\ [][Next]_vars

-----------------------------------------------------------------------------
(* What GET /news/rag/status says *)

\* _resolve_rag_status
RagStatus ==
    IF store = "absent" \/ Held = {} THEN "empty"
    ELSE IF Held \subseteq DummyHeld \/ DummyHeld # {} \/ Missing # {} THEN "degraded"
    ELSE "healthy"

\* _build_rag_status_warnings, those about the index.
Warnings ==
    LET real     == Held \ DummyHeld
        embedded == Held \ Missing
        Given(code, condition) == IF condition THEN {code} ELSE {}
    IN  UNION {Given("no_real_documents", real = {}),
               Given("fallback_documents_present", DummyHeld # {}),
               Given("all_embeddings_missing", real # {} /\ embedded = {}),
               Given("missing_embedding_high",
                     Held # {} /\ Cardinality(Missing) >= Cardinality(embedded))}

StatusReply == [status |-> RagStatus, warnings |-> Warnings]

-----------------------------------------------------------------------------
(* Properties *)

\* Every variable keeps its type; the second chunk of an article is of its body.
TypeOK ==
    /\ latest \in [Sources -> Nat]
    /\ \A s \in Sources : latest[s] \in 1..MaxArticle[s]
    /\ store \in {"absent", "outdated", "ready"}
    /\ index \in [ChunkIds -> {None} \cup [text : Texts, vector : Texts \cup {"none"}]]
    /\ \A c \in Held : c[2] = 2 => index[c].text = "body"
    /\ \A r \in Runs : run[r].docs \subseteq Doc /\ run[r].todo \subseteq Sources
    /\ record \in {"none", "failed", "partial", "success"}
    /\ faults \in 0..MaxFaults

\* A run that is alone never leaves a source without a real chunk: not one that did
\* not answer, nor one of which it has indexed something.  It may do so to a source
\* of which it could index nothing, or when another run is active.
KeepsNews ==
    [][\A r \in Runs, s \in Sources :
         /\ At(r, "stale") /\ run[r].alone
         /\ (\E d \in run[r].docs : d.article[1] = s) => s \in run[r].got
         /\ RealOf(s) # {}
         => RealOf(s)' # {}]_vars

\* A vector is of the text that its chunk holds, whatever is indexed anew while it
\* is made: only the backfill of a run that was not alone may do otherwise.
VectorOfText ==
    [][\A c \in ChunkIds :
         (index'[c] # index[c] /\ index'[c].vector \notin {"none", index'[c].text}) =>
            \E r \in Runs : At(r, "backfill") /\ ~run[r].alone /\ ~At(r, "backfill")']_vars

\* When a run alone records a success and its backfill has seen every missing
\* vector, the status API finds the index healthy, or all of its news expired.
SuccessIsHealthy ==
    \A r \in Runs :
        (At(r, "store") /\ run[r].alone /\ run[r].whole /\ StatusOf(run[r]) = "success") =>
            \/ StatusReply = [status |-> "healthy", warnings |-> {}]
            \/ StatusReply = [status |-> "empty", warnings |-> {"no_real_documents"}]
=============================================================================
