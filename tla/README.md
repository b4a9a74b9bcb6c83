# SignLaw: a TLA+ model of the bylaw corpus and of what is answered from it

SignLaw answers questions about municipal sign bylaws from a corpus of PDFs.  Its
largest correctness risk is stated at the top of `ingestion/amendments.py`: citing
text that is no longer the law.  The modules here follow a bylaw through the program:
what is read from its PDF, how its text is cut into chunks, how documents are stored
while several ingest runs and uploads work at the same time, how the lineage pass
decides which text is in force, and what questions, compliance checks, comparisons,
permit checklists and zone lookups make of it while the corpus changes underneath.  They say
what that machinery guarantees, what it does not, and why.

Paths below are relative to `src/backend/app/` unless they start with `src/`.

## 1. The system

| Component | State it keeps | Operations | What makes it hard | What makes it correct |
|---|---|---|---|---|
| Lineage resolver `ingestion/amendments.py` | none (a pass over all documents) | `resolve`, `build_edges` | ties, missing dates, number styles, amendments against consolidations | one newest version per bylaw, nobody current by accident, edges within one municipality |
| Metadata detection `ingestion/metadata.py` | none | `detect` | what is *not* carried over: adoption day, direction and kind of a reference | facts mean what the resolver takes them to mean |
| Ingestion service `services/ingestion_service.py` | a database session and its transaction | `ingest_paths`, `resolve_lineage` | several runs at once, per-document transactions, failures between statements | whole documents, one per content, none lost; verdicts about the corpus that exists |
| Embedding collections `db/vectors.py`, `rag/collections.py`, migration 0003 | `embedding_collection.status`, `chunk_embedding_*` | create, activate, retire, count | a swap while queries run | at most one active; the active one is complete |
| Upload service, admin API `services/upload_service.py`, `api/v1/admin.py` | files on disk, `ingestion_job` rows, background tasks | upload, process, list | the task outlives the request and dies with the process | a job ends, and says what happened |
| Document pipeline `ingestion/pipeline.py` and the extractors | none per document | `process` | fallback to OCR page by page, a stage that fails | stages in order, no page lost |
| Section parser, chunker `domain/section_parser.py`, `domain/chunking.py` | a stack of headings, an open chunk | `parse`, `chunk` | boundaries: overlap, oversize blocks, tables | every line in one section, chunks within the limit |
| Hybrid retriever `rag/retriever.py`, `rag/fusion.py` | cached active collection | `retrieve` | two searches over a corpus that changes between them | only text in force; a best match is not lost by fusion |
| Answering `services/rag_service.py`, `rag/synthesizer.py`, `rag/verifier.py`, `domain/confidence.py`, `domain/query_router.py` | a trace per answer | `answer` | model down, nothing found, only superseded text, uncited claims | no answer without a verified citation |
| Model adapters `adapters/` | lazily loaded models | embed, rerank, generate | threads loading the same model, retries with a deadline | one load, bounded retries |
| Zoning `services/zoning/` | cached provider answers | `lookup` | expired cache, provider that fails | stale data is labelled stale |
| Compliance, comparison, permits, address `services/` | none | rule evaluation | units, missing dimensions | no verdict without a measurable rule |
| Health, API layer, configuration, logging, security | counters, settings | probes, middleware | a probe that hangs | status reflects the probes |
| CLI, evaluation and validation harness | none | batch runs | - | reports what the system answered |
| Web frontend `src/frontend/` | sessions | pages | - | renders the API's answers |

How they meet: an upload (`api/v1/admin.py`) stores a file, creates a job and starts a
background task that runs `IngestionService.ingest_paths`; the command line calls the
same method from another process.  Each run has its own database session.  Runs meet
only in the database: through rows, unique keys and locks.  `ingest_paths` puts every file
through the document pipeline, writes what comes out, and ends with `resolve_lineage`,
which reads every document and writes every verdict and edge.  A request
of the API has a session and a retriever of its own; it reads what those runs committed -
chunks of documents `in_force`, with vectors in the active collection - one statement at a
time, shares the loaded models with all other requests of the process, and commits its
trace when it returns.

## 2. Modules

| Module | Models |
|---|---|
| `Metadata` | the facts printed on a paper and what `MetadataDetector` makes of them |
| `Lineage` | `LineageResolver` as operators on a set of `DocumentFacts` |
| `DocumentTable` | rows of `document` and `bylaw_relation`; what a lineage pass reads from and writes to one row |
| `Corpus` | **abstract specification**: documents appear, are replaced and are judged in single steps |
| `Ingestion` | **implementation**: workers that execute `ingest_paths` statement by statement over a shared database |
| `UploadJobs` | admin uploads and their background tasks, over the steps of `Corpus`; a restart of the process |
| `PageQuality` | the score of a page's text and the decision to OCR it |
| `Sections`, `Chunks` | section parser and chunker, as operators on sequences of lines |
| `Pipeline` | one document through the stages, composed of the three above, up to the rows that are written |
| `Excerpts` | the rows retrieval returns |
| `Retriever` | `HybridRetriever.retrieve` statement by statement, fusion, and the lazily loaded models |
| `Places` | the registry of municipalities, the router of questions, the parser of addresses |
| `Evidence` | verifier, confidence score, conflict check |
| `Answering` | `POST /ask` from routing to the commit of the trace |
| `SignRules` | compliance checks, comparisons, permit checklists |
| `Zoning` | zone lookups: configuration, cache, provider |
| `Api` | **composition**: requests of all kinds together with passes, activations, an administrator and a clock |
| `MCCorpus`, `MCIngestion`, `MCUploadJobs`, `MCPipeline`, `MCApi` | instances for TLC |
| `Listing` | sorting, filtering and first members of lists, as sets of places: the form in which proofs can use them |
| `DocumentTableProofs`, `CorpusProofs` | theorems about the resolver, a pass over a table, and the abstract corpus |
| `IngestionProofs` | theorems about any number of runs, and what they keep of the abstract corpus |
| `UploadProofs` | theorems about uploads |
| `ListProofs` | induction over sets of numbers; lemmas about lists, sums and products of any length |
| `ApiProofs`, `EvidenceProofs` | theorems about any number of requests: locks, audit, zones; searches, answers, reports |
| `PipelineProofs` | theorems about the stages, the parser and the chunker, for any document and any sizes of the chunks |

Three chains of EXTENDS:

- `Metadata <- Lineage <- DocumentTable <- {Corpus, Ingestion, UploadJobs}`, so that all three use the same
  resolver and the same row update.  `Ingestion` instantiates `Corpus` as `Promise` with its committed
  tables for the abstract ones and states the refinement `KeepsPromise == Promise!Spec`.
  `UploadJobs` instantiates it as `Archive` and takes the steps of an ingest from there: a task is
  built on what `Ingestion` is shown to implement, not on the implementation again.
- `Listing <- Sections <- Chunks <- Pipeline`, with `PageQuality`.
- `{Excerpts, Listing} <- {Retriever, Evidence} <- Answering <- SignRules <- Api`, with `Places` and `Zoning`.

The proof modules follow the same lines: `DocumentTableProofs` is extended by `CorpusProofs`, `UploadProofs`
and `IngestionProofs`, and `ApiProofs` by `EvidenceProofs`; `ListProofs` serves `DocumentTableProofs`, `EvidenceProofs` and
`PipelineProofs`.

### Data

A **paper** (`Paper`) is what the detector can find on the first pages: municipality,
number in the text, number in the file's name, phrases that decide the type, dates,
and the numbers matched by the three reference patterns.  Regular expressions and
wording are abstracted to these facts; how they are combined is not: `Classify` keeps
the order of `_classify`, `ReferencedNumbers` merges the three patterns into one list,
`YearFor` drops everything of the adoption date but its year, and `Detect` lets the
text outrank the filename.  A number is a base and a printing style (`451`,
`451-2019`, `0451`), since `_referenced_numbers` compares as printed and
`_normalise_number` does not.  A date is a day number; a year has `YearLength` days,
and `NewYear` is the 1 January which `version_date` substitutes for a missing day.
Document ids are numbers, since `_order_by_version` compares uuids as strings; *which*
id a document draws is a free choice of the model.

Left out: titles, evidence texts, confidences, notes, review flags, sizes, timestamps
and `chunk_count`, because no modelled decision reads them.

For the pipeline, a **line** has the form its first words match, a number, what it reads as
(title, prose, term, furniture, ...), its font, and a size in tokens; sentences are lines and a
text is a sequence of lines, known by their position in the document.  For the API, a **chunk** (`Held`) is what
its row says: document, municipality, section, the numbers and words a verifier looks for, and the
limits each sentence states.  Distances, ranks and relevance are orders on chunks, given per query;
what the language model writes is any of a set of replies; what a city's service publishes
changes with the clock.

### `Corpus`

| Action | Code |
|---|---|
| `Store` | `_ingest_one` of a new content, committed |
| `Replace` | `_ingest_one` with `force`: delete and insert in one transaction; edges cascade |
| `ResolveLineage` | `resolve_lineage` from load to commit |
| `VerifyByHuman` | external: an operator sets `status` and `verified_by_human`.  The column (`db/models.py:298`) and its reader (`_write_statuses`) exist; nothing under `src/` writes it yet |

### `Ingestion`

State: the committed tables (`document`, `relation`, `collection`, `vectors`,
`municipality`), the ids drawn (`used`), and per worker its program counter `pc`, its
`job` (configuration, `force`, remaining paths), its open transaction `tx` and the
`facts` a pass has loaded.  One label of `pc` is one database statement, or the longest
run of statements between which no other session can be noticed:

| Label | Action | Code |
|---|---|---|
| `idle` | `Start` | `ingest_paths` is called |
| `ensure` | `EnsureCollection` | SELECT by name in `_ensure_collection` |
| `create` | `CreateCollection` | INSERT as `building` |
| `retire`, `promote` | `RetireOthers`, `Promote` | the two UPDATEs of `_activate`; committed at once for a new collection, left open for an existing one |
| `next` | `CheckExisting`, `DocumentFails` | pipeline result, SELECT by sha256, skip |
| `delete` | `DeleteExisting` | DELETE of a forced re-ingest |
| `municipality` | `ResolveMunicipality` | SELECT, and the decision to INSERT |
| `insert` | `WriteDocument` | INSERTs of municipality, document, sections, pages, tables and chunks |
| `embed` | `EmbedBatch`, `CommitDocument`, `DocumentFails` | `_embed_chunks` batch by batch, COMMIT |
| `refresh` | `RefreshCollectionCount` | UPDATE and COMMIT, also of what a skipped last path left open |
| `load` | `LoadCorpus` | `_load_facts` |
| `statuses` | `WriteStatus` | one UPDATE per document, in the order the SELECT returned |
| `sweep`, `edges` | `SweepEdges`, `WriteEdges` | DELETE and INSERTs of `_write_edges`, COMMIT |

The database is modelled from how the code uses it (PostgreSQL, READ COMMITTED).
What is written but not committed lives in `tx` and is invisible to others.  `Blocks`
says which transaction makes a statement wait: one that holds the row (`HoldsRow`,
`HoldsCollection`, `HoldsEdge`) or has an uncommitted key in a unique index
(`HoldsContent`, `HoldsSlug`).  A statement fixes the rows it looks at when it begins:
`tx.wants` for the retiring UPDATE and `tx.swept` for the DELETE of all edges are read
one step before the statement is granted its locks, so that a row committed while it
waits is missed, as in PostgreSQL.  A violated unique key or foreign key raises inside the session:
in `_ingest_one` the document fails and the run goes on (`FailDocument`), elsewhere the run
is abandoned (`Abandon`).  `DeadlockAbort` is PostgreSQL's deadlock detection; `Crash`
loses a worker's transaction and the rest of its run at any point.

### `UploadJobs`

State: the two tables, `source_path` of each document, the corpus directory (`disk`), the
`ingestion_job` rows, and where each request or task is (`task`).

| Action | Code |
|---|---|
| `StoreUpload`, `CreateJob`, `CreateJobFails` | `upload_document`: checks, file written, job committed or not |
| `MarkRunning`, `ReadFile`, `CommitDocument`, `WriteFails`, `ResolveLineage` | `process_upload`: `_mark`, then `ingest_paths` with `force` |
| `ApplyOperatorMetadata`, `Fail`, `FailNotRecorded` | the end of the task |
| `Restart` | the process stops: requests and tasks are gone, files and committed rows stay |
| `PendingUploads`, `DocumentState` | what the dashboard lists |

### `Pipeline`, `Sections`, `Chunks`, `PageQuality`

`Pipeline` has one action per stage of `DocumentPipeline.process` (`Extract`, `SkipOcr` or `Ocr`,
`ExtractTables`, `DetectMetadata`, `ParseSections`, `ChunkDocument`), `WriteRows` for what
`IngestionService` writes of the outcome, and `Fail` wherever a stage can raise.  `Parse` of `Sections` is the
parser: a fold over lines with the stack of open headings as its state, followed by the bodies.  `Chunk` of `Chunks` is
the chunker: packing with overlap, oversize units, tails, definitions, tables, parents, and the
merging of small chunks.  The loops of the code (`BuildHierarchy`, `SplitText`, `MergeUndersized`) are recursive functions of the
number of items taken, each of which applies one operator per item (`AddSection`, `TakeUnit`, `Keep`): the loop's body.

### The API

| Module | State | Actions and the code they stand for |
|---|---|---|
| `Retriever` | `status`, `active` (committed rows); `embedder`, `reranker`; per request `search` and whether its transaction is `aborted` | one per statement or model call of `retrieve()`: `ActiveCollection`, `EnsureEmbedder`, `EmbedderLocked`, `EmbedderLoaded`, `DenseSearch`, `SparseSearch`, `Rerank`, `RerankerLocked`, `RerankerLoaded` |
| `Answering` | per request `asked`, `phase`, `work`, `response`; `messages`, the committed traces | the outcomes of `RagService.answer`, the retries of `OllamaClient`, `Recorded` (the trace is inserted), `Closed` (`get_db` commits) |
| `SignRules` | the same | `DeskAsked`, `DeskRead`: the handlers of `phase3.py` as a list of searches on one retriever |
| `Zoning` | `gis` (configurations), `parcels` (cache rows), `now` | `ZoneParsed`, `ZoneConfigured`, `ZoneCached`, `ZoneAnswered`, `ZoneMalformed`, `ZoneStored`, `LookupFails`; `PutZoningConfig`, `Tick` |
| `Api` | all of it | `RequestStep(r)`, and what others commit meanwhile: `LineagePass`, `Activate`, `Administration` |

A statement that fails aborts its transaction, as in PostgreSQL: every later one of that request
fails too, and the final commit is a rollback.  That is how a swallowed
exception in one place (`retriever.py:313`) is felt in another.

## 3. Runs

| Run | Module, cfg | Result | Question |
|---|---|---|---|
| `lineage` | `MCCorpus`, `MCCorpus.cfg` | pass, 53,645 states | What do passes guarantee over any history of stores, re-ingests and corrections? |
| `lineage_repeal` | `MCCorpus`, `MCCorpusRepeal.cfg` | violation | Is rule 1 (repeals) kept? |
| `ingestion_concurrent` | `MCIngestion`, `MCIngestionConcurrent.cfg` | pass, 483,594 states up to renaming | What do transactions and constraints protect when two runs interleave? |
| `ingestion_serial` | `MCIngestion`, `MCIngestionSerial.cfg` | pass, about 170,000 states | Does one run at a time implement `Corpus`? |
| `ingestion_ends` | `MCIngestion`, `MCIngestionEnds.cfg` | pass, about 12,600 states | Does every run end? |
| `collection_swap` | `MCIngestion`, `MCIngestionSwap.cfg` | violation | Is the active collection complete? |
| `stale_pass` | `MCIngestion`, `MCIngestionStalePass.cfg` | violation | Is one version in force once two runs have ended? |
| `uploads` | `MCUploadJobs`, `MCUploadJobs.cfg` | pass, 20,794 states | What do the corpus and the job rows say after two uploads, failures and a restart? |
| `upload_metadata` | `MCUploadJobs`, `MCUploadJobsOperator.cfg` | violation | Do the operator's fields win? |
| `documents` | `MCPipeline`, `MCPipeline.cfg` | pass, 89,553 states | What of a PDF's text reaches the index, in which chunk and under which section? |
| `api` | `MCApi`, `MCApi.cfg` | pass, 120,960 states | What may an answer, a report and a zone be relied on for, and does every request end? |
| `ambiguous_address` | `MCApi`, `MCApiAmbiguous.cfg` | violation | Is a client asked which of two municipalities of one name is meant? |

### What the passing runs show

`lineage`.  *OneInForcePerBylaw*: after any history no two unverified documents of one
bylaw are both in force; the difficulty is that statuses are written at different
times, survive until the next pass, and ties are possible.  *LastAmendmentIsReal*: the
date beside a citation belongs to an amending document that is still stored, although
COALESCE keeps old dates.  *EdgesStayInMunicipality*, *VersionEdgesHaveOneHead*: the graph
does not cross municipalities, dangle, loop, or chain versions.
*SupersededIsExplained*: whatever is declared superseded has an edge saying by what.
*BylawStaysAnswerable*: a pass never leaves a dated bylaw without current text.
*AmendmentFoldedByYear*: an amending bylaw is superseded only by a version of itself or by a
consolidation that reaches the year it was adopted in (see section 5).
*NoResurrection*: a superseded text becomes current again only where a tie in date and
kind lets the random ids decide; this exception is real (a forced re-ingest redraws
the id) and is part of the statement.

`ingestion_concurrent`.  *AtMostOneActive* relies on the partial unique index: the
retiring UPDATE alone does not see uncommitted rows.  *DocumentsAreWhole* and
*ContentNeverLost* relate `document` to `vectors` across failures, crashes and
re-ingests.  *OneRowPerContent* is the unique sha256 against the SELECT that precedes
it.  *HumanVerdictKept*: only the operator changes a verified row, through the
`verified_by_human = false` of an UPDATE that may have waited for the operator's own.

`ingestion_serial` is the refinement: each commit is one step of `Corpus`, everything
else stutters.  It holds for one worker only: `stale_pass` is exactly what breaks it
with two.  `ingestion_ends` is liveness: nobody waits for ever.

`uploads`.  Two uploads of one title share a path, so one may overwrite the other's file
before the other's task has read it.  *LatestUploadIsIndexed*: once all uploads to a path
have been indexed, the file that is there is in the corpus.  *UnjudgedIsExplained*: a document stays
`unknown` only where its lineage pass has not come yet, was lost, or failed.
*DashboardIsHonest* relates the list of pending uploads to the tasks that exist.
*JobsEnd*: a queued job ends, or its task was lost, or the database refused even the
record of its failure - nothing else leaves it pending or running for ever.

`documents`.  *TreeIsWellFormed*: the tree a citation is read from.  Whatever follows a section lies in it,
with its clauses, until the next heading of its level or above; paths and ordinals agree with that.  How clauses stand to
each other is left open, as the code and its docstring differ there (section 5).
*ChunksKeepToTheirSection*: no chunk carries another section's citation, through packing,
overlap and merging.  *TextIsIndexed*: what was extracted below a heading is in a chunk, and
without headings all text is.  `LeftOut` names what the code leaves out on purpose: sparse tables, and what stands before the first of
several definitions.  It promises nothing of text before the first heading or of OCR text in a document with headings,
which the docs do (section 5).  *TableTextIsIndexedOnce*: a table's text is not in
the prose as well, unless its whole page lies in the table.  *StoredUnderItsSection*: lookups by path
and by ordinal find the rows they are meant to, where paths are distinct and the parent belongs to
the document's first section.  *OcrOnlyImproves*: a page is never replaced by a worse reading.

`api`.  *OneVersionPerSection*: although dense and sparse search see the corpus at
different moments, an answered question shows no section in two versions, and cites only what was in force when it
was read and is of a municipality that was asked about.  *RulesAreCited*: no rule and no high confidence without a
citation, and no citation but of an excerpt the answer was made from, in the status it was read with, whose first words stand in it.
*AnswersAreAudited*: what is stored is what was answered, with the excerpts and citations of the answer; an
error stores nothing; and there are never more answers without a row than statements and calls that failed.  *PassMeansEveryRuleRead*: a sign complies only where each
dimension proposed, if it has a rule location, was measured against text of its own municipality that is no OCR.  *EvidenceIsItsOwn*:
comparisons and checklists never show one municipality's limit as another's, and a row called comparable compares limits in one
unit, all flat or all by frontage.
*ZonesAreDated*: every zone shown, fresh or stale, was listed for the address, in some spelling of it, by the municipality the
client asked about, at some moment up to its date, first in its list, and alone if the city is not asked through Opendatasoft; it is called resolved exactly until it
expires.  Two lookups in different spellings race for one cache row, and two cities have the same address.  *LoadedOnce*: one load of a model at a
time, and none once it is there.  *RequestsEnd*: locks are let go, retries run out, and no
handler repeats a search in a transaction that cannot succeed.

### Bounds, and why they are enough

- `MCCorpus`: eleven papers, three ids, two municipalities, two bylaws, years of two
  days.  The papers differ in everything a rule looks at: dated or not, consolidation or
  not, equal dates, number styles, number only in the file's name, another
  municipality, no municipality, amending before and after the consolidation, amending
  without a date, repealing, a schedule.  Every rule relates at most two documents, and a third
  gives ties, chains and an onlooker.  A year of two days is the shortest in which a day is not 1 January.
- `MCIngestion`: two versions of one bylaw, so that forced re-ingests, lock waits and verdicts
  interact; two workers, since every conflict is between two transactions; two
  collections where activation is the question.  `planned` lets the paths ever
  requested be no more than the ids, which keeps runs finite; with three ids two runs can
  fight over one document and a third can follow.  `Batches` is 2 where a
  half-embedded document matters for the refinement, else 1: with 1 the transaction is
  still open between `insert` and COMMIT.
- The concurrent run uses symmetry of workers and of collections: neither is ordered
  or compared by the module, and the properties are safety.  Its constraint `DrawnInOrder` is a
  symmetry as well, stated by hand because ids are numbers: `Older` compares ids only between
  documents of one date, the two versions differ in theirs, and `OneRowPerContent` keeps
  a content from being stored twice, so every behaviour is a renaming of one that draws 1, 2, 3 in
  order.  Without symmetry and constraint the run has 6.8 million states and the same results.
- `MCUploadJobs`: two jobs, two contents, one path, three ids, one restart
  (`MaxRestarts`).  A third job would add nothing to an overwrite, and a task that was
  lost never runs again, so one restart meets every task at every stage.
- `MCPipeline`: every page of up to three lines out of ten kinds for the parser, out of
  five for the chunker (token limits 5 target, 8 maximum, 2 overlap, 3 minimum, so that
  three lines fill, overflow and leave a tail), and pairs of pages of every text quality and kind of table.
- `MCApi`: what a search or a report makes of its rows is bound once in its action (`\E x \in {...}`),
  and so is what a statement selects, since TLC evaluates the actions again to check fairness: that
  keeps the liveness check within minutes.  `Traffic` lists the requests in flight - alone, or in pairs where they share
  something (two questions: models and rows; two lookups: a cache row).  `MaxFaults` is
  1: one failing statement or call at any point, whose consequences are followed to the end.
  `MaxRetries` is 1, the clock has three values with a TTL of 1, and `Verdicts` are the three states a
  replacement of Surrey's bylaw goes through.  Surrey's area limit is by frontage in its old bylaw and flat in its new one, Delta's is flat, and their heights
  are in metres and in feet, so that a comparison has rows that are comparable and rows that fail on form, on unit and for want of a limit.
  Surrey and Vancouver are both indexed and have the same address, in two spellings of which one matches two parcels;
  Surrey's zone changes with the clock, and Vancouver is asked through Opendatasoft, with and without a field for addresses.
  The replies cite well, misquote, cite nothing, give a number that is nowhere and a year with a decimal point.
  Others commit only while a request that reads
  their rows is in flight, and activate a collection only while one has yet to resolve its own: a retriever
  caches it, so that a later activation would change nothing any step reads.  `DenseTopK` 2 and `SparseTopK` 1 let the two searches overlap, differ, and be
  cut off.
- Deadlock checking is on for `MCCorpus`.  It is off for `MCIngestion`, where all workers
  may be idle with no id left, and for the instances whose work is finite: when all jobs
  and requests have ended, or the document is written, nothing is left to do.

### Fairness

- `Ingestion!FairSpec`: weak fairness of `Step(w)` for each worker.  A step that stays
  enabled is one the event loop will schedule, or one whose lock has been released, for
  which PostgreSQL wakes the waiter; a cycle of waiters enables `DeadlockAbort`, which is
  part of `Step`, as the server breaks deadlocks by itself.  Nothing is assumed of
  `Start`, `Crash` and the operator.
- `UploadJobs!FairSpec`: weak fairness of `TaskStep(j)`: the event loop runs a background
  task that can go on.  Nothing is assumed of requests, of a restart, or of the
  database refusing the last UPDATE.
- `Api!Spec`: weak fairness of `RequestStep(r)`: a handler that can go on is run, and models, database
  and network answer or time out.  Nothing is assumed of what other processes do.

## 4. Proofs

All theorems hold for every value of the constants that satisfies the named
assumptions of the modules, which TLC evaluates on every run:

- corpus: `DocId` is a finite set of naturals, `Printed` maps files to papers, a year has at least one
  day, at least one batch per document, and the markers `Undetected` and `Absent` are distinct from the values they
  stand beside (`Absent` is no row, id, collection or job: `NoJobAssumption`);
- pipeline: documents are sequences of printed pages (`DocumentAssumption`), counts of characters have their ranges
  (`OcrAssumption`, `MinCharsAssumption`, `OcrThresholdAssumption`), and the chunk sizes are ordered as
  `ChunkingConfig.__post_init__` demands (`ChunkingConfig`);
- API: chunks are rows of the shape `RetrievedChunk` (`HeldAssumption`); the orders of a query list chunks once, limits are
  positive, and collections are not named like the markers `unread` and `none` (`RetrievalAssumption`); margins are shares of 1000 and replies have the
  shape of a reply (`AnsweringAssumption`); rule locations and topics are finite lists, and a check and a checklist
  ask for at least one hit (`RulesAssumption`); a city publishes a list of zones for every moment (`ZoningAssumption`); a
  request in flight is one a client can send (`IsInput`, `ApiAssumption`).  None is about the number of requests.

**Induction.**  The library's induction theorems take an operator as a parameter, which the provers
cannot instantiate.  `ListProofs` gets around it: a set of naturals that is not empty has a least member
(`LeastMember`, from `NatLessThanWellFounded` and `WFMin`, which have none), so a *set* of naturals that holds every number
all of whose predecessors it holds is all of them (`Induction`).  A statement about lists is proved by taking for
that set the lengths for which it holds.  From it follow what `InOrder` (sorting), `Subsequence` (filtering) and `FlattenSeq`
return for lists of any length (`InOrderLists`, `SubsequenceOf`, `FlattenedHolds`, `FlattenKeepsOrder`),
the bounds on folds over sets (`SumIsBounded`, `ProductIsPositive`), what `Sum` adds up to, and `RecursionStays`: a recursive
function of the length of a list stays in a family of sets if each of its steps does, the form in which every
loop of the parser and the chunker is reasoned about.  `MaximalExists`: a finite nonempty set has a maximal element under a
strict order.

### The corpus

`DocumentTableProofs`
- `OlderIsTotal`, `OlderIsTransitive`, `OlderIsIrreflexive`: the sort key of
  `_order_by_version` is a strict total order on documents with distinct ids.
- **`OneNewestVersion`**: every placed document of a finite corpus has exactly one
  version that nothing is newer than.
- `OneVerdictInForce`, `PassLeavesOneInForce`: two versions of one bylaw are not both judged in force by one pass;
  `PassEdges`: what the edges of a pass join; `YearOfALaterDay`: dates and years agree.

`CorpusProofs`
- **`TypeCorrect`**, `TypeOK` is inductive.
- **`NeverTwoInForce`**.  `OneInForcePerBylaw` is inductive together with `TypeOK`: a
  stored or replacing row starts as `unknown`; a pass writes all unverified rows from one set of
  facts, so `OneVerdictInForce` applies; a correction makes its row verified.
- **`EdgesStay`**, **`VersionEdgesEnd`**: a pass rebuilds all edges from one set of facts,
  and a re-ingest removes the edges of the row it replaces, while no other row changes
  its file.
- **`BylawKeepsAText`**: an action property, which rests on
  `OneNewestVersion`: the newest version of a bylaw with a dated version is dated.
- **`AmendmentsFoldByYear`** and **`SupersededStaysSo`** rest on the invariant `SupersededForAReason`: every
  document superseded by a pass has a document in the corpus that outdates it or absorbs it.  A re-ingest brings that
  document back under a new id, which the resolver's reasons ignore (`ReasonsIgnoreIds`) except between ties;
  so the next pass finds the same reason, and a text comes back only where only ids decide.
- **`ShownDatesAreReal`**: the amending document a date was taken from leaves the corpus only to come back
  with the same content, so COALESCE never shows a date of nothing.
- **`VerdictsAreExplained`**: verdicts and edges are computed by different code from the same facts; each reason for
  one is a reason for the other.

`IngestionProofs`, for any number of workers.  The inductive invariant `IInv` says

- what a transaction can hold at each label (`TransactionFollowsPc`), for instance that a new id has been drawn only
  while it is being embedded, and that a victim is deleted before anything is inserted;
- whose it is: ids are drawn once (`IdsAreFresh`), a row is written by one transaction at a time and a row a pass has
  updated stays stored and unverified until it ends (`RowsAreLocked`), what is about to be inserted is stored nowhere and
  inserted by nobody else (`ContentsAreUnique`), and a transaction that has activated its collection holds every other active
  one (`ActivationIsExclusive`).  These are what unique indexes and row locks give the code; without
  them none of the properties below is inductive.

From it: **`RunsKeepTypes`**, **`OneCollectionServes`**, **`CommitsAreWhole`**, **`ContentIsStoredOnce`**, and the action properties
**`PassesSpareVerified`** and **`ReingestLosesNothing`**.  There is one lemma per conjunct of `IInv`, and under it one case per
action; `StepAcquires` and `TablesMove` say once what a step may lock and write.

What these runs keep of the promise of `Corpus`:

- **`OnlyPassesBreakThePromise`**: for any number of runs every step is a step of `Corpus`, or leaves its tables alone, unless
  it commits a lineage pass.  So `stale_pass` is the only way in which the service departs from `Corpus`.
- **`OneRunKeepsThePromise`**: under `Alone` (one worker) `Spec => KeepsPromise`.  `PassIsCurrent` says what nobody else can
  disturb then: the facts a pass has loaded are those of the corpus, it visits every row it may update, and the edges it deletes
  are all there are.  Corrections by the operator may come in between; they take a row out of what is left, and the commit is one
  `ResolveLineage` of `Corpus` (`PassCommitsAtomically`).
- **`OneRunLeavesOneInForce`**: with one run at a time, what `stale_pass` disproves of two is true.

`UploadProofs`
- **`DashboardStaysHonest`**.  `DashboardIsHonest` says nothing of a job while its task is at
  work, so it is not inductive.  `RowsFollowTasks` is: it gives for every stage of a
  task the statuses and reasons its row may have (`RowFollowsTask`).
- **`UploadsKeepTypes`**: `Types` adds `FilesAreThere`, that a task which writes has read a file.
- **`LatestUploadWins`**.  `LatestIsOnTheWay`: whoever wrote a file last has yet to read it, or has read it as it is, or it
  is in the corpus.  An overwritten upload does not matter, as its successor is on the way.
- **`UnjudgedStaysAccountedFor`**: no upload verifies a row (`NothingVerified`), so a pass judges every dated document;
  who stored a document after that pass accounts for it.

### The API

`ApiProofs`
- **`ModelsAreLoadedOnce`**.  The invariant `LocksHold` says that at most one request is
  loading a model and that it is not there meanwhile.  A step of a search either leaves the set of loaders alone
  (`SearchMoves`), takes the lock, or ends the load; handlers of all kinds only begin, end or keep a
  search (`HandlerMoves`), which puts nobody under a lock.
- **`AnswersAreAlwaysAudited`**.  The invariant `AuditHolds` follows an answer from the
  moment it is made: before the end of a request nothing is stored or returned; what is held
  while the trace is written is an answer; and the requests that are `Hurt` - whose transaction is aborted, whose trace was not
  recorded or whose answer ended without one - are no more than the faults so far.  It needs every
  step of every request to be `Orderly`: a step that spends no fault hurts nobody, and one that does hurts its own request only.
- **`ZonesAreAlwaysDated`**.  `ZonesHold`: every cache row is `Attested` for its own key, that is, the municipality of the key listed
  the row's zone for a spelling of the key's address up to the row's date, and expires a TTL after it; and what a
  lookup holds, a row or a zone, is attested for the municipality and address its client named (`Subject`).  `GisHolds`: a
  configuration is one of `GisConfigs`, which is what bounds the providers a zone may have come through.  `TimeGoesOn`: none of it is undone by
  the clock.  `RequestStepIsOwn` says once that a step of one request changes no entry of another.

`EvidenceProofs`.  The inductive invariant `RequestsHold` describes each request by its kind and stage:

- a search (`SearchHolds`): from the collection to the hits, each list of rows holds a chunk once and only chunks that
  passed the filters when read (`Listed`).  Fusion and reranking keep it, which needs `InOrderLists`;
- a question (`AskHolds`): its search has the filters of its plan, and what is held for the trace or returned satisfies
  `ResultHolds`: one version per section, since `DetectConflicts` is empty (`NoConflictLeavesOneVersion`), citations in force, and
  what `ShouldAbstain` has let through is grounded: a rule has a valid claim, and a valid claim is a citation of a hit
  that begins with words of it (`SynthesisIsGrounded`, `CitationsAreGrounded`, `QuotesBegin`: both ways in which a quote is accepted
  find its first six words);
- a report (`DeskHolds`): entries made so far belong to the tasks done, in order, each with evidence of its own municipality (`DoneHolds`);
  what they add up to is `ReportHolds` (`PassesHold`, `RowsHold`).

From it: **`AnswersKeepToOneVersion`**, **`RulesAreAlwaysCited`**, **`PassesMeanEveryRuleRead`**, **`EvidenceIsAlwaysItsOwn`**, and with
`TypesHold` for the counters **`RequestsKeepTypes`**.  *RulesAreCited* needs arithmetic: with nothing cited the weights of
`ConfidenceScorer` leave at most 500 of 1000, below the high band, for any hits and margin (`ConfidenceHolds`, and a bound for
each factor).

The invariants named here hold on the instances of section 3, where TLC checks them when the cfg lists them: `IInv` on
`ingestion_concurrent`, with `PassIsCurrent` on `ingestion_serial`, `SupersededForAReason` on `lineage`, `Types`, `LatestIsOnTheWay` and
`NothingVerified` on `uploads`, `PipelineInv` on `documents`, and the others on `api`.

### The pipeline

`PipelineProofs` shows what the algorithms return for every input, and then that the stages feed them such inputs.

- **The parser.**  `Built` is the invariant of the stack loop: the sections made so far are numbered apart under each parent,
  and every open heading is on the stack with the level of its section (`SectionAdded`, `HierarchyBuilt`).  Popping
  leaves a prefix of the stack whose last level is lower (`PoppedHolds`); the ordinal of a section is the number of its siblings
  so far, which only grows (`SiblingsGrow`).  `Parsed` says what comes out: the tree, and that the body of a section is the lines
  up to the next heading (`BodiesAttached`, `LineHasSection`), found again by the offset of its heading, as offsets ascend.
- **The chunker.**  `Sliced` is the invariant of packing: chunks and buffer together hold every line taken so far, each
  chunk a bounded part of the text (`UnitTaken`, with `OverlapHolds` and `HardSplitHolds`).  `Kept` is that of merging: each chunk is made of
  given ones of one section and type, nothing is dropped, and the weight of a chunk, its tokens with the headings it repeats, is bounded
  (`ChunkKept`).  `Chunked` is the result, whatever the sections and tables (`ChunkHolds`).
- **The stages.**  `PipelineInv` says for each stage what is there: a page is as extracted, or cut by its table, or from OCR
  (`PageHolds`); a table holds the lines of its box (`TableHolds`); the sections are `Parsed` from the lines of the pages and the chunks are
  `Chunked` from them.  It needs that offsets are distinct across pages and ascend in the order of the text: they are prefix sums of
  sizes (`StartsAscend`, `StartsDiffer`), so the joined lines of the pages are in order (`AllLinesHold`), before and after tables have been
  removed.  Without it neither the bodies nor *TableTextIsIndexedOnce* follow, as lines are told apart by their offsets.
  `NextKeeps` has one lemma per action.

From it: **`PipelineIsTypeCorrect`**, **`SectionTreesAreWellFormed`**, **`ChunksNeverCrossSections`**, **`ExtractedTextIsIndexed`**,
**`TablesAreIndexedOnce`**, **`RowsReferToTheirSection`**, and the action property **`OcrNeverDegradesAPage`**
(`ConfidenceGrows`).  *ExtractedTextIsIndexed* follows a line from its page to its section (the last one that starts at or before it) and from there to
a chunk; it is not there only if it went with a sparse table or stands before the first of several terms (`LeftOut`).

**`ScoreFollowsReasons`** is about the quality gate alone: a page passes it exactly if no reason was found against it, and every
threshold from 40 to 66 percent decides like that; below 40 or above 66 the score would let pages with a reason pass, or
queue pages without one.

### Model-checked only

- Liveness: `RequestsEnd`, `JobsEnd` and `RunsEnd`.  The prover handles neither fairness nor ENABLED.
- `KeepsPromise` for several workers is false (`stale_pass`); the properties of the runs that expect a violation are refuted.

## 5. Where code and documentation disagree

Shown by runs:

- **Repeals** (`lineage_repeal`).  Rule 1 can never apply: `_load_facts` does not fill
  `repeals_bylaw_numbers`, and repealed numbers are stored as amended ones.
- **Collections** (`collection_swap`).  A collection is activated before it is filled,
  where `CollectionStatus` promises that it is never queried while being populated.
- **Overlapping passes** (`stale_pass`).  A pass that loaded the corpus before another
  run committed can publish its verdicts last.  It takes two runs at once, such as two
  uploads, and is repaired by the next ingest.
- **Operator metadata** (`upload_metadata`).  `_apply_operator_metadata` writes
  `metadata_source = 'manual'` (`upload_service.py:181`), which the enum of
  `db/enums.py:72-78` does not have; the job fails after its document was committed, and the operator's
  fields are lost.
- **Shared names** (`ambiguous_address`).  "North Vancouver" contains "Vancouver", which
  `find_in_text` finds first (`address.py:87`); the address is looked up in the wrong city
  instead of being asked about.

Met while modelling; the modules follow the code, and the properties are stated so that they hold of it:

- Rule 4 (`amendments.py:21-23`) compares an amendment with a consolidation "dated after
  it"; only the year of adoption survives detection, so an amendment counts as of 1 January and an older
  consolidation of the same year absorbs it.  *AmendmentFoldedByYear* states what holds.
- Documents.  A one-line clause whose text is its heading has no body and is indexed nowhere unless a chunk repeats
  the heading; front matter before the first heading is not chunked once there is a heading, though
  `domain/models.py:262` speaks of penalising it; OCR text has no lines, so it is lost in a document where any page
  has a heading, although the upload's description (`api/v1/admin.py:55-57`) says pages without a text layer are read
  by OCR and indexed; a clause is put one level below the heading before it, also when that is a clause, so that (b)
  after (a) becomes a part of (a), where `section_parser.py:344` says relative to the enclosing section and line 359
  gives the path `Part 5 > 5.3 > (b)`; what a list of definitions says before its first term is dropped
  (`chunking.py:183-214`); a child's `parent_ordinal` is 0 and is not mapped, so only the first section's children
  find their parent; sparse tables are taken out of the prose and not indexed; a table that is all of its page is
  indexed twice (against `tables.py:206`); a chunk may reach twice the maximum, as the last unit before it is repeated
  whole whatever its size (`chunking.py:336-341`), and exceed it by the headings a merge adds (the test at
  `src/backend/tests/unit/test_chunking.py:148`, "no chunk exceeds the maximum", allows 1.2 times;
  `chunking.py:260-261` speaks of the model's context window).  No run states a bound.
- Numbers in answers.  `verifier.py:15-17` wants every number in some cited excerpt.  The code accepts 5 where 15
  stands, looks for nothing when nothing is cited (line 275), and skips years and large whole numbers, written
  `2000.0` as well.  What is left is the test itself, so no property is stated of it.
- Answers.  A quote of eight words or more is accepted when its first two thirds occur, where `ask.py:36-43` says
  verbatim; a failing sparse search aborts the transaction, so the answer it still gives has no audit row (against
  `deps.py:115-116`); the trace of `generation_unavailable` has no citations while the response lists up to five
  (`rag_service.py:483-517`, `trace_store.py:70`); a failing embedding or vector search is reported as
  `no_relevant_bylaw`; a search is reported as reranked also when the reranker was unavailable
  (`retriever.py:169-171`); the trace of `index_not_ready` is rolled back with the 503; a body that is no JSON from
  the model's server is a 500.
- Reports and zones.  A limit read in feet or square feet is compared with the proposal in metres
  (`compliance/engine.py:136`, `rules.py:39-40`); a provider's body that is JSON but no object is a 500
  (`arcgis.py:87`, `opendatasoft.py:102`), where `zoning/base.py:148` counts a malformed response among the failures
  that must not raise; Opendatasoft asks for one row and takes it, against "the nearest match, the first result, or a default zone" that a provider does not return
  (`base.py:12-13`); a dimension without a rule location is passed over in a report that says *complies*; ``%\b``
  never matches, so percentages are not read; the largest setback is described as permitting more; `is_confident` of a
  zone is never consulted; a configuration no longer verified keeps serving cached rows; a lookup that started earlier
  can overwrite a newer cache row.

## 6. Not modelled

Regular expressions, fonts, what a PDF library or OCR reads from bytes, model inference,
prompts and wording, and HTTP formats are libraries or string processing without
state: their results are inputs.  In `Ingestion` documents without chunks are
left out (`Batches >= 1`): they have no vectors to compare.  A municipality without a
catalogue entry gets no row in the code; detection only returns catalogue slugs, so the
model has none.  The province row is inserted with ON CONFLICT DO NOTHING and decides
nothing.

The health service runs independent probes and keeps nothing; nothing depends on its result.
Configuration, logging, request ids, security headers and admin keys are plumbing.  The evaluation and validation
harnesses and the command line call what is modelled and print it.  The web frontend renders the API's
answers.  Resuming a document at its last stage (`resume_stage_for`) exists in the pipeline, but no caller under
`src/` uses it.

## 7. Plan

1. *(done)* Corpus: `Metadata`, `Lineage`, `DocumentTable`, `Corpus`, `Ingestion`.
2. *(done)* `UploadJobs`; `Pipeline` with its algorithms; the API from `Retriever` to `Api`.
3. *(done)* Every safety property the runs check of `Corpus`, `Ingestion`, `UploadJobs` and `Api`, and the refinement.
4. *(done)* Every property of `Pipeline`, and the quality gate.

What is left would be new models rather than proofs: the wording of edges and explanations, and the forced re-ingest
of a row that a human has verified, once it is decided what the code should promise there.

## 8. Running it

`tlc -config MCCorpus.cfg MCCorpus` checks a run and `tlapm CorpusProofs.tla` a proof module;
`PROJECT.json` lists the runs with their properties, for each property a change of
the model under which it fails (the mutants beside the definitions they change), the
source lines each definition stands for, and the hazards of the code with the
properties that cover them.
