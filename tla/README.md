# SmartReco in TLA+

A verification project for the SmartReco recommendation agent (`src/`): TLA+
modules translated from its code, TLC configurations that check them on small
instances, and TLAPS proofs of what matters most for every instance. All paths
below are relative to `src/`.

SmartReco is one asyncio process (FastAPI with a background scheduler) over one
SQL database and one vector store. The browser reports what a user does; a
cheap gate decides whether that activity is worth an agent run; the run reads
the activity, asks a language model what the user is interested in, searches
the catalog, ranks and explains a few courses, and stores them as the user's
one current recommendation. Nothing but the process's memory keeps two runs of
one user apart, every `await` is a place where something else may happen, and
the catalog lives in two stores that no transaction spans.

## 1. Inventory

| Component | State | Operations | Where |
|---|---|---|---|
| Browser event tracker | queue of the page, access token in `localStorage` | queue an event; flush on the timer, at once, on leaving; put a failed batch back | `app/static/js/tracker.js` |
| Event ingestion | rows of `events` | commit the batch, ask the gate, leave a background task | `app/routers/events.py` |
| Trigger gate | count cursor and `updated_at` of the cognitive model | count, load or create the model, fetch the new rows, score, freshness, cooldown | `app/services/trigger_service.py` |
| Agent runner | `_in_flight`, a set in memory | claim, run, release | `app/agent/runner.py` |
| `model_user` | `user_cognitive_models` | read events, count, call the model, store profile and cursor | `app/agent/nodes/model_user.py` |
| Retrieval | the run's state | query, join with SQL, exclude, assess, retry with a wider filter | `app/agent/nodes/retrieve.py`, `graph.py` |
| Engagement exclusion | none (reads events and recommendations) | one query per attempt | `app/services/engagement_filter.py` |
| Evaluate, filter, generate, reflect | the run's state | score, floor, cap, explain, ground, top up | `app/agent/nodes/` |
| Store and feed | rows of `recommendations` | deactivate and insert; read the current one and the history; feedback | `app/agent/nodes/store.py`, `app/routers/recommendations.py` |
| Daily digest | none of its own | for every active user: three reads, perhaps a run | `app/services/scheduler.py` |
| Catalog, dual write | rows of `products`, entries of the vector store | create, update, delete, query | `app/routers/products.py`, `app/services/vector_store*.py` |
| Startup and seeder | none of its own | insert missing courses, embed missing vectors, commit | `app/services/seeder.py`, `app/main.py` |
| LLM gateway | rows of `llm_call_logs` | up to three attempts, fallback without JSON mode, log | `app/services/llm_client.py` |
| Cart, wishlist, "for you" page | `localStorage` | render from overlapping fetches, check out, feedback, poll | `app/static/js/cart.js`, `wishlist.js`, templates |
| Accounts and tokens | rows of `users` | register, sign in, reset | `app/routers/auth.py`, `app/security.py` |
| Catalog deduplication | both stores, backups | re-point references, remove duplicates | `scripts/dedupe_catalog.py` |
| Admin statistics and console | none of their own (reads the call log and the recommendations) | cut the log into runs, match recommendations, count | `app/services/admin_stats.py`, `app/routers/console.py` |
| Pages, configuration | none of their own | read and render | `app/routers/pages.py`, `app/config.py` |

How they interact, along the path of an event:

1. The tracker POSTs a batch. `ingest_events` commits the rows, then awaits
   `should_trigger`, then commits again and answers. A request that fails after
   the first commit is answered with 500, and the tracker sends the batch again.
2. An open gate leaves a background task in the same process. It and the digest
   meet at `_in_flight`, which is only safe because its test and its `add` have
   no `await` between them.
3. A run moves the cursor (`model_user`) before it searches, and writes the
   recommendation (`store`) at its end. The gate of the next request reads the
   cursor, `updated_at` and the recommendation's age.
4. Retrieval joins vector hits with SQL rows, so it sees whatever state an
   admin's half-finished dual write or a crashed boot left behind.

What is hard here, and which properties answer it (each is at its line in
`PROJECT.json`, "hazards"):

- *Interleaving and staleness of one user's coroutines*: two requests and the
  digest between any two statements; a total counted before a language-model
  call and written after it; a read of the active rows in one statement and
  their deactivation in another. `SlotsExact`, `AtMostOneActive`,
  `CursorMonotone`, `CursorWithinEvents`, `SeenNotCountedAgain`, `ImplementsFeed`.
- *Order*: rows become visible out of `created_at` order, and the slice that the
  gate fetches is not what it is meant to be: see "Divergences without a run".
  What holds of the number alone is `SeenNotCountedAgain`.
- *Liveness and deadlock*: the slot after a failure, the flush that waits for
  another transaction's model, the digest's loop, a gateway that keeps failing.
  `SlotsExact`, `NoCircularWait`, `CallersSettle`.
- *Numbers that must fit each other*: weights, thresholds, caps, floors and
  bonuses. `BuyingIntentOpens`, `RepeatBonusNeverDecides`,
  `CategoryAloneNotEnough`.
- *A protocol over attempts*: routing and filter ladder share one counter.
  `LastResortUnfiltered`, `RetryBroadens`, `RunEnds`.
- *Two stores*: overlapping requests, refused writes, crashes, boots.
  `EntriesUnderOwnId`, `UndisturbedAgree`, `EmbeddingReused`, `SeedCompletes`,
  `DriftVisible`, `BootNeverRefused`.
- *Delivery*: lost answers, late requests, repeated batches, lost tokens.
  `NothingLost`, `StoredTwiceOnlyAfterFailure`, `OrderKept`, `Delivered`.
- *Retries inside retries*: attempts, a fallback in each, and the OpenAI client's
  own below them. `AttemptBudget`, `CallersSettle`.
- *Reading back what others wrote*: log rows of several runs between one another,
  some missing, and recommendations read later. `RunNotSplit`, `OwnRowsTogether`,
  `MatchNotGuessed`, `MatchedOnce`.
- *A migration beside the running application*: a plan older than the data it is
  applied to, two snapshots, a crash anywhere. `ReferencesFollow`, `CoursesKept`,
  `VectorsKept`.

## 2. Modules

```
TriggerGate          the gate's arithmetic, operators only
  TriggerWindow      one user's growing window of new events     <- MCTriggerWindow
    TriggerProofs
  AgentRuns          ingest, gate, runner, model_user, store, digest  <- MCAgentRuns
    AgentRunsProofs
RecommendationFeed   abstract: what a reader of the table is promised
                     (AgentRuns implements it)
Ranking              filters, scores and cuts of the pipeline, operators only
  Retrieval          one run's pipeline against a changing world <- MCRetrieval
    RetrievalProofs
Catalog              both stores, admin requests, seeder         <- MCCatalog
  CatalogProofs
Tracker              page and ingestion endpoint                 <- MCTracker
  TrackerProofs
LLMGateway           model calls of runs and syncs, the call log
  Console            the admin's clustering and matching of it   <- MCConsole
    ConsoleProofs
Dedupe               the migration script beside the application <- MCDedupe
  DedupeProofs
LeastElement         least numbers and smallest subsets: induction over
                     data for TriggerProofs, RetrievalProofs, ConsoleProofs
```

Mutated definitions ("Mutant: ..." in a comment) stand next to the ones they
mutate. They are used by no specification; replacing the definition by its
mutant makes the property `PROJECT.json` names fail, which shows that the
property depends on that code.

### TriggerGate and TriggerWindow

`TriggerGate` has the decision of `trigger_service.py` as operators over a set
of rows: `ScoreEvent`, `ScoreEventBatch`, `EnoughActivity`, `NewestRows` (the
`ORDER BY ... LIMIT` of `_fetch_new_events`), `FreshRecommendationBlocks`,
`Opens`. Scores are counted in eightieths of a point: one second of
`time_spent` is worth 1/60 * 0.75 = 1/80 point, and every other weight is a
multiple of it, so the model's arithmetic is exact. The code adds floats, whose
last bit at the threshold of exactly 3.0 points is not modelled; neither is the
`round` to three places of `evaluate.py`, since similarities are hundredths here.

`TriggerWindow` lets one user's window of unprocessed rows grow, in any
commit order, while the cooldown and the TTL run out. `WhatAssumption` says that
no `time_spent` is negative. The page computes it from two readings of the
clock, and the endpoint does not look at it: if the clock is set back during the
visit, a negative score is added and can cancel that of a cart.

### AgentRuns and RecommendationFeed

Actors are request slots and the digest. Each action is one database statement
or one stretch of code without an `await`; the locals a coroutine holds over
its next await (`rows`, `count`, `cool`, `olds`) are variables indexed by actor.

| Action | Code |
|---|---|
| `IngestInsert`, `IngestCommit` | `ingest_events`: rows get their `created_at`, then the first commit |
| `GateCount`, `GateModel`, `GateModelMissing`, `GateCreate`, `GateFetch`, `GateDecide` | `should_trigger`, statement by statement; `GateDecide` is also the second commit and the background task |
| `Claim`, `Release`, `RunFails` | `run_agent_for_user` with its `except` and `finally` |
| `ReadModel`, `ReadEvents`, `ReadCount`, `Infer` | `model_user_node` |
| `RecommendNothing`, `StoreRead`, `StoreCommit` | `retrieve` to `store`; what they choose is `Retrieval`'s subject |
| `DigestStart` ... `DigestAborts` | `run_daily_digest` and `_should_digest_user`, whose first part is outside the `try` |
| `Crash` | the process dies: coroutines, `_in_flight` and uncommitted rows are gone, committed ones stay |

`created_at` is a global stamp. The two ages the gate measures are timers that
start when a row is written and may run out at any later moment, in any order:
every relation of the code's 60 seconds and TTL hours to the speed of the rest
is covered. An INSERT of a cognitive model waits while another transaction
holds an uncommitted one for the same user (the unique index).

`RecommendationFeed` is the abstract specification: a user has at most one
current recommendation; the only step puts a younger one in its place and moves
the old one to the past; nothing is forgotten. `AgentRuns!Feed` maps it to the
recommendations table; `ImplementsFeed` is checked by TLC and proved.

### Ranking and Retrieval

`Ranking` holds the deterministic parts: which categories a user's views name
(`RecentCategories`), the filter of each attempt (`MetadataFilter`), the
quality test, scores, floor and cap, and what is made of the model's answer
(`Enriched`). `Retrieval` runs them, one action per query or node, while the
user views, buys and the admin deletes. Similarities are arbitrary functions
from a set, distinct per query; the language model's answer is any set of ids,
invented ones included. `Liked`, `Profile` and `hits` are what is left of the
profile. `before` is a history variable: what was engaged or recommended when
the run began.

Simplifications: the code takes the views among the newest 50 events, the model
all views; ties between similarities do not occur, so that a limit of k returns
at most k; a deletion is as on SQLite, where no foreign key stands in its way
(`Catalog` has the other case). Ids that the answer names but are not
shortlisted are dropped, as in the code.

### Catalog

Two admin requests at a time run `create_product`, `update_product` and
`delete_product` statement by statement; the seeder runs at each boot, before
the first request. The vector store commits at once, the products table at the
end of a transaction; transactions are PostgreSQL's (the INSERT of a title
waits for an uncommitted one, `ForeignKeys` says whether events keep their
product from being deleted). A failed embedding or upsert becomes the row's
status (`Sync`), a refused write a 500 (`WriteFails`), and a `Crash` loses what
was not committed. A call to the vector store that raises may have taken effect
or not. What a column refuses (`update_product` takes an explicit null or a title
that is too long) is not told apart: any update's commit may be refused. A vector store that fails in `product_exists` ends the boot;
that is the same as a `Crash` while booting. `disturbed` is a history variable:
the vector ids for which a write failed, was interrupted or overlapped another.

### Tracker

One page: events are numbered in the order they happen, wait in `queue`, leave
in `requests` and reach `stored`. A request can be refused (401, or the database
refuses the batch), its connection can break before or after the commit, and a
request the page has given up can still arrive later (`Drift`, `Arrive`).
`Poison` events are those the database refuses whatever happens, such as one
for a product that was deleted. Not distinguished: different accounts in
different tabs. The widget that shows the signals keeps no state and is left out.

### LLMGateway and Console

`LLMGateway` has one process per run: an agent's run asks for a chat, an
embedding and a chat (the second only when there are candidates) and stores a
recommendation, a catalog sync asks for one embedding. `sent` counts how often
the current call has gone over the wire.

| Action | Code |
|---|---|
| `ChatSucceeds`, `EmbeddingSucceeds` | an answer: the row is logged, the caller goes on (`Leave`) |
| `ClientResends` | `AsyncOpenAI` retries by itself (`llm_client.py:22` leaves its `max_retries` at 2), also on 429, and nothing is logged |
| `FallBack` | `_EmptyChoicesError` in JSON mode: the second request of the attempt |
| `Retry`, `GiveUp` | tenacity's next attempt; the last one, or a status that is not retried |
| `LogCall` | a row in a session of its own, whose failure is swallowed |
| `NodeFails`, `Store`, `Crash` | what ends a run apart from its calls |

Time is a clock of coarse ticks. Rows are a set of pairs of run and tick, so two
requests of one run in one tick are one row; the clustering looks at stamps
only, and `sent` does the counting. The model, tokens and latency of a row are
left out. `Console` adds the two queries of `build_observability`, between which
the world goes on: `ReadCalls` reads the rows since any moment, and
`Cluster`, `Matchable` and `Attached` are then evaluated at any later state, with
the recommendations stored by then.

### Dedupe

The script's steps are `Plan`, `BackupDb`, `BackupChroma`, `Apply` or
`RollBack`, `Clean` vector by vector, `Finish`; `Abort` is the answer that is not
APPLY, or a crash, at any of them. Between them the application renames, creates
and deletes products and writes references (an event, or an entry of a
recommendation's JSON) with ids it read earlier, which may be gone. `Apply` is
one step because SQLite lets one transaction write. `BackupChroma` may find no
directory to copy, and the script goes on. `Restore` is what the
script's last line tells the operator to do, with the snapshots there are: the
database alone brings back rows whose vectors are gone, and such a course
counts as `stale` from then on. A row's number stands for its id,
its age and its vector id. `meant` is a history variable, the course a reference
was about when it was written or was renamed to; `stale` collects the courses the
admin touched while the script ran, of which nothing is promised. The tables
start with duplicates, as from before the unique index existed: `create_all`
does not add a constraint to a table that is there.

## 3. Runs

| Run | Module, configuration | Bounds | What it shows |
|---|---|---|---|
| `trigger_window` | `MCTriggerWindow` | windows of up to 4 rows of 10 contents | purchase intent always opens a gate that is not cooling; the repeat bonus never decides; once open only a run closes it |
| `agent_runs` | `MCAgentRuns`, `AgentRuns.cfg` | 1 user, 2 requests and the digest, weak and strong events, 3 stamps, `MAX_EVENTS_CONSIDERED` 2 | safety of the slots, the recommendation and the cursor, no circular wait, and refinement |
| `cooldown_ignored` | `AgentRunsCooldown.cfg` | the same with strong events only, 2 stamps | **violated**: the digest, and a late request, start a run inside the cooldown |
| `retrieval` | `MCRetrieval`, `Retrieval.cfg` | 3 products in 2 categories, 2 similarity functions, 2 hit functions, 2 user or admin steps, 2 recommendations | exclusions, filter ladder and its last rung, floor, termination |
| `deleted_recommended` | `RetrievalCatalog.cfg` | as above | **violated**: a product deleted during the run is recommended |
| `catalog` | `MCCatalog`, `Catalog.cfg` | 2 titles (1 seeded), 2 texts, 2 concurrent requests of 3, 3 ids, 2 boots | entries under their own ids, agreement where nothing disturbed, embeddings reused, boots complete |
| `catalog_drift` | `CatalogDrift.cfg` | as above | **violated**: a row says synced and its vector is missing or names no product |
| `catalog_boot` | `CatalogBoot.cfg` | as above | **violated**: after a seeded course was renamed the next boot fails |
| `tracker` | `MCTracker`, `Tracker.cfg` | 3 events, 3 failures, event 3 refused | at-least-once delivery, in order unless requests overlap |
| `llm_calls` | `MCConsole`, `Console.cfg` | a run and a sync, 3 attempts, 1 resend of a request, 2 moments, 1 fault | what a call sends is bounded, runs end |
| `console_matching` | `MCConsole`, `ConsoleMatch.cfg` | 2 runs, 1 attempt, no resend, 4 moments two minutes apart, 1 fault, gap and window of one tick | clusters and matches of the console |
| `dedupe` | `MCDedupe`, `Dedupe.cfg` | 2 courses in 3 rows and a fourth to be made, 2 references, 3 steps of the application | references, rows and vectors through the migration |

Why the bounds are enough for what the runs ask:

- `AgentRuns`: the guard, the cursor and the recommendations are per user, and
  users share nothing but the scheduler's loop; two requests and the digest are
  the pairs, and the triple, that can meet at one user. `MaxStamps` bounds the
  *start* of requests and digests only, so every started coroutine completes.
  With `MAX_EVENTS_CONSIDERED` 2 and 3 rows the cap bites. Requests are
  interchangeable (symmetry), in `agent_runs` only. Batches have no event or
  one; larger ones differ only in how many stamps a commit makes visible together.
- `Retrieval`: three products let an attempt find none, one (poor) or enough;
  `TOP_K` 2 with margin 1 makes both limits bite. The similarities lie on both
  sides of the quality limit, of the floor and of the floor with the bonus.
- `Catalog`: three ids allow a row, its successor under the same title and a
  clash; two boots are a crash and the recovery from it.
- `Tracker`: two storable events give an order to lose; three failures allow a
  request adrift, a second one adrift and a committed one that fails.
- `Console`: two callers are the pair whose rows can lie between one another and
  whose recommendations can both be candidates; four
  moments with a gap of one allow two clusters, a row between two others, and a
  recommendation in reach of both. The log looks the same however many requests
  a call takes, so the matching is checked with one attempt, and the budget with
  the code's three and one resend of each request (two in the code; the theorem
  covers any number). The fault is a lost row, a failing node or a crash.
- `Dedupe`: a duplicate pair beside another course, where the younger duplicate
  carries the stable vector id, so that neither age nor use decides alone; the
  fourth row and three steps of the application let a plan go stale in every way
  (renamed to, renamed away, deleted, created), also across an abort, a second
  run and a restore.
- `TriggerWindow`: 4 rows exceed the volume threshold of 3; the contents have
  every event type and both sides of the four minutes that reach the score.

`CHECK_DEADLOCK FALSE` everywhere: each system really may stop, since nobody has
to send events, edit the catalog or start the process, and the bounds end them.

### Fairness

- `AgentRuns!Fairness`: weak fairness of what each coroutine does by itself.
  asyncio schedules every ready coroutine, and statements and model calls return.
  Failing is not progress: neither engine nor pool sets a lock or statement
  timeout, so an INSERT that waits for another transaction's row waits until that
  transaction ends. Strong fairness for the two INSERTs of a cognitive model
  (`GateCreate`, `ReadModel`): PostgreSQL grants a row that is free again to
  those who wait, whoever else comes in between. It drives `cooldown_ignored`.
  That coroutines end is not checked as liveness but by what could prevent it:
  a wait without an end. `NoCircularWait` says that whoever waits for a model's row
  waits for a coroutine that is at work in its transaction; the other steps wait
  for nothing. Its mutant, a gate whose second commit comes only after the
  background task, makes a run wait for its own request.
- `Retrieval!FairSpec`: weak fairness of the run, for the same reason.
- `Tracker!FairSpec`: the interval timer fires while the page is open, and a
  request is settled. The network need not work: `Delivered` needs no more
  because failures are bounded by `MaxFailures`. It excuses a page that was
  left, a user who is not signed in and a history with a refused event
  (`Hopeless`): a refused batch is put back in front of all later ones.

- `Console!FairSpec`: weak fairness of each run's own steps. A request is
  answered, or the client's timeout makes it an error; tenacity waits at most
  eight seconds. Nothing is assumed about answers: all may fail.

### Findings

Four runs show where code and documentation differ; `PROJECT.json` quotes the
lines. In short: the README's cooldown holds for the gate only; a
recommendation can name a product deleted while the run was under way; the
stores can diverge unseen; and renaming a seeded course makes the next boot fail.

Shortest scenario of `catalog_drift`: `delete_product` removes the vector, the
call raises all the same, the admin gets a 503, and the row still says synced. A
crash before the row's DELETE, or a DELETE the foreign key refuses, ends the same
way. If these are excluded the model finds others: the seeder upserts a
course's vector, the process dies before the commit, the next boot inserts the
course under a new id, finds a vector under the stable vector id and marks the
row synced, though the vector still names the old id; and two PATCHes upsert in
one order and commit in the other.

### Divergences without a run

Met while modelling; the models have the code's behaviour.

- `_fetch_new_events` (`app/services/trigger_service.py:127`) slices the newest N
  rows by `created_at`, stamped before the commit: when a batch with earlier
  stamps becomes visible after the agent's reads, the slice holds a processed
  event and misses the unseen one, though the number N is right. Its docstring
  (`:114`) speaks of "events that the agent hasn't seen yet", `README.md:251` of
  "only events the agent hasn't seen yet".
- An exception of a query in `_should_digest_user` (`app/services/scheduler.py:74`)
  ends the digest: the users not looked at yet get none that day (`DigestAborts`).
  `app/services/scheduler.py:2`: "runs the recommendation agent for every user
  who's had activity in the last 24 hours".
- `_extract_recent_signals` (`app/agent/nodes/model_user.py:135`) gives a category
  its place at its first view: after views data, ai, data the first attempt
  searches ai. `app/agent/nodes/retrieve.py:85`: "the user's NEWEST category".
- `README.md:424` "exactly 3 AI calls per run, never more": a run makes three
  calls of `llm_client`. With three attempts, a fallback in each attempt of a chat
  and the OpenAI client's own two resends of each request (also on the 429 that
  `app/services/llm_client.py:26` wants left alone) a chat goes over the wire up to
  18 times and an embedding 9: `AttemptBudget`.
- "So a match is never guessed" (`app/services/admin_stats.py:97`): the one
  recommendation stored in time is taken, whoever's calls the cluster holds. If
  the rows of its own run are not among those read (lost, or written after the
  first query), it is shown under another run's or a sync's calls.
  `MatchNotGuessed` is what the test for a single candidate does ensure.
- `app/agent/nodes/retrieve.py:34` says the pool was made for "as few as ~40
  orphans"; a pool of 30 with ten kept survives twenty nearer ones.
- `app/services/admin_stats.py:7-12` derives the cluster boundary of 120 seconds
  from the cooldown of 60: runs of one user may lie 60 seconds apart, and runs of
  different users any time, so clusters merge runs (`RunNotSplit` is the direction
  that holds), and a run with a request longer than 120 seconds is torn apart.
- `build_observability` (`app/services/admin_stats.py:484`) orders clusters from
  old to new and cuts after 50: the newest are the ones dropped.
- An embedding answer without data is logged as a success and, after the
  IndexError, as a failure (`app/services/llm_client.py:171-175`): two rows for one
  request, in "a record of every real LLM/embedding call".
- `scripts/dedupe_catalog.py:192` rewrites `"product_id"` keys only. The
  `product_ids` list of a `checkout_start` event, which
  `app/services/engagement_filter.py:57` reads, keeps the removed ids, so a bought
  course may be recommended to its buyer again. A recommendation that listed
  both duplicates lists the course twice afterwards.
- An admin who renames or deletes the row the plan keeps, before the
  confirmation, makes the script delete the course's last row (`stale` excuses
  it), and an event that arrives with a removed id after the commit dangles
  (its `meant` is no course).

## 4. Proofs

All theorems hold for every value of the constants that satisfies the modules'
assumptions (`ActorAssumption`, `BoundAssumption`, `CategoryAssumption`,
`SizeAssumption`, `SimilarityAssumption`, `HitsAssumption`, `SomeAssumption`,
`InventedAssumption`, `SeedAssumption`, `TitleAssumption`,
`CatalogBoundAssumption`, `ForeignKeyAssumption`, `TrackerAssumption`,
`GatewayAssumption`, `ConsoleAssumption`, `DedupeAssumption`,
`WhatAssumption`): any number of users and requests, rows in a window, products and similarities, titles, events, callers and failures.
In particular the bounds of the runs are arbitrary naturals there.

Every invariant of the passing runs and every action property is a theorem, and
so is the refinement of `RecommendationFeed`.

**Induction over data.** The library's induction theorems take an operator as a
parameter, which the provers cannot instantiate. `LeastElement` has the same
argument without one: `LeastNumber` (a nonempty set of naturals has a least
element) and `SmallestSubset` (a nonempty set of finite sets has a smallest one),
both from the well-foundedness of `<`. A proof takes the set of the
counterexamples, picks the least and derives a smaller one. So `TriggerProofs` shows
that sums exist and add up, `RetrievalProofs` what `KnownViews` returns, and
`ConsoleProofs` that every row belongs to the cluster of a last start before it.

**TriggerWindow.** The invariant, `WindowInv`, is short: the window is a finite
set of rows with distinct integer stamps. The work is in the sums, which the
model takes with `MapThenSumSet`. The first part of `TriggerProofs` gives them
their rule (`SumsExist`, `SumsRemove`: the sum over a set is that over the rest
plus any one element) and what follows from it (`SumsAgree`, `SumsZero`,
`SumsGrow`). `BonusNeverDecides` needs `BatchSplits` (the score of a batch is that
of its events plus the bonuses) and `BonusIdle` (among fewer than three rows a
bonus means two views, which make the 3 points without it). `IntentOpens` needs
that the score of one event bounds the sum from below. `StaysOpen` rests on
`IntensityGrows` and `EnoughWithoutBonus`: no further row takes
from the score.

**AgentRuns.** `TypeCorrect` gives the types, including that row sets are
finite, which the counts need. `OneRunPerUser` proves `SlotsExact`, which is
inductive with the types. `OneActiveRecommendation` is not: `StoreCommit`
deactivates the rows it *has read*. The invariant `SlotsInv` adds `StoreReads` (what
a coroutine about to commit has read is still the set of active rows; kept
because `SlotsExact` admits no second run of the user) and
`RecsInThePast` (every recommendation is older than the clock), from which
`FeedImplemented` follows: each step is a publication of the feed or a stutter.
`CursorInTable`, `CursorNeverGoesBack` and `NoEventCountedTwice` rest on
`CursorInv`: while a run is between its statements, the rows it holds are
stored rows (`RowsRead`), and the number it counted lies between the
cursor and the size of the table and covers all that the profiles were inferred
from together with what this run has read (`CountRead`), because no other run
can move the cursor meanwhile; `SeenCounted` says that the events the profiles
were inferred from are no more than the cursor.
`WaitsEndWithTheHolder` proves `NoCircularWait` from `HoldersAtWork`: whoever holds
an uncommitted row is at one of the steps that wait for nothing, as its row is
committed or rolled back by the step that leaves them.

**Retrieval.** `RecommendedOnce` and `EngagementRespected` carry the exclusion
from the step where it is made to the write (`ExclusionInv`): after `Exclude`
the candidates avoid what was recommended, and then only shrink (`Narrowing`,
which also covers the model's answer and the top-up). `GivesUpUnfiltered`
and `RetriesBroaden` use `FilterInv`, which relates the filter in
force to the attempt's number. `CategoryNeverAlone` uses `FloorInv` and the
arithmetic of `RelevanceScore`. `RetrievalTypes` is inductive as it stands; the
views of known products are a recursive function in the model (`KnownViews`),
whose value `KeepsExists` and `KnownTyped` give.

**Catalog.** `CatalogTypes` includes that ids are handed out in order.
`EntriesInPlace` uses `OwnInv`: whoever may write a vector id for a product,
be it a row, a staged row or a request, claims the same pairs of product id and
vector id, and an id once handed out is claimed for one vector id only.
`EmbeddingsReused` is an action property from the types. `SeedLeavesAll` needs to
know what a boot has done by the time it commits: `StagedRight` says that a
staged row that exists keeps its title and text, that a new one has its
title's stable vector id, and that every course looked at is staged.
`DualWriteAgrees` is the hardest one: the two stores agree only between requests,
so `AgreeInv` says for each vector id that nothing disturbed how far the request
at work on it has got (`Halfway`), that no second request is (`Alone`), and
that what the seeder has staged agrees with its entry. That it is one product's
only follows from `OwnInv`, where claims are unique. A refused write, a
crash or a second request on the id disturbs it in the model: those are the
cases in which the code lets the stores drift.

**Tracker.** `TrackerTypes`; `NothingIsLost` with `Committed` (what a request
has committed is in the table) and `AdriftHappened`; `RepeatsExplained` with
`RepeatInv`: the page holds an event once (`HeldOnce`), nothing is held that
has not happened (`Heard`), and whatever waits although it is stored belongs to
a failed request (`Waiting`). `OrderIsKept` uses `OrderInv`: unless batches have
overlapped, one batch at a time is under way or adrift (`OneBatch`), it is older
than what waits in the queue, and each event not yet stored is younger than all
that are (`InOrder`). The lemmas on sequences say what concatenation
does to a set of elements and to the absence of repetition.

**Console.** `GatewayInv` adds to the types what each half needs. `SentOfAttempt`
ties what has gone over the wire to the attempt, to whether it has fallen back and
to how often the present request was sent again, which gives `BudgetKept`. `StoredLast` says that a run which has stored its
recommendation logs nothing more, so that every row the console can read of it is
no younger than its recommendation. `NeverGuessed` follows: the run of the
cluster's last row is a candidate too, and where there is one candidate only it
is that one. `OwnRowsAttached` reasons about the clusters
themselves, for any rows of any runs: a row not in the attached cluster starts or
follows a cluster more than a gap away, on the side where the recommendation
cannot be (`Times`, `BeforeStart`, `InWindow`); `AttachedOnce` needs that the
window is no longer than the gap, an assumption the code's two constants meet. `RunsWhole`: let the run's first row belong to the
cluster that begins at `s` (`LastStart`). Were there a start after `s` at or
before a later row of the run, the run's first row from that start on
(`Earliest`) would have one before the start within `Gap`, which no start has.

**Dedupe.** The three promises are inductive only together and with `AppInv`:
`PlanSound` (what the plan knew of a course is still so unless the admin touched
it), `RowsSound` (rows are handed out in order) and `SavedSound` (each snapshot
kept the promises when it was taken, so that `Restore` keeps them too, although
the two snapshots are of different moments). `OneRowKept` is the action property of
the transaction, from the same invariant.

Only model-checked:

- liveness (`RunEnds`, `Delivered`, `CallersSettle`) and with it
  everything about `ENABLED`, which TLAPS does not handle;
- the four properties that runs show violated, which are no theorems.

`KnownViews` is a recursive function because the provers cannot expand
`SelectSeq`.

## 5. Not modelled

- **Cart and "for you" pages**, **accounts**: planned, below. In `AgentRuns` and
  `Retrieval` a model call is a step that returns anything or fails; what it
  costs is the subject of `LLMGateway`.
- **The gateway's client**: of the OpenAI library only its resends are in the
  model, up to `ClientRetries` per request, on any failure. The mock embeddings of
  development count as an answer.
- **The rest of the admin statistics**: counts, rates and costs are aggregations
  of one query each.
- **The migration's printed plan, its `verify` and the dry run** only read. The
  `product_ids` lists of checkouts are no references in the model, as the script
  leaves them alone (above).
- **Texts**: prompts, queries, persuasion strategy, explanations, level and
  rating derivation. They choose similarities and wording, which are arbitrary
  in the models.
- **Feedback endpoint**: sets one column that no agent step reads; planned
  with the "for you" page.
- **`reflect_node`** always accepts and changes nothing, so it is no step.
- **Pages, schemas, configuration**: read and render.
- **Password hashing, JWT, SMTP, SQLAlchemy, Chroma, pgvector**: libraries,
  modelled by how the code relies on them.

## 6. Plan

Done: trigger gate, runs with the feed, retrieval, catalog, tracker, gateway and
console, migration, each with its proofs. Next, in this order:

1. **Composition** of `Tracker` with `AgentRuns`: repeated batches against the
   gate's count, and the liveness question whether a purchase intent whose
   trigger met a run in flight is processed in the end.
2. **ForYou and CartPage**: polling against a run that finishes late, feedback
   on a recommendation that has been replaced, `loadCart` answers out of order,
   checkout against a deletion, the tracker's events of both. `ForYou` reads
   `RecommendationFeed`.
3. **Accounts and startup**: the registration race, `ensure_admin`, `init_db`
   with its backfill, two processes booting at once.

New modules share runs with the ones they compose with, so that each run
keeps asking one question of the system.
