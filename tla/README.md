# A verification development for motoCompare

TLA+ modules that model the backend of motoCompare (`backend/app`), TLC
configurations that check them on small instances, and proofs of the central
theorems with TLAPS.  Paths below are relative to `backend/app` unless they
start with `docs/`.

## 1. Inventory

motoCompare is a FastAPI application over one relational database.  Request
handlers run in threads, each with its own SQLAlchemy session
(`autoflush=False, expire_on_commit=False`); research runs in the threads of an
in-process pool, each with a session of its own.  There is no scheduler: polling
is the retry pump.

| Component | State it keeps | Operations | Talks to |
|---|---|---|---|
| research tasks and requests (`research/models.py`, `service.py`, `router.py`) | `research_tasks`, one row per (motorcycle, kind, fact) | `request_research`, `populate_bike`, `get_tasks_for_bike`, `get_task`, `pending_research_for_bike`, `wait_for_research` | executor (dispatch), catalog (coverage) |
| research executor (`research/executor.py`) | `_jobs`, a future per bike; the pool and its queue | `submit_bike`, `wait_for_bike`, `shutdown`, `_run` | runner |
| research run (`research/runner.py`) | none of its own; rows and objects of its session | claim, search, settle, record an execution failure | provider, catalog upserts |
| tiering, units (`research/tiering.py`, `catalog/units.py`) | none | classify a page, convert a value | used by the run and the catalog |
| search provider (`research/provider.py`) | a lazily made client | `research` | Gemini, HTTP |
| catalog (`catalog/`) | bikes, spec registry, `spec_values`, `insights` | reads (`data_coverage`, `get_specs`, `compare`, `get_insights`, `resolve_bike`), upserts | research (the pending hook) |
| profile (`profile/`) | `users`, `profiles`, `garage_bikes`, `dream_bikes` | replace the profile; add, choose, remove a garage bike; add, remove a dream bike | catalog |
| chat (`chat/`) | conversation histories in a checkpointer | `stream_chat`: agent and tools in turn | every other service |
| wiring (`main.py`, `config.py`, `db.py`) | the application's executor and hooks | startup, shutdown | all |
| seed, migrations | - | run by hand | database |

What is hard in it, component by component, with the properties that make it
correct:

* **Requests against runs.**  Handlers re-queue rows they loaded earlier; a run
  claims rows it loaded earlier and settles them minutes later.  Rows must stay
  coherent, a settled fact must not be searched again before its time, two runs
  of one bike must not overlap.
* **Crashes, shutdowns, unexpected exceptions.**  A claimed batch may be left with
  nobody working on it.  Attempts should stay bounded, every requested fact should
  be settled in the end, no bike may be refused by the executor for ever.
* **Time.**  Backoff, cooldown and staleness are deadlines compared when somebody
  polls.
* **Settling a batch.**  Several pages of several tiers, in several units, say
  different things in any order.  What is stored must be what the best sources
  say, and nothing that was not asked.
* **The garage.**  "Exactly one current bike" is kept by code that reads, then
  writes, under a partial unique index that can only enforce "at most one".
* **The profile and the dream list.**  An ORM session writes only the columns that
  differ from what it loaded, so concurrent replacements can mix; rows are inserted
  on a guess and removed by id.
* **Reads.**  Coverage, pages and comparisons are several queries, between which runs
  commit; the rows a lookup scores come in no order.
* **The search.**  Markers are inserted at offsets of the text without them, which the
  API counts in bytes; sources fail to resolve, all of them perhaps because of the
  network; a call may never return.
* **Chat turns.**  A turn waits for research with a time budget, has a bounded number
  of steps, and stores its copy of the conversation whole while another turn of the
  conversation may do the same.

`PROJECT.json` lists each hazard at its line with the properties that cover it.

## 2. How the project is divided

| Module | Models | Builds on |
|---|---|---|
| `Research` | tasks, requests, executor and runs, with faults and time | - |
| `ResearchContract` | what that pipeline promises: the abstract specification | implemented by `Research` |
| `ChatResearch` | the chat's `trigger_research` | extends `Research` |
| `Resolution` | what one run makes of its findings | implements the contract's `Settle` |
| `Provider` | the search and the extraction before it | extends `Resolution` |
| `Garage` | the requests on the garage | - |
| `Preferences` | the profile and the dream bikes | - |
| `Catalog` | pages, coverage, comparisons, lookups | runs beside `ResearchContract` |
| `Lookup` | matching a free text with the catalog | used by `Catalog` |
| `ChatTurn` | requests to the assistant, the loop of model and tools, the stored histories | - |

`MC...` modules hold instances for TLC, `...Proofs` modules the theorems
(section 10).  What could follow: the chat's turn composed with `ChatResearch`, so that
the research of one turn outlives the history of another.

## 3. `Research`

### State and actions

| Model | Code |
|---|---|
| `task[f]` | the row of a fact; "absent" when there is none; `recheck`, `next`, `attempted`, `completed` are the time columns, `result` says that `result_spec_value_id` or `result_insight_id` is set |
| `stored` | facts with a spec value or an insight, as `data_coverage` sees them |
| `jobs`, `queue` | `_jobs[bike].done()`, and the pool's queue of submitted calls |
| `worker[w]` | a pool thread: the batch it loaded, the attempt counts in its session, the age of its `now` |
| `handler[h]` | a serving thread: what it looked up, whether something is due |
| `up`, `faults` | between startup and shutdown; a bound on faults |

| Action | Code |
|---|---|
| `Request`, `Populate`/`Find`, `Save`, `Dispatch` | `request_research` and `populate_bike`: look up, then create or re-queue and commit, then dispatch |
| `Poll`, `Dispatch` | `get_tasks_for_bike` |
| `Start`, `Claim`, `Resolve`, `ExecutionError`, `JobDone` | `_run` and `run_bike_research`, cut at its commits |
| `Unexpected` | the `except Exception` of `_run` |
| `Crash`, `Shutdown`, `Restart` | the end of the process, the end of the lifespan, the next process |
| `Tick` | a minute passes |

Abstractions.  A commit writes the columns its code assigned and that differ from
what the session loaded, on the row as it is then; so `Requeued` keeps
`next_attempt_at`, which the settled row it loaded never has, and the result
reference, which `_requeue` does not assign.  `Find` loads the
rows of a population in one step, and `Save` inserts, re-queues and commits in
one: two requests still interleave between the two.  A request that
finds nothing to do is left out where it changes nothing (a poll with nothing due
dispatches nothing).  Deadlines are counted down rather than compared with a
clock, and the age of a run saturates at `Horizon`, past which no deadline
counted from it differs.  Only one process serves a database, as the executor's
deduplication in memory presumes.

`Prompt`, the guard of `Tick`, says that handlers and the database steps of a run
take less than a tick; only a provider call lasts longer.  A handler that sleeps for
minutes between two statements is not modelled.

### The contract

`ResearchContract` says what the module promises to the rest of the program,
without rows, sessions, jobs, attempts or clocks.  Each fact has an `answer`:
unasked, researching, found, or a failure (memoized until a date, expired, for
good); `known` are the facts with a value.  `Ask` opens facts that are unasked or
expired, `Settle` answers facts that are being researched and makes what is found
known in the same step, `Expire` lets the dates of failures pass.  `Research` maps
a row to its answer with `AnswerOf` and implements the contract (`ResearchOnce`):
claims, retries, crashes and restarts are stutters, a failed last attempt is a
`Settle`, a tick is an `Expire` or a stutter.  It does so when requests are served
one at a time; with two, the reopened task of `ResearchReopened` is a step the
contract does not have.

### Properties and runs

| Run | Instance | Shows |
|---|---|---|
| `ResearchRaces` | 1 bike, 2 facts, 2 handlers, 2 workers, all faults | `TypeOK`, `RowCoherent`, `SearchingIsOwned`, `TriesBounded`, `OneRunPerBike`, `JobsAreLive` |
| `ResearchSettles` | 2 bikes, 1 handler, 2 workers, all faults, fairness | `RequestsSettle`, `ReopenedOnlyWhenDue`, `ResearchOnce`, `ResultsAreCurrent` |
| `ResearchReopened` | 1 fact, 2 handlers, no faults | `ReopenedOnlyWhenDue` fails |
| `ResearchUnbounded` | 1 fact, unexpected exceptions | `AttemptsBounded` fails |

The two failures are the program's, not the model's:

* *A found task is opened again* (`ResearchReopened`).  Two requests load the same
  expired failure.  One re-queues it and its run finds the fact; then the other
  re-queues the row it still holds.  `docs/modules/research.md:39` promises the
  existing task.  The row also keeps the reference to the first result
  (`service.py:170-177` does not reset it), and may end as not found with it.  With
  one request at a time that cannot happen (`ResultsAreCurrent`); and such a reference
  is never to a fact the catalog does not hold (`RowCoherent`).
* *Attempts without bound* (`ResearchUnbounded`).  The count is compared with its
  limit only where an execution error is recorded.  A run that ends otherwise leaves
  its batch searching, is reclaimed ten minutes later, and so on.  One such end is
  `units.convert` of 0 mpg, a plain `ValueError` where only unknown units are caught
  (`Resolution`'s `Abort`).  `docs/modules/research.md:33`: "Retries are therefore
  always bounded".

A third weakness limits what can be claimed rather than failing a run: a call that hangs.
The client of the provider is made without a timeout (`provider.py:145-146`).  When a call
does not return, the job of its bike is not done, and `submit_bike` drops every dispatch
for the bike, the one of the reclaiming poll included (`executor.py:43-45`).  The
staleness test thus brings back the attempts of runs that have ended and never one that
hangs, although `docs/modules/research.md:41` speaks of all "stale `searching` tasks".
`RequestsSettle` is therefore conditional (see Fairness).

The backoff counts from the start of the failed attempt (`BackoffAfter`), so a search
that takes longer than the delay is due again at once; `docs/modules/research.md:33`
does not say from when it counts.

Bounds.  Two facts of one bike make a batch whose rows differ; two handlers are what
every race here needs (each holds one stale read); two attempts with a backoff of
one and two ticks reach exhaustion; cooldowns of one or two ticks expire within a
run; `StaleAfter = 2` lets a search end just before and after it becomes stale; one
fault, because every fault leaves a state from which the next one starts afresh.
The theorems of section 10 have none of these bounds.

### Fairness

`FairSpec` assumes that threads run (`HandlerStep`, `Start`, `Claim`, `JobDone`), that a
process that was shut down is started again, that time passes (`SF` on `Tick`, with
requests leaving gaps: `[]<>Prompt`), and that a page showing a bike goes on polling it
(`SF` on `Poll`).  The last one is the code's own design: "polling doubles as the retry
pump".  Nothing is assumed of new requests, and nothing makes a search end, because the
client has no timeout.  Only the links of sources are followed with one
(`provider.py:151`).

`RequestsSettle` therefore says what a call that hangs does to the rest.  It is about the
facts of a bike whose own calls return, as long as again and again the application is
up with a thread that no call holds (`Serving`): calls for other bikes may hang for ever.
With all threads held, or in a shutdown, which waits for them (`Restart` needs all runs to
have ended), nobody is served.  Without the poll it is false, because a dispatch that
meets a finishing job is dropped.  Unexpected exceptions are finite in number: one that
always recurs keeps a task from being settled, which is what `ResearchUnbounded` shows.

## 4. `ChatResearch`

One call of the chat's `trigger_research` beside `Research`, which it extends: the
serving thread `Chatter` runs the handler steps of `Research` for each key, then
waits on the bike's future, reads the tasks again and reports.  `turn` holds the
call.  A turn waits on the future it found (`woken` stays set although the bike may
have a newer job); the budget may end at any moment (`TimedOut`); `waited`
remembers, for one property, the tasks that have been open since the wait began.

| Run | Instance | Shows |
|---|---|---|
| `ChatResearch` | 1 bike, 2 facts, the turn and another handler, 1 worker | `FoundIsStored`, `PendingContinuesAfterWait`, `TurnEnds` |
| `ChatTimeout` | the turn alone | `PendingContinues` fails |

*Pending, and nobody at it* (`ChatTimeout`).  Each request of the turn dispatches, so
the job of the first key starts with that key alone, and the dispatches of the
others meet a job that is not done and are dropped.  If the budget ends during that
job, the polling at the end of the turn is dropped as well: the turn announces
research in the background that starts only when somebody polls the bike.
`docs/modules/research.md:48`: "the task continues in the background".  When the wait
is not cut short the second look does dispatch what the first job did not know of
(`PendingContinuesAfterWait`, which needs the order commit, dispatch, wait, poll): a
task it reports pending has a job, or a retry whose time has not come (`WorkedOn`).  Two
attempts, so that a failed one leaves such a retry.

`TurnEnds` is checked under weak fairness of the turn and its handler alone
(`FairChatSpec`): the pool may stand still and a search may never end, and the turn is
answered because of its budget.  Faults are left to `Research`.  Two facts are what a
job that knows of one needs; one job at a time per bike makes a second worker idle.

## 5. `Garage`

A request on the garage is cut where the database can show it something new:
after it loads its rows, before it flushes, and (when the current bike is removed)
between the flush of the delete and the commit.  `req[r]` holds what the session has
loaded, `bikeOf` and `current` what is committed.  The unique constraint and the
partial index are checked where the insert or update meets them; an update of a row
that another transaction has deleted waits (`Locked`), two removals that wait for
each other are ended by the database.  These waits are PostgreSQL's and marked
external.

`overlapped` remembers, for the properties, that two requests have been in progress at
once; before that, each has had the garage to itself.

| Run | Instance | Shows |
|---|---|---|
| `Garage` | 3 requests, 3 bikes, 4 rows | `TypeOK`, `IndexesHold`, `CurrentUntilOverlap`, `FailuresOverlap`, `NewestPromoted` |
| `GarageNoCurrent` | 2 requests, 2 bikes | `OneCurrentPerGarage` fails |

*No current bike* (`GarageNoCurrent`): a removal loads a bike that is not current; a
second request makes it current and commits; the removal deletes it and promotes
nobody.  The index enforces at most one current bike, not "exactly one current per
non-empty garage" (`docs/modules/profile.md:11`).  A double click on "add" is another
consequence of the same reads: the second insert meets the unique constraint and is
answered with a server error rather than the nickname refresh of
`docs/DECISIONS.md:92`; the action is `InsertFails`, and `FailuresOverlap` says that
only requests that overlap get there.

Three requests are what the wait of two removals for each other needs, with a third
that moves the mark; four rows are a removed bike, two that may succeed it and one
added later.  Runs on the garage do not look for deadlock: with all `MaxRows` rows
used and removed the model has nothing left to do.

## 6. `Resolution`

One run's settlement of a batch: which findings count (`Candidates`), conversion and
its two errors, the tiers, the conflict test, the median that is kept, the reasons
for missing facts, and the upserts.  It has in detail what `Research` has as `Resolve`
(with any outcome per task) and `Unexpected` (here `Abort`), and implements the same
step of the contract.  Values are integers,
so a conversion is exact where floats round; a page is a model value whose site
`SiteOf` classifies, so the matching of domains is not modelled.

`Provider` is the part before it: the grounded search, whose supports become markers
in the text and whose chunks become the list of sources, and the extraction, which
drops malformed items.  The answers come from outside: any of `Groundings`, any
sources reached, any list of items.  `Resolution`'s own `Spec` is the settlement
alone; the run and the theorems are about `Provider`'s `SearchSpec`.

The run `Resolution` takes every search, then every list of up to three items out of
eighteen (agreeing, disagreeing and edge-of-tolerance numbers, a mean of zero, other
units, an unknown unit, zero in a reciprocal unit, an unverifiable page, text for a
number, texts, summaries with verifiable and unverifiable pages, one of them for a topic
that left the registry, a malformed item),
with every single fact called not applicable, with and without a release date, for
three batches.  Three findings are the least for which a median, and a group out of
order, differ from their neighbours; `ResolutionProofs` has any number of any
well-formed findings.  It shows

* that, as far as a byte is a character, the markers behind each place of the text are
  those of its supports, and a source keeps the number it is cited by
  (`CitationsInPlace`);
* that the best tier decides (`BestTierDecides`), and the order of findings does not
  (`OrderIrrelevant`);
* that only tasks of the batch change stored values, to what a page of that tier says
  (`ChangesAreSourced`);
* that nothing sourced is memoized as missing (`MissingMeansUnsourced`) unless its key or
  topic has left the registry, and that insights cite verified pages
  (`InsightsCited`);
* that to the rest of the program a run is one `Settle` of `ResearchContract`, or
  nothing (`SettlesAsContract`): it answers its whole batch, and what it calls found has a
  value from the same step on.  That is what `Research` takes for granted when it adds found
  facts to `stored`, so the two modules together stand for the run.

A task may be older than the registry.  A spec key that is gone is memoized as not
applicable (`Retired`).  A topic that is gone (`RetiredTopics`) is searched for, and its
summary is refused by `upsert_insight`: however well it is sourced, the answer is
`no_reliable_source` (`runner.py:298-301`).

*Markers behind the wrong text.*  The API counts the end of
a segment in bytes; the code slices a `str` at it (`provider.py:261-264`).  A grounding
therefore says how many bytes its characters take (`offset`), and notes are made of
characters, a marker `[n]` of as many as it has.  With a character of several bytes in
the text, the markers of the segments behind it come too far back: at a later
statement, at the end of the text, or between the characters of a marker that is
already there.  So the code does not do what its docstring says, "attach [n] markers ... to
the cited segments" (`provider.py:252`); `CitationsInPlace` is the part of it that
holds, the text up to the first such character, and the run has such texts (the
groundings of `MCWideSupports`).
Segments are those of a single part: `response.text` joins the parts of an answer, and
ends that count from the start of a later part are not modelled.

While translating, one branch turned out to be unreachable: the
`no_reliable_source` at `research/runner.py:184`, because the best tier has passed
the conflict test and its write cannot be refused.  And the URLs of the extraction are
taken from the model: they are meant to be copied from the verified list
(`research/provider.py:121`), but the code classifies whatever comes back, so
`Extract` does not tie its items to `sources`.

## 7. `Preferences`

`update_profile`, `add_dream_bike` and `remove_dream_bike`, each in a transaction of
its own, cut after its load and before its commit.  `req[r]` holds what the session has
loaded and `changed` what others have committed since: by that set the properties say
which request may be surprised.  An update names the columns whose value differs from
the loaded one (`Written`), an add of a known bike writes its note if it differs
(`Noted`), a removal deletes by row id, and one that matches no row only warns
(`Without`).  The `users` row that the first write creates can be inserted twice.

| Run | Instance | Shows |
|---|---|---|
| `Preferences` | 2 requests, 2 columns with 4 texts each, 1 dream bike, 2 rows | `TypeOK`, `PutReplaces`, `AddIsListed`, `RemovalIsExact`, `FailuresOverlap` |

A replacement is the payload in every column that nobody else changed meanwhile, so
two of them can leave a mixture neither user asked for, but never a column that
neither wrote.  Two requests show every such case, as each property relates one request
to what is committed beside it; two rows of one bike are a removal and an add that
comes after.  The proofs have any number.

## 8. `Catalog` and `Lookup`

A read is a list of queries (`Plan`), each of which sees what is committed by then.
Reads change nothing, so a single reader stands for all.  The pipeline beside it is
`ResearchContract`, which is all it can do to the tables while requests come one at a
time (`ResearchImplementsContract`), plus `Reopen` for the race of `ResearchReopened`.

Two things break a read, and with it the whole answer (`ReadBreaks`).  A found value may
be 0 (`zeros`): for a consumption, that cannot be shown in imperial units.  And an
insight may have been stored before its topic left `INSIGHT_TOPICS` (`RetiredTopics`,
here by being among `Seeded`): `get_insights` sorts by the topic's place in that list
and fails in any system of units (`catalog/service.py:242`).  A research run reads the
page of its bike as well (`research/runner.py:72`), after its claim, so that such a bike
cannot be researched at all; in `Research` that is an `Unexpected` of each run.

`Lookup` has the scores and the order of `resolve_bike` and the rule by which the
chat's tool picks a bike rather than ask.  What two tokens have to do with each other
is a constant; the means of the code are sums here, exact where the code rounds.

| Run | Instance | Shows |
|---|---|---|
| `Catalog` | 4 facts of 2 bikes, every system of units, 5 lookups over 4 bikes in every order of rows | `TypeOK`, `EveryFactPlaced`, `GapsNotResearched`, `LookupDecided` |

`EveryFactPlaced` rests on the page reading its values before its coverage,
`GapsNotResearched` on coverage asking for what is stored before what is pending: a
run that commits in between leaves a fact listed as missing that is found, never one
that is being researched listed as neither.  The facts are a spec and an insight of
one bike that coverage counts, a spec of another that it does not, and an insight of that
one whose topic was retired.  A comparison of one bike is `get_specs` as its endpoint or
the chat calls it, without coverage or for some keys only; the four bikes are
two years of one model, a sister with no market and a stranger, with equal, contained
and similar tokens on both sides of each cutoff.

## 9. `ChatTurn`

| Model | Code |
|---|---|
| `turn[t]` | one request: its copy of the history, the nodes it has run (`steps`), the model calls among them (`asked`), the tools of the node that runs |
| `saved[c]` | the checkpointer's history of a conversation |
| `configured` | the process has a chat model: between startup and shutdown |
| `kept` | for the properties: nothing overlapped with the turn, its process lives |

| Action | Code |
|---|---|
| `Post`, `PostRefused` | `chat/router.py` |
| `StartUnconfigured`, `StartBreaks`, `Start` | the beginning of `stream_chat` |
| `ModelAnswers`, `ModelCalls`, `ModelRaises`, `CallsUnprintable` | `agent_node`, and the status line of its calls |
| `ToolAnswers`, `ToolRaises`, `ToolsAnswered` | `tools_node` |
| `Done`, `OutOfSteps`, `Disconnect` | the ends of the stream |
| `Shutdown`, `Boot` | the lifespan; the store is in memory |

The engine of the graph and its store are libraries, modelled by their use: a history
is loaded when a turn starts and stored whole after every node.  Whether the step limit
also ends a turn whose last node answered is the engine's affair; both ends are
allowed.

| Run | Instance | Shows |
|---|---|---|
| `ChatTurn` | 2 turns, 1 or 2 conversations, a limit of 3 steps, 2 calls at once, 1 restart | `TypeOK`, `CallsAnswered`, `DoneIsKept`, `ModelCallsBounded`, `EveryTurnEnds` |

* A turn that is done leaves no call without its result, and its messages stay where
  they are - if no other turn of the conversation overlapped.  Overlapping turns store
  their copies over each other's, and a turn that fails, is cut short or runs out of
  steps may leave calls without results as the last thing it stored; the next turn's
  model is shown them.
* `EveryTurnEnds` is checked under weak fairness of each turn's steps: the server goes
  on serving a stream it has begun, model calls return or raise, and tools wait for
  research no longer than their budget (`TurnEnds` of `ChatResearch`).  That a model call
  returns is an assumption about the model's client, which is made without a timeout
  (`main.py:44`); a turn whose call hangs never ends.
* Two ends of a stream are not what the comments say.  The profile is read before the
  `try` (`chat/service.py:56`), so an error there breaks the stream off without the
  `done` or `error` of line 49 (`StartBreaks`).  And `status_line` fails on a
  `trigger_research` whose `fact_keys` are null, which ends the stream, where the
  mistakes of the model are meant to become answers to it (`chat/agent.py:56`)
  (`CallsUnprintable`).

Two turns are what an overlap needs; three steps are the least that call a tool and
answer, and the limit ends turns at every node; one restart puts a new process between
a turn and the next.  The proofs of the safety properties have none of these bounds.

## 10. What is proved

`ResearchProofs` and `ResearchRowProofs` prove, for every number of bikes, facts,
handlers, workers, delays and faults (the assumptions named `...Assumption` in
`Research`):

| Theorem | Statement | Rests on |
|---|---|---|
| `TypeCorrect` | `Spec => []TypeOK` | the type of each row operator |
| `NoOverlappingRuns` | `Spec => []OneRunPerBike` | `PoolInv` |
| `NoStrandedJob` | `Spec => []JobsAreLive` | `PoolInv` |
| `RowsStayCoherent` | `Spec => []RowCoherent` | `RowInv` |
| `ReferencesStayCurrent` | one handler: `Spec => []ResultsAreCurrent` | `ExpiredKept`, `BatchOpen` |
| `ResearchedOnce` | one handler: `Spec => ReopenedOnlyWhenDue` | `ExpiredKept` |
| `ResearchImplementsContract` | one handler: `Spec => ResearchOnce` | `RowInv`, `ExpiredKept` |
| `NoAbandonedSearch` | `Spec => []SearchingIsOwned` | `UntilFault` |
| `TriesStayBounded` | `Spec => []TriesBounded` | `UntilFault` |

`ChatResearchProofs` proves, for every turn:

| Theorem | Statement | Rests on |
|---|---|---|
| `ChatKeepsResearch` | `ChatSpec => Spec`: beside the chat every theorem above holds | `TurnInv` |
| `FoundAlwaysStored` | `ChatSpec => []FoundIsStored` | `FoundKnown` |
| `PendingGoesOnAfterWait` | `ChatSpec => []PendingContinuesAfterWait` | `ChatInv` |

`GarageProofs` proves, for every number of requests, bikes and rows:

| Theorem | Statement | Rests on |
|---|---|---|
| `GarageTypeCorrect` | `Spec => []TypeOK` | `GarageInv` |
| `IndexesAlwaysHold` | `Spec => []IndexesHold` | `GarageInv` |
| `CurrentBikeKept` | `Spec => []CurrentUntilOverlap` | `SerialInv` |
| `OnlyOverlapsFail` | `Spec => []FailuresOverlap` | `SerialInv` |
| `NewestAlwaysPromoted` | `Spec => NewestPromoted` | `SerialInv` |

`PreferencesProofs` proves, for every number of requests, columns, payloads and bikes:

| Theorem | Statement | Rests on |
|---|---|---|
| `PreferencesTypeCorrect` | `Spec => []TypeOK` | `PrefInv` |
| `ReplacementsReplace` | `Spec => PutReplaces` | `PrefInv` |
| `AddsAreListed` | `Spec => AddIsListed` | `PrefInv` |
| `RemovalsAreExact` | `Spec => RemovalIsExact` | `PrefInv` |
| `OnlyOverlapsFail` | `Spec => []FailuresOverlap` | `AloneInv` |

`ResolutionProofs` proves, for every answer of the search and the extraction, every
number and order of findings, every tolerance, conversion and catalog:

| Theorem | Statement | Rests on |
|---|---|---|
| `TheBestTierDecides` | `SearchSpec => []BestTierDecides` | `BestTierOutcome` |
| `OrderNeverMatters` | `SearchSpec => []OrderIrrelevant` | `Recorded`, `OrderDecidesNothing` |
| `StoredValuesAreSourced` | `SearchSpec => ChangesAreSourced` | `KeptIsSourced` |
| `MissingOnlyWhenUnsourced` | `SearchSpec => []MissingMeansUnsourced` | `MemoizedIsUnsourced` |
| `InsightsAreCited` | `SearchSpec => []InsightsCited` | `InsightIsCited` |
| `RunsSettleTheContract` | `SearchSpec => SettlesAsContract` | `FoundBecomesKnown`, `OthersStayKnown` |
| `ResolutionTypeCorrect` | `SearchSpec => []TypeOK` | `BestTierExists`, `KeptIsSourced` |
| `CitationsStayInPlace` | `SearchSpec => []CitationsInPlace` | `MarkersInPlace` |

Its assumptions are that findings have the shape the extraction gives them
(`ClaimsAssumption`: a spec finding cites one page, values are integers, and what is
given in the reciprocal unit is not negative), that batches hold facts and that
the three kinds of keys do not overlap (`RunAssumption`), that a character has one to
four bytes, and that the end of a support, if it has one, is the number of bytes up to
some character of the text (`GroundingsAssumption`).

`CatalogProofs` proves, for every catalog, every contract beside it, every list of
bikes and keys that is asked for, and every query and order of rows of a lookup:

| Theorem | Statement | Rests on |
|---|---|---|
| `CatalogTypeCorrect` | `Spec => []TypeOK` | `StoreInv` |
| `AnswersAreComplete` | `Spec => []EveryFactPlaced` | `PlanInv`, `AnswersInv` |
| `GapsAreNotResearched` | `Spec => GapsNotResearched` | `PlanInv`, `AnswersInv` |
| `LookupsAreDecided` | `Spec => []LookupDecided` | `Places`, `ListDecides` |

It assumes that the catalog is finite and its years are numbers, that a variant has
a token, that likenesses are percents, and that a list may have two entries
(`VariantsAssumption`, `TokensAssumption`, `QueriesAssumption`,
`ListLimitAssumption`, `CatalogAssumption`).  With lists of one, which only the route
can ask for, a runner-up could not be seen and the rule for picking would be wrong.

`ChatTurnProofs` proves, for every number of turns, conversations, steps, calls and
processes:

| Theorem | Statement | Rests on |
|---|---|---|
| `ChatTurnTypeCorrect` | `Spec => []TypeOK` | `Carries` |
| `ModelCallsAreBounded` | `Spec => []ModelCallsBounded` | `Carries` |
| `DoneTurnsAreKept` | `Spec => []DoneIsKept` | `HistoryInv` |
| `CallsAreAnswered` | `Spec => []CallsAnswered` | `HistoryInv` |

The inductive invariants, and why each is needed:

* `PoolInv` is `OneRunPerBike`, `JobsAreLive` and `DownIsQuiet` (while the
  application is down nothing is queued and no request is open).  None of the three is
  inductive alone: that a bike taken from the queue is run by nobody follows from its
  job being pending, that a submitted one is in no queue from its job being done, and
  that a restarted pool is empty from the last.
* `RowInv` is `RowCoherent` and `BatchOpen`: the rows of a run's batch are open.  A
  run settles them minutes after it loaded them, and only because no other run of the
  bike exists (`PoolInv`) and requests re-queue but never settle are they still open.
* `ExpiredKept` says that what a handler means to re-queue is still an expired
  failure.  With one handler it is inductive; with two it is false, which is
  `ResearchReopened`.
* The refinement needs no invariant of its own: `BatchOpen` says that what a run
  settles is "researching" to the contract, `ExpiredKept` that what a request
  re-queues is "expired".  `AskStep`, `SettleStep` and `ExpireStep` recognise a step
  of the contract by what happens to each answer; one lemma per action of
  `Research` that writes rows or values then names its step.
* `UntilFault` is `OwnInv` as long as `faults` is 0; `OwnInv` says that every
  searching row has its run (`AllOwned`), with `AttemptsBounded` and `AttemptInv`: a
  queued task has an attempt left, a run claims only such tasks, and the count in its
  session is never below the row's.  The test in `_record_execution_failure` is on the count in
  the session, so the bound on the row needs the relation of the two.

* `TurnInv` says that a turn that waits has its thread in no request and the
  application up, so that its second look is a poll of `Research`; `FoundKnown` that
  every found task has its value, which every step keeps because values and
  settlement are one commit.
* `GarageInv` adds to `IndexesHold` what a request holds at each point of its way
  (`RequestInv`): the row it deletes is never the one it promotes.
* `SerialInv` says that, until two requests overlap, what a request has read still
  holds when it writes (`ReadsHold`); after that it is false, which is
  `GarageNoCurrent`.  That `Newest` of a finite set of rows exists and is in it
  (`NewestRow`) is proved from the well-foundedness of the numbers.
* `PrefInv` says of each request in progress that what it has loaded is still what is
  stored, except where others have changed it (`HoldsOf`), and that no two variants
  share a row and none has an id not yet given out (`RowsDiffer`), on which the removal by id rests.
  `AloneInv` says that without an overlap nothing has changed since.
* `ChatInv` adds to what `Research` keeps while nothing fails (`PipelineInv`) what a turn
  waits on (`WaitInv`) and, once it has heard of the end of that job, that every run of the
  bike has started since (`LaterInv`), so that it knows the tasks that were waited for, or
  the turn's own dispatch is still to come.  A run that is older than the turn's second
  look would falsify it: that is what a wait cut short lets through.
* `ResolutionInv` says that a run that has not committed has settled nothing, and
  that one that has left what is worked out from its findings (`Recorded`).  The rest is about
  operators on one list of findings.  Ranks in a group are 0 to its size less one, each
  taken once (`Ranks`, by counting), so the median, the least and the greatest exist
  (`PlacesInGroup`), and the spread of a group is the greatest disagreement of two
  (`ConflictIsDisagreement`).  A sum over a set exists and may split off any element
  first (`SumExists`, `SumInAnyOrder`, from least counterexamples, since induction
  is out of the prover's reach), so it is the same over a permuted list
  (`TotalRelabelled`); so is the median, because as many values lie below any
  number in both lists (`RankCounts`, `Relabelled`).  `SearchInv` adds the search: until
  there are findings the run has settled nothing.  What the extraction keeps of its
  items are findings, however many it drops (`WellFormedType`, by least counterexample).
* `MarkersInPlace` is about one grounding and a place p up to which a byte is a character.
  Offsets grow, so the ends up to p are positions in the text and those behind lie behind
  p (`OneByteEnds`).  The supports come with their ends going back, each once
  (`OrderFacts`, from the same counting of places as `Ranks`: `PlacesBy`).  Markers are
  whole where they are made (`MarkersCite`), and a splice behind text shifts what is
  after it, cuts no marker in two and changes no count of text (`ReadsShifted`,
  `SplicedCounts`), so it adds its markers to one place and leaves all others as they are
  (`SplicedMarks`).  `Placed` is the invariant of the loop: the markers of the supports so
  far are in place, and the text in front of every later one is still free of markers;
  that holds because later ends are not behind earlier ones, and is what an insertion
  from front to back breaks.  A support behind p may be spliced anywhere behind p, as
  far as the end of the text, and leaves p alone (`PlacedBehind`).
* `IInv` of `CatalogProofs` ties an answer to the order of its queries.  `PlanInv` says that
  what a read has left is the end of its plan, `AnswersInv` what each query it has had
  answered brought it (`Brought`): what was stored in its part before the read began and,
  for the queries of coverage, what the read had shown by then.  The contract
  beside the read only adds values (`StoreInv`), and a plan asks for coverage behind all
  values (`WellPlanned`, proved of each kind of read in `PlanFacts`); the other way
  round a fact stored in between would be shown and missing.  For `GapsNotResearched` the
  last query of a plan, which completes the answer, is the one for what is pending
  (`LastStep`).
* `LookupDecided` needs no invariant but an algorithm: the order of candidates is strict and
  total (`PrecedesOrders`), so counting those before gives every entry a place
  of its own and fills every place (`Places`), and the first entries of the sorted list are
  ahead of all others (`ListedFacts`, `ListDecides`).
* `Carries` counts: before a call of the model a turn has run two nodes for each call,
  so its calls are half its steps.
* `HistoryInv` extends what is wanted of stored histories (`Sound`) to the copies of
  the turns that work, because a copy becomes the stored history with the next node; it
  adds that in its own copy a turn has results for all calls but those it is running
  (`Own`), and that nothing disturbs a turn that is kept: what is stored is its copy
  and nobody else works on the conversation.  The last part is why `Done` may call it
  done.  All but a few steps leave histories where they are (`Quiet`); the others add
  one message to one copy (`Stores`), leave one behind, or settle one turn, with a
  lemma each.

TLC only: the violations, and liveness (`RequestsSettle`, `TurnEnds`, `EveryTurnEnds`),
which rests on fairness and ENABLED, out of the provers' reach.

## 11. Not modelled

The prompts, what the model answers, and the parsing of its JSON; domain matching and
conversion factors; the wording of tool answers, cards and status lines; routers and
schemas where they only pass on; seed data and migrations: I/O, text and data.  Reads
that are one query (lists of manufacturers, models and variants, `get_task`,
`list_garage`, `list_dream_bikes`, `get_profile`) have no step another request can
come between.  A catalog that loses bikes is not modelled: no code removes one.

An operator commented "Mutant of D" is D with a plausible bug; `PROJECT.json` names
for each property the mutant that breaks it.
