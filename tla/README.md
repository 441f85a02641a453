# A TLA+ model of FEniX Spoon

This directory holds the specifications of FEniX Spoon's server and of its web client: the modules, the TLC
configurations that check them on small instances, and theorems that TLAPS proves for every
value of the constants. Each definition is a translation of code under `src/`; `PROJECT.json`
names the lines (`map`), the runs, a mutant of the code for every property, the hazards the
properties are aimed at and the findings.

    tlc -workers 2 -config job_run.cfg MCJobRun      # check one run
    tlc -workers 2 -config workspace.cfg MCWorkspace
    tlapm JobRunProofs.tla                           # check the proofs

## 1. Inventory

Paths are under `src/server/fenixspoon/` unless they say otherwise.

| Component | State it keeps | Operations | Hard behaviour | What makes it correct |
|---|---|---|---|---|
| Job manager (`jobs.py`) | `_jobs`, the live entries | submit, get, list, cancel, subscribe, reconcile, purge_expired | a live entry, a cancel event and a row change in different places; status reads run on a threadpool; a restart finds rows nobody solves | the three agree between requests; a verdict is final; every accepted job gets one |
| Solve (`execution.py`) | the coroutine's place, `pending` emit tasks | run_solve, EventSink.emit | the timer races the outcome; progress is handed over from a thread and stored by tasks of its own | one verdict; progress precedes it; the terminal event is last |
| Backends (`backends.py`) | `_cancels`, `_tasks`, the thread pool | start, cancel, close | a thread cannot be killed; waiting for a pool slot counts against the timeout | a dropped thread does not disturb the verdict |
| Event bus (`events.py`, `redis_bus.py`) | one queue per subscriber | publish, subscribe | delivery races replay; Redis loses and reorders | what a reader sees is the stored log |
| Worker (`worker.py`) | the cancel watcher | solve_job | another process, possibly another version; arq hands a job out again | a job is solved at most once |
| Store (`store.py`) | rows and events | put, add_event, unfinished_ids, find_cached, usage, purge, mark_reused | numbering of events; torn reads; the memory store shares lists | numbers are dense; a row is never resurrected |
| Core service (`core/service.py`, `cache.py`, `core/identity.py`) | none of its own; `_stops`, in-flight searches | submit with cache and quota, start_search, stops | read, then act, across processes | a quota is respected; a hit names a job that will answer |
| Reads of a job (`core/service.py`, `jobs.py`, `store.py`) | nothing; four places are read | job, result, levels, query, a page of events, wait | each read sees another moment: the row, the file and the live entry change in between | a caller is told what happened to the job |
| Search (`core/optimize.py`) | `_searches`, `_stops`, evaluations so far | next_point, drive, stop, replay | a driver that polls a job for ever; a report rebuilt from jobs that are swept or are somebody else's | one search per key; replay gives the same points |
| Studies (`core/studies.py`) | none | variations, run, report, settled value, curves | no run is stored: a report finds the jobs again; arithmetic at the edges | the report shows what the run named; results match their definition |
| Workspace objects (`objects.py`, `core/workspace.py`) | a directory of revision files per object | create, revise, patch, read | two writers of one head; a crash in mid-write | revisions are dense and immutable; no update is lost |
| Designs (`core/workspace.py`, `core/conditions.py`) | none | resolve, merge the load cases, check the conditions | references are followed one read at a time while others patch | what a job records is what it ran with |
| JSON-RPC server (`rpc/`) | `_subscriptions`, calls in flight, the outbox | dispatch, subscribe, unsubscribe, drain | callbacks of cancelled tasks; end of input | one stream per subscription; every call is answered |
| TypeScript client (`src/client/packages/client/`) | events delivered, attempts | events() with reconnect | skips what it has seen by counting | exactly once across reconnects |
| Solver adapters (`solvers/`) | a loop's place, its residual | solve | ends by tolerance, by its cap, by cancellation; `nan` | a result that says it converged did; progress does not go back |
| Event route, lifespan (`api.py`, `main.py`) | open sockets; the retention task | job_events; startup, sweep | a client leaves in the middle; startup precedes service | nothing is served before reconciliation |
| Fields and series (`fields.py`, `core/results.py`) | none | reductions, interpolation, sections, hotspots, regions, declared metrics | masked points carry fillers; budgets at their edges | a filler reaches no answer; nothing is longer than its ceiling |
| Named boundaries (`geometry.py`, `boundaries.py`) | none; the head revision of a geometry | validation, resolution of a name | an outline is edited under the names that point at it | a name selects the same edges after the edit |
| Geometry editor (`src/client/packages/geometry-2d/`) | points, undo and redo, the drag | edits, drags, undo, the page's writes | a call in the middle of a drag | undo goes back through the outlines in order |
| Viewer (`src/client/packages/viewer/`) | result, settings, four caches, viewport, gestures | setters, paint, pointer handlers | a cache outlives its input; two fingers | the canvas shows the present result |
| Plot widget, discovery, sessions and CLI, authentication | little or none | rendering, description, wrappers, a lookup | I/O | without state that a hazard could reach |

How they interact. A request creates a job: the manager writes the row and asks a backend to
run it. In one process that is a task on the event loop and a thread of a pool; in the
distributed deployment it is an entry in arq's queue, and a worker process takes it. Either way
`run_solve` drives the solver through an `EventSink`, which writes each event to the store and
then publishes it. A reader attaches to the bus, replays the stored log, follows its queue and
drops by number what the replay covered; it stops at the first terminal status event. The store
is the only thing that survives a process; the next process reconciles it (in-process mode only).

The rest of the core service calls the manager: submissions look in the cache and count quotas
first, searches submit and poll many jobs, the RPC server and the WebSocket route turn
subscriptions into messages.

`PROJECT.json` lists 40 hazards at their lines, with the properties that would catch each. Two have
a note instead: the subscription that Redis has not confirmed (`redis_bus.py:75`), which is a matter of its
client library, and the quota on objects (`core/service.py:1016`), a count of the same shape as the
quota on jobs.

## 2. Modules

In the order in which they were planned and written, the most important behaviour first.

| Module | Models | Extends |
|---|---|---|
| `JobRecords` | statuses, errors, events, how each store numbers an event | `Sequences` |
| `EventLog` | the abstract promise of a stream: an append-only log and readers that see it from its start | `JobRecords` |
| `EventStream` | a reader's stream: replay, live queue, filter by number | `JobRecords` |
| `JobRun` | one API process with its solver threads, timer, readers, death and restart | `EventStream` |
| `ArqWorkers` | API, worker processes and Redis | `EventStream` |
| `ObjectBodies` | an object's content and what a patch does to it | |
| `ObjectHistory` | the abstract promise of the workspace: objects as growing sequences of revisions | `ObjectBodies` |
| `Objects` | directories, revision files and the callers in the middle of writing them | `ObjectBodies` |
| `Submission` | several servers on one database: submissions, starts and sweeps, transaction by transaction | |
| `Variations` | the jobs behind studies and searches, and how a report finds them again | |
| `Search` | one optimization: the driver task, joins, the remembered stop, the report | `Variations` |
| `Study` | one study: run and report over a design that moves | `Variations` |
| `GoldenSection` | the method of a search, exactly | |
| `StudyTables` | what a study body means and what a report reads off the answers | |
| `DesignResolution` | from a design's reference to what a solve is given | |
| `JobReads` | calls that read a job while it is run, retired, swept or reconciled | `JobRecords` |
| `RpcConnection` | one connection of the JSON-RPC server | |
| `ClientStream` | the TypeScript client's event iterator over a server's stream | `EventStream` |
| `SolverLoops` | the control of the sixteen solve methods | |
| `GeometryEditor` | the profile editor: outline, drags, undo and redo | |
| `ViewerPicture`, `ViewerGestures` | the viewer: caches and paints; pointers | |
| `Viewer` | the whole widget, the two side by side | the two |
| `Plane` | points, orientation, even-odd membership in an outline | |
| `FieldQueries` | questions about a field of a result, regions, declared metrics | `Plane` |
| `NamedBoundaries` | a geometry under edits, and what its boundary names select | `Plane` |
| `EventStreamProofs` | lemmas about events, logs and readers | `EventStream` |
| `JobRunProofs` | the theorems about `JobRun`: its streams and its verdicts | `EventStreamProofs`, `JobRun` |
| `ArqWorkersProofs` | the theorems about `ArqWorkers`: its verdicts and what readers are handed | `EventStreamProofs`, `ArqWorkers` |
| `SubmissionProofs` | the theorems about `Submission` | `Submission` |
| `WorkspaceProofs` | the theorems about `Objects`, `DesignResolution`, `Search`, `Study`, `StudyTables` and `GoldenSection` | the six |
| `ConnectionProofs` | the theorems about `RpcConnection` and `JobReads` | the two |
| `EdgesProofs` | the theorems about `ClientStream`, `GeometryEditor` and `Viewer` | the three, `EventStreamProofs` |
| `SolverProofs` | the theorems about `SolverLoops`, `NamedBoundaries` and `FieldQueries` | the three |
| `MCJobRun`, `MCArqWorkers`, `MCSubmission` | what TLC needs | the three |
| `MCWorkspace` | `Objects`, `Search`, `Study`, `GoldenSection`, `StudyTables`, `DesignResolution`, one of them at a time | the six |
| `MCEdges` | `RpcConnection`, `ClientStream`, `SolverLoops`, the widgets, `JobReads`, `FieldQueries`, `NamedBoundaries`, one at a time | these |
| `MCSamples` | the results, questions and drawings of its last two parts, and what is checked of the two together (`PlaneIsRight`) | `FieldQueries`, `NamedBoundaries` |

`MCWorkspace` and `MCEdges` choose a `part` in the initial state; that part runs and the others
stay where they are. The parts share no state, so this checks each of them as a run of its own would, and what
is said of one run in section 4 is said of each of its parts. (`Search` and `Study` share the jobs of
`Variations` as variables, and never run in one behaviour.)

Of what the runs check as an invariant, `PlaneIsRight` is the one that no theorem states (section 5 says why).

## 3. How the modules correspond to the code

### JobRecords

An event is its status, or the number of the progress call it carries (`iteration`); the numbers
and texts an event also carries are left out, for no decision of the server reads them.
`AddEvent` has two forms. `SqliteAddEvent` appends. `MemoryAddEvent` appends twice, because
`MemoryJobStore.put` keeps `record.events`, the same list the event sink mirrors into. The
constant `MirrorAliased` chooses.

### EventStream

| TLA+ | code |
|---|---|
| `reading`, `queue` | a subscription and its `asyncio.Queue` (`InProcessSubscription`, `RedisSubscription`) |
| `history`, `replayed` | the local variables of `JobManager.subscribe` |
| `seen` | what the generator has yielded since the stream was opened |
| `Publish` | `InProcessEventBus.publish` |
| `Attach`, `ReplayNext`, `ReceiveNext`, `Detach` | entering `subscribe`, its two loops, leaving it |

### JobRun

The event loop runs one coroutine segment between two awaits at a time, and each such segment is
one action. There is one exception. After its last await `run_solve` stores the verdict, emits the
terminal event and retires the job without suspending, yet threadpool reads, solver threads and a
crash can fall between these writes, so they are three actions (`Conclude`, `EmitVerdict`,
`Retire`), and `LoopFree` keeps every other coroutine out of the interval.

| TLA+ | code |
|---|---|
| `stored`, `error`, `log` | the row's status and error, its events |
| `live`, `cancels`, `asked` | `JobManager._jobs`, `InProcessBackend._cancels`, the events that are set |
| `run` | where the coroutine is: created, awaiting the solver, draining (the gather), closing, retiring, ended; broken (an exception left it), lost (its process died) |
| `left` | emits the gather still waits for |
| `thread`, `pool`, `steps` | the solver's thread, the executor's queue, progress calls made |
| `posted`, `pending` | callbacks given to `call_soon_threadsafe`; emit tasks created and not run |
| `server`, `fixing` | the lifespan's reconciliation, in its place inside `reconcile` |

A solver is a thread that reports any number of times up to `MaxProgress`, returns, raises, returns
something the store refuses, notices the cancel event at a check point, or does nothing for ever.

### ArqWorkers

The API saves and enqueues in two steps. A worker takes a job (`Begin`, `Disown` when its image
has no such solver, `Reject` when the payload does not validate), and every await of `run_solve`
is visible, because with Redis each publish suspends. `wire` holds publishes that have been sent
and not answered; `Arrive` takes them in any order, since concurrent tasks use separate pooled
connections. A reader attaches and reads the history in two steps. `missed` and `high` are history
variables: what the bus lost or let be overtaken on its way to an open stream.

arq and Redis are outside `src/` and modelled from how the code uses them: arq gives a job to one
idle worker, again if that worker died before the function returned, no more than `max_tries`
times; pub/sub reaches whoever is subscribed and keeps nothing. A subscription is taken to be in
force when `RedisSubscription.__aenter__` returns. (The client library does not wait for the
confirmation, so there is a small window in which this is optimistic.) A worker process runs one job
at a time in the model, so contention for the worker's threads is not there; the in-process
module has it.

arq's own `job_timeout`, twice the solver's, is left out: it only fires when the first timer did not
end the job, and then ends it like a worker's death. A solver that itself raises `TimeoutError` is
recorded with the timeout's message (`execution.py:126`); the modules count it among the solvers that raised.

### Objects

The objects of one type; types do not share directories. A caller is a thread or a process that
shares the data directory: the API's threadpool, the RPC server, a script. Nothing locks, so an
action is one call to the file system with the computation up to the next.

| TLA+ | code |
|---|---|
| `directories` | the ids `mkdir` made under `objects/<type>/` |
| `files` | `<revision>.json` of each id: not there, created and not yet written (`whole` false), written |
| `call` | what a caller is in the middle of, with the local variables it carries |
| `StartCreate`, `MakeDirectory` | `_next_number`'s scan; one turn of the loop around `mkdir` |
| `StartPatch`, `ApplyPatch` | `head_revision`'s glob; reading that file, the patch, the checks, the next number |
| `OpenRevision`, `FillRevision` | `os.open` with `O_EXCL`; the write and the return |
| `GiveUp` | a refused call, or a process that dies between two steps |

A body is a set of parts, and a patch adds or removes one: enough to tell an edit that was lost from one
that was kept, and a patch that changes nothing from one that does. Validation, labels and times
are left out; whatever may be refused may end in `GiveUp`. Reading (`get`, listings)
changes nothing. A torn head stays torn: a patch reads the head first and fails, and a file
that exists cannot be created again, so the object accepts no further revision. The model shows
this as states in which only `GiveUp` follows `StartPatch`; no text of the repository claims
otherwise, so it is not a finding.

### Submission

Several servers on one data directory: the HTTP API, and the RPC and MCP servers, which run their jobs in
their own process. `JobRun` looks at one of them in detail; here a process is its loop and the
transactions that loop makes. `core/service.py: submit` does not suspend between the lookup and the
stored row, so a process is in the middle of one submission at most, but each of its statements is a
transaction, and the other processes run in between.

| TLA+ | code |
|---|---|
| `rows` | the jobs table: owner, address, status, reuse count |
| `made` | the number of jobs so far; jobs are numbered by their `created_at` |
| `tasks` | the coroutine solving a job and the record it carries |
| `process`, `call` | down, inside its startup, or serving; what its loop is in the middle of |
| `Look`, `Reuse`, `Count`, `Save` | the statements of `submit`: `find_cached`, `mark_reused`, `check_quotas`, `JobManager.submit` |
| `Begin`, `Conclude` | the puts of `run_solve`, which write the record as the process knows it |
| `Start`, `ReadStranded`, `FailStranded`, `Serve` | `reconcile`, a row at a time, and the purge at startup |
| `Sweep`, `Expire` | the retention sweep; a job's time to live runs out |
| `hits` | history: the submissions answered with the row since it was inserted |

Only the HTTP server purges (`Sweepers`). A purged row comes back when its solve puts again, with its
count at nought. Of the quotas the one on concurrent jobs is modelled; the hourly one and the
one on bytes are the same read of other sums, and the one on objects (`core/service.py:1016`) is a
count of the same shape. The client library's local session does not reconcile and is left out, as is the memory
store, which processes cannot share.

### Variations, Search and Study

Neither a search nor a study stores a run. Each asks for points, every point is an ordinary job, and a
report finds the jobs again. `Variations` keeps those jobs and how they are found; `Search` and `Study`
keep what drives them.

| TLA+ | code |
|---|---|
| `jobs`, `cacheable` | the rows with their point, design revision and recorded index; whether there is a content address |
| `Cached`, `ByInput`, `JobOf` | `find_cached`; the dict made of `find_by_input` (`jobs_for_object`); `_variation_job` |
| `Submitted` | `submit`: the cached job or a new one |
| `JobEnds`, `JobBreaks`, `PurgeJob`, `JobsReconciled` | what happens to jobs meanwhile: they end, stay `running` for good, are swept, are failed by a restart |
| `searches`, `stops`, `tasks` | `_searches`, `_stops`, the driver tasks |
| `Start`, `Ask`, `Observe`, `ObservePurged`, `SearchFinished` | `run_optimization`; `_search` up to the submission; `_settled` and what is made of its answer; the lookup that raises; the done callback |
| `Replayed`, `Reported` | `optimization_report`: the method walked over the jobs, and why it says the search is over |
| `RunStudy`, `SubmitRung`, `StudyAnswers` | `run_study`, one submission at a time |
| `Row`, `Complete` | `study_report` |

A search's point is named by the answers that led to it, for `next_point` is a function of them;
`NoPointTwice` of `GoldenSection` shows that no two of them are the same point. `SubmitElsewhere` is
somebody else's job at the search's frontier. `ran` is a history variable: what the last search concluded,
until something else happens to the jobs.

### GoldenSection and StudyTables

Both are functions of what they are told, so their one action (`Tell`, `VariationAnswers`) tells them one thing more.

In `GoldenSection` a position is a pair of integers (m, n) that stands for m + n/phi, in which the
method's points are exact. Positions compare by their value in whole units, of which the bracket has `Span` and
1/phi of it `InvPhi`; a run takes a million and 618034, so that only comparisons round, and to a millionth. What is
assumed of the units is that they are fine enough for the answers allowed: no power of 1/phi up to `MaxTold + 1`
rounds to nothing. `Narrowed` is one turn of the loop of `_replay`, `Walked` the loop, `NextPoint`
and `BracketOf` are `next_point` and `bracket_of`, and `Located` is the test for the tolerance.

In `StudyTables`, `LegalSweep` and `LegalLadder` are the validators of the two bodies,
`SweepPoints` is `variations`, `SettledAt` is `settled_value`, `Curves` is `response_curves`, and `Drawable` is the
validator of the series they are answered with. `Combinations` is the product of the axes, the last varying fastest, worked
out from the last axis on (`FromLast`), as is their number (`Total`): `Before` puts each value of an axis in front of each
combination of those behind it. `OnLine` are the points of the grid that one trace draws. Values are integers, and printing one with six digits (`%g`,
from which a trace takes its name) is dropping the last digit.

### DesignResolution

| TLA+ | code |
|---|---|
| `designs`, `shapes`, `cases` | the revisions of the design, its geometry and the load cases |
| `resolving` | the local variables of `resolve_design` |
| `PatchObject` | another caller's `Workspace.patch`, at any moment |
| `ReadDesign`, `ReadGeometry`, `ReadCase` | one read of the workspace each |
| `MergeCases`, `CheckConditions` | `merge_load_cases`, `check_conditions` |

A geometry is the set of boundaries it declares and a load case is a function from boundary and
key to a value. The objects do not go through `Objects` here: of that module only
`RevisionIsFrozen` is used, which it proves.

### JobReads

Reads run on threads beside the loop. A job is in four places, and every action of a reader reads one of them.

| TLA+ | code |
|---|---|
| `record`, `payload`, `told` | the row, `result.json`, the events |
| `entry`, `cached` | the live `Job`, and whether `_jobs` still names it |
| `SaveThenRecord` | `SqliteJobStore.put`: the file, then the row |
| `AbsorbSteps`, `RetireJob` | `Job.absorb`, one assignment at a time; `finish` |
| `SweepRows`, `SweepFiles`, `CleanUp`, `Restart` | `purge_before` and the rest of `purge_expired`; somebody deletes a file; a death and the next process' `reconcile` |
| `GetJob`, `LookForPayload`, `LoadPayload` | `JobManager.get`; `_record`'s `is_file` and `read_text` |
| `CheckSucceeded` ... `BuildAnswer` | the checks of `result` in their order; `results.build` |
| `WaitForEnd` | `Job.wait` |
| `CheckOwner`, `ReadPage` | `job_events`: the ownership check, then the page |

### RpcConnection

Everything runs on one event loop, so an action is what the loop runs next, up to an await; `ready` is its queue, in
order.

| TLA+ | code |
|---|---|
| `received`, `main` | the messages read; `serve`'s place |
| `waiting` | the tasks of messages that await the core |
| `streams`, `held` | the stream tasks; `_subscriptions` |
| `sent`, `pump` | everything put into the outbox; `_pump` |
| `Read`, `InputEnds`, `StopPump`, `ServeEnds` | `_read_loop` and the rest of `serve` |
| `Handle`, `Subscribe`, `Unsubscribe`, `Invoke`, `Resume` | `_handle`, `_invoke`, `_subscription`, and the answer that comes later |
| `StreamPushes`, `Wake`, `Forget` | `_stream`; its start or cancellation; the done callback |

`overtaken` is a history variable: the jobs for which the callback of a cancelled task popped the entry
of the stream that came after it.

### ClientStream

The iterator of `client.ts` over the server's `EventStream`. `iterator` has the place and the counters of `events`
and `streamOnce` (`seen`, `delivered`, `attempt`) and what was handed out. The job emits, and is swept even while it runs, after
which the store numbers its events from 1; sockets drop with what was under way; the server dies and fails
what is unfinished. `recorded` is a history variable, every event of the job whatever became of the log. There
is one job and one reader (`ClientAssumption`): an iterator follows one job, and its sockets come one
after the other.

### SolverLoops

Each of the sixteen adapters is a short program of checks, reports, pieces of work and loops, in the
order of its `solve`; a residual is `small`, `large` or `nan`. `PyMax` is Python's `max`, which
drops a `nan` in second place. `Converged` is what the adapter says of itself, and `Return` what
`check_declared_convergence` makes of it. `noted` is a history variable: whether a loop ended short of
its tolerance, met a `nan`, or went on after the cancel.

### GeometryEditor, ViewerPicture, ViewerGestures

One action per handler or setter of the element. In the editor a point is one coordinate. `line` and `here` are the outlines
the user went through and where in them the editor is, which is what undo and redo are
compared with; `spoilt` says that a call fell into a drag, or a click onto a full stack, two
cases in which the code loses a step or leaves a hole.

In `ViewerPicture` a cache has a key and what was computed under it, so that a stale layer can be told
from a fresh one; `Dropped` is what each attribute forgets and `Looked` what a paint takes from a
cache. A paint is put off to the next frame (`pending`). In `ViewerGestures` the browser is
external (`touching`), with one device at a time and two fingers at most. `Viewer` puts the two side
by side: a gesture reaches the picture through a call of `#applyViewport`, and `ViewerPicture` lets
that call come at any time, whatever the pointers do.

### FieldQueries

Everything here is a function of a result and a question, computed in one step (`Ask`, `FillMetrics`), but
for the hotspots, whose loop takes one (`PickHotspot`) for each, since points of equal value may be
sorted in any order. Coordinates and values are integers and every answer a fraction, so that
interpolation and quadrature are exact and can be compared with what they should be; the rounding of
floats is left out. The units are such that the steps of a grid are whole (`GridFits`), and triangles have an area
(`MeshFits`): the code divides by it, guarded by 1e-300, and the meshers make none without. A field may have any
length, and a mask any, since a stored result is read back unvalidated.

| TLA+ | code |
|---|---|
| `Unloadable`, `Values`, `Valid` | `load`'s refusals; the array; the mask, which counts only if it has the array's size |
| `Extremum`, `Mean`, `Integral` | the reductions of `fields.py`, with `DualArea` and `Quadrature` for their weights |
| `GridAtPoint`, `MeshAtPoint` | `at_point` on a grid (bilinear, the weights of masked corners given to the others) and on a mesh (the first triangle that holds the point) |
| `Budget`, `Section`, `Sample`, `Candidates` | the ceilings; `section`, `sample`, one turn of `hotspots` |
| `Unresolved`, `InRegion`, `OverRegion` | `_region_mask`, `region_selection`, `_over_region` |
| `HasRecipe`, `FilledMetrics` | the validator of `MetricSpec`; `fill_declared_metrics` |

### NamedBoundaries

The head revision of one geometry, under patches. What a client makes of an outline is external (`Edited`:
it moves, drops or inserts a point); what `Workspace.patch` accepts of that is `Accepted`, the
validators of `geometry.py`, and `Predicate` is what `boundaries.py` makes of a name.

| TLA+ | code |
|---|---|
| `drawn`, `former`, `asked` | the head, the revision before, the last name a solver resolved |
| `Crossing`, `SimpleOutline`, `InsideBounds` | `_properly_intersect`; the validators of `Polygon2D` and of the three geometries |
| `SpannedEdges`, `BoundariesFit` | `spanned_edges`; the validator of the boundaries |
| `Selects`, `Unresolvable` | `_resolve`, and the `KeyError`s it raises |

Coordinates are integers, so tolerances below one are zero, and a nested `all_of` is the set of the
selectors in it. A part is called by its name; the `region:` in front of that of a region is left out, and so no region is
called `outer` or `obstacle`. `Geometry` is what the schema alone says of a geometry, before any validator.

## 4. Runs

| Run | Instance | What it shows |
|---|---|---|
| `job_run` | 2 jobs (symmetric), 1 reader, 1 solver thread, 1 progress call, 1 crash, timeout, unstorable results | type; `DeliveryExact`; `VerdictAgrees`; `ProgressBeforeVerdict`; `Accounted`; `VerdictIsFinal`; the stream implements `EventLog` |
| `job_ends` | 1 job, 1 reader, 2 progress calls, 2 crashes, timeout, fairness | `EveryJobEnds`, `EveryStreamEnds` |
| `arq_workers` | 1 job, 1 worker, 1 reader, 2 progress calls, 1 death, 1 Redis fault, version skew | `VerdictIsEarned`; `DeliveryIsOrdered`; `VerdictIsFinal`; `EveryJobEnds` |
| `submission` | 2 processes (symmetric), 4 jobs, quota of 2, 1 key, no death | `QuotaOvershoot`; `FewSolves`; `ReuseCounted` |
| `shared_directory` | HTTP and RPC server, 2 jobs, 1 death, 1 expiry, fairness | `StrandedIsListed`; `EveryRowEnds` |
| `workspace`, objects | 2 callers, 2 owners, 2 objects, 3 revisions, 1 part, failures between all steps, fairness of writes | `OnlyTheHeadIsTorn`; `RevisionIsFrozen`; the files implement `ObjectHistory`; `AllocationEnds` |
| `workspace`, search | 3 jobs, 2 searches, budgets of 2 and 3, 3 evaluations to the tolerance, 1 sweep, 1 restart, fairness | `SearchIsSound`; `SearchEnds` |
| `workspace`, study | 2 variations, 2 revisions of the design, 2 runs, 3 jobs, 1 sweep | `TableShowsTheRun` |
| `workspace`, golden | 12 minima, 4 shapes, 3 tolerances, up to 11 evaluations | `MethodIsSound` |
| `workspace`, tables | 2 parameters, values 10, 11 and 20, lists of 3, 2 axes, 4 points, answers 0, 100 and 104 in any order | `ReadoutIsRight` |
| `workspace`, design | 2 load cases and a stranger, 5 case bodies, 2 geometries, 4 drafts, 2 patches | `ResolutionIsSound` |
| `edges`, reads and pages | 2 progress calls, pages of 1 and 2, 2 mishaps, 1 reader or 1 poller | `ReadsAreRight` |
| `edges`, rpc | 1 job, 3 messages, 1 push before the last, fairness | `ConnectionIsSound`; `ConnectionEnds` |
| `edges`, client | 1 job, 2 progress calls, 1 reconnect, 2 drops, 1 server death, 1 sweep, fairness | `ClientIsTold`; `IteratorEnds` |
| `edges`, loops | 16 solvers, caps of 2 and 3, cadences 1 and 2, frames 0 to 2 | `SolveIsHonest`; `ProgressGoesOn` |
| `edges`, editor | 2 domains, 2 undo steps, 5 points, 3 edits | `EditorIsSound` |
| `edges`, picture and gestures | 3 results, 1 viewport, 4 calls; 2 fingers and a mouse, 2 lines, 4 gestures | `ViewerIsSound` |
| `edges`, fields | 7 results, the questions of `Questionnaire`, 8 declared metrics, ceilings of 5 samples and 3 hotspots, linear fields with coefficients 0 to 3 | `FieldsAreRight`; `PlaneIsRight` |
| `edges`, boundaries | 5 drawings, 5 places for a point, 2 revisions | `BoundariesFollow`; `PlaneIsRight` |
| `late_progress` | 1 job, timeout | finding: progress is stored behind the terminal event |
| `memory_aliasing` | 1 job, memory store | finding: events are stored twice |
| `solver_bug` | 1 job, unstorable result | finding: a job stays `running` for good |
| `redis_reorder` | 1 job, no fault | finding: a live reader drops an overtaken event |
| `shared_reconcile` | HTTP and RPC server, 1 job, 1 death | finding: a server that starts fails another's job |

The properties.

- `DeliveryExact`: at every moment, what an attached reader was handed, what it has yet to replay
  and what is queued for it are together the stored log, nothing twice. This is what "attach first,
  then replay, then filter by number" is for, and a test would need an event at the right
  suspension point.
- `VerdictAgrees`, `VerdictIsFinal`: the log announces at most one verdict, the one in the row, and
  a stored verdict is never rewritten by a late timer, thread, cancel, second try or reconcile.
- `ProgressBeforeVerdict`: what the gather is for.
- `Accounted`: between two loop segments the live entry, the cancel event and the coroutine of a
  job exist together or not at all, and a row without them has a verdict.
- `VerdictIsEarned`: `VerdictAgrees` and `ProgressBeforeVerdict` in the distributed deployment, where a
  worker may die and its job be handed out again.
- `DeliveryIsOrdered` (`OnlyTheBusLoses`, `SeenInOrder`): over Redis delivery is not exact, but whatever a reader lacks
  was lost or overtaken on the bus, and it never sees anything twice or out of order.
- `OnlyTheHeadIsTorn`: the revisions of an object are dense and everything below its head reads
  back, whoever died where. It is what makes a history out of files that are written in two steps.
- `RevisionIsFrozen`: a pinned reference means the same content for ever. It would take two callers at one
  revision to break it.
- `HistorySpec`: the readable revisions of each object grow by creations and by patches of the last one,
  by its owner. A lost update is a revision that is no patch of the one before it.
- `AllocationEnds`: a creator that loses its number moves on to one that is free.
- `QuotaOvershoot`: the quota is read in one transaction and the row written in another. Each other
  process can let one job through on a count that is out of date, and no more.
- `FewSolves`: likewise, equal submissions attach to one solve except for those that looked before
  any of them was stored.
- `ReuseCounted`: a row's reuse count is the number of submissions it answered, though the record a solve puts
  back was read before them.
- `StrandedIsListed`: whoever dies and whenever, an unfinished row without a solver is on the list of a
  process that starts, or will be.
- `ReadsAreRight`: a caller who waited is not told to wait, a `done` job has its metrics and its arrays,
  and `not found` is said only of a job that was swept; a poller reads the log in order and is told it is final
  with the verdict and not before. Two kinds of call are excepted, those whose files were removed and those that were handed the
  live entry while `absorb` was filling it (section 6).
- `SearchIsSound`: at most one driver works for a revision, no stop of an earlier search is
  remembered beside it, and the report, rebuilt from the jobs alone, gives the answers and the reason the search ended with.
- `TableShowsTheRun`: a report made after a run shows the jobs the run named, and says `complete` only when
  they are over.
- `MethodIsSound`: the bracket always holds the minimum and the best point seen, no point is asked
  for twice, every answer after the second narrows the bracket, and the search stops at its tolerance, not an
  evaluation late.
- `ReadoutIsRight`: a ladder settles at the lowest value after which nothing moves, all rungs being
  answered; a grid has each combination once, and every answer is drawn once, at its place.
- `ResolutionIsSound`: whatever is patched meanwhile, the revisions a job records give back the conditions it
  was given, or refuse it again for the same reason.
- `ConnectionIsSound`: every request is answered once, also those in flight when the input ends; a
  stream is held by the connection while it lives, one per job; after an unsubscribe is answered its
  stream is silent. The callback that takes its successor's entry is excepted (section 6).
- `ClientIsTold`: across reconnects, drops and server deaths the iterator hands out every event in order and none
  twice, and gives up only after more losses than it may reattach for.
- `SolveIsHonest`: a result that says it converged met its tolerance in every relaxation and step, a
  capability that declares `fail` returns nothing short of it, and a cancelled solve does one piece of work more at most.
- `ProgressGoesOn`: progress never goes back nor past its total, through relaxations, stages and steps.
- `EditorIsSound`: everything shown or undone to lies in the domain, and undo and redo walk the outlines in
  order, one drag a step.
- `ViewerIsSound`: with no paint to come, each layer on the canvas is the one that would be computed afresh; an
  abandoned section is put back, whatever the pointers and the page did meanwhile.
- `FieldsAreRight`: what a mask hides changes no answer and no metric, whatever the filler; a value that
  is read lies between two that were solved; readings are in order, and a section accounts for every point it was asked
  for; hotspots are apart and none is passed over for a lesser one; a declared metric is missing only if there is nothing
  to reduce; at a point and along a section, interpolating a linear field is exact (`InterpolationIsExact`). Where a grid has
  one line of points it knows no slope across it, and a field that has one is read as if it had not.
- `BoundariesFollow`: a name selects the edges whose two ends it names, from end to end; an edge that an
  edit left alone is selected after it if it was before; no radius is negative; a name that means nothing
  fails aloud.
- `PlaneIsRight` (`IntegrationIsExact`, `RegionsAreRight`, `RegionsAreClear`): what the two rest on in the plane. The
  quadrature of a linear field is exact; a point left of every edge of an outline is inside and one right
  of some edge of a convex one is not; regions that run counterclockwise are apart or nested.
- `EveryJobEnds`, `EveryStreamEnds`, `EveryRowEnds`, `SearchEnds`, `ConnectionEnds`, `IteratorEnds`: below.

Bounds. Two jobs on one thread make them compete for the slot, wait for it past the timeout and be
dropped while waiting. One progress call per job is enough for the race of an emit with the
verdict; order between two of a job needs the two of `job_ends` and `arq_workers`. Jobs do not
share a log and readers do not interact, so a second reader adds nothing a first one cannot
meet. One crash may fall at any step, the second of `job_ends` inside the reconciliation of the
first. In `arq_workers` one worker is enough because arq's queue is where a second one
would take the job from, and after a death the one worker stands for its replacement. `MaxRestarts`,
`MaxDeaths`, `MaxFaults` and `MaxProgress` are the only bounds on counters.

In the objects of `workspace` two callers are enough to contend for an id and for a revision, and a third meets the
same two outcomes of `mkdir` and `O_EXCL`. A stale head needs two revisions and the one they both
want, hence three. Two ids let one creator pass another. `MaxObjects` leaves room for the
creators that are already searching, so that the search itself is not cut off by the bound.

In `submission` two processes are enough to overtake each other between any two transactions, and four
jobs against a quota of two leave room to pass it by more than the one the property allows.
Deaths and expiries are 0 there, because both properties are about statuses as the solvers left them: a job
that another process' start failed wrongly, or a sweep removed, enters the counts again with its
next put. `shared_directory` has one of each. `MaxJobs`, `MaxDeaths`, `MaxReuse` and
`MaxExpired` bound the counters; `Look` keeps a number free for every submission that may
still make a job.

In the search, one search that is over and one that follows it are what the remembered stop is about, and three
jobs let a search end in each of its four ways, the tolerance included. A second purge or restart does
what the first did. For the study two revisions of the design and two runs are where a report can take one for the other.
The minima of `golden` are the ends, points the method asks for (where two answers tie) and points between
them; after 11 evaluations the bracket is under a hundredth. The values of `tables` hold two that print alike, and its answers
a zero, a small change and a large one. Two patches move any two of the objects a design names between the reads
of its references.

Two mishaps in `reads` are a sweep and a restart in either order, or a file that goes while another call is
under way. Three messages are a subscribe, an unsubscribe and a subscribe, the shortest sequence in
which a callback is late. Two drops against one reconnect take the client past its option, and a death makes one
of them. Caps of 2 and 3 with a cadence of 2 put the last sweep on and off the cadence, and more frames than
`MaxFrames` can be due. Three edits overflow two undo steps, or are an edit, its undo and an edit over it
(`EditorSound` is proved for any number); four calls change a result, a setting and a viewport between two
paints; four gestures are a pinch that begins and ends beside a drag.

The results of `fields` are grids with no mask, with part of it and all of it masked, with a mask that does not
fit, a row high, and two meshes, one of which covers its square; the questions put a budget on either side of each
ceiling, and points in the domain, on its edge and outside. The drawings of `boundaries` have a hole, two regions side by side, a region in a region and
a section that touches its axis, and two edits let an insertion follow a removal.

Deadlock is checked in every run but `workspace` and `edges`. In the others before the first
submission a job can be submitted, after it a reader can open or leave a stream, a server that is
starting can go on starting, and an HTTP server can always sweep. In those two a part really stops: a
search is over, a design is resolved, a solve returned, a connection closed, or the bound on calls is
reached.

The types of `Submission`, `Objects` and `ArqWorkers` are proved for every value of the constants (section 5) and not run.

Fairness. The loop goes on running ready coroutines (`LoopStep`, `StreamStep`), the timer of
`asyncio.wait_for` fires (`ResumeTimeout`), a process that died is started again and its
lifespan completes (`StartupStep`); in `ArqWorkers`, arq and the worker's loop go on and a
publish is answered. In the objects of `workspace` a caller
that is writing takes its next step; it may always fail instead (`GiveUp`), and nobody has to begin
anything. In `Submission` a process' loop goes on (`LoopStep`), which includes that a process that died is
started again. A solve's steps need strong fairness: the loop is kept from them each time it handles
a submission, but it takes ready coroutines in order, so a solve that is ready again and again gets its turn;
that it ends rests on the timeout. Submissions and sweeps may stay away.
In `Search` the loop runs the driver (`SearchStep`) and a solve that is not broken ends, which is what `EveryJobEnds` says of `JobRun`; in
`RpcConnection` the loop turns, a call that awaits the core is answered, and the peer reads or its pipe breaks; in
`ClientStream` the iterator and the server's stream go on, while the job need not. Nothing is assumed of a solver thread, the pool, a client or a further
crash. `EveryJobEnds` therefore rests on the timeout: with `FENIXSPOON_JOB_TIMEOUT` at 0 a solver
that never ends keeps its job for ever, by design. `EveryStreamEnds` excepts one case (`Silent`): the
process died after the verdict was stored and before its event was, and reconciliation passes over a row
that is terminal; a stream on such a job waits for ever. In `ArqWorkers` a job may also come to
nothing in the ways `Stuck` names: never enqueued, refused by validation in the worker, broken by
a publish that failed, lost with its worker. Nobody reconciles those rows.
`SearchEnds` excepts a search whose job stays `running` for good, for `_settled` has no deadline of its own.
`IteratorEnds` excepts a stream that was open when the sweep took its job: the events after it are numbered
from 1 again, and the server drops them as old.

## 5. What is proved

`JobRunProofs` proves, for any set of jobs and readers, any number of workers, restarts and
progress calls:

- `TypeCorrect`: `Spec => [](TypeOK /\ VerdictStored)`.
- `DeliveryInvariant`: `Spec => []DeliveryExact`.
- `PrefixDelivered`: `Spec => []SeenIsLogPrefix`.
- `StreamImplementsEventLog`: `Spec => StreamSpec`, the in-process stream implements the abstract
  log under the identity mapping on `log`, `reading` and `seen`.

The last three assume `~MirrorAliased`, that is the SQLite store; `memory_aliasing` shows that
they fail without it.

The argument (lemmas about events, logs and readers alone are in `EventStreamProofs`, shared with `ArqWorkersProofs`). `TypeOK` is inductive together with `VerdictStored` (a coroutine that is about to
announce the verdict has one stored), which is what makes the event of `EmitVerdict` an event.
`DeliveryExact` is not inductive by itself: reconciliation records an event without publishing it,
which an attached reader would miss. `DeliveryInv` adds the types and `Unread`, that no stream is
open while the server is starting. `Covers` is what carries the weight:
it ties the number a reader counts to (`replayed`) to the length of what it was handed, and every
queued number to its place in the log. A publish appends the next log entry to the log and to the
queue of everyone attached, so it extends both sides of `Covers` by the same event; a replay or a
live step moves the first event across; the filter of `ReceiveNext` never drops anything here, because
the in-process bus cannot run between attaching and reading the history (it is `ArqWorkers` that needs
the filter). The refinement follows from the
same fact: the event a reader is handed next is the log's entry at the next place. Lemmas about
`Covers` alone (`CoversOpen`, `CoversRecord`, `CoversReplay`, `CoversReceive`) are proved once and used by every action.

The module goes on to the verdicts, over the same constants:

- `VerdictsAreFinal`: `Spec => VerdictIsFinal`.
- `EntriesAreAccounted`: `Spec => []Accounted`.
- `OneVerdictAnnounced`: `Spec => []VerdictAgrees`.
- `ProgressIsFirst`: `Spec => []ProgressBeforeVerdict`.

The last two assume `~MirrorAliased`. `RunHolds` says what the row holds where the coroutine is, so that only
a coroutine that awaits, or the reconciliation of a row without one, can write a verdict, and never over
another. `Kept` follows the live entry and the cancel event through the interval in which they are dropped,
where `Accounted` itself says nothing. `Unannounced` says that a log without a verdict belongs to a job that is
still to announce it, which is what keeps a second one out. `FlowOf` follows every progress call
from the thread to the log: what is logged, what is pending, what is posted and what the thread has done are together
`1..steps`, and the gather's count `left` covers what is pending, so that nothing is on its way when it ends.

`ArqWorkersProofs` proves, for any jobs and workers, any finite set of readers, and any
number of deaths, faults and tries:

- `ArqTypeCorrect`: `Spec => []TypeOK`.
- `ArqVerdictsAreFinal`: `Spec => VerdictIsFinal`.
- `ArqVerdictsAreEarned`: `Spec => []VerdictIsEarned`.
- `ArqDeliveryIsOrdered`: `Spec => []DeliveryIsOrdered`.

`Staged` ties the row, arq's tries and the place of the coroutine together: a job that is handed out a second time
finds its row `running` or ended, and `max_tries` keeps it from being solved again. The verdict's argument is then that of `JobRun`, with
the publishes that are under way added to the flow. For delivery, `OnWire` says that a publish carries
its event's place in the log. Of a stream, `Feed` says that the queue holds what arrived in order
or was noted as overtaken, `Placed` and `Past` that what was handed on is a subsequence of the log
up to the number replayed or received, `Replaying` that the history is the log from there on, and `Lossless` that every
event of the log is handed on, to be replayed, queued, on the wire or noted as missed. A delivery that is
overtaken leaves the first of these and enters the last at the same step, when its successor arrives.

`SubmissionProofs` proves, for any finite set of processes, any owners and keys and any bounds, deaths
and expiries included:

- `SubmissionTypeCorrect`: `Spec => []TypeOK`.
- `StrandedJobsAreListed`: `Spec => []StrandedIsListed`.
- `ReusesAreCounted`: `Spec => []ReuseCounted`.
- `QuotaOvershotByFew`: `Spec => [](Undisturbed => QuotaOvershoot)`.
- `SolvesAreFew`: `Spec => [](Undisturbed => FewSolves)`.

The argument. `NumbersLeft` keeps a number free for every submission between lookup and row, which is
what makes the row of `Save` a row. `DeadIsIdle` says that a process that is down is in the middle of
nothing; without it the witness of a stranded row could be a process that is down and listing, and its
start would lose the row. `StrandedStays` covers the steps that neither shorten a list nor strand a
row; death, start and the steps of the reconciliation are argued one by one. A put leaves
the reuse count of a row that is there alone and starts an inserted one at nought (`PutTypes`), so it cannot
part the count from `hits` (`PutCounts`).

The last two hold until a process dies or a job outlives its time to live (`Undisturbed`, which is how the run
`submission` is bounded, and here is said of a state instead). Afterwards they are false: the reconciliation of
another process, or a sweep, takes a row out of the counts while its solve goes on, and the next put
brings it back, when more may have been admitted. `RowsFollow` says that this has not happened: a coroutine's
row is there and unfinished. `QuotaRoom` counts, beside the active jobs of an owner, the submissions that have
passed the quota and are not stored: a process joins them only when the active jobs are below the
quota, and there are no more of them than processes, so the sum is below the quota plus the number of processes, and
storing a row moves one from the second count to the first. `CacheRoom` does the same for the solves of one
address and the submissions that have missed the cache: the first to ask is counted when there is no row, and
from then on the sum only falls.

`WorkspaceProofs` proves, of the objects, for any finite set of callers, any owners and parts and any bounds:

- `ObjectsTypeCorrect`: `Spec => []TypeOK`.
- `TornOnlyAtHead`: `Spec => []OnlyTheHeadIsTorn`.
- `RevisionsAreFrozen`: `Spec => RevisionIsFrozen`.
- `ObjectsImplementHistory`: `Spec => HistorySpec`, under the mapping `Kept`: the history of an
  object is the versions of its readable revisions, from the first on.

The argument. None of the three is inductive alone, because a call carries what it read across several
steps. `CallsOK` says what it may rely on: while it waits to open revision `r`, all revisions below `r` are
whole and its version is a patch of revision `r - 1` (`Follows`). Other callers cannot
disturb that, since files only grow (`FilesGrow`: a file that exists keeps its version, and one that is whole
stays as it is), so `Follows` is kept by everyone's steps and used at the moment of the write, which
is the step that the abstract `Create` or `Patch` takes. `FilledByOne` says that the caller that created a
file is the only one filling it, which is what `O_EXCL` is for and why filling cannot tear a
whole file. `DirectoriesDense` and `RevisionsDense` say that the scans find the end of a
gapless range; the first also counts the creators that are searching (`RoomStays`), which is what
bounds the numbers they can reach.

And of designs, searches and studies, for any load cases, bodies and drafts and any number of patches, for any number of
searches, jobs, purges and restarts, and for any number of variations and runs:

- `ResolutionTellsTheTruth`: `ResolutionSpec => []ResolutionIsSound`.
- `OneSearchAtATime`: `SearchSpec => [](OneSearchPerKey /\ StopIsCurrent)`.
- `SearchSound`: `SearchSpec => []SearchIsSound`, with that the report tells what the search was told.
- `StudyTellsTheRun`: `StudySpec => []TableShowsTheRun`.

A patch only appends, so a revision that was read stays what it was: `Followed` says that each pin names the body that was read at
its place, and `Merged` and `Answered` that the conditions and the verdict were computed from those
bodies. `MergeKeepsAll` is the fact about `merge_load_cases` it rests on: bodies that do not conflict all appear in their merge.
For the search, `SearchInv` counts a task whose callback is still to run as engaged, which is why a late callback cannot pop
the entry of the next search.

That a replay gives back the run rests on what the jobs keep. An answer is `Traced` when each step of the way to it is the
metric of a job at the point reached by then; of two jobs at one point the older has come to nothing (`NewestCounts`), and
where the address decides, both have the one answer (`SameAnswer`), so that two traced ways of one length are one way
(`TracedIsOne`) and the job that a replay finds is the one the search was told by (`FoundByAddress`). Without an address
only a first search can be replayed: its jobs are `Dense`, the i-th recorded index i - 1 (`FoundByInput`). `Verdict` says why a
search ended, and `CameToNothing` why, after a refusal, the replay stops where the search did. The replay is a recursive
function, and a prover is given its unfolding and nothing else. That there is a function that unfolds so
(`ReplayUnfolds`) is proved from `RecursionWorks`, which builds it out of finite approximations; and what holds for every
number is proved for the set of numbers for which it holds (`EveryNumber`, by the least number outside it), since the
induction theorems of the library take an operator and cannot be instantiated.

For the study, a receipt names for each variation the newest job that solves it (`Names`), and of the jobs of one variation
all but the newest came to nothing (`OnlyNewestAnswers`). So the job that a report finds by address is the one the receipt names,
or there is none and the report takes the oldest by index, when both have failed. Without an address the jobs of a first run are those the receipt names and
no others (`NamesAll`), so the index finds the same.

And of the method of a search, for any unimodal objective with its least value in the bracket, any slopes and tolerances, any
number of answers and any units that are fine enough for them:

- `MethodSound`: `GoldenSpec => []MethodIsSound`.

Positions are pairs, and every pair the method makes is a point of the bracket plus a power of 1/phi (`Framed`): after n
turns the bracket is one n-th power wide and the two inner points divide it by the next two, which is all the geometry
there is. `FrameNarrows` is one turn of the loop. `Ready` says that of the points asked for none but the two inner ones is inside
the bracket, and that the least value is; `Waiting` that one of the two is still to be asked for. A turn leads from the first
to the second (`NarrowingWaits`: where the answers tie, or differ, the side that is dropped cannot hold the least value of a unimodal objective) and an
answer back (`AnswerReadies`). So the next point is strictly inside and differs from all that were asked for (`NextIsNew`).
`GoldenInv` says this of every beginning of the answers (`Good`), for the points asked for are found again by replaying those.
That the loop, a recursive function, is defined and unfolds is `WalkUnfolds`, by `RecursionWorks` as above.

And of the bodies of studies, for any parameters and values, any number of axes of any length, any cap on their points and any
answers so far, in whatever order they came:

- `ReadoutSound`: `TableSpec => []ReadoutIsRight`.

The invariant (`TableInv`) is only that there is room for one answer to each variation; the rest is what the tables are, whatever
the answers. The combinations of a grid come in rows (`CombosAfterFirst`): a row for each value of the first axis, and in it the
combinations of the others, each at its place. Which row and which place a point has is the quotient and the remainder
of its number (`RowsOf`), so that there are as many points as the product counts (`CombosAre`), and where the values of each
axis ascend, no two of them are alike (`CombosDiffer`); both by induction over the number of axes. The points of one trace are
those at one place of all rows (`OnLineIs`), which is why a trace runs from left to right (`CurvesRise`). `AnswerAt` gives the answer drawn at
each place of each curve, and is one to one (`DrawnOnce`) and onto (`AnsweredIsDrawn`). At least two rows leave at most half as many traces as
there are points, which is the most a drawing may have (`SweepIsGood`). `InOrderIs` puts a finite set of numbers in
order. For a ladder, the rungs after which nothing moves are the candidates of the property, and the first of them is the
lowest (`LadderIsGood`).

`ConnectionProofs` proves, for any jobs and any number of messages, pushes, sweeps and restarts:

- `ConnectionSound`: `RpcSpec => []ConnectionIsSound`.
- `ReadsRight`: `ReadsSpec => []ReadsAreRight`.

A message that was read is in one place: its handler is among what the loop has `ready`, or it waits for the core, or it
was dealt with (`NothingForgotten`, `AnsweredOnce`); the pump is told to stop only when nothing is left in the first two
(`NoneComesLast`). `InOrder` says that the handlers that are ready come in the order of their messages, behind
all that have run, so that what an unsubscribe finds was begun by the messages before it;
`StoppedByUnsubscribe` is then that it leaves none of those alive. `StreamsAreHeld` is inductive with these, but
for the job whose entry a late callback popped (`Forget`, `overtaken`).

Of the reads, `WriterIs` and `RowIs` say what the live entry, the row and `result.json` hold at each step of the one
writer, with the restart as one of its ends. `EntryIs`, `CopyIs` and `ReaderIs` say what a call that has looked may
still rely on: one that holds the live entry sees it filled unless it came during `absorb`, one that holds a copy
of the row has a verdict that no step takes back, and whoever is past a check has what it checked for. These
do not follow from the state alone, since the row and the file may have gone meanwhile, and it is `purged` and `removed` that
record it. An answer that was right stays right (`Right`). For the pages, a log only grows until it is swept, so each
page goes on where the part before it ended.

`EdgesProofs` proves, for any number of events, reconnects, drops and server deaths, for any widths and limits, and for any
results, viewports and fingers:

- `ClientTold`: `ClientSpec => []ClientIsTold`.
- `EditorSound`: `EditorSpec => []EditorIsSound`.
- `ViewerSound`: `ViewerSpec => []ViewerIsSound`.

For the client, `Told(base, old, early)` names three numbers: how many events the sweep took, and how many of those the
present socket brought, and of those handed out, came before it. With them each event in the log, in the stream's queue, off the socket
or handed out has a place in the record (`At`, which is strictly increasing), and order and uniqueness follow from the places.
The stream that was open when the sweep came is described apart (`CoversSwept`), for its queue holds events under
two numberings: first those still to be replayed under the old ones (`StillOld`), then only such as will be dropped
or are behind all that was handed out (`AllNew`). `LossesCounted` is why the iterator gives up only when
it may. In the editor, the undo and redo stacks are the two ends of `line`, index by index
(`StacksAreTheLine`), where a handle that is pressed has pushed its step ahead; inserting and removing keep an
outline whole. In the viewer, a cached layer was computed from the present result and from what its key says
(`CacheIsRight`), so that a paint that finds its key finds what it would compute; a pointer whose gesture is
claimed is down, at most two are, and a pan or a drag belongs to one of them (`GestureInv`).

Assumptions on constants are named in the module that declares them and are evaluated by every run of that
module: bounds are numbers, the null values are outside the sets they are added to, the references of a draft
are references. `Readers` of `ArqWorkers` is assumed finite, for the maximum over them; `ClientStream` has
one job and one reader; `Widths`, the domains an editor may be given, has a greatest one.

`SolverProofs` proves, for all sixteen adapters and any caps, cadences and rates of frames:

- `SolveHonest`: `LoopsSpec => []SolveIsHonest`.
- `ProgressOnward`: `LoopsSpec => ProgressGoesOn`.

A program carries two numberings of its instructions. `Leeway` bounds the pieces of work that may lie before each since
the cancel was last looked for, and is at most two at the end of each of the sixteen; `Mark` bounds the progress
reported before each. `AdaptersBehave` gives both, one adapter at a time, and from there on the proof speaks of any
program that has them (`Behaved`). `OverrunIsShort` and `ProgressIsPlaced` say that a solve keeps within them wherever it
is, and within a loop that the progress shown is at most the sweeps done. `ShortIsSeen` says that what fell short, in any
sweep of any loop, is in what the adapter will look at when it is done: the last residual, the count of capped
steps, or (`StagesAreKept`) the residual of one of the two relaxations, of which the second is never `nan`; where half sweeps
are folded, a `nan` is the exception, as the property says. `ClockIsShared` says how far the clock of
`mock.laplace2d` is at each place, so that the second relaxation reports beyond the first and the last sweep is told.
Newton's adapter has no `Mark`, which is why the property leaves it out.

Of names, for any geometries the schema takes, any places, edits and number of revisions, and of fields, for any grids, meshes,
masks, fillers and questions, any ceilings, coefficients and declared metrics:

- `BoundariesAreFollowed`: `BoundariesSpec => []BoundariesFollow`.
- `FieldsRight`: `FieldsSpec => []FieldsAreRight`.

`BoundsInv` says that what is drawn has passed what the validators ask (`Drawable`, the part of `Accepted` that matters) and
that the last answer was worked out from it. What follows is about one edge: a selection by ids holds the middle and the ends of
exactly the edges both of whose ends it names (`SpannedAre`, `PointsSelect`), and so an edge that stays is
selected when its ids are (`EdgeSelected`), in the drawing of twice the size in which middles are points (`Doubled`). That a
selection is never empty rests on the validators having found an edge in it, after every edit anew (`SomewhereSelected`).

`FieldsInv` says that an answer is what the result says, or that a search for hotspots is on its way or over. `Searching` is the
invariant of its loop: the picks are solved and apart, and none is less than what is still far from all of them; the loop ends with
its budget or with nothing far (`PicksEnd`). Means and integrals are folds over finite sets: `SumsAre` follows such a fold through the subsets of its
set, with a function that is built as the recursion lemmas build theirs, and gives what a sum is when a member is taken out. A mean therefore
lies between the extremes (`MeanIsAmid`, `MeshMeanIs`) and does not depend on what is left out of it (`SumsAgree`). On a
grid, `CellIs` finds the cell of a point and `CornersBlend` that its weights, those of masked corners left out, are not
negative and that the blend lies between the corners that count, a row or column alone included; on a mesh, `MeshPointIs` does so with the
weights of a triangle. Two results that differ by fillers only (`Agree`) give the same answer to every question (`AnswerAgrees`) and
the same metrics (`MetricsAgree`). Of a linear field with any whole coefficients, `SideSlopes` finds that the two weights of a side bring
a slope to where the point is, `FourExact` puts two sides together, and `TriangleBrings` is Cramer's rule for the weights of a
triangle. `AscendingIs` puts the members of a set of numbers in order, and `EvenIs` and `TakenIs` follow the
even picks of a sample from the first to the last.

What is assumed there is what the schema says of a geometry, of a result, a question and a metric (`Geometry`, `Payload`, `Query`,
`MetricSpec`), and the units of section 3.

Only model-checked, and why:

- every liveness property: fairness and `ENABLED` are out of this prover's reach;
- `PlaneIsRight`: what lies in an outline is the parity of crossings, which is induction over the outline's edges; that
  quadrature is exact is a sum over all points worked out, and on a mesh rests on its triangles covering the rectangle; and that outlines which do not cross are apart or
  nested is plane geometry of its own.

## 6. Findings

1. `late_progress`. `execution.py:139` promises that the terminal event is genuinely last. After a
   timeout the thread goes on, and progress it reports is stored behind the verdict. Readers that
   were there stop in time; the stored log is not what the comment says.
2. `memory_aliasing`. With `MemoryJobStore` every event of an in-process job is stored twice.
3. `solver_bug`. `store.put` after the try block raises for a result JSON cannot hold: no verdict,
   no event, and the live entry stays.
4. `redis_reorder`. Progress tasks publish concurrently; a number that overtakes another makes the
   live reader drop the overtaken one, though the documentation says neither path has to be
   reliable alone.
5. `shared_reconcile`. `reconcile` (`jobs.py:409`) takes it that nobody is solving the jobs that are
   unfinished after a restart. On a data directory that another server uses, that server is, and its jobs are
   recorded as failed until they finish.

### Observed and excepted

The properties except the following, and the models show each as a state that is reached. A change to the code
may want to look at them. No text of the repository claims otherwise, except of the outlines below; that one has no run
of its own.

- `Job.absorb` (`jobs.py:165`) assigns the status before the result and the summary, to an entry that readers on
  other threads hold. For that moment a `done` job may be answered as `payload missing` or without metrics, and a
  failed one as not finished (`AnswersAreRight`: `torn`).
- `_record` looks for `result.json` and then reads it; a sweep in between makes the read raise.
- A sweep of a running job renumbers its events. A stream that is open drops them as old (`IteratorEnds`), a poller that follows `next`
  misses them (`PagesAreTheLog`: `purged`), and a search that polls the job dies without remembering why (`ObservePurged`).
- The client's `attempt` is never reset, so a long job may reattach so many times in all; an error event of the route counts as an event delivered.
- A design that pins nothing may resolve to a combination of revisions that were never the heads at one moment.
- `jobs_for_object` keeps the oldest job of an index (`core/service.py:567`). Where there is no content address, a study
  or search that is run again reports the jobs of the first run.
- A study whose reference names no revision is reported against the newest design, whatever the run used; a study
  that was not run, or half submitted, can be `complete`.
- A search that joined somebody's running job, which then failed, is reported by another job or by none.
- Unsubscribe and subscribe sent at once: the callback of the first stream pops the entry of the second (`rpc/server.py:217`),
  which can then not be cancelled, and may be doubled (`StreamsAreHeld`: `overtaken`).
- Two values of a sweep that print alike with `%g` give two traces of one name, which the series' validator refuses (`PrintAlike`).
- A field that turns into `nan` is reported as converged by the three red-black adapters that fold two half sweeps with
  `max` (`ConvergedIsMet`). Newton's count falls between two stage reports (`ProgressGoesOn`). A `save_every` that
  wants more than `MAX_FRAMES` frames fails late.
- In the editor a click at a full history loses the oldest step, and an undo, a delete or an
  assigned value in the middle of a drag leaves a hole or a step too many (`spoilt`). `readonly` set in the middle of a drag does not stop it.
- The viewer does not refresh its buttons when series are set (`unsynced`).
- Two clockwise outlines of one map may overlap along an edge and be accepted: an end that lies on the other
  segment counts as its right-hand side (`geometry.py:14`), which for them is the outside. The field's description says
  that partially overlapping outlines are rejected (`geometry.py:390`; `RegionsAreClear` is of counterclockwise ones only). Outlines that
  touch or fold onto themselves are accepted in the same way.
- Inserting a point between two named ones takes that edge out of a `points` selector until the new
  point is named too (`SelectionSurvives` is about edges that stay).
- `_region_mask` loads the field outside the `try` of the query, so a question over a region about a field that is not
  there raises instead of being refused (`Unresolved`: `crash`).
- Over a region of a mesh the mean is of the nodes, while `mean` of the whole weighs them by area; and a region
  is its outline's inside, the regions that lie in it included.

## 7. Not modelled

The numbers a solver computes, the rounding of floats and the meshers, HTTP and RPC wording, parsing and framing, authentication (a lookup), discovery and the static
declarations but for convergence, the command line, and shutdown of the backends: a process's death is modelled, its
orderly exit is the same or gentler. The quotas by hour, by bytes and by objects are counts read as the one on
jobs is. arq's own `job_timeout` and malformed Redis messages are left out, as section 3 says. Of the UI
packages, pixels, the readout, keyboard focus and the plot widget, which keeps the curves it is given and one hovered
point; of the gestures, a third finger and a mouse used beside a finger.
