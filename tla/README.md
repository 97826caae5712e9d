# A formal model of river-data-core's sync client

`river-data-core` is the library every river-data sync service is built on: a
process that enrols with the river-data API, is told by operators to pause,
resume or sync, and carries readings from a source (a logger export, a SCADA
database, a laboratory register) to the server.  This directory holds TLA+
modules of its logic, TLC configurations that check them on small instances,
and proofs, checked by TLAPS, of what matters most.

Paths such as `driver.rs` are relative to `src/client/` of the repository.

## The system's parts

| Component | State it keeps | Operations | What makes it hard |
|---|---|---|---|
| **Runner** (`runner.rs`) | pause flag and cadence (watch channels), a queue of 16 triggers, the event row in flight, the service id | enrol, heartbeat, handle a command, sync cycle, shutdown | three concurrent tasks; every report to the server may be lost; commands may be delivered twice |
| **Control plane client** (`control_plane.rs`, `river_data_client.rs:720-744`) | the session token, one copy in each client | enrol, heartbeat, any authorised call | the token rotates under requests in flight |
| **Cadence** (`runner.rs:45-56, 245-253, 379-396, 506-510`) | the cadence in the channel, the clock of the sync task | a change from the server, a tick, a cycle's end | three copies of one number, and a clock that several things restart |
| **Driver cycle** (`driver.rs:711-769`) | none of its own | instruments, curves, discovery, notes, readings, status events, in this order | one phase failing must cost no other |
| **Discovery** (`driver.rs:239-315`) | the hash last registered per stream; a latch | register what changed | a cache of what the server holds |
| **Readings, append** (`driver.rs:343-676`) | nothing across cycles: the server's cursor is the state | list, fetch past the cursor, ingest in chunks, stop at a failure | partial failure, late requests, a resync running beside the cycle |
| **Readings, windowed** (`driver.rs:60-99, 398-532`) | nothing across cycles: the server's digest is the state | claim a window, skip unchanged content, register annotations | a skip that forgets what failed beside the readings |
| **Chunked ingest** (`river_data_client.rs:86-113, 368-449`) | the call's own | sort, cut, send, stop | index arithmetic around runs of equal times |
| **Stream and curve lists** (`river_data_client.rs:172-231, 530-559`) | page number | page through a list | the list changes between pages |
| **Source audit** (`audit.rs`, `driver.rs:540-573`) | none | take the inventory, list what is registered, compare per group | the four answers are of four moments, and the sync task registers in between |
| **Replicate columns** (`models/replicates.rs`) | none | resolve columns to indexes | the backend must have them before it is asked for readings |
| **Models, errors, config** (`models/`, `error.rs`, `env.rs`) | none | (de)serialisation, parsing | none that a model checker reaches |

The server and the source are outside the repository.  They are modelled from
how the code uses them, and marked external in `PROJECT.json`.

How they interact.  The runner starts two tasks that live as long as the
process.  The *heartbeat task* polls the server, reconciles the pause flag, and
handles the commands it is given one after the other: `pause` and `resume` set
the flag, `trigger_sync` goes into a bounded queue, and anything else (a resync,
a source audit) is run inline by the service.  The *sync task* waits for its interval or for the
queue, records the cycle with the server, and calls `SyncDriver::sync`.  The
two tasks share the flag, the queue, the id of the row in flight, and the
server: a resync and a cycle may ingest one stream at the same time.  Nothing is
persisted by the process.  The server's cursor, digest, pause flag and command
statuses are the only memory across restarts.

## The modules

| Module | Models | State and actions against the code |
|---|---|---|
| `Chunks` | `group_safe_chunks` | where a chunk ends (`ChunkEnd`, on indexes, as the code does it), and what it is as a set of rows (`FirstChunk`) |
| `BatchedIngest` | one call of `ingest_readings_batched_with` | `Sort`, `SendWindow` or `SendChunk`, `ReplyOk`, `ReplyError`, `ChunksExhausted`; `sent` and `deferred` are the code's |
| `AppendIngest` | `sync_readings`, `sync_readings_once`, `ingest_fetched`, `resync_streams` for append-only sources, in two tasks | `StartCycle`, `StartResync`, `ListOk`, `FetchOk`, `ListOrFetchFails` (the retries), `SendChunk`, `Apply` (the server), `ReplyOk`, `ReplyError`, `Crash`; requests given up on live on in `stray` |
| `PrefixReplica` | nothing of the code: the promise of the append path | the source grows, the copy grows, the copy is always a time prefix of the source |
| `WindowedSync` | the same path for sources edited in place | the digest handshake (`ListOk`, `Skip`, `Send`), the server's ruling (`Rule`: admitted, with changed rows as proposals, braked, or refused), the people who decide (`Accept`, `Decline`, `LiftBrake`), `Annotate` |
| `Discovery` | `discover` and the latch in `sync` | `Start`, `DiscoverOk`, `Unchanged`, `Register`, `RegisterOk`, `RegisterRefused`, `RegisterLost`, `PassEnds` |
| `Runner` | `run`, `heartbeat_loop`, `handle_command`, `sync_loop` | the three tasks' own program counters (`main`, `hb.pc`, `sync.pc`), the queue, the flag, and the server's commands, rows and pause |
| `CommandLedger` | nothing of the code: the promise of the runner to whoever issues commands | a command keeps its place and kind; a sync command is decided only once a cycle was started for it, any other once and for all |
| `Cadence` | `clamp_interval`, the interval channel, the clock in `sync_loop` | the server's cadence (`wanted`), the one in an answer (`told`), in the channel, and the clock's `period`; `Reconcile`, `Reenrolled`, `ClockRestarts`, `Tick`, `CycleEnds`; time passes in units |
| `ControlPlane` | `heartbeat_loop` with both of the things an answer brings | `Session` and an instance of `Cadence` take their steps together: an answer has a token and a cadence, an enrolment starts the clock, the sync task calls within a cycle |
| `SyncCycle` | `SyncDriver::sync` and the runner's verdict on it | one action per phase (`SyncInstruments` to `SyncStatusEvents`), `ListAgain` for the way out after failed readings, `Finish` for the row; `Assign` and `AssignedOnceListed` hand over the replicate indexes; `broken` says which calls fail at the moment |
| `SourceAudit` | `source_audit`, `list_streams`, `list_standard_curve_keys`, `compare` | one action per call or page (`TakeInventory`, `ListPage`, `TakeCurves`, `ListCurves`, `Fail`), `Register` and `Deregister` beside them, and the report as operators on what was read (`Groups`, `Unregistered`, `Orphaned`, `Registered`) |
| `Session` | the two copies of the token, `enroll`, `heartbeat`, `send_authorized` | the heartbeat task (`HeartbeatSend` to `EnrolOk`, `GiveUp`), the calls (`Call`, `Serve`, `Resend`, `Return`) and the server's sessions; tokens are the set of those who hold the accepted one |
| `Ordered` | a list sorted by id, as `list_streams` asks for it | `Rank` and `Ascending`, which `SourceAudit` pages through |
| `MC*` | instances for TLC | model values and small sets |
| `*Proofs` | the theorems about the module they are named after | see below |

`AppendIngest` uses `FirstChunk` of `Chunks` where the code runs the whole of
`ingest_readings_batched_with`: that the index arithmetic takes exactly that
chunk is `MatchesFirstChunk`, checked in the run of `BatchedIngest`.
`AppendIngest` implements `PrefixReplica` under the mapping
`copy <- stored \cup refused`, and `Runner` implements `CommandLedger` under
`board <- Board`, the commands as their issuer sees them (`RunnerProofs`).

What is abstracted.  A reading is its time and replicate index, with a value
only where a correction matters (`WindowedSync`, where a row is a key and a value).  A digest is the content it digests, so hash collisions
are left out.  A `scan` bit stands for the two fields that differ between two
scans of unchanged content (`to`, `source_rows_read`).  A descriptor is one of
two versions.  Messages, counts, logging and progress reports are left out.

What is assumed of the server, which is not in the repository: it upserts what a
request carries and refuses inadmissible rows for good; its cursor only moves
forward, to the newest row sent or the newest accepted, it may be either; it keeps the last
descriptor registered; it persists the pause asked for when the command is
issued (`protocol.rs:19-20` calls the flag the "operator-desired pause state");
it delivers a command for as long as it is pending, several of them in any order,
and records whatever status it is sent.  A call that fails may have been applied or not; an ingest or a
registration given up on may also be applied later.

Of a windowed pass the server takes the new rows and withdraws the absent ones.
A changed row it leaves as it is: "A changed key is a proposal, not a correction:
the stored value stands until a person accepts it" (`driver.rs:440-441`), and
"Nothing is written for them" (`river_data_client.rs:29-33`).  The guide says
otherwise of the same server, that it "corrects changed values in place"
(`docs/sync-service-onboarding.md:306-309`, and so the repository's `README.md:127`):
the model follows the code.  (Under the guide's sentence every clean pass would end
with the source's rows at the server; in the model that takes a person.)
A server older than the proposals, for which `proposed` "reads as 0"
(`river_data_client.rs:32`), is one where every proposal is accepted at once.
A person may accept a proposal, decline it, after which the same change is not
proposed again, or leave it waiting; the comment says nothing of what a declined
change does to later passes, and that the answer stands is an assumption.  A pass that would disturb too much may be braked:
its new rows alone are taken until a person lifts the brake, which admits one such
pass (`docs/sync-service-onboarding.md:362-366`).  The server persists the digest of a
clean pass only, and people's doings never enter it (`:369-373`).  Whether a pass
with changes that wait counts as clean the repository does not say, so either may
happen: the digest is then that of the pass, or stays the earlier one.  An empty
claim over rows the server holds is refused.  Holds on single curated rows and
rejected rows are not modelled.

## The runs

| Run | Question | What it shows |
|---|---|---|
| `batched_ingest` | does the chunk arithmetic hold for every order, size and answer? | groups and audits stay whole, requests are contiguous, no longer than the batch unless one group is, and are the longest prefix of whole instants |
| `append_ingest` | can a failure, a retry, a late request or a racing resync leave a gap? | no: `NoGap`, `RequestsHoldWholeGroups`, `DeferredRefetched`, the refinement of `PrefixReplica`, and, once failures stop, every row is stored or refused |
| `windowed` | can a skipped, braked, lost or late pass leave a stale copy, or a change be forgotten that nobody decided on? | no, once people have decided, if passes come in order or full syncs go on; unchanged content stops being sent; annotations arrive if nothing fails or if full syncs go on |
| `windowed_lost` | is a failed registration of annotations retried, as `driver.rs:497-499` says? | **no**: the skip of the next cycle comes before the registration |
| `discovery` | does what the source describes end up registered? | yes with a pass every cycle and no lost answer, for a source that stands still, and with full syncs whatever happens; the cache is true unless an answer was lost |
| `discovery_stale` | is the cache always true, as `driver.rs:264-265` says? | **no**: a registration applied with its answer lost makes it false |
| `discovery_partial` | is a partial pass always retried, as `driver.rs:305-306` says? | **no**: a full sync's partial pass leaves an earlier latch closed |
| `sync_cycle` | can a failing phase cost another its turn, or a cycle be called completed that is not? | no: every phase whose own calls work has its turn, status events flow through an outage of the readings, and readings carry the curves and the replicate indexes handed over before them |
| `control_plane` | do rotation, expiry, revocation and lost or late requests leave the process with a dead token, or with an old cadence? | no: a copy lags, and a call is refused twice, only for a cause; a failing server starts no enrolment; the session recovers; scheduled cycles keep a full interval apart, go on, and end up at the operator's cadence |
| `source_audit` | does the audit report what is not so, when the list it pages through changes under it? | no, unless a stream is removed meanwhile or the server does not say how long the list is: `ListedUnlessRemoved`, `FindingsTrue` |
| `runner` | pause and resume across restarts, and the ledger of cycles | once a pause is reported completed no scheduled cycle starts, once a resume is, none is held back, until the contrary is asked for; a row stays running only by a failure or restart, one for each |
| `runner_live` | can the tasks block each other? | no: heartbeats go on with a full queue, every sync command runs, the pause flag converges |

The three runs marked **no** are expected to find a counterexample; each checks
one statement of a comment or a document, and is a finding of `PROJECT.json`.
The corresponding passing properties (`NotesArriveInTheEnd`,
`CacheIsTruthUnlessLost`, `StillSourceConverges`, `PassesConverge`) say what does hold.

What `windowed` promises of rows has two conditions.  *People decide* (`Ruled`): while
a change waits or a brake stands, the server differs from the source for as long as
nobody rules, and the pass may be sent in every cycle (`driver.rs:414-416`).  And *passes
come in order over a source that changes once* (`InOrder`), or *full syncs go on*.  Without the
second the digest may describe an earlier pass than the rows do: a braked pass takes
new rows, or a person accepts a change, and neither touches the digest.  If the source
then goes back to what it was, or a late or concurrent pass of other content comes
between, the digest matches, the cycles skip, and the rows stay as they are.  TLC
finds such behaviours when the condition is dropped.  This is the "drift the digests
cannot see" of `docs/sync-service-onboarding.md:374-375`, which the weekly full sync
repairs.

Further observations have no run of their own.  A full sync of a source with *late* rows
that fails half way leaves rows below the cursor; "so the next cycle re-fetches
the remainder" (`river_data_client.rs:356-357`) is then not so, since the next
scheduled cycle is incremental and starts at the cursor.  And on shutdown the
main task writes `failed` to the row in flight while the sync task may be
writing the cycle's outcome to it: nothing orders the two.
And a call made while the answer of a heartbeat is under way is refused twice:
the server has replaced the token, and "the token as it stands now"
(`river_data_client.rs:721`) is still the old one at the second attempt.
`RefusedWithCause` names this as one of the causes; the chunk that meets it is
deferred to the next cycle.

"Each cycle is one `sync_events` row" (`docs/sync-service-onboarding.md:88-89`)
is not so when the answer to `create_sync_event` is lost: the next attempt
(`river_data_client.rs:671-695`) makes a second row, and the first stays running.
`DeadRowsArePaidFor` says that one failure leaves at most one.  A re-enrolment
restarts the clock of scheduled cycles even when the cadence is the same
(`runner.rs:274`, against the comparison at `runner.rs:247`): a service that is
refused at every other heartbeat and has a longer cadence than that never begins
a scheduled cycle, which is why `TicksGoOn` asks for re-enrolments to cease.  It also asks for
the commands that start cycles to cease: each cycle resets the clock at its end
(`runner.rs:509`), so that commands that come faster than the cadence keep the
schedule from ticking, while their own cycles run.

The audit takes the inventory first: a stream that the source gains and the sync
task registers before the list is read is reported orphaned (`FindingsTrue`
promises of an orphan only that it was not in the inventory).  A list without a
`Content-Range` ends with its first page (`river_data_client.rs:221`), and the
curve list holds 10 000 keys at most: what lies beyond either is reported
unregistered.  A stream that moves from one page to the next is listed twice, and
counted twice in `registered`.

### Bounds

* `batched_ingest`: up to five readings over three instants, batch sizes 0 to 4:
  a cut inside a run, at its start, after a run longer than the batch, at the
  end, and size zero all occur.
* `append_ingest`: one stream (streams meet only in the order they are ingested
  in), two instants of up to two replicates, requests of two rows, two failures:
  enough for a failed chunk before a later one, a late request after a newer
  one, and a refused row inside a group.  The theorems lift every bound.
* `windowed`: two keys, two values, one annotation; a row with and without its
  annotation, its correction beside a new row, and an empty source; one change of the
  source, one failure; any number of passes, brakes and decisions.  One change is
  what `InOrder` allows: with two, and that condition relaxed to two, TLC finds the
  drift described above.  `windowed_lost` is the same instance.
* `discovery`: two streams, two versions, one stream refused for good, two
  changes, three failures.
* `sync_cycle`: one curve, stored at any moment, any set of calls failing at
  first, two calls that start or stop working or restarts, any number of cycles,
  without `rediscover_every_cycle`.
* `control_plane`: no bound on events; cadences of two and three units, a floor of
  two, and an operator who sets the cadence 0, which the floor raises, or none.  A clock tells time up to
  `Horizon`, the longest cadence there is, so the states are finite in number;
  beyond it a longer rest would not tell one behaviour from another.
* `source_audit`: four streams on pages of two, two curves on a page of one, two
  changes during an audit: a stream moves over the page's edge in either
  direction, a list is full, short or empty, and curves do or do not fit.
* `runner`: two commands, one scheduled cycle, two attempts at creating a row, a
  failing call, a restart.  The failing call may be an unreadable answer to the
  first attempt, which ends the attempts at once (`river_data_client.rs:683-686`), so a cycle
  without a row occurs although its row exists at the server.  `runner_live`: a queue of one (16 in the code), so
  that it fills with two commands and the cycle queued at the start; two
  failing calls, no restart.

`CHECK_DEADLOCK FALSE` stands in the runs where the bounds stop the system:
a finished batched ingest, or tasks that wait for commands or ticks whose
bound is used up.

### Fairness

The interval restarts the sync cycle for ever (`runner.rs:383-397`); every call
has a timeout (`river_data_client.rs:127`, `control_plane.rs:28`), so that a call
under way ends; a cycle or a service command is a finite series of calls; a heartbeat follows a heartbeat
(`runner.rs:221-222`).  The specifications therefore state weak fairness of the
start of a cycle and of each task's own steps.  In `AppendIngest` a resync has
no fairness at all, and late requests none.  In `WindowedSync` and `Discovery` a
late request is applied or lost in the end.  Failures, commands, edits and full
syncs are never fair.  In `Session` the end of a batch of commands is strongly
fair, since a command is a finite series of calls, each of which may keep it from
ending for a while; in `ControlPlane` so is the end of a cycle, and a change of the
cadence that the sync task is ready to see, since `tokio::select!` picks at random
among what is ready (`runner.rs:384-397`).  Time passes, and a clock that is due
ticks, under weak fairness; operators and outages have none, and the properties
say what they need of them (`<>[](up /\ granted)`, ...).  Where convergence needs full syncs, the property says so
itself (`[]<>full => ...`).

## What is proved

TLAPS proves the following for every value of the constants that their
assumptions allow (bounds are naturals, payloads are sequences of readings,
the refused rows are any set of rows).

* `BatchedIngestProofs`: `TypeCorrect`; `GroupsNeverSplit`, that no request
  boundary falls inside a replicate group; `RequestsContiguous`, that each
  non-empty request starts where the one before it ended.  Both rest on lemmas
  about `ChunkEnd`: it lies past its start, within the payload, and at the end of
  a run of equal times.  `AuditsStay` and `ChunksAreFirstChunks` need to know what
  a request was made of (`MadeInv`): a windowed one is everything, a chunk is
  `ChunkEnd` of where it starts.  An audited instant then lies within a request
  exactly if its rows do, since both its ends are clean cuts.  That the index
  arithmetic takes the same rows as the set operator `FirstChunk`
  (`CutIsFirstChunk`) follows case by case, along the three ways a chunk ends: at
  the size, back at the start of the run it would halve, or after a run longer
  than the size.  It is stated for payloads that name no row twice, as those of
  the run do: a set counts a repeated row once, the code as often as it stands
  there.
* `AppendIngestProofs`: `TypeCorrect`, `CursorLeavesNoGap`, `GroupsTravelWhole`,
  `DeferredIsRefetched`, `ImplementsPrefixReplica` and `ServerHoldsPrefix`.
  `NoGap` alone is not inductive: a request under way could carry the cursor past
  rows that are neither in it nor ruled on.  The inductive invariant `IInv`
  therefore says of all rows anyone may still send (a task's payload, an awaited
  request, a stray one) that they are `Sendable`: they come from the source, all
  the source has below them is in them or ruled on, and no instant is halved.
  `TaskInv` says so of the tasks (and that a fetch starts no later than the
  cursor, which only moves forward), `StrayInv` of stray requests, `ServerInv`
  that what the server ruled on is a time prefix and that the cursor stays within
  the source, `DeferredInv` that deferred rows come from the source.  `Sendable`
  is stable: the source grows only at its newest end and the settled rows only
  grow (`SendableStable`), so a request may land at any later time and in any
  order.  Applying one keeps the server's copy a time prefix (`StoreSound`), which
  is also the step of the refinement.
* `ControlPlaneProofs`: `TypeCorrect`, `CopiesLagWithCause`, `RefusalsHaveCause`,
  `EnrolsOnlyWhenRefused`, `CyclesKeepApart`, `ImplementsSession` and
  `NoChangeMissed`, for every configured cadence, floor and set of cadences an
  operator may set, as long as those of the configuration are positive and none is beyond the `Horizon`
  the clock tells.  Every step of the composition is one of `Session`'s or leaves
  it alone (`SessionSteps`), so the session is proved about by itself.
  `ImplementsSession` says the same of the fairness: what holds of the session
  alone, its liveness too, holds of the process.  `StaleWithCause` is not
  inductive alone: an enrolment follows a refusal, so one has to know that the
  task learns of a refusal only when its own copy is dead and the session has
  ended (`Heard`); nor is `RefusedWithCause`, which needs that a second attempt
  under way with a dead token is excused already (`ResentInv`).  `SessionInv` is
  all of these.  The clock needs only `ClockInv`: while no cycle runs, it is no
  further than the rest since the last one, since nothing resets the rest but a
  cycle, and a cycle's end resets the clock.  `NoChangeMissed` is the safety half
  of `CadenceAdopted`: the clock runs at the cadence in the channel, or a change
  of it still waits for the sync task (`ClockFollows`).
* `RunnerProofs`: `TypeCorrect`, `LedgerPaid`, `LastWordHolds`,
  `CompletedOnlyIfRun`, `VerdictIsFinal` and `KeepsLedger`, for any number of
  commands, ticks, faults and restarts, attempts at a row and size of queue.  The
  state must be known to be well-formed first: only a sync command or the schedule
  is a trigger (`Triggers`), a cycle closes the row it made (`Rows`), and a task
  of a process that is down has stopped (`Still`).  `DeadRowsArePaidFor` is not
  inductive: a shutdown is a restart that may leave a row, but leaves it only once
  the main task has exited.  `Paid` keeps one restart in reserve while it is
  closing; each step then leaves no new row open, or leaves one, that of the
  cycle, and is a failure or an end of the process (`PaidWhen`).  An answer to the
  creation that cannot be read is such a failure: the row is there, and the cycle
  runs without it. `LastWordSticks`
  needs `Pauses`: a pause or a resume that nothing to the contrary was issued
  after is what the server says (`Standing(c) => (serverPaused <=> Wants(c))`); an
  answer to a heartbeat that says otherwise left before the word was issued, so
  the word is still pending; a word to the contrary that was done before it was
  issued stays done; and what the heartbeat task is about to report is set.  So
  each time the flag is written while a word holds, it is written as that word has
  it: an answer that would undo it contradicts its being completed, and a command
  at hand that would undo it would have to be completed already, which `Inbox`
  excludes: a list of pending commands names each once, nothing was reported of
  those at hand, and no other task reports them.  No order of the list is assumed:
  commands to the contrary that are open at the same time settle nothing, and
  `Holds` says so (`behind`). `CompletedOnlyIfRun` is a result of the proofs
  alone: a sync command is reported completed only after a cycle was started for
  it, since only the sync task reports it, and it knows what it runs (`RunInv`).
  So is `VerdictIsFinal`, for every other command (`VerdictStays`, from `Inbox`), as
  long as no report arrives late: the model has none that do.
  `KeepsLedger` puts the two together: every step of the three tasks and of the
  server is one of `CommandLedger`'s, or leaves what an issuer sees as it is.
* `DiscoveryProofs`: `TypeCorrect`, `CacheHolds` and `LatchIsSound`.
  `CacheIsTruthUnlessLost` says nothing of the moment between the server applying
  a registration and its answer, when what it holds is ahead of the cache.
  `TruthInv` says what it holds then: for the stream whose answer is due, what is
  about to be remembered; and that nothing is on its way that nobody waits for,
  until an answer is lost. `LatchIsSound` is the safety half of
  `StillSourceConverges`: over a source that was never edited a closed latch means
  that all it describes is at the server as described.  It rests on `StillInv`:
  all that is on its way, held or remembered says what the source says, and a
  stream of the pass under way that is dealt with is remembered, or among those
  the pass missed, which keep the latch open.
* `SyncCycleProofs`: `TypeCorrect`, `MappingsFresh`, `CompletedIsComplete` and
  `EveryPhaseIsTried`.  The invariant has two halves: nothing has been said of a
  phase that is still to come (`SoFar`), and a phase that is over has done what it
  is there for or left its error (`Over`), so that a cycle without errors has done
  it all, and a cycle that gets to a verdict has tried every phase, the safety
  half of `NothingHeldBack`.
* `SourceAuditProofs`: `TypeCorrect`, `NothingMissed`, `ReportTrue`.  The argument
  counts places: what was there all along is listed already or has a rank no lower
  than the next page's offset (`PagesInv`), and a registration between two pages
  can only raise a rank (`RankGrows`).  A list that has as many entries as the
  server counts therefore lacks none.  `StillInv` is the sharper fact for an audit
  nothing changes under, which the counts per group are about, and `CurvesInv`
  speaks of the one page of curves.
* `WindowedSyncProofs`: `TypeCorrect`, `FullPassesAreSent`, `SettledRemains` and
  `QuietRemains`.  The inductive invariant says that every payload fetched or on its
  way is the whole content of some moment (`Carried`), and that a task knows no
  digest before it has the list, and none when it is full (`Ignorant`).  The last two
  theorems are the safety halves of `RowsConverge` and `Quiesces`.  A server that agrees
  with the source, declined changes apart, with nothing waiting and only the
  source's rows on their way to it, stays so until the source is edited: such a pass
  adds nothing, withdraws nothing, and changes only what was declined
  (`RuleOfTheSame`).  And content whose digest the server keeps is not sent again,
  whatever people decide, until the source is edited, the stream paired or a full
  pass asked for.  Nothing is proved, or true, of the digest and the rows together:
  see the drift above.

What these proofs need of finite sets of numbers (a least element, a greatest, their
order) are lemmas of the modules that use them.

TLC finds the inductive invariants of `RunnerProofs`, `DiscoveryProofs`,
`SyncCycleProofs`, `SourceAuditProofs`, `BatchedIngestProofs` and
`WindowedSyncProofs` true on the instances of the runs as well, and so the
refinement of `CommandLedger`.

What stays with TLC: all liveness (`EveryRowArrives`, `RowsConverge`,
`Quiesces`, the convergence of discovery, `NothingHeldBack`, `HeartbeatsGoOn`,
`EveryTriggerRuns`, `PauseConverges`, `SessionRecovers`, `CadenceAdopted`,
`TicksGoOn`, ...), which is out of the prover's reach.  Of several of these the
safety half is proved, as said above: nothing undoes what they promise to reach,
or takes it as reached too early.  A list in order
is stated by what it is (`Ascending`), and not with `SortSeq` or `SelectSeq`,
which the library defines by recursion or by overriding and the prover cannot
look into.

## What is not modelled

* The resolution of replicate columns (`models/replicates.rs`): a copy of what the
  server pinned, or positions; when the backend is handed it is in `SyncCycle`.
* What instruments, curves, notes and status events carry: `SyncCycle` takes each
  of these phases as one call that works or does not.
* Whether a tick of `Cadence` begins a cycle: either may happen there, and the
  pause flag that decides is in `Runner`.
* The status and the operation a heartbeat reports: nothing depends on them.
* Panics of tasks, and reports to the server (`PATCH`) that arrive late.
* A source with late rows in append mode.
* Serialisation, configuration, environment and the examples.

## Plan

In order of importance; the modules listed above are done.

1. A source with late rows in `AppendIngest`, to give the observation above a run.
2. `SyncCycle` with the insides of discovery and readings in place of single
   calls, so that a note of an unpaired stream and a curve claim are followed
   from phase to phase.
3. `Runner` with the clock of `Cadence` in place of its bounded ticks.
4. `CommandLedger` with the pause flag and the cycles it holds back, so that
   `LastWordSticks` becomes part of the promise.
