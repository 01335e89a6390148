# Verification of trajfoundry

TLA+ modules that model the parts of trajfoundry in which order, failure and
retry decide whether a published data set is right; TLC configurations that
check them on small instances; and proofs, checked by TLAPS, of theorems about
them for every value of their constants.

trajfoundry turns raw captures of LLM sessions into trajectories: it reads
capture files (local or S3), parses them per provider, keeps of each session
only the maximal transcripts with the lineage of what they continue,
materializes one JSONL file per trajectory, and publishes the set under a
`manifest.json` that downstream readers verify. A second job labels a published
set with an LLM classifier. The properties below are about what a reader of the
published set may rely on, and about jobs that fail, are killed and run again.

## 1. Inventory

| Part | State it keeps | Operations | Status |
|---|---|---|---|
| S3 normalization job (`jobs.py`, `_run_s3_job_with_client`) | objects under the output prefix, `manifest.json`; the first listing, the candidate | list, build and upload, validate, put manifest, list again, delete | modelled, proved |
| Local job and publication (`jobs.py`, `pipeline.py` locks, `export.py`) | output directory and its durable part, manifest, lock file, staging directory | lock, preflight sweep, stage, rename, sync, replace manifest, clean up, validate, stamp | modelled, proved |
| S3 output set (`s3_output.py`) | bounded queue of futures, spool files, multipart uploads, lineage writer | write row, submit, throttle, resolve, close, abort; upload threads | pooled mode modelled, proved |
| S3 source and read-ahead (`s3.py`) | inventory on disk, window of pending reads, a deferred capture | list, read ahead, defer, consume | modelled but for list paging and the sequential reading of archives; proved |
| Parse-worker queue (`pipeline.py`) | pending parses by count and bytes, the open batch | submit, consume in source order, commit, close | modelled, proved |
| Local ingest and state database (`state.py`, `pipeline.py`) | SQLite: meta, captures, snapshots, contributor projections | open and migrate, check configuration, scan, ingest in batches, finish scan, project, build, export | modelled; the database of a numbered release is in `ReleaseRun` |
| Disk-backed prefix aggregation (`disk_prefix.py`) | trie in scratch SQLite tables, byte-bounded lookup cache | add capture message by message, list leaves, contributors | modelled, proved |
| In-memory prefix aggregation (`streaming.py`, `aggregate.py`) | trie, reference counts, endpoint postings | add, finish | modelled, proved |
| Subagent mounting (`subagents.py`, `pipeline.py`, `quality.py`) | spawn events, edges, diagnostics per leaf | aggregate leaves, extract, bind, check linkage, propose, group, break cycles, attach relays, settle, materialize, flag | the pipeline's path modelled, proved |
| Build scheduler and memory budget (`pipeline.py`, `build_budget.py`) | pending futures, reservation, baseline, trajectory and origin rows | submit, run inline, wait, store oldest, refuse | modelled, proved |
| Sub-session numbering and export (`state.py`, `pipeline.py`, `export.py`) | numbers in the payloads, discarded rows, candidate manifest | read rows, rewrite rows, discard, refuse, name files, count | modelled, proved |
| Output validation (`validation.py`) | window of open files, accumulator | open, end, merge, time out, compare | modelled for v4 outputs but for the field contract; proved |
| S3 label job and its cache (`label_jobs.py`, `classification/cache.py`) | staged input, classification cache, threads, candidate, objects under the output prefix | read input, stage, classify in windows, check, upload, read back, publish, clean up | modelled, proved |
| Classifier and client (`classification/`) | retry counters, context budget, the answer | project, request, retry, repeat, reduce, conclude | modelled, proved |
| Provider adapters (`providers/`, `sources/`) | none | conversion of JSON, assembly of event streams | not modelled |
| Command line, data classes, encoding | none | argument parsing, JSON | not modelled: no state and no order |

How they interact. `run_job` and `run_s3_job` call `normalize` /
`normalize_source`, which owns one state database for the run. The source feeds
the parse queue and the ingest fills the database; aggregation reads the
snapshots scope by scope, the mounting plan joins the leaves of a session to
trees, the build scheduler materializes the roots in a process pool and stores
them, the rows are numbered, and the export writes them through an output set
(local directory, or S3 upload threads). Then the job validates and publishes.
The S3 job uses a fresh database for each attempt; a local run may resume the
database of the previous one, which is why the database is modelled across runs
and the S3 job is modelled over its prefix alone. The label job reads a
published prefix and publishes another the same way, asking the classifier on
threads.

Three modules are compositions that follow this order: `S3Transfer` joins the
feed and the output set, `PrefixAggregation` runs both aggregations on the same
captures, `ReleaseRun` goes from the scheduler's loop to the verdict of
validation.

What is hard in it, and what correctness means for each part:

* **Publication.** Files share names across releases (a flat layout), so
  publication cannot be one atomic switch. Correct: a consumer that verifies
  the manifest's digests gets a whole release or nothing; a file in force is
  never deleted; success means exactly the job's own files; and failed
  attempts leave nothing behind once a retry gets through.
* **Transfer.** Reads finish in any order, payloads are parsed in processes,
  trajectories are uploaded on threads. Correct: each capture has one row, in
  source order, of the object that was listed; no queue exceeds its limits, an
  object larger than all of them passes; a failure reaches the manifest
  decision, and nothing can still write or wait when the run returns.
* **Resumption.** Rows of earlier runs are reused by digest. Correct: a resumed
  run publishes what a run on an empty database would.
* **Aggregation.** The trie, its cache, its digests and its reference counts
  must not change the mathematical answer: the captures no other capture
  continues, each with the captures it continues.
* **Mounting.** Evidence of a spawn is spread over two threads and several
  captures. Correct: nothing is mounted on a guess, no leaf is lost or published
  twice, and a tree that passes the audit hides no missing child.
* **Scheduling.** Completion order must not show in the output; the reserved
  memory must stay below the budget; a failed root must not be skipped; the
  loop must end.
* **Release.** Rows may turn out unreadable when they are numbered, files may be
  lost or foreign when they are read back. Correct: nothing is published without
  a discarded row, validation accepts exactly what is whole and complete, and
  reads within its byte budget.
* **Labelling.** Classifications run on threads, their rows outlive the job in a
  cache, and the input may be replaced meanwhile. Correct: what is published was
  made of one input release under one configuration, nothing changes in the
  prefix before all answers are in, and a bad cache row does not block retries.
* **Classifying.** Three retry loops nest. Correct: their costs add up instead of
  multiplying, a repetition stays within a budget that never grows, and only
  complete answers are kept.

`PROJECT.json` lists the hazards one by one, at their lines, with the
properties that cover them. One has no property:

* A process killed between the replacement of the manifest and the sync of its
  directory (`export.py:346-348`) leaves a manifest that is visible and not
  durable. The next run's preflight sweep removes what only the old manifest
  names. If the power fails then, the directory may come back with the old
  manifest, whose files are gone. A behaviour of `LocalPublish` meets one kind
  of fault, and this takes two in successive runs; nothing in the code orders
  the sweep after a sync of the manifest, so the property would not hold.

Three further observations need no model. `run_job` validates, reads and
rewrites `manifest.json` after `normalize` has returned its locks
(`jobs.py:396-411`): two local writers of one output could overwrite each
other's manifest there, but the documentation rules two writers out ("Do not
run two writers for the same output partition", `README.md:251`), so only what
the lock does cover is checked (`CommitIsWhole`). A killed process leaves its
`.staging` directory, which no run reads. A multipart upload whose creation took
effect while its answer was lost has no id in the program, and nothing in the
code can abort it.

## 2. Modules

| Module | What it is |
|---|---|
| `ManifestRelease` | what publication promises to a verifying consumer (abstract) |
| `S3Publish` | the S3 job over its output prefix; refines `ManifestRelease` |
| `LocalPublish` | local jobs over an output directory; refines `ManifestRelease` |
| `CaptureFeed` | from the listing to the rows of the database: read-ahead and parse queue |
| `S3Output` | `S3OutputSet`, its upload threads and object writers |
| `S3Transfer` | composition of `CaptureFeed` and `S3Output` |
| `StateIngest` | the state database across local runs |
| `Transcripts` | captures, the covering relation, and what a set of captures aggregates to |
| `PrefixLeaves` | what aggregation promises (abstract) |
| `DiskPrefix` | `disk_prefix.py`; refines `PrefixLeaves` |
| `StreamingPrefix` | `streaming_prefix_leaves` |
| `PrefixAggregation` | composition of the two aggregations on the same captures |
| `SubagentMounts` | from the captures of a session to its published trees |
| `BuildScheduler` | the materialization loop, admission, and the storing of roots |
| `ReleaseRun` | `BuildScheduler`, then numbering, export and validation |
| `LabelJob` | label jobs over a changing input release and a lasting cache; refines `ManifestRelease` |
| `Classifier` | one trajectory's classification with its three retry loops |
| `S3Publish_proofs`, `LocalPublish_proofs`, `S3Transfer_proofs`, `StateIngest_proofs`, `PrefixAggregation_proofs`, `SubagentMounts_proofs`, `ReleaseRun_proofs`, `Labelling_proofs` | theorems and proofs; `Labelling_proofs` is of both `LabelJob` and `Classifier` |
| `MC*` | values of the constants for TLC |

Conventions. One action per operation of the code, with the code's guard; a
step of an action is what no crash or other actor can split: one SQLite
transaction, one request to the store, one rename, one directory sync. `pc`
says which operation comes next. A definition named `Operation_Deviation`
states a way in which `Operation` could be wrong (a dropped guard, a swapped
order, a missing reset); no specification uses it. It is there to show that a
property can tell: with the deviation in place of the operation, TLC finds the
property violated. `PROJECT.json` pairs each property with one.

### ManifestRelease

`release` is the manifest in force, `served` what a consumer gets that checks
every digest, `running` whether a job is under way. A job may `Disturb` the
service while it overwrites same-named files (the documentation calls this an
inherent limitation of the flat layout, `docs/dolphinscheduler.md:267-271`),
`Restore` it, `Commit` a whole release that is in service at once, and
`Succeed` only with a release in service. It may never commit a release that
does not verify, or serve a mixture.

### S3Publish

State: `store` (name to digest), `manifest`, and the job's `plan` (candidate),
`listed` (`listed_flat_paths`), `uploaded`, `stale`. Actions in the order of
`_run_s3_job_with_client`: `Start` lists; `Build` is `normalize_source`, whose
result is any member of `Plans`; `Upload` is one object, in any order, the
lineage last; `CloseOutput`; `Validate` is `validate_output_backend` with the
first listing as the set it ignores; `PutManifest`; `Relist`; `DeleteStale` in
sorted order; `Succeed`. `Fail` may come between any two, and is also a
request that took effect while its answer was lost. The store may keep damaged
bytes. After `Fail`, `Start` is the scheduler's retry with possibly different
input. One job at a time: the documentation demands it of the scheduler
(`docs/dolphinscheduler.md:225-231`) and the code has no lock on S3.

### LocalPublish

State: `store` and `manifest` as a reader sees them, `disk` and `diskManifest`
as far as they are durable, the lock, and per job its candidate, remaining
renames or deletions, `previous` paths and the manifest `held` between reading
and stamping. The actions follow `normalize` and `OutputSet`: lock, build,
`Preflight`/`Sweep`, `Close` (which reads what it will replace), `Swap` file by
file, `EndSwap` (directory sync), `Commit` (`os.replace` of the manifest),
`SyncManifest`, `Cleanup`, `EndCleanup` (which releases the locks), then
`Validate`, `ReadManifest`, `StampManifest` of `run_job`, without locks.
`Faults` selects what goes wrong: `"stop"` (an exception or a kill anywhere),
`"power"` (any subset of the renames and deletions since the last sync is
lost), `"unreadable"` (`_manifest_paths` cannot read the manifest and answers
the empty set). Contents of staged files are synced before `Close`, so a rename
never brings an incomplete file.

### CaptureFeed

State: the `listing` with what an earlier run already knows of it, the reader's
window (`window`, `windowBytes`, the `deferred` capture), the state of each
`read`, the payload in `hand`, the parse `queue` with its bytes, the state of
each `parse`, the open `batch` and the committed `rows`. `List` writes the
inventory, whose primary key refuses a repeated object key. `Submit` and
`EndFill` are `fill()`: one object of any size may be read when nothing else is,
and a capture taken from the iterator that does not fit is kept. `StartRead` and
`EndRead` are reader threads; a response may be of another version, have another
advertised length, be short or long, or be no response. `TakeRead` pops the
oldest, fills again, then yields. `ReadLocal` is a local tree, `Reuse` is
`capture_matches`, `ParseInline` and `Enqueue` are the two ways to a parser,
`Drain` consumes from the front while the queue is over a limit, or to the end.
An exception rolls the batch back, cancels what is queued and waits for what
runs (`Raise`, `EndRaise`).

### S3Output

The main thread (`pc`, the next trajectory, lineage rows, the queue) and up to
`Workers` threads. Every request - create, part, complete or put, abort - is a
step that can fail, with or without effect for the last. Queued futures are
taken in FIFO order. `Cancel` and `Drain` are `abort()`: it cancels what has
not begun, then waits for what has.

### S3Transfer

`normalize_source` from end to end: `CaptureFeed` until it is finished, then
`S3Output`, each with its own threads. The composition states what neither part
can: that an output set is opened only when the ingest returned without error,
so that a manifest exists only over a complete ingest, with no reader or parser
left running (`ManifestExact`), and that the whole run ends (`RunEnds`). The
build between the two is `ReleaseRun`.

### StateIngest

State: the database as committed (`disk`) and as the open connection sees it
(`db`), and the run. A snapshot and its contributor projection are a pair
`<<content, configuration that parsed it>>`. A run opens the database (dropping
the caches of an old schema, then storing the version), compares
`config_hash`, resets or keeps, begins a scan, ingests path by path in batches
of `BatchItems` commits, finishes the scan (rows not seen go), computes
projections, builds, exports. `Stop` rolls back to `disk` at any point.
`RefuseBuild` is the path of `assign_sub_session_ids` that marks sources as
skipped and refuses the build. Which captures an aggregate depends on is a
matter of aggregation; here a published record is the decision, the view and
the body of each source.

### Transcripts, PrefixLeaves, DiskPrefix, StreamingPrefix, PrefixAggregation

`Transcripts` has the covering relation of `aggregate_snapshots`: `Covers(d, c)`
when the scopes agree and the strict history prefix of `d` runs through the
whole transcript of `c`. The scopes are not those of aggregate.py, which groups
by session and thread as they are: `Scope` is `_compatibility` of streaming.py,
with its three cases, which is what the pipeline uses; a message
is a token, equal when `message_prefix_token` is. `Aggregation(S)` is the
answer: leaves, contributors of each leaf, intermediates.

`DiskPrefix` walks one message per step, from cache, table or by insertion,
with the covered bit of the node and of its cached copy, the least recently
used eviction and the digest that narrows the lookup; `Finish` is the lazy
collections of `DiskAggregationResult`, including the recursive ancestor
query. `StreamingPrefix` adds one capture per step (a function call without
interruption) with `extender_count`, `endpoint_leaf_ids` and `ending_paths`.
`PrefixAggregation` adds every capture to the disk-backed trie message by
message and, with its last row, to the in-memory one; the two results must be
equal (`SameResult`) and the reference answer. The pipeline uses the first; the
second is its counterpart in the package, and the reference counts of one and
the cover bits of the other are the two ways in which the same question can go
wrong.

### SubagentMounts

State: the captures of one session, its `leaves` (each standing for the
duplicates `merged` into it), the spawn `events`, `parentOf` (the leaf that
holds an event's call), the `issues` per leaf, the children found `invalid`, the
`edges`, and what is `published`. A step is a phase of the code:
`Aggregate` (leaf aggregation and `_flat_semantic_key`), `Extract`
(`_extract_spawn_evidence`, the index of agent messages), `Bind`, `CheckLinks`
(linkage that changes within a thread, the branch that is mounted of several),
`Propose` (`_validate_child`, routing by marker and by recipient), `Group`
(several claimants of one call), `BreakCycles`, `AttachRelays`, `Settle`
(reachability, unmounted calls), `Publish(l)` for each root and orphan in any
order, with the dictionary of children keyed by their call, the relays that the
parent's own captures bear out, and the audit flags that decide whether a root
passes. Between `Aggregate` and the planner stands the routing copy of
`pipeline.py`, which keeps only spawn messages of a leaf: it is modelled, and is
the reason for a finding.

The captures of an input are those of one scope of aggregation (`state.py:588`,
`aggregation_scopes`): of one session and any threads, or, without a session, of
one user and any threads. In a session a capture is continued only by its own
thread. Without one it may be continued by another, so that what a thread said is
repeated by leaves of other threads only; the properties say where that matters.

Agent names are paths and messages are texts, calls and results. There is no
concurrency here and hardly a choice in a behaviour: what TLC explores are the
sessions, more than three thousand of them.

### BuildScheduler

The coordinator's loop: fill the window while admission agrees, wait for the
oldest (a timeout goes back to filling), drain what is finished from the front.
`Admitted` is `can_submit` with the samples of cgroup and process tree taken
anew each time, `PutTrajectory` is `put_trajectory_with_origins` with its
precedence of disposition and key and its origins that keep the first row.
With one worker `RunInline` does everything on the spot.

### ReleaseRun

It extends `BuildScheduler`, so that a behaviour begins with the scheduler's
loop and its rows, dispositions and origins are the ones it stored. `ReadRows`
and `RewriteRows` are the two passes of `assign_sub_session_ids`: a row that
cannot be read in either is discarded with its origins, its otherwise
unrepresented sources become skipped, the numbering starts over, and in the end
the run is refused. `Export` names the files and counts (`Candidate`); a row above
`max_shard_bytes`, an unusable row or a repeated name aborts it. That limit is
chosen by the step and kept in `shardLimit`, so that `ReleaseExact` can tell
an abort for a large row from one for two branches of one name. `Publish` puts the files
into the store in one step, whole or with damage, because how they get there is
the matter of the publication modules. Validation opens at most two files per
thread within a byte budget (`OpenFile`), a pool thread ends a file (`EndFile`),
`MergeOldest` takes results in the manifest's order, and `Conclude` compares the
accumulator with the manifest. `TimeOut` and `AskAgain` are the wait that gives
up and asks `future.done()` (section 6). With one thread `ScanNext` reads file
by file.

### LabelJob

State: the output prefix (`store`, `manifest`), the cache (`cache`, and
`outdated` for keys whose row breaks the present contract), the job with its
`config` and `classifier` (whose manifest digest was taken in
`run_s3_label_job`), what it has staged, and per trajectory the state of its
call on the pool. The input prefix is not a variable: another job may publish
there at any time, so a read returns anything, and a step whose digest check
fails is a `Fail`. `Submit` takes `max_workers * 2` items, threads `Lookup`,
`Classify`, `PutCache` or raise, `Collect` takes results in order; the first
exception cancels what has not begun and `Drain` waits for the rest. Then
`CopyLineage` with the check of all candidates, `Put` and `ReadBack` object by
object, `PutManifest`, `Relist`, `Delete`. A trajectory, the input object it
came in and its output file have one name: the numbering of output files
(`_assign_output_paths`) repeats that of `ReleaseRun`. `Forget` drops the job's
locals, which no later job sees. The classifier is its answer, accepted or
failed; that a fresh answer satisfies the row contract is `AnswersHonest` of
`Classifier`.

### Classifier

State: the trajectory as the lengths of its user texts, the context `budget`,
the counts of the three loops (`attempt`, `semanticAttempts`, `reductions`), the
`request`, the answer (`outcome`), the number of `requests`. `Project` is the top
of the loop: the transcript is serialized for the budget, by the binary search over
a budget of characters that is split between its beginning and its end
(`Truncation`, `Search`). `SufferTransient`, `SufferNotFound`, `SufferRefusal`
and `SufferOther` are the classes of failure of the client, `ExceedContext` an
endpoint that finds the request too large, `Receive` a text, judged by the rules
of `_parse_decision` in their order. Gateways differ between requests, so any
failure may follow any other. `phase` is the `pc` of the other modules: the names of
`Classifier` differ from those of `LabelJob`, so that one module of proofs extends
both.

## 3. Runs

| Run | Checks | Instance |
|---|---|---|
| `S3Publish` | a file in force is never removed; success is exact; refinement of `ManifestRelease`; retries end clean | 3 names, 2 digests, 4 candidates, any objects of earlier generations, any failures |
| `LocalPublish` | the same of local jobs; a manifest is committed only over its own job's durable files | 3 names, 3 candidates; stops, or power losses; one job, or two on one directory |
| `LocalPublish_unreadable` | a file in force is never removed: **violated** (section 6) | one job, unreadable manifest |
| `S3Transfer` | each capture ingested once, whole, in order; every queue within its limits; manifest exact; nothing leaked; no write after the end, lineage last; the run ends | 5 captures (2 above the window, 1 empty, 1 malformed), 1 or 2 parsers; 4 trajectories (one multipart), 2 threads, queue of 3 |
| `StateIngest_resume` | what is published as parsed or failed is as from scratch; one decision per source read; types, markers, snapshots and configuration on disk agree | 2 sources, 3 contents, 2 configurations, batches of 2, old-schema databases, any number of runs |
| `StateIngest_refused` | a resumed run publishes exactly what a fresh one would: **violated** (section 6) | the same |
| `PrefixAggregation` | cache equals table; reference counts and postings exact; no lineage across identities; same result; refinement of `PrefixLeaves` | every sequence of up to 3 captures, colliding digests, cache of 2 |
| `SubagentMounts` | every leaf in one published tree; mounts proven; nothing silent in what passes; relays sound | 3364 sessions of up to 4 threads, with a session id and without |
| `SubagentMounts_branches` | the largest branch is mounted: **violated** (section 6) | the same |
| `ReleaseRun` | same tables as a serial run; fail closed; budget respected; verdict of a release exact; validation within its window; the run ends | 6 roots with repeated ids and shared sources, 1 or 2 workers, 4 kinds of memory sample, 3 row limits, damage to one trajectory and the lineage |
| `LabelJob` | rows in force belong to one input manifest and configuration; no object changes before every answer; refinement of `ManifestRelease`; retries end clean | 2 input releases of 1 and 3 trajectories, 1 or 2 threads, a cache full of outdated rows, any failures |
| `Classifier` | requests bounded by the sum of the counts; answers complete, cached only when accepted; repetitions keep within a budget that never grows | 6 transcripts, 2 retries, 2 repetitions, 3 reductions, any order of failures |

Why these bounds. *Publication*: with three names a candidate can keep, change,
add and drop a file against its predecessor at once, deletion order matters
(two stale names around the lineage), and the number of jobs is not bounded at
all: every state a prefix can be left in is an initial state of the next job.
*S3Transfer*: five captures overfill the window of two reads and the parse queue
of three, and sizes 5 and 4 exceed the window of 3 bytes, so that an oversized
object is deferred behind another and another behind it; four trajectories fill
the output queue of three and force throttling while both threads are busy, and
the lineage outgrows its buffer with the third row.
*Aggregation*: covering is a relation between two captures and its interplay
(cover, be covered, replace a leaf) needs three; a cache of two entries evicts
while a path of three messages is walked. All digests collide, which is the
worst case. *StateIngest*: two sources are enough for one to be committed and
the other not at an interruption (batches of two), for one to be deleted while
the other is changed; a third content serves the configurations that disagree
on it. *SubagentMounts*: the sessions are all combinations of a story of the
main thread (calls, repeated, answered, branching, without turn, with a
malformed or conflicting call), of a thread that may be its child and of a third
that competes with it, is nested in it or closes a cycle with it; a second
family varies the messages by which a child is addressed and answers, and a third
has no session, so that one thread continues another. Two
claimants, a cycle of two and a chain of two need three threads; nothing in the
planner relates four. *ReleaseRun*: six roots exceed the window of two per
worker, ids repeat with a better and a worse disposition, one estimate (9) is
oversized for the ceiling of the smaller container (7 of its 10) but not for
that of the larger one (11), one sample has outgrown the estimates. They
become four trajectories and a lineage: five files, one more than the window of
two threads. Two branches of one session are as old as each other, so that
only the second key of the order keeps their names apart. Of the row limits, 2
aborts the export, 4 makes the lineage row with five origins too long to be
decoded and lets bytes and not the count close the window, 9 lets the lineage
exceed the byte budget alone.
*LabelJob*: three trajectories are two windows of one thread, or one
window of two; the two releases share a name with different content, and two
trajectories share one cache row; one name is residue of nothing published. One
configuration suffices, as it enters keys and rows the way the manifest does.
*Classifier*: transcripts that fit, that need one long text cut, both ends of
two, or many short ones dropped; the third reduction is at the least budget.

`CHECK_DEADLOCK FALSE` stands only where the system stops by design: an
aggregation after its result, a transfer or a release after its end, a published
session, an answered trajectory. Nothing disables the check for jobs, which can
always be started again.

## 4. Fairness

* `S3Publish`, `LocalPublish`, `LabelJob`: weak fairness of a job's own steps (a program
  that is not interrupted goes on) and of starting again a job that failed or
  whose output validation rejected (the scheduler's retry). No fairness is put on failures, on jobs after a success,
  or on undamaged uploads. `RetryCleans` therefore carries its premise: *if*
  from some point on nothing fails and no upload is damaged, then every job
  that gets to build leads to a clean prefix. A rejection by validation is not
  among the disruptions the premise excludes: that retries are not rejected for
  ever is part of what is checked.
* `LabelJob` also has weak fairness of each classification: a thread that took
  a call goes on to its answer, for the client has a timeout and a bound on
  attempts (`RequestsBounded`).
* `S3Transfer`: weak fairness of the ingest's main thread, of each reader and
  parser, of the output set's main thread and of each upload thread; every
  request returns or fails, the SDK has timeouts, and a broken parser process
  breaks its pool, which raises. Failures stay possible for ever, and `RunEnds`
  holds with them.
* `ReleaseRun`: weak fairness of the coordinator, of the end of each running
  root, of the main thread after the build and of each file being scanned.
  Memory may stay short for ever: `ReleaseEnds` holds because the code refuses
  when nothing of its own is pending. A wait may time out any number of times;
  that does not keep the oldest file from ending, whose fairness is its own.
* The other modules state safety only.

## 5. Proofs

`tlapm` checks the eight proof modules to the last leaf. They assume only the
named assumptions of the modules that declare the constants, which TLC evaluates
in the runs. Most give types, and say that an absent object is no digest and an
absent row no row. These say more:

* `PublishAssumption`, `LabelAssumption`: every S3 candidate and every input
  manifest names the lineage.
* `ClassifierAssumption`: the least budget is not above `max_context_chars`; the
  constructor rejects less than 1024.
* `DiskAssumption`: `NULL` is no column value, and two redacted captures without
  a session come from different sources, since `snapshots.source_path` is a
  primary key (`state.py:177`).
* `FeedAssumption`: finitely many captures, named in their order in the listing.
* `ReleaseAssumption`: there are finitely many inputs; `Ids` lists each
  trajectory once, as `SELECT` from a table with that primary key does; a source
  is eligible exactly if some root claims it, and each root claims its leaf,
  which no other does; the session id of a trajectory that has one is not the
  placeholder `no_session_id` (`identity.py:13` takes that value for none).
* `MountAssumption`: an input is finite and of one session, or of none
  (`aggregation_scopes`, `state.py:588-613`); a capture's linkage has every field,
  and its agent messages are a sequence; a result names no agent by the empty
  name (`subagents.py:355`).

One theorem, `NothingPublishedIsLost`, states an assumption of its own.

`S3Publish_proofs`, for any names, digests and candidates:

* `TypeCorrect`, `NeverRemoved`, `SuccessExact`: the type invariant and the two
  safety invariants of the run.
  `PublishedNeverRemoved` is not inductive. That cleanup spares the files of the
  manifest in force rests on `stale` having been computed against the
  candidate (`CleanupSpares`), on that candidate being the manifest
  (`CandidateInForce`) and its files being there, which rests on the candidate
  having been read back before it was put (`CandidateRead`) and not touched
  since. For success to be exact, cleanup must also have had everything else on
  its list (`CleanupCovers`, `NothingElse`). `IInv` is the conjunction;
  `Inductive` proves it, action by action.
* `UploadsOnly` (`OnlyUploadsDisturb`): under `IInv`, every step but an upload leaves the service up.
* `Refinement`: `Spec => Abstract!Spec`: an upload maps to `Disturb`, `Restore`
  or a stutter, the manifest put to `Commit`, a deletion to a stutter.

`LocalPublish_proofs`, for any jobs, names, digests and candidates, with one kind
of fault in a behaviour:

* `ReturnsExactly` (`SuccessIsExact`), `NothingPublishedIsLost`
  (`PublishedNeverRemoved`), `CommitsOverDurableFiles` (`CommitIsWhole`).
  The last holds of any number of jobs started on the directory and rests on
  two facts only: the job inside `normalize` holds the lock (`Exclusive`), and
  what it has renamed is still in place, and durable once the directory is
  synced (`Renamed`). The other two are about a job that has the directory to
  itself. That success is exact although validation and the rewriting of the
  manifest run without the lock rests on `Settled`: from the commit on, the
  manifest is the job's own, and from validation on there is nothing a loss of
  power could take back. That nothing published is lost rests on `Kept`: what
  either of the two manifests names that a loss of power may leave in force is
  there and durable, and they differ only between the replacement and its sync.
  It is proved under `"unreadable" \notin Faults`, the assumption that the run
  `LocalPublish_unreadable` shows to be necessary.
* `PublishesReleases`: `Spec => ImplementsRelease`. A step of a job in progress
  that leaves the manifest alone is `Disturb` or `Restore` (`WorkingStep`); the
  replacement is `Commit` because the renamed files are in place; the stamp is
  `Succeed` because validation has passed; a failure or a rejection `Abandon`.

`StateIngest_proofs`, for any sources, contents, configurations and batch size:

* `RowsTrusted`, `Accounted`, `ResumedIsCurrent`: the three invariants of the run.
  That the rows of one database agree (`Sound`) is kept by each operation on a
  database, which has a lemma of its own (`PutSnapshotSound`, `PutRowSound`,
  `ReuseSound`, `KeptSound`, ...), and holds of the committed and of the open
  database alike, so that it does not matter where a run is interrupted. It is
  kept only because a snapshot enters a database that is already the run's own,
  in version and configuration (`Own`), which the order of opening, comparing,
  clearing and stamping brings about step by step (`Prepared`). What is published
  rests on `Scanned`: the row of each path read was decided by this run or is
  equal to what it would have decided (`Decided`), and after the scan there are
  no others.

`PrefixAggregation_proofs`, for any captures, tokens, digests, cache size and number
of inputs. A node of either trie stands for a path, a scope with the messages
from its root, and covering is a statement about paths (`CoversByNode`).

* `IndexAlwaysExact` (`IndexExact`). The code decides whether a new capture is a
  leaf by asking the counts of the present *leaves* only. That this is enough
  rests on `Maximal`: a capture that is no leaf is continued by one that is, for
  covering is transitive (`Transitive`). The counts are then cardinalities of
  sets of leaves (`Postings`), and stay so because a step adds one capture and
  takes away the leaves that it continues.
* `CacheAlwaysCoherent` (`CacheCoherent`), `NeverCrossesScopes`
  (`NoCrossScopeLineage`). On disk nothing says which path a row stands for, so
  `DiskInv` asserts that there are paths that fit the table: one for each row,
  all different, a row's path its parent's extended by the row's token
  (`IsTrie`). By them the covered bits mark exactly the histories walked
  (`Marks`), the rows have the right ends (`RowsKept`), the capture under way
  is where its messages lead (`Walking`), and what the cache holds is a copy of
  the table (`CacheOf`). Digests need not be injective: a lookup compares the
  token after the digest, and paths are apart (`LookupIsPath`).
* `AlwaysSameResult` (`SameResult`), `DiskImplementsAggregation`
  (`ImplementsAggregation`), `MemoryImplementsAggregation`: both aggregations give the
  reference answer, and both refine `PrefixLeaves`. The recursive query for
  ancestors returns the prefixes of the path (`PathsClimb`, `ClimbOnce`), so the
  contributors it joins are the captures covered (`ContributorsOfRow`).
  `BothInv` joins the two invariants by the captures added so far.

`ReleaseRun_proofs`, for any roots, workers, memory samples, file sizes and damage.
Of the build:

* `Budget` (`BudgetRespected`): `baseline + reserved <= Elastic` while anything is
  pending. `AdmittedFits` shows that an admission keeps it whatever the sample;
  that the release keeps it needs the reservation to be released by a natural
  number, hence the types in `BInv`.
* `ScopeComplete` (`FailClosed`). Not inductive: it needs `Window` (the pending
  roots are the interval after the last stored one) and `Outstanding` (every
  failed root lies in that interval), so that an empty window at the end means
  that every root is stored and none failed.
* `Serializable` (`SameAsSerial`): whatever order roots finish in, the tables are
  those of a serial run over the first `stored` roots, and the reservation is
  the sum of the estimates of the pending ones, written as a difference of two
  prefix sums (`Sized`, `Stored`).
* `NominalBudgetInert`: the target budget never decides an admission. Where the
  room is known and too small, admission fails on the room; everywhere else the
  nominal limit is the ceiling. The documentation calls 80 GiB the "nominal soft
  budget" and 96 GiB the "elastic soft ceiling"
  (`docs/disk-backed-normalization.md:18-23`); the theorem says that only the
  second, the container limit and the available memory act.
* `SchedulerInRun`: a release run is a run of the scheduler on the scheduler's
  variables, so that all of this holds in it.

Of the release:

* `Bounded` (`AuditBounded`): the window of validation respects its byte budget,
  or holds one file. `AInv` says that the budget in use is the weight of the
  window, again a difference of prefix sums, and that the accumulator is that of
  the files before the window, in the manifest's order, whichever files the
  threads ended first (`AccumulatedEquation`).
* `VerdictDeserved` (`ReleaseExact`): what is accepted is whole and complete, and
  what is whole is not rejected unless a lineage row is too long. That no row
  was discarded on the way rests on `NInv`: a discarded trajectory leaves the
  leaf of its root unrepresented, so a source is counted as skipped and the run
  is refused. That names do not collide is `NumberedApart`, so an abort has met
  an unusable row or one above the limit of its own export. From there the
  errors of the accumulator tell damage (`ErrorsTell`), and its counts and bags
  of identities are the candidate's exactly when nothing is missing or foreign
  (`Counts`, `CleanAgrees`).

`Labelling_proofs` on `LabelJob`, for any names, inputs, configurations, caches and
worker counts:

* `LabelsAreOfTheirInput` (`LabelsBelong`): what is published is in `Outputs`.
  It needs every staged file to have the content that the manifest of the
  classifier records (`StagedInput`), and every collected name to have an
  answer (`Answering`), which says which threads may be at work at which stage.
* `OutputWaitsForAnswers` (`NoChangeBeforeAnswers`): an object changes only in
  the stages of publication, in which `Answering` leaves no thread and no
  missing answer.
* `PublishesReleases`: `Spec => Abstract!Spec`. What has been read back is kept
  (`Published`), since an object is put only while its name is left to do and
  deleted only if the manifest does not name it. `FirstIn` gives the next name,
  from the well-foundedness of the natural numbers.

`S3Transfer_proofs`, for any captures, listings, sizes, limits, threads, trajectories
and parts:

* `EveryCaptureOnce` (`IngestExact`). A capture of the listing has its row or is in
  one of the places from which it will get one: the parse queue, the hand of the
  main thread, the window, what was deferred or is not yet taken. `FeedInv` says
  that these places partition the listing (`Accounted`), that each is ascending
  and ahead of the next (`InLine`), and that the rows so far are those of a
  serial ingest stopped earlier (`Sounding`, `Behind`). When all places are
  empty the rows are the answer.
* `QueuesHold` (`QueuesBounded`): the bytes that a queue accounts for are the sum
  over its entries (`Budgets`), so the release at the far end cannot drift from
  the reservation at the near one; sums are taken as cardinalities of sets of
  slots (`Slots`), which makes them additive by the facts on finite sets.
* `RunsAnOutputSet`: on the variables of the output set a run takes steps of
  `S3Output` or none, so that what `OutputInv` says of every output set holds of
  the run. Until something fails, `objects` followed by `futures` are the
  trajectories submitted so far, in their order (`InOrder`), though threads
  finish them in any order; a writer that has reached the lineage therefore has
  every trajectory in the store (`LineageComesLast`: `StoreOrdered`). A temporary
  file belongs to a task that has not ended, and by `InOrder` those lie between
  the last resolved and the last submitted trajectory: that interval, and with
  it the number of files, is the length of the queue (`Limited`). Whoever waited
  for the threads left none pending (`Quiet`), so nothing writes or waits after
  the end (`NothingLeftBehind`: `NothingLeaked`).
* `ManifestOfTheListing` (`ManifestExact`) joins the halves: a manifest exists only
  when the output set closed, which was opened only after an ingest without
  error.

`SubagentMounts_proofs`, for any captures, linkage fields, names and messages. `IInv`
(`Inductive`) has one part per phase, which says what the later phases rely on;
TLC has checked it on the sessions of the run.

* `NoLeafLost` (`EveryLeafAccounted`). The leaves are the first of each group of
  maximal captures alike (`Aggregated`). An edge is `Grounded`: it leads to a
  child that was not refused from the leaf that alone holds an event that is
  the child's one candidate; a second edge into a child would need a second
  candidate, and there is none (`OneParent`). `Group` leaves one child per call
  (`OneChild`), which is why the dictionary drops none (`ChildrenKept`). Reachability
  is a recursive function, whose solution exists (`GrowthExists`), grows
  (`GrowthMonotone`), and is the union of what each source reaches
  (`GrowthSplits`); with one edge into a leaf and none into a root, what two
  roots reach is disjoint (`GrowthsApart`), and dropping the edges of what is
  not reached changes nothing (`GrowthKept`). So the trees and the orphans
  partition the leaves (`TreesPartition`). No forest is needed for that: a cycle
  is not reached from a root, and `BreakCycles` matters only for what its leaves
  are told. That each phase which dismisses a child leaves a diagnostic or an
  unheld call is `Dismissed` and, at the end, `Settled`.
* `NothingGuessed` (`MountsProven`). An event is one captured call whose task is
  agreed (`EventFacts`), and who repeats that call verbatim holds the event;
  since the holder is one (`HeldByOne`), and in a session some leaf of the
  thread repeats whatever a capture said (`Repeats`, by the longest of the
  captures that say it), it is exactly the parent (`CallHeld`). A name given by
  the call's result is the one by which the child is addressed, or the child
  would have been refused or routed elsewhere (`NameAgreed`).
* `NothingHidden` (`NothingSilent`). `Extracted` says that a call which became no
  event has marked every leaf that repeats it, with a diagnostic that no
  complete leaf has (`NotMarked`); so it is an event, held by the leaf alone
  (`CompleteHolds`), mounted or marked (`Settled`), and mounted where it is held
  (`MountedInHolder`).
* `RelaysProven` (`RelaysSound`). A recorded relay passed every check of
  `RelayFault` (`Relayed`, `Answer`), a record of a thread agrees with every
  other of its id there (`ThreadRecord`), and in a session a leaf's own records
  are records of its thread (`OwnRecords`).

`Labelling_proofs` on `Classifier`, for any counts, budgets and transcripts:

* `Cost`: `RequestsBounded`. The bound on the whole is not inductive; `Paid` is:
  each repetition and each reduction so far has cost at most one call of
  `MaxRetries + 1` attempts, and the call under way has cost its attempts
  (`Spent`). A step stays within a call (`StayInCall`) or ends it and pays for
  it with one of the two outer counts (`NextCall`); that no count is ever set
  back is what makes costs add up instead of multiplying.
* `Honesty` (`AnswersHonest`): what is kept was valid under the rules of
  `_parse_decision`, and its record says truly whether text was left out.
* `Shrinks` (`RepeatsShrink`), an action property: the budget never grows, a
  request is within it (or carries no turns), and is strictly smaller where a
  reduced budget is below what was refused. The binary search keeps the last
  excerpt that fitted, so its result fits although the sizes it tries are not
  ordered (`SearchFits`). `Solution` shows that recursive functions such as the
  search exist.

How recursion is proved. The library's induction theorems take an operator as a
parameter, which the provers here cannot instantiate. The proofs go from
the well-foundedness of the natural numbers to induction over an interval for a
set (`IntervalInduction`), and from there to the existence of a recursive function
(`Recursion`, `Solution`), whose equations then follow from `CHOOSE`.

Only model-checked: liveness (`RetryCleans`, `RunEnds`, `ReleaseEnds`), which rests
on fairness, and so on ENABLED, which the prover does not handle. Every safety
invariant, action property and refinement that the runs expect to hold is
proved.

## 6. Findings

* **An unreadable manifest deletes the published files** (`export.py:88`, run
  `LocalPublish_unreadable`). `_manifest_paths` answers the empty set for a
  manifest it cannot read or decode. The preflight sweep then takes every
  published file for an orphan and deletes it, before the new candidate exists,
  while the manifest still names the files. The comment at
  `export.py:186-187` says the manifest "remains authoritative for the files that
  must be retained".
* **A refused build changes the next run's output** (`state.py:956`, run
  `StateIngest_refused`). When a stored trajectory cannot be read,
  `assign_sub_session_ids` commits the status `skipped` for its otherwise
  unrepresented sources and the build is refused. The next resumed run reuses
  these rows, since digest and status match, and publishes successfully without
  the sources; a run from scratch on the same files would include them, and
  `README.md:98-99` promises determinism for the same inputs and configuration.
  What remains true is checked by `PublishedIsCurrent` and `EverySourceAccounted`:
  only sources so skipped differ, and their decision is on record.
* **A shorter branch of a subagent may be mounted** (`pipeline.py:1857`, run
  `SubagentMounts_branches`). The pipeline plans mounts over routing copies that
  keep of a leaf only its spawn messages; the planner compares the numbers of
  messages of these copies. Branches of a child without spawn calls of its own
  tie at zero, and the one captured first is mounted, however short.
  `README.md:190-191` says "mounts only the leaf with the largest
  `history + response` message count"; the test of it calls the planner with
  complete leaves.

Observed while modelling, without a run of their own:

* **A late timeout fails a good release** (`validation.py:886-892`). When the wait
  for the oldest file times out and the file ends before the handler asks
  `future.done()`, the handler takes the timeout for an exception of the file
  and raises it; the whole run fails. It fails safe and the next attempt is
  independent. `ReleaseRun` has the race (`TimeOut`, `AskAgain`, phase
  `"failed"`), and its properties hold with it.
* **A lineage row may be too long for validation but not for the export.** The
  export limits trajectory rows to `max_shard_bytes` (`export.py:229`) and not
  lineage rows; validation of an S3 output rejects any row above it
  (`validation.py:470-478`). Such a release can never be published; it is the
  one exception in `ReleaseExact`.
* **The excerpt of a transcript is not the largest that fits.** The size of a
  truncation is not monotone in its budget (a marker may cost more than a turn
  gives), so the binary search may miss a larger one that fits, and a smaller
  budget may even find a slightly larger one. What is sent still fits, or
  carries no turns at all; this is why `RepeatsShrink` compares a request with
  the budgets and not always with the request before.
* **A short transcript is sent again unchanged.** `README.md:295-296` says that on a
  context-limit error the classifier "reduces the character budget and retries
  up to five times". A transcript that is below the reduced budgets as well
  (five times 3/4 of 600,000 leaves 142,382 characters) is resent whole each
  time, with a notice of truncation after it, and its record says
  `context_truncated` although nothing was left out (`classifier.py:230`,
  `classifier.py:250-254`). `AnswersHonest` says the flag is set whenever
  something was left out, not the converse.

* **Without a session a call may be mounted outside the turn of its capture.**
  Captures without a session are aggregated by user, and one thread may continue
  another's transcript (`state.py:602-610`). The leaf that stands for them then
  repeats calls that a capture of another thread made in a turn of its own. What
  is mounted under such a call is the child of the turn in which the leaf's own
  thread made it, and the copy of a relay that the parent publishes may be of
  the other thread; `MountsProven`, `NothingSilent` and `RelaysSound` are stated
  with these exceptions.

## 7. Plan

The modules of the plan exist, in the order of their importance: publication
(`ManifestRelease`, `S3Publish` and `LocalPublish` with proofs); what is published
(`StateIngest` with proofs; `Transcripts`, `PrefixLeaves`, `DiskPrefix`,
`StreamingPrefix` and their composition `PrefixAggregation` with proofs;
`BuildScheduler` and `ReleaseRun` with proofs over both); how it gets there
(`CaptureFeed`, `S3Output` and their composition `S3Transfer` with proofs over all
three); what is labelled (`LabelJob` and `Classifier` with proofs); how sessions
become trees (`SubagentMounts` with proofs).

What could still be modelled, most valuable first: a fault of two kinds in
successive runs in `LocalPublish` (section 1); the sequential reading of
archives; the assembly of event streams by the provider adapters; the reading
of v2 and v3 outputs by validation.

No proof is outstanding for the properties of the runs, liveness apart.

## 8. Not modelled, and why

Message contents, prompts, taxonomy, redaction, accounting fields and the field
contract of a row (`output_contract.py`) are data: no order of steps affects them
and unit tests reach them. The shape of provider payloads is conversion. The
eight-hour windows that give captures without a session a scope
(`window_identity.py`) only choose that scope, which `Transcripts` has as data.
`mount_subagents`, which the pipeline does not call, and the wording of
diagnostics are left out of `SubagentMounts`. The serial mode of the S3 output
(`max_workers = 1`) is the pooled one without threads. The paging of list calls
is one listing. Hash functions are injective where the code relies on SHA-256 as
identity (contents, trajectories) and arbitrary where it verifies after lookup
(the trie). SQLite, the file system, the thread and process pools and the object
store are modelled from how the code uses them: transactions are atomic and
durable, `rename` is atomic and durable after the directory's sync, one request
is atomic at the store.
