# Verification of scorecard-infra: TLA+ models, model checking and proofs

This directory models the parts of the repository in which processes, queues,
buckets and clocks meet: the weekly batch pipeline under `cron/`, the hybrid
results server under `internal/` and the results API under `api/`. The modules
are checked with TLC on small instances, and every safety property, action
property and refinement that a passing run checks is also proved with TLAPS, for
every instance. `PROJECT.json` is the index: components, runs, the map from each
definition to the source lines it models, hazards, findings and theorems.

    tlc -workers 2 -config MCShardWorkers.cfg MCShardWorkers    # one run
    tlapm ShardWorkersProofs.tla                                # one proof module

## 1. The system

### Batch pipeline (`cron/`)

| Part | State it keeps | Operations | Talks to |
|---|---|---|---|
| controller (`cron/internal/controller`) | iterator position, the request being filled, `shardNum` | read, publish a full shard, publish the rest, close, write metadata | publisher, canonical and raw bucket |
| publisher (`cron/internal/pubsub/publisher.go`) | wait group, `totalErrors` | `Publish` (a goroutine per message), `Close` | queue |
| queue (SQS, external) | per message: visible, in flight, deleted, dead; receive count | deliver, delete, change visibility, redrive to the dead-letter queue | publisher, workers |
| SQS subscriber (`subscriber_sqs.go`) | current message, heartbeat goroutine, receive backoff | `SynchronousPull`, `Ack`, `Nack`, renew visibility, `Close` | queue, worker |
| GCP subscribers (`subscriber_gcs.go`, `subscriber_gocloud.go`) | the same, in two fields shared with the heartbeat; a message | the same interface | Pub/Sub, worker |
| worker (`cron/worker`, `cron/internal/worker`) | shard in hand, `buffer2`, `rawBuffer` | check metadata, check result, scan, export (4 objects per repository), write raw and canonical shard file, ack | subscriber, three buckets, CDN |
| BigQuery transfer (`cron/internal/bq`, `cron/data/summary.go`) | bucket summary, position in its loop | list, load, mark, call the webhook | buckets, BigQuery, webhook |
| webhook, CII crawler, token server, CSV tools | none worth a model | | |

The three shared objects are the queue, the buckets and the BigQuery table. The
protocol between the parts is carried by files: `.shard_metadata` (written last
by the controller) says that a job exists and how many shards it has; a shard's
canonical file (written last by a worker) says that the shard is complete;
`.transfer_status` (written after the load) says that the job is in the table.

### Hybrid results server (`internal/`, `cmd/scorecard-api`)

| Part | State it keeps | Operations |
|---|---|---|
| HTTP API (`internal/httpapi`) | none | request to `GetOrProduce`, outcome to response |
| orchestrator (`internal/orchestrator`) | singleflight group | cached answer, fallback modes, scan and wait, write-back |
| store (`internal/store`) | objects: latest and pinned per commit, with an origin tag | `GetWithOrigin` (two calls), `PutLatestAndCommitWithOrigin` (two writes), `Put` |
| scan pool (`internal/scan/pool.go`) | slots | `Bounded.Do` |
| fallback (`internal/fallback`) | none | `Fetch` within a max-age |
| tokens and limiter (`internal/tokens`) | token index, per-host limiter | rotate, retry |

### Legacy results API (`api/`)

| Part | State it keeps | Operations |
|---|---|---|
| publishing (`post_results.go`) | none beyond the request | verify, write the latest object, purge, write the commit's object, purge |
| workflow verification (`verify_workflow.go`, `github_verifier.go`) | per request: a cache of known commits | checks on workflow, job and steps; up to a dozen GitHub calls per pinned step |
| serving (`get_results.go`) | none | read the results bucket, else the cron bucket, else 404 |
| CDN (external) | one answer per URL, for a year | pass a miss on, keep the response, drop it when purged |

The results bucket is written by `POST`, the cron bucket by the batch workers;
both purge the same URLs.

### What is hard here, and what makes each part correct

* **Controller and publisher.** One request value is reused while goroutines
  send earlier copies of it; a shard number is prepared before it is known
  whether the shard exists; sends fail or the process dies after part of the job
  is queued. Correct: only whole jobs are announced, with the exact number of
  shards; the controller ends.
* **Queue, subscriber and workers.** Deliveries are repeated and reordered,
  acks are asynchronous, receipts go stale, two workers scan the same shard, and
  a pod dies between any two of its writes. Correct: no shard is acked without
  its result, no canonical file without everything it lists, nothing written for
  a job that was not announced, every shard settles.
* **Transfer.** It works on a listing that is stale when used, its load goes on
  in BigQuery when it dies, and it is restarted between load, marker and webhook.
  Two jobs of one day share a partition. Correct: a marked job, or another one of
  its day, is in the table for good; a complete one is transferred in the end.
* **Orchestrator.** Reads of body and tag, and writes of the two keys, are not
  atomic; scans, backfills and requests interleave; HEAD moves; scans outlive
  their requests and hold pool slots. Correct: a pinned answer is about its
  commit, the latest result is also pinned, every request is answered, every
  flight lands.

* **Subscribers.** A goroutine renews the lease while the worker may ack, nack
  or close; the GCP one shares its fields with the worker. Correct: the message
  in hand is renewed and, for SQS, no other; no channel is closed twice; a
  worker neither dies nor shuts down with a message unsettled.
* **Results API.** Writes and purges of two writers interleave with misses on
  their way through the handler; purges fail, writers die in between and are
  retried at another HEAD. Correct: the CDN holds what the buckets hold; a
  latest result has its pinned twin.
* **Workflow verification.** The verdict is put together from calls that are
  spared when a cache already knows the answer. Correct: it is the verdict that
  looking at everything would give.

## 2. Modules

| Module | Models |
|---|---|
| `BatchJob` | abstract: what one batch job promises, whoever carries it out |
| `Controller` | controller and publisher |
| `ShardWorkers` | one job from queue to buckets: controller seen from outside, SQS, dead-letter queue, worker fleet |
| `BqTransfer` | transfer runs over several jobs whose buckets fill as `BatchJob` allows |
| `Orchestrator` | the hybrid server for one repository |
| `Subscriber` | the three subscribers, their heartbeat goroutines and the loop that drives them |
| `ResultServing` | one repository's results: two writers, two buckets, CDN, `GET` |
| `WorkflowVerifier` | the verification of a publishing workflow, call by call |
| `MC...` | instances for TLC: constants and symmetry only |
| `ControllerProofs`, `ShardWorkersProofs`, `BqTransferProofs`, `OrchestratorProofs`, `SubscriberProofs`, `ResultServingProofs`, `WorkflowVerifierProofs` | inductive invariants, lemmas, theorems |

`Controller` and `ShardWorkers` both refine `BatchJob`, and `BqTransfer` lets its
buckets fill as `BatchJob` allows: `BucketFillsForTransfer` instantiates
`BqTransfer` in `ShardWorkers` and says that what controller and workers do to
the canonical bucket are steps of the transfer's environment. `Subscriber` justifies what `ShardWorkers`
takes for granted of one worker's end of the queue: an attended message is being
renewed, and is no longer once it was acked or nacked. `ResultServing` takes from
`WorkflowVerifier` that a publication is accepted or refused before anything is
written, and from `ShardWorkers` that a failed export is tried again from its
beginning.

Definitions whose comment starts with "Mutated:" are plausible bugs of the
operation that follows. No specification uses them; `PROJECT.json` names for
each property one that violates it, to show that the property can fail.

### How state and actions correspond to the code

**`Controller`.** `next`, `repos`, `shardNum` are the iterator and the local
variables of `publishToRepoRequestTopic`; a repository is its position in the
inventory. `outgoing` holds the messages whose `Send` goroutine has not returned
(`Publish` marshals before the goroutine starts, so the message is a value), and
`totalErrors` is the publisher's counter. `ReadRepo` is one turn of the read
loop, `Flush` the code after it, `Close` the publisher's `Close`,
`WriteMetadata`/`WriteRawMetadata` the two writes of `main`. All error returns of
`main` panic: `Panic` may happen anywhere and takes the unfinished sends with it.
A send or a write that reports an error may have taken effect.

**`ShardWorkers`.** `message`, `receives` and `settling` are the queue: an ack
or nack goes through the client library's batcher (`settling`) before the queue
sees it, and a stale receipt may be ignored. `buffered`, `held` and `pc` place
each worker in `SynchronousPull`, `WorkLoop.Run` and `processRequest`; `todo`,
`buffer` and `written` are the loop over the shard's repositories, what
`buffer2`/`rawBuffer` hold, and how many of the four exports of the current
repository are done. Every call that may fail has a failing branch (`Fail`,
nack), and a failed write may have landed. `Reappear` is the end of a visibility
timeout: of a dead worker's message at no cost, of an attended one (a missed
renewal, or a message left in the receive buffer for the queue's whole timeout)
or of a deleted one (SQS's at-least-once delivery) as a fault. `overtaken` is a
history variable: the shards of which an attended delivery was taken back.

**`BqTransfer`.** `GetBucketSummary` takes the listing that the rest of the run
works from; `Skip`, `StartLoad`, `EndLoad`, `MarkTransferred`, `PostWebhook` and
`EndRun` are the loop of `transferDataToBq`; `Fail` is a panic or a killed pod at
any of these points, after which a load under way may or may not still end. The
float comparison with the completion threshold is a comparison of fractions; the
NaN and infinity that Go's division yields for zero expected shards are the
`expected > 0` guard of `IsCompleted`. `Day` gives each job its partition. Jobs
may share one: a job is named by the time at which its controller started, and
a controller pod that failed is started again by Kubernetes.

**`Orchestrator`.** A result is its commit, date and true origin. `pc` places a
request between the store calls of `GetOrProduce`; `flight` and `found` are the
singleflight call of each key and the scan behind it; `got` holds the body read
or fetched, and later what arrived in the `DoChan` channel. The three fallback
modes are chosen at Init because flags are read at start-up.

**`Subscriber`.** `kind` is the subscriber that `CreateSubscriber` returned; `pc`
places the worker in `SynchronousPull`, `Ack`, `Nack`, `Close` and `WorkLoop.Run`.
Channels are numbered in the order they are made: `done` is the one in
`subscriber.done` (GCP) or `subscriber.stop` (SQS), `closed` those closed so far.
`beats` holds the heartbeat goroutines, each at the top of its loop, in its
`select`, past its timer or in its call. The SQS goroutine got channel and
receipt as arguments; the GCP one evaluates `subscriber.done` on entering
`select` (`EnterSelect`, and `FireAtOnce` for the first turn, whose timer has no
delay) and `subscriber.recvdAckID` when it makes its request (`Renew`).
`StopHeartbeat` and `Settle` are the two halves of SQS's `Ack` and `Nack`, with
the wait group between them. `pending` is the client library's batch, `lease` the
queue's view. `log.Fatal`, a panic and a normal end are all followed by
`Restart`, as Kubernetes does. `WorkLoop.Run` passes `context.Background()`, so
`Cancel` is an action of whoever owns the context; the subscribers are written
for one that is cancelled.

**`ResultServing`.** `bucket`, `cdn` and `head` are what they say; `pc` and
`payload` place each writer between its two writes and two purges, which `POST`
and the worker's export do in the same order. A failed write may have landed; a
failed purge is ignored, as in the code; a writer may die between a write and its
purge (`Die`), after which an export is retried from the scan and a publication
is not. `Leave` is a job that exports nothing of the repository, at first or on a
retry: the repository is out of reach or bars the scanner, or the shard has its
result already. A key is the object and the one URL of it that is purged. `fill` is a request the CDN passed on, between the reads of the two
buckets and the arrival of the response at the CDN. A 500 (an object that does
not decode) carries no TTL and is not kept. `missed` is a history variable: the
URLs for which a purge was lost or met a response on its way, or whose read
failed, since the last clean purge.

**`WorkflowVerifier`.** `world` is what the GitHub API would answer, one
`Repository` per action, and `workflow` the parsed `Workflow` with one flag per
check of the code; both never change. `pc` goes from the
checks on workflow and job to the steps, and through `contains`: cache, tags,
default branch, releases, release branches. A job's own permissions are one of
three classes: the scope `id-token` set to write, the shorthand `write-all`,
which the parser keeps apart from the scopes, or neither. `CallFails` is a call
that ends in a 500; a comparison of commits that gets no response at all is
`ComparePanics`, since `branchContains` reads the status of a nil response. A pin is a hash with a flag for
"written in lower case", since `markContains` files hashes in lower case and
`contains` looks them up as written. `FindJob` takes any scorecard job, as Go's
map order does.

## 3. Runs

| Run | Checks | Shows |
|---|---|---|
| `controller` | `TypeOK ShardsAreDisjoint AnnouncedJobIsWhole UnfinishedJobIsSilent ControllerEnds ImplementsBatchJob` | whatever sends do, only whole jobs are announced; refinement of `BatchJob` |
| `shard_workers` | `TypeOK AckedShardHasResult CompletedShardIsWhole RetriesHeal UnannouncedJobIsUntouched EveryShardSettles QueueDrains ImplementsBatchJob BucketFillsForTransfer` | no work lost, no half-published shard, raw and canonical file in step unless a delivery was overtaken, with two faults anywhere; shards settle, the queue drains even if the controller died |
| `bq_transfer` | `TypeOK TransferredJobIsInTable OnlyAnnouncedJobsMove MarkedJobIsNotReloaded CompleteJobIsTransferred` | restarts, orphaned loads and a second job of the day never lose or reload a marked job |
| `orchestrator` | `TypeOK PinnedAnswerIsThatCommit LatestIsAlsoPinned EveryRequestAnswered FlightsLand` | in every fallback mode, with store failures and one pool slot |
| `subscriber` | `TypeOK SqsRenewsOnlyWhatItHolds HeldMessageIsRenewed NoChannelClosedTwice SqsNeverEndsHolding SqsShutdownIsClean` | the heartbeat follows the message in hand; no end or shutdown loses a message |
| `result_serving` | `TypeOK CdnIsCurrent SettledLatestIsPinned` | the only ways the CDN gets stale are a purge that is lost or meets a response, and a failed read |
| `workflow` | `TypeOK CacheIsSound VerdictIsRight` | the verdict reached call by call is the declarative one |
| `dead_letter`, `raw_mismatch`, `pinned_immutable`, `stale_cdn`, `gcs_nack` | one property each, violated | the findings of section 6 |

### Bounds, and why they are enough

* `controller`: inventories of 0 to 7 repositories with `ShardSize` 3 contain the
  empty one, exact multiples, one short and one over, and three shards in flight
  at once. The theorems of section 5 remove the bound.
* `shard_workers`: one shard of two repositories, two workers, three deliveries,
  two faults: a second worker and a redelivery are what a race on one shard
  needs, two faults allow a missed renewal and a crash after it, and a shard can
  survive both or use up its deliveries. Shards meet only in the choice of what a
  worker pulls next. The theorems remove these bounds for the safety properties.
* `subscriber`: two messages, one of them unparseable, two deliveries of each and
  one failing call, for each kind: a message in hand, one settled before it whose
  goroutine may still run, and a redelivery. The theorems remove the bounds.
* `result_serving`: one publication (of a result that may not decode), two jobs,
  two commits, one CDN request at a time and one failure: a writer that is
  retried at another HEAD while a second one overtakes it. The theorems remove
  the bounds.
* `workflow`: two hashes, three branches, release lists of up to two targets, a
  lookback of 1, so that duplicates, the default branch and one branch too many
  all occur, and two actions, so that a hash known of one may be looked up in the
  other. Workflows of one or two jobs reach every check, with a second job of each
  class of permissions. The theorems remove the
  bounds: any workflow, any repositories, any lookback.
* `bq_transfer`: jobs of three, one and no shards and a threshold of 2/3, so that
  jobs are complete below, at and never at the threshold; two failed runs allow
  an orphaned load of a run that is itself retried. The first two jobs are of one
  day and share a partition. The theorems remove the bounds.
* `orchestrator`: two requests, two commits, one pool slot, one tick and windows
  shorter than it (`Ttl` and `MaxAge` 0), so that a local result can be stale
  while an upstream one of a later date is fresh, and both can be stale. The
  theorems cover every window, also unequal ones.
* Deadlock checking is off where the system may rest: a job is finished, every
  request is answered, no run is due. It is on for `subscriber`, which always has
  a pull or a restart ahead of it, and for `workflow` and `result_serving`.

## 4. Fairness

* `Controller`: the process runs its own code unless it dies, and every `Send`
  returns because the SDK bounds its retries. `Panic` is never forced.
* `ShardWorkers`: the controller goes on until done or dead; each worker goes
  on; the client library sends the acks it was given; SQS delivers visible
  messages to polling workers, lets the visibility of an unattended message
  lapse and applies its redrive policy. No fault is forced, and faults are finite.
* `BqTransfer`: the CronJob starts a run again and again (`concurrencyPolicy:
  Forbid`, so one at a time), a run goes on unless it fails, BigQuery ends the
  loads it accepted. Workers owe nothing.
* `Orchestrator`: goroutines are scheduled, and every wait has a timer: the sync
  timeout, the scan timeout (assuming that the engine honours its context) and
  the fallback client's timeout. Clock, pushes and upstream owe nothing.
* `Subscriber`: the worker's loop goes on (scans and calls return), each
  goroutine is scheduled, the client library sends its batch, and the queue takes
  back a lease nobody renews. Failures, cancellation and restarts are not forced.
* `ResultServing` and `WorkflowVerifier` state no liveness: the first owes
  its clients no progress, the second ends after finitely many calls.

## 5. What is proved

Each proof module proves `Spec => []P` (or `Spec => [][A]_vars`) from an inductive
invariant `IInv` that TLC checked first. The proofs assume only what the modules
assume of their constants: positive sizes, and marks such as "no message" or "no
file" that are not values of the data. All bounds are arbitrary natural numbers.

**`ControllerProofs`**: `TypeCorrect`, `MessagesAreDisjoint`, `AnnouncedIsWhole`,
`UnfinishedIsSilent`, `ControllerImplementsBatchJob`. `AnnouncedJobIsWhole` is about the queue at the moment the
metadata is written and says nothing of the steps before. `IInv` adds what the
code maintains on the way: the messages made so far are disjoint, come from the
part of the inventory already read, and have numbers below the shard being
filled (`MessagesAreSound`); the shard being filled is not full
(`ShardIsNotFull`); while no send has failed, messages and current shard hold
everything read and the numbers have no gap (`NothingIsMissing`); metadata
follows a `Close` without errors (`MetadataComesLast`). The refinement needs the
announced number to be the inventory divided by the shard size and rounded up,
which no step computes: `ShardsAreCounted` keeps `next - 1 = ShardSize * shardNum
+ Cardinality(repos)` while the inventory is read, and `Flush` then settles the
last shard, partial, full or absent.

**`ShardWorkersProofs`**: `TypeCorrect`, `NoWorkIsLost`, `PublishedShardIsWhole`,
`SilentJobIsUntouched`, `PipelineImplementsBatchJob`, `RetriesDoHeal`,
`PipelineFillsBucket`. The invariants speak of
buckets and queue; a step of a worker preserves them only because of what the
worker established in earlier steps, which `WorkerInv` records: past the metadata
check the job is announced, an acker has seen or written the canonical file, all
buffered repositories but the one being exported are fully exported, the raw file
is there when the canonical one is written. None of these facts can be undone by
another worker, since buckets only grow or are overwritten by files of the same
shard that satisfy the same facts. The refinement maps `sent`, `announced` and
`results` to the queue, the controller's state and the canonical bucket; every
step is a `Send`, `Announce`, `Finish` or a stutter, using that all messages of
an announced job have been sent. Seen in the bucket, these are the steps
`Announce` and `Finish` of `BqTransfer`'s environment, or stutters
(`PipelineFillsBucket`).

`RetriesHeal` is about two workers and needs a second invariant, `HealInv`. It
speaks of *claims*: deliveries that some worker holds, has in its receive buffer,
or has acked or nacked without the queue knowing yet. For a shard that was never
overtaken, there is one claim at most (`ClaimsAreExclusive`), it is for the
latest delivery and the message is hidden (`ClaimsAreCurrent`). So the worker
that has it is alone with the shard's files: it found no canonical file, and the
raw file is its own when it writes the canonical one (`WorkerIsAlone`). Claims are
made by `Deliver`, passed on by `Pull`, `Ack` and `Nack` (lemma `MovedClaim`) and
dropped by `Settle` and `Crash` (lemma `FewerClaims`).

**`BqTransferProofs`**: `TypesHold`, `TransferredJobIsInTableHolds`,
`OnlyAnnouncedJobsMoveHolds`, `MarkedJobIsNotReloadedHolds`. That a marked job
stays in the table depends on loads that may end long after their run died, so
`IInv` follows the data: files belong to their job (`FilesAreOfTheJob`), the
listing a run works from was true when taken and files only grow
(`SummaryIsSound`), every load was started from such a listing (`LoadsAreSound`),
a partition holds what some load of an announced job of that day put there
(`PartitionsAreSound`), the
job a run is at was complete in its listing (`CurrentIsSound`), and a mark follows
a load that ended (`MarksAreSound`). Of a run there is at most one load under
way, the one it waits for; the loads of dead runs are told apart by their run.
Nothing is assumed of the days: that the partition holds the marked job itself
follows where no other job of its day was announced.

**`OrchestratorProofs`**: `TypesHold`, `PinnedAnswerHolds`, `LatestPinnedHolds`. A
pinned answer may come from the cache, from upstream or from a scan that another
request started, so `IInv` says of each place a result passes through that it is
about the right commit: stored objects (`PinnedObjectsMatch`), scans under way and
landed (`FlightsCarryTheirKey`), bodies in a request's hands
(`RequestsCarryTheirKey`), answers (`RepliesCarryTheirKey`). `LatestIsAlsoPinned`
is inductive with these, because the pinned object is written first.

**`SubscriberProofs`**: `TypesHold`, `SqsRenewsOnlyWhatItHoldsHolds`,
`HeldMessageIsRenewedHolds`, `NoChannelClosedTwiceHolds`,
`SqsNeverEndsHoldingHolds`. `IInv` adds that a worker past its receipt has a
delivery (`DeliveryIsKnown`), that the GCP subscriber's channel, new with every
pull, is open until the Ack, Nack or Close that follows (`ChannelIsOpen`), which
is why nothing is closed twice, and that the goroutine started for the message in
hand has the open channel and its receipt and leaves only with the context
(`BeatIsRunning`): it cannot be lost to a failed renewal or an earlier stop.

**`ResultServingProofs`**: `TypesHold`, `CdnIsCurrentHolds`,
`SettledLatestIsPinnedHolds`. `IInv` adds that a writer past its verification or
scan has a payload (`WritersHavePayload`); that a response on its way holds what
its bucket reads still give, or a purge of its URL is due or noted as missed
(`FillsAreCurrent`), without which `CdnIsCurrent` is not preserved when the
response arrives; that a latest object is its writer's current payload until
that writer has written the pinned twin (`LatestIsAccountedFor`); and that a
writer which is anywhere else without having ended well came there by a failure
(`LatestHasReason`).

**`WorkflowVerifierProofs`**: `TypeCorrect`, `SharedCacheIsSound`,
`VerdictsAreRight`. `Admissible` looks at everything at once; the code looks at
one step and one branch at a time and stops when it knows enough. Of the other
jobs' permissions it asks what the code asks, that those which may write id
tokens do so by `write-all` (section 6). `IInv` says
what each place in the code knows: cached hashes belong to their repository, if
looked up in lower case (`CacheBelongs`); the job judged has passed the checks
before this one, and so has every step before this one (`JobProgress`); the
commit being looked up is not in what was asked already (`LookupProgress`);
`branches` is the rest of the list of release branches, `analyzed` counts those
before it other than the default, and none of these contains the commit
(`BranchProgress`). The list of release branches is the targets of the releases
without repetition, defined by the rank of each first occurrence. That it is a
list of branches, for releases of any length, takes an induction over ranks. The
library's induction theorems take an operator as a parameter and cannot be used,
so `RanksAreAllTaken` argues from the least rank that is not taken, which exists
because the naturals are well-founded (`LeastNatural`).

**Only model-checked**: the liveness properties `ControllerEnds`,
`EveryShardSettles`, `QueueDrains`, `CompleteJobIsTransferred`,
`EveryRequestAnswered`, `FlightsLand` and `SqsShutdownIsClean` (fairness and
`ENABLED` are out of the prover's reach), and of course the violations of section
6. `RECURSIVE` operators are avoided throughout.

## 6. Findings

Five places where a comment, document or script says something the code does not
do. `PROJECT.json` quotes the lines.

1. `dead_letter`: workers that receive shards before the metadata file exists
   nack them at visibility zero. With no failure at all, a shard can use up its
   deliveries before the controller is done and end in the dead-letter queue.
2. `raw_mismatch`: "a crash between those two writes is self-healing" fails when
   a second worker has written the canonical file: no retry rewrites the raw one.
   `RetriesHeal` shows when it does heal: always, for any number of
   crashes and failed calls, as long as the queue never takes a delivery back from
   a worker that is still at it.
3. `pinned_immutable`: the "immutable" pinned object is overwritten by each later
   latest scan or backfill of the same commit.
4. `stale_cdn`: "invalidated if updated" holds for answers the CDN has when the
   purge arrives, not for a response that is still on its way and reaches the CDN
   after it. `CdnIsCurrent` shows that, failures aside, this is the only gap.
5. `gcs_nack`: the heartbeat of the GCP subscriber may not notice that it was
   stopped, when it is in a call or not yet in its `select` while `Nack` closes
   its channel and the next pull replaces it. It goes on renewing the message
   that was nacked for as long as the pull finds no other. SQS's version, with the
   channel as an argument and a wait group, does not have this
   (`SqsRenewsOnlyWhatItHolds`).

Remarks that no run is about:

* "Make sure other jobs don't have id-token permissions" (`verify_workflow.go:126`)
  is done by looking up the scope `id-token` of each other job. A job with
  `permissions: write-all` has no scopes, and `write-all` is looked for only in
  the workflow's own permissions, so such a job does not keep a workflow from
  being accepted. `VerdictIsRight` says exactly that, in both directions: other
  jobs of an accepted workflow may write id tokens by `write-all` only, and no
  workflow is refused because of it.
* A comparison of commits that fails without a response (`github_verifier.go:105-107`)
  ends in a nil dereference. The server recovers and drops the connection, so the
  client of `POST` gets no answer instead of a 500; nothing has been written.
* Two jobs of one UTC day share a BigQuery partition, and the later load replaces
  the rows of the earlier one, both marked as transferred. The controller is
  scheduled weekly (its release test daily), but its pod has no `backoffLimit` and
  takes a new time at each start.
* An export that failed after the latest object is completed only if the retry
  reaches the repository: otherwise the latest object stays without its pinned
  twin until the next job (`SettledLatestIsPinned` names the case).
* A transfer that dies between the marker and the webhook is not pinged for by a
  later run, which skips marked jobs.
* `GetWithOrigin` reads body and attributes in two calls and reports the local
  origin when the second one fails.
* After a retry, the `latest` object of a repository may be that of the older of
  two jobs; nothing orders the jobs' exports.
* A commit pinned in upper case is never found in the cache, which holds lower
  case; it costs calls, and a commit that only a tag or a release names is
  refused.
* The comment on `contains` counts the calls without the one that lists releases.
* With several scorecard jobs in a workflow, Go's map order decides which one is
  judged.

## 7. Abstractions and what is not modelled

* Contents of results, formatting and file names; CSV decoding; logging; metrics.
* A listing of the bucket is one step. Paging would only add listings that miss
  files written meanwhile, which another order of the steps gives as well.
* A batch job at a time in `ShardWorkers`, one repository in `Orchestrator` and
  `ResultServing`: other keys are independent except for the pool slots.
* Publishing: the certificate and transparency-log checks are one accept or
  reject; the workflow parser's diagnostics and the patterns for runner labels,
  step names and hashes are classes. The two GitHub calls for the default branch
  are one step; any call may fail, and a failure ends the request with a 500 or,
  in a comparison, a panic.
* Serving: other spellings of a result's URL (stripped characters, unknown query
  parameters), which lead to the same object, are CDN entries of their own and are
  not purged: `CdnIsCurrent` is about the URLs the writers purge. The badge redirect, the 400 for malformed inputs, the browser's own
  ten-minute cache and the no-op purger of deployments without a CDN.
* Subscribers: the pause after an empty GCP pull, and gocloud's receive buffer,
  which `ShardWorkers` has.
* Token pool, per-host limiter and retry (`internal/tokens`): sequential helpers
  behind a mutex, without interaction to explore.
* HTTP layer of the hybrid server, scan engine, webhook, CII crawler, token
  server, inventory tools, result formats, generated code with its Swagger UI
  files, deployment files: translation, I/O or configuration; `PROJECT.json`
  gives the reason for each. Restart, concurrency and redrive settings are the
  models' assumptions.

## 8. Plan

Done, in the order of importance: `BatchJob`, `Controller`, `ShardWorkers`,
`BqTransfer`, `Orchestrator`, `Subscriber`, `ResultServing`, `WorkflowVerifier`,
and the proofs of their safety properties. What remains:

1. `Orchestrator`: count scans per key ("exactly one scan" of the package
   comment); several repositories sharing the pool.
2. `ResultServing` with more than one API replica's clock: the browser cache and
   its ten minutes.
