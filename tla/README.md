# immich-compressor in TLA+

immich-compressor replaces the photos and videos of an Immich library by smaller
encodes: it downloads an original, encodes it, uploads the result as a new asset,
carries albums, links and fields over, and then deletes the original. What can
go wrong is not one function but the order of two dozen calls to a server that may
fail, two writers on one SQLite table, a sweeper working off an old list, a user
with a trash can, and a process that may die between any two of these. The checksum
shim then has phones believe that the replacement *is* the original they hold, by
rewriting a stream as it passes, with maps that are always a little old. That is what
these modules are about first; then how an asset gets into the queue, by webhook or by a
backfill, how originals are brought back, and how a process finds the encoder it uses and
decides on what comes out of it.

* [What the system consists of](#inventory)
* [The modules, and how they correspond to the code](#modules)
* [What the runs check](#runs), [the bounds](#bounds), [the fairness](#fairness)
* [What is proved](#proofs)
* [Where code and documentation part](#findings)
* [What is left out](#left-out) and [what remains](#plan)

All paths below are relative to `src/immich_compressor/` of the repository.

<a id="inventory"></a>
## 1. Inventory

| component | state it keeps | operations | talks to |
|---|---|---|---|
| **Job store**, `store.py`, `models.py` | SQLite: one row per source asset (`state`, `attempts`, `run_after`, `new_asset_id`, `new_checksum`, `delete_after`, `source_checksum`, `owner_id`, `original_freed_at`), the pause latch and counters, the backfill inventory and its cursor | `enqueue`, `claim_next`, `update`, `reset`, `requeue_*`, `due_deletions`, `find_replaced_original`, `mark_original_freed`, `pause`/`resume`, inventory statements | everything |
| **Pipeline**, `pipeline.py`, `api.py` | locals of one run: the job as claimed, the encode's checksum | `run_job` → `_process` → `_run_media_steps` → `finalize_original` | store, Immich |
| **Workers and sweeper**, `pipeline.py` | one asyncio task per lane and slot, one sweeper task with the list it has read | `_loop`, `_sweeper`, `_trash_one`, `start`, `stop` | store, pipeline |
| **Intake and breaker**, `routes.py`, `ingest.py` | a deque of recent enqueues (in memory), the pause latch (in the store) | webhook, `check_ingest_guards`, `SurgeDetector.record`, `resume` | store |
| **Operator**, `routes.py`, `__main__.py` | – | `reprocess`, `requeue`, `requeue --failed`, `resume`, restart with another configuration | store |
| **Checksum shim**, `shim.py` | the translation maps, refreshed by timer; sightings of returned originals; what is owed a re-offer | sync stream rewriting, upload check, gates, claims | store, Immich, the phone's mirror |
| **Backfill**, `backfill.py`, `__main__.py` | inventory and cursor, in the store; a batch of candidates in the process | `scan_type`, `queue_candidates` | store, Immich |
| **Restore**, `api.py`, `__main__.py` | the stack of halved batches | `restore_assets_best_effort` (bisection) | Immich |
| **Encoder and gates**, `encoder.py`, steps 2 to 5 in `pipeline.py` | the files of a temporary directory | download, the three checks of a still, encode with its one retry, metadata copy and diff, sanity gate | ffmpeg, ffprobe, ImageMagick, exiftool |
| **Configuration**, `config.py` | the settings of a process | sources and precedence, validation, preset selection | environment, file |
| **Hardware**, `hardware/` | what was found out about the machine | collect, rank, confirm by test encodes, build presets | ffmpeg, vainfo, devices |
| **Metrics**, `metrics.py` | – | rendering counters and a histogram | store |
| **Setup and packaging**, `setup_cmd.py` | – | a dialogue that writes a compose file and a workflow | operator |

**How they interact.** The webhook (or backfill) writes a `queued` row. A worker of
the lane for the row's type claims it, and runs the ten steps; each step is one or
several awaited calls, and the row is updated after those that matter. Step 10
either deletes the original at once (`retention_days: 0`) or leaves the row in
`pending_delete` for the sweeper. The sweeper calls the same `finalize_original`.
The breaker's latch is looked at by the webhook before it queues, before a claim, and
before a sweep, and nowhere else. `backfill` and `restore` are processes of their own that
share the database and the server with the service.
The shim reads the same table to decide which checksum a phone is shown.

**What is hard about it.**

* *Crashes.* Nothing but the table survives. Several writes come in pairs
  (`pending_delete` then `delete_after`; reschedule then `pending_delete`; source
  marker then state), and every server call has an effect before its answer is
  written down.
* *Interleaving.* `claim_next` is a SELECT and an UPDATE; `running` is itself
  claimable; `UPDATE jobs SET ...` never looks at the state it replaces. Two workers
  on one job, or a worker and the sweeper, overwrite each other's columns.
* *Unreliable calls.* `_request` repeats a call whose answer was lost; the server
  answers `duplicate` to the repeat of an upload that had worked.
* *Stale reads.* The sweeper's list; the row as claimed; the two reads of the
  verification before the delete.
* *Checks that are not atomic with what they guard.* The webhook reads the latch, queues,
  and counts, with an await between each two; a backfill run asks the server about a
  candidate, queues it, and marks it, in two commits.
* *A library that moves.* A scan is a page number of a list that uploads, deletes and the
  restore command shift under it.
* *Tools that succeed without having done it.* Encoders that exit with 0 and write nothing,
  drop a rotation or a date; probes that are missing, fail, or hang.
* *Liveness.* Backoff, hourly retries of a deletion, and a pause that has to bring
  the service to rest.

**What makes each component correct.**

* *Pipeline*: an original goes only for a replacement that is complete (bytes, links,
  fields, marker), verified, and remembered in the ledger; what it went for stays complete; no
  second upload once one is on record; bytes replaced once are not compressed again
  when a device uploads them again.
* *Job store, workers*: every accepted job reaches an end or the deletion queue;
  every scheduled deletion that is in order is carried out; a pause brings rest.
* *Shim*: no translation while the original exists; what has been sighted is not
  armed; a row lost to a copy comes back; no sync is stuck; an opened gate delivers.
* *Intake*: a window sees no more new rows than the threshold and one for each open
  handler; under the latch only the handlers that were open still bring in an asset; what
  queues no work does not trip it.
* *Backfill*: a walk leaves nothing behind that it has passed; what is marked has a job,
  whatever was interrupted or raced; the limit counts jobs, exactly; repeated runs come to
  the end of the inventory.
* *Restore*: every id is restored or reported, only ids the server does not have are
  reported, and finding them costs less than two requests for each id.
* *Configuration, hardware*: what is written is kept; otherwise the best encoder that has
  been seen to work is used.
* *Encoder*: an original with something attached is not encoded; what is accepted is the
  whole output of the last run, described by its checksum, complete and the right way up.

`PROJECT.json` lists every hazard with its line and the properties that look at it.

<a id="modules"></a>
## 2. Modules

```
JobStore            the jobs table, one statement per operator
  └ JobPipeline     tasks, sweeper, server, operator; the properties
      ├ JobPipelineInv ── instance of SafeReplacement
      │     └ JobPipeline_proofs                      types        (TLAPS)
      │         └ JobPipelineSafety_proofs            invariants   (TLAPS)
      │             └ JobPipelinePromises_proofs      one worker, refinement (TLAPS)
      └ JobPipelineClaims                sentences of the docs that do not hold
MCJobPipeline       constants for TLC, over Inv and Claims

Filter              the list comprehension, used by the modules below
  └ Filter_proofs                     what it returns              (TLAPS)

JobStore
  └ ChecksumShim    ledger, requests, server, mirrors
      └ ChecksumShimProps        the inductive invariant, the properties
          └ ChecksumShim_proofs                types, invariants   (TLAPS)
MCChecksumShim      constants for TLC, over Props

Intake              webhook handlers, surge window, latch
  └ Intake_proofs                     types, latch, window, trips    (TLAPS)
MCIntake            constants for TLC

Backfill            scan and run, the library under them
  └ Restore         the restore command beside both
      └ Restore_proofs                types, walks, marks, limit, restore (TLAPS)
MCMaintenance       constants for TLC, over Restore

Startup             settings, detection, presets
JpegWalk            where a JPEG ends, byte by byte; what a JPEG is
MetadataDiff        when a tag has survived
Encoder             one job from download to verdict, over these three
  └ Encoder_proofs                    detection, walk, job, tolerance (TLAPS)
MCMedia             constants for TLC, over Encoder
```

**JobStore** models `store.py`: `Row` is the part of `Job` that steers anything,
`Claimable`, `Claimed`, `MarkedSkipped`, `Rescheduled`, `Requeued`, `DueDeletion`,
`ReplacedOriginal`, `MarkedFreed` are its SQL statements on one row. Timestamps
are reduced to what the statements ask of them: `due` (has `run_after` passed), `del`
(`delete_after` is null, ahead, or due).

**JobPipeline** models `pipeline.py` and the calls of `api.py`. `task[t].pc` names the
next step of task `t`; each action is what happens between two awaits.

| actions | code |
|---|---|
| `Poll`, `Claim` | `Worker._loop` 842–861, `claim_next` (store.py 289–318) |
| `Load`, `Reject`, `ReadMarker`, `GetDetail`, `WriteLedger`, `CheckReUpload` | `run_job`, `_process` 206–305 |
| `Download`, `Encode`, `MarkNoGain`, `Upload`, `UploadDuplicate`, `ReadDuplicate`, `RecordDuplicate`, `Record` | `_run_media_steps` 323–427 |
| `CopyLinks`, `ApplyFields`, `Link`, `MarkNew`, `MarkSource`, `MarkFails`, `Pend`, `Schedule` | `_run_media_steps` 430–485 |
| `CallFails`, `Skip`, `HandleFailure` | the `except` clauses of `run_job`, `_handle_failure` 218–244 |
| `Verify`, `VerifyMarker`, `Delete`, `Refuse`, `Finish`, `Free`, `DeferQueue`, `DeferPend` | `finalize_original`, `_verify_replacement`, `_free_original_checksum`, `_defer_deletion` 573–710 |
| `SweepStart`, `SweepNext` | `_sweeper`, `_trash_one` 863–894 |
| `Surge`, `Resume`, `Reprocess`, `RequeueFailed`, `RequeueSkipped`, `Restart` | `routes.py`, `store.py`, `Worker.start/stop` |
| `Arrive`, `OriginalMoved`, `ReplacementMoved` | the server and its users (external) |

A call may take effect and answer, take effect with the answer lost (a second
program counter to continue at), or do neither (`CallFails`, `MarkFails`, `Refuse`).
`basis[a]` remembers the replacement an original was first deleted for, and
`lateLoss` the replacements a user removed after the check that was to see them;
no action of the program reads either.

**SafeReplacement** is what all this is for, in four actions: a stand-in gets
complete, is withdrawn while nothing rests on it, a removal becomes remembered, an
original is taken away for a complete stand-in if its removal is remembered.
**JobPipelineInv** holds the inductive invariant `IInv` and the refinement mapping.
**JobPipelineClaims** states three sentences of the documentation and of comments.

**ChecksumShim** models `shim.py` over the rows of `JobStore`. A replacement `n` of an
original `o` may be shown to a phone under `o`'s checksum once `o` is gone for good (its
*gate* is open: `row[o].freed`) and no copy of `o` is known to be back (a *claim*). Each
request of a client is a process with `stream[r].pc`; each action is what happens between
two awaits, so the two reads of a rebuild, the settling of a response and its touches
interleave with other requests, the pipeline, purges and uploads.

| actions | code |
|---|---|
| `MapsCached`, `MapsRead`, `MapsBuild`, `MapsFail`, `Expire` | `ChecksumLedger.maps` 385–419, `TranslationMaps.build` 155–177 |
| `SyncStream`, `Send`, `Unreachable`, `BulkUploadCheck` | `build_router` 836–908 |
| `DeleteLine`, `UpsertLine`, `BatchFails`, `EndOfStream`, `Drop` | `rewrite_sync_line` 198–282, the loop of `_stream_sync` 753–766, and the app that applies the line |
| `Observe`, `OpenGate`, `Release`, `Settled`, `CutShort` | the `finally` of `_stream_sync` 767–801, `observe`, `_open_gates`, `_release_claims` |
| `TouchHeld`, `TouchFails` | the touches of `_open_gates`, `_release_claims`, `_reoffer_held_back` |
| `Load`, `Classify`, `DeletePermanently`, `FreeOriginalChecksum`, `TouchReplacement`, `Requeue` | what of `pipeline.py` writes what the shim reads |
| `Restart` | the ledger and every request are gone, the table stays |
| `Purge`, `Edit`, `Arrive`, `BeginUpserts` | the server, its users (external) |

`dels[d]` and `news[d]` are what Immich has yet to tell device `d`; a response takes the
deletes when it begins and the upserts when these are through; whatever the device has
not acknowledged is sent again. `mirror[d]` is the app's table as
`tests/test_app_mirror.py` describes it: one row per (owner, checksum), inserting
replaces the row that holds the checksum, updating into a held one fails the batch.

**Intake** models the webhook handler of `routes.py` with the gates and the breaker of
`ingest.py`. The jobs table is the set of assets that have a row. A handler is a
coroutine with two awaits; all of them share one database connection that runs statements
in the order they are given, so a statement takes effect where it is submitted.

| actions | code |
|---|---|
| `Deliver` | `check_ingest_guards` 44–110, the look at the latch in `webhook` 155–187 |
| `EnqueueKnown`, `EnqueueNew` | `store.enqueue` 251–287 and the early return of a replay |
| `RecordOff`, `RecordCalm`, `RecordTrips` | `SurgeDetector.record` 132–152, `store.pause` 679–692 |
| `BackfillEnqueue`, `Resume`, `Restart` | `queue_candidates` 317–325, `_resume`, `_lifespan` |

`fresh` and `late` are history: what webhooks have queued since the last trip, and under
the present latch.

**Backfill** models `scan_type` and `queue_candidates` for one asset type. `op[s].pc`
names the next step of session `s`; a step ends at a request or a commit. `Found` is what
the server's search lists, and `Shift` marks the walks and the cursor that may have lost
their place when it moves.

| actions | code |
|---|---|
| `ClearInventory`, `ClearCursor`, `ReadCursor`, `Fetch`, `StopAtMaxPages`, `RecordPage`, `SaveCursor`, `CompleteWalk` | `scan_type` 158–239, `record_candidates`, `clear_inventory` |
| `ReadStats`, `Pick`, `Verify`, `Enqueue`, `Refuse`, `Mark` | `_backfill_run`, `queue_candidates` 266–347, `pick_candidates`, `_live_verdict` |
| `Fail` | a request that fails for good, or the end of the process |
| `Upload`, `Name`, `Trash`, `Purge`, `Webhook` | Immich, its users, the service (external) |

**Restore** adds `restore_assets_best_effort`: `rs.todo` is the call stack of
`_restore_batch`, `Accepted`, `Isolated` and `Halved` are what it does about an answer.
What it restores comes back into the lists that a scan is walking.

**Startup** models what a process works with: `load_settings` and its validation (`Refuse`,
`UsePresets`), `collect_host_facts` with every command failing or hanging (`AskFfmpeg`,
`AskVainfo`, `Hang`), `rank_candidates` (the function `Ranked`), `confirm_candidates`
(`TestEncode`, `FallBack`), and `build_presets` with `apply_to_settings` (`Build`).

**Encoder** models the media steps of a job with the presets a started process has
arrived at. `dir` is the job's temporary directory. A file's content is what can be told
apart about it: where its picture was turned and what its orientation tag says, its
streams, tags, length. `Alterations` are the ways in which an encoder may fail its file.

| actions | code |
|---|---|
| `Begin`, `Download`, `OpenStill`, `WalkStill`, `AskWalk`, `AskTags`, `AskQuality` | `_run_media_steps` 312–337, `_check_still`, `embedded_media_reason`, `jpeg_quality` |
| `ProbeSource`, `RunEncoder`, `EncoderRefuses`, `CopyMetadata`, `Inspect` | `encode` 778–839, `probe` 359–436, `copy_metadata` 665–694 |
| `VerifyMetadata`, `CheckSanity`, `Fail` | `_verify_metadata`, `check_sanity` 842–936, every command that fails or times out |

**JpegWalk** is `_jpeg_end_offset` and `_skip_entropy_data`, one action per turn of a
loop over a sequence of bytes. Its second half is no translation but what the walk is
held against: the grammar of a JPEG (`Part`, `LastPart`, `BreaksOff`), which says what may
stand between two offsets and knows of no walk. A source carries the offsets at which its
parts begin and the end of the last one, and `LaidOut`, an assumption about sources, says
that bytes and offsets agree. **Filter** is `[x for x in s if x in T]`, the comprehension
by which the code filters lists; its lemmas are in `Filter_proofs`. **MetadataDiff** is `_values_match` and `_diff_metadata`.

<a id="runs"></a>
## 3. Runs

| run | instance | checks |
|---|---|---|
| `one_worker` | one worker and the sweeper; every payload, four configurations, damaged uploads; one crash, one forced re-run | `TypeOK`, `NothingLost`, `CarriedOver`, `RemovalIsRemembered`, `FreedMeansGone`, `PendingHasReplacement`, `NoUploadOnceRecorded` |
| `two_workers` | two workers that may hold the same job, two different encodes; one move of an asset by the user | `IInv`, `NothingLost`, `CarriedOver`, `KeepsPromise` |
| `re_uploaded` | an original that comes back under a new id | `NoSecondGeneration` |
| `liveness` | fair; one crash, one surge, any number of failing calls | `JobSettles`, `DeletionSettles`, `PauseBringsRest` |
| `crash_after_marker`, `crash_before_schedule`, `double_claim` | the smallest instance each | one property of `JobPipelineClaims` each, refuted |
| `shim_accidents` | one request at a time, of a phone or an upload check, purges and permanent deletes; any two of: a restart, a failed read, a failed touch, a settle cut short, a requeue | `TypeOK`, `ShimInv`, `TranslatedOnlyAfterPurge`, `SightingsAreRespected` |
| `shim_one_phone` | fair; one request at a time, one copy; the phone hangs up, an asset is edited | `RowComesBack`, `SyncProgresses`, `GateDelivers` |
| `intake` | two handlers at a time, six assets of which one is old, one undated, one of another type; a threshold of one or none; one restart | `TypeOK`, `SurgeBounded`, `LateBounded`, `TripIsDeserved` |
| `maintenance` | fair; two backfill sessions and a restore of four ids, two of them gone; pages of one or two; one scan, rescan or restore and one disturbance (a failure, an upload, a purge, ...) | `TypeOK`, `RestoreTypeOK`, `WalkCovers`, `MarkHasJob`, `EveryIdAnswered`, `RestoreCost`, `LimitIsReached`, `InventoryDrains` |
| `media` | three machines, thirty starts, among them permanent deletion with every switch thrown and with each one left out; 54 stills put together from segments, the prefixes of the long ones, films; a dozen kinds of damage | `TypeOK`, `BestWorkingEncoder`, `WrittenIsKept`, `AttachedMediaIsKept`, `AcceptedIsFaithful`, `RightWayUp` |

* `NothingLost`: what an original was deleted for holds bytes encoded from it and is
  live, or went after it could have been noticed.
* `CarriedOver`: it has the links and fields too. The verification never asks for
  them; it asks for the marker, and the marker is written after them. The mutant that
  drops the marker check breaks it through a second worker.
* `RemovalIsRemembered`: the row can recognise the bytes coming back, in every state
  and after every crash, requeue and race.
* `FreedMeansGone`: `original_freed_at` is only set when the original no longer
  occupies its checksum.
* `PendingHasReplacement`: the failing branch of `_trash_one` is never taken.
* `NoUploadOnceRecorded` (one worker): a recorded replacement is used, not uploaded
  again, whatever happened in between.
* `NoSecondGeneration` (one worker): nothing is uploaded for bytes this service has already
  deleted under another id.
* `JobSettles`, `DeletionSettles`, `PauseBringsRest`: see [fairness](#fairness).
* `KeepsPromise`: every behaviour is one of `SafeReplacement`. What an original went for
  stays complete, but for a removal after the last check (`lateLoss`).
* `TranslatedOnlyAfterPurge`: no phone mirrors a replacement under the checksum of an
  original that exists, in the trash or not, and no request holds maps to make it so.
* `SightingsAreRespected`: the maps a response is bound to arm nothing that has been
  sighted on another asset by then, even if the sighting came between the two reads of
  the rebuild. The one exception is deliberate: a failed read keeps the previous maps.
* `RowComesBack`: a mirror that lost the row of an asset that exists, to a copy's line,
  gets it back.
* `SyncProgresses`: no phone's sync fails for ever on a batch its mirror refuses.
* `GateDelivers`: an opened gate gets its translation to every phone, unless the
  replacement goes or a copy turns up.
* `SurgeBounded`: within any window webhooks queue no more assets than the threshold and
  one for each handler, before the breaker trips.
* `LateBounded`: under the latch nothing is queued but by the other handlers that were
  open when it was set, one asset each.
* `TripIsDeserved`: the latch is only set after more assets than the threshold have got a
  row from a webhook. A replay, a backfill and a handler of before a restart do not count.
* `WalkCovers`: what search lists before the page a scan is about to ask for is in the
  inventory, however often it was interrupted and resumed, as long as the library did
  not move, the page size was not changed, and no rescan dropped rows under it.
* `MarkHasJob`: a row that says `queued` or `already_known` has a job behind it.
* `LimitIsReached`: a run that ends after a candidate, and did not fail, has written
  exactly as many jobs as its limit says.
* `InventoryDrains`: repeated runs come to the end of the inventory.
* `EveryIdAnswered`: an id given to restore is still to be sent, was in an accepted
  request, or is reported missing; what is reported missing is gone.
* `RestoreCost`: less than two requests for each id, however many of them are unknown.
  This is where the switch to chunks of one matters.
* `BestWorkingEncoder`: the encoder of a generated preset has passed its one-frame encode,
  and every better one the machine seems to have was tried and failed. "Better" and
  "seems to have" are said without the ranking.
* `WrittenIsKept`: what the operator wrote wins, over defaults and over detection, and the
  environment over the file. A process comes up only if nothing it was given is at fault, and
  is refused only if something is. `AtFault` is said in terms of what was written and what was
  left out, without `Defaults`, `Setting` or the guards of the start: an original may be deleted for good
  only if `delete_mode`, `trash_original` and `dry_run` were all written that way, and the
  strict gate and the age gate were not written off. A default that consented, as
  `trash_original: true` would, violates it.
* `AttachedMediaIsKept`: a still with something attached is not encoded, a plain one is
  not taken for one, against where the picture really ends by the grammar.
* `AcceptedIsFaithful`: what is accepted is a whole output of the last run, its checksum is
  that of the file after the last write, no tag of the source is missing under a strict
  gate, and the audio changed only if the container refused it and the preset allows it.
* `RightWayUp`: no quarter turn is lost or added by pixels, tag and copied tag together.
  It needs exiftool's answer for both files and edges of two lengths, and says so.

Each property has a mutant in `PROJECT.json`: a plausible mistake at one place of the
code (a dropped check, a resume at the wrong step, swapped columns) under which TLC
finds the property violated. The mutated operators stand before their originals in
the modules, each with a comment starting "Mutant:".

<a id="bounds"></a>
### Bounds

Each bound is a constant: `Limit[o]` says how often an occasion `o` (restart,
operator command, move by the user, surge, second claim of a busy job) may arise;
`MaxAttempts`, `NewAsset` and `Bytes` are small sets. They are enough because:

* assets only meet through `ReplacedOriginal`, which looks at one other asset; only
  `re_uploaded` needs two;
* two replacements and two different encodes are enough for a job to have one on
  record and another in hand, the cause of every overwriting hazard here;
* one crash suffices to lose the answer of any one step; every state it can leave the
  table in is then met by a worker and by the sweeper starting anew. The invariant
  that is checked inductively (`IInv`) does not mention the limits;
* failures of calls are not bounded at all.

In `ChecksumShim` `Allowed` names the occasions an instance has (a hang-up, a failed
read or touch, a settle cut short, a restart, a requeue, an edit), each arises at most
once and at most `Limit` in a behaviour. Purges, deletes, uploads, syncs, expiries of the
maps and everything the pipeline does are not counted. One original and one copy make
every collision there is on one checksum. The safety run has a restart, a failed read or
touch, a cut settle and a requeue, any two of them; the liveness run allows the two after
which everything is to come right, an edit and a hang-up, for a restart, a failed touch
and a cut settle lose a re-offer by design, as comments in `shim.py` say, and a requeue
gives up the claim of a copy until it is classified again. Both runs have one request at a
time: what two of them do to each other, such as a rebuild of the maps that overlaps with
a recording, is covered by the proofs, which hold for any number of requests, devices and
assets and for every order of accidents.
With two requests `RowComesBack` and `GateDelivers` do not hold (see
[findings](#findings)), so liveness has one.

`Intake`: two handlers are enough for one to be between the latch and the row while the
other trips the breaker, and with a threshold of one two new assets trip it. `MaxTime` is
three with a window of one and an age limit of two, so entries expire, assets grow
too old, and a window passes completely. `Thresholds` has `None` as well, and a restart may
change to it and back.

`Backfill` and `Restore`: `Budget` counts two kinds of occasion, the commands other than
`run` and whatever comes between; one of each gives every pair of them in every order, with
two sessions running `run` any number of times. Three assets in pages of one or two make
walks of up to three pages; `MaxPages` is two, so that this end of a walk is met. A limit
of two with `PickBatch` two needs a second pick after a refusal. `Ids` has four ids with the
two unknown ones in the middle and `ChunkSize` three: one batch is halved down to one id
and the chunk size drops to one for the rest. The invariants that are proved mention no bound.

`Encoder`: the inputs are enumerated and a job ends, so nothing has to be bounded. The
stills are all ways of putting three headers, three scans, two continuations and three
trailers together, and for long pictures every prefix of them. They are made as sequences
of parts, and TLC finds `LaidOut` true of every one, so the grammar that the proof
assumes is the one these files have.

Workers stop when there is nothing to do, and the user need not upload anything,
so a run may end: deadlock is not checked.

<a id="fairness"></a>
### Fairness

Weak fairness of every task and of the two dates: asyncio runs a task that can
run, and the clock moves. Strong fairness of three calls of `finalize_original` (the
read of the replacement, the read of the marker, the delete with its answer): the
hourly retry of `_defer_deletion` repeats them without end, and a call repeated for
ever gets through at some time. Nothing is assumed of the user, of the operator, or of
the process staying up. Calls inside a job need no such assumption: its attempts run
out, and `failed` is an end too.

For the shim: weak fairness of the service's tasks, of the timer of the maps, and in
`FairSpec` of the pipeline's steps; strong fairness of each phone's next sync, because
the phone tries again while the model has room for only so many requests. The server,
its users and every mishap are free.

For the backfill: a command that was started goes on until it ends or fails, and the
operator repeats `run`, as its docstring says to. Nothing is assumed of scans, of the
library or of the restore command.

<a id="proofs"></a>
## 4. Proofs

Eight modules are checked by TLAPS, for every value of the constants that satisfies
the named assumptions, each of which TLC evaluates on the instances above:

* `StoreAssumption`, `PipelineAssumption`, `ShimAssumption`: NULL is not an id, at least one
  attempt is allowed, the sweeper is not a worker, configurations are valid, a replacement
  is that of one original;
* `IntakeAssumption`, `BackfillAssumption`, `RestoreAssumption`: sizes and limits are
  positive, two assets do not share a rank, what may be uploaded is new, a restore is asked
  for something;
* `GivenAssumption`: settings are of the types `config.py` admits, two devices of a machine
  have two paths, a machine has a processor;
* `EncoderAssumption`: a source is whole, and its bytes are laid out by the grammar or
  break off somewhere; an encoder may alter anything of its output except that it does not
  call another codec the one it was asked for, and does not stretch a picture into its own
  transpose;
* `PrecisionAssumption`: the relative tolerance of tags is 1/n for some n.

Nothing is assumed about how many assets, workers, encodes, devices, requests, sessions,
render nodes or bytes there are, and `Limit` may be any function: the bounds of the runs
play no part.

| theorem | module | says |
|---|---|---|
| `TypeCorrect` | `JobPipeline_proofs` | `Spec => []TypeOK` |
| `Inductive` | `JobPipelineSafety_proofs` | `Spec => []IInv` |
| `OriginalsAreSafe` | 〃 | `Spec => []NothingLost` |
| `MetadataIsCarriedOver` | 〃 | `Spec => []CarriedOver` |
| `RemovalsAreRemembered` | 〃 | `Spec => []RemovalIsRemembered` |
| `FreedAreGone` | 〃 | `Spec => []FreedMeansGone` |
| `PendingIsReplaced` | 〃 | `Spec => []PendingHasReplacement` |
| `OneWorkerUploadsOnce` | `JobPipelinePromises_proofs` | with at most one worker, `Spec => NoUploadOnceRecorded` |
| `OneWorkerNoSecondGeneration` | 〃 | with at most one worker, `Spec => NoSecondGeneration` |
| `PipelineKeepsPromise` | 〃 | `Spec => KeepsPromise` |
| `ShimTypes` | `ChecksumShim_proofs` | `Spec => []TypeOK` |
| `ShimInductive` | 〃 | `Spec => []ShimInv` |
| `TranslatedAfterPurge` | 〃 | `Spec => []TranslatedOnlyAfterPurge` |
| `SightingsRespected` | 〃 | `Spec => SightingsAreRespected` |
| `TypeCorrect` | `Intake_proofs` | `Spec => []TypeOK` |
| `LatchHolds` | 〃 | `Spec => []LateBounded` |
| `SurgesAreBounded` | 〃 | `Spec => []SurgeBounded` |
| `TripsAreDeserved` | 〃 | `Spec => TripIsDeserved` |
| `MarksHaveJobs` | `Restore_proofs` | `RestoreSafe => []MarkHasJob` |
| `LimitsAreReached` | 〃 | `RestoreSafe => LimitIsReached` |
| `RestoreTypes` | 〃 | `RestoreSafe => []RestoreTypeOK` |
| `EveryIdIsAnswered` | 〃 | `RestoreSafe => []EveryIdAnswered` |
| `RestoreIsBounded` | 〃 | `RestoreSafe => []RestoreCost` |
| `BackfillTypes` | 〃 | `RestoreSafe => []TypeOK` |
| `WalksCover` | 〃 | `RestoreSafe => []WalkCovers` |
| `MediaTypes` | `Encoder_proofs` | `Spec => []TypeOK` |
| `TheBestEncoderWorks` | 〃 | `Spec => []BestWorkingEncoder` |
| `WhatIsWrittenIsKept` | 〃 | `Spec => []WrittenIsKept` |
| `WhatIsAttachedIsKept` | 〃 | `Spec => []AttachedMediaIsKept` |
| `AcceptedOutputIsFaithful` | 〃 | `Spec => []AcceptedIsFaithful` |
| `PicturesStayUpright` | 〃 | `Spec => []RightWayUp` |
| `FractionsStayExact` | 〃 | 1/c and 1/d, c and d different and below the precision, never match |
| `ZeroStaysZero` | 〃 | nothing but zero matches zero |

**Types.** The argument needs one fact more than the types: `HasJob`, a task has a job
exactly when it is at work; otherwise `row[Job(t)]` means nothing. Lemmas about the
moves of a task (`GotoOK`, `SkipForOK`, `ReturnOK`, `TaskSet`) and about the statements
on a row (`RowTypes`, `RowEdits`) carry it, one step per action.

**The inductive invariant.** None of the safety invariants is inductive. That the
original goes for a complete replacement is decided several awaits before the delete,
by another read, of a replacement whose links and marker were written by possibly
another task, whose id came from a row that possibly a third one wrote. `IInv` says what
is true at each of these points:

* `TaskInv`: what a task at each program counter takes for granted about its row
  (`KnowsRow`), the checksum it carries (`KnowsBytes`), the replacement
  (`KnowsReplacement`) and the original (`KnowsOriginal`);
* `RowInv`, `TodoInv`: what the table and the sweeper's old list say is an encode of
  their job, and nothing is pending without a replacement;
* `ServerInv`: a marked replacement has its links and fields;
* `BasisInv`: what an original was deleted for is complete, and remembered.

It is preserved for two reasons, and the module has a half for each. What a task knows
is *made* true by its own steps, in the order of `pipeline.py`: one case per action.
It is not made *false* by anybody else, since all it speaks of only grows: rows, their
ledger and the fact that they have a replacement; the bytes, links, fields and
marker of a replacement; the end of an original. This is `Grows`, which every
step is shown to satisfy, and `OthersKnow` is the lemma that draws the conclusion.
So no pair of actions has to be looked at. The one thing that does not grow is the
presence of a replacement, which a user may take away at any time: `Stands` and
`lateLoss` tell a loss before the last check, which the pipeline notices, from one
after it, which nothing could.

**One worker.** Whether to upload is decided by two reads that are several calls old: the
recorded replacement, read by `run_job`, and the answer of `_check_re_upload`. `UpToDate`
says that both still hold at every step up to the upload. They do because only a worker's
steps 2, 5 and 6 write the columns that were read: `Remembers` holds of every step of the
sweeper, the operator, the clock, the webhook and the user, and the assumption that there
are not two workers (`OneWorker`) takes care of the rest. `OneWorker` is how many workers may
take a job of one asset type, since the lanes of other types take other jobs. It is one where
`behavior.concurrency` is written as 1, with handmade presets and no `concurrency`, and with a
generated hardware preset; on a host that encodes on its CPU the generated value is a worker
for eight cores, up to four (`CpuConcurrency` in `Startup`, `report.py` 366-374). So these two
theorems say nothing of a CPU-only host with sixteen cores or more, unless its operator
writes `concurrency: 1`. With several it is false: while
one worker that has passed the check is encoding, the user may delete the photo and upload
it again, and another worker replaces and removes it under its second id.

**The refinement.** Under the mapping of `JobPipelineInv` a step is one of four kinds:
a write to one row (`RowRemembers`), a gain of one replacement
(`ReplacementCompletes`), the loss of one nobody relies on (`ReplacementWithdrawn`), or
`Delete`, where what the task knows is exactly the guard of `TakeAway`.

**The shim.** `ShimAssumption` says that every replacement is that of one original, that
ids of replacements are neither ids of source assets nor contents; devices,
requests, originals and copies are any number. What `TranslatedOnlyAfterPurge` rests on
is who may *think* an original gone: the ledger's maps, the maps of every response, the
gates a response has yet to record, the deletes on their way, the pipeline between its
delete and its record. `ShimInv` says that all of them are right (`DeletesAreTrue`,
`GatesAreTrue`), and that fresh maps arm nothing sighted (`FreshMapsRespect`), which
`SightingsRespected` needs of maps that are handed out from the cache; for maps just
rebuilt it follows from `Build` reading the sightings after both reads of the store. The
module regroups the invariant by what the steps change together (`Regrouped`), so that a
step has to be looked at only for the parts it touches. `ShimTypes` adds
what that argument does not need, the contents of the two queues of upserts (`QueuesOK`);
a queue is filtered when an asset goes, and the type of a filtered list is a lemma.

**Lists.** `Only(s, T)` is recursive, and induction theorems that take a predicate are of no
use to the provers. Each claim is made about the set of the numbers for which it fails, and
`LeastNat`, which is the library's well-founded induction for that one set, gives a least
one. The first step is that the recursion has a solution at all (`PrefixesExist`,
`OnlyPrefixes`); type, length and elements of the result follow.

**The breaker.** `LateBounded` counts assets, and an asset comes late only through a handler
that has read the latch before: `LateInv` says that those that came late and the handlers
that still may are together fewer than the handlers there are, since the one that tripped
the breaker is neither. For the window, `CountInv` relates four things that no step
changes together: the window has at most as many entries as the threshold
(`WindowBounded`); no asset is in it twice, or in it and still to be counted (`Once`, which
rests on `ON CONFLICT DO NOTHING`); all of them were queued (`Backed`); and whatever was
queued within the window is in it, or with a handler that has not counted it yet
(`StillCounted`). The bound is then a count of two finite sets.

**Backfill and restore.** The specification is composed of two modules and the proof is of
the composition: `RestoreSafe` is its safety part. `RunInv` says of a session that its
counters agree with where it is and that what it is about to mark has a job (`Sound`). It
survives other sessions, webhooks and rescans because jobs only grow; it
survives a crash because the mark comes after the job. `AnswerInv` describes the stack
of a restore: halving and cutting keep the ids that are rest, stack, answered or missing
together (`Cut`, `TwoMore`, `NextChunkCovers`), and what is missing stays gone, since the only
asset that comes back by an upload is one that was never asked for.

**The cost of a restore.** A batch of n ids costs 2n - 1 requests at most: one, and those of
its halves. `Bill` adds this up over the stack, as a function from the positions of the
stack and not as a recursion, and `Paid` says that what was asked and what is still on the
stack stay below two for each id taken. The proof needs that every batch on the stack holds
an id, which is why a restore of nothing is no restore (`RestoreAssumption`).

**Walks.** `WalkCovers` speaks of the step before a request and of the end. `WalkInv` says how
far a walk has come at each step of the page it is at (`Placed`), and at the cursor when no
session walks (`CursorOK`): what lies before the page is in the inventory, the rows in hand
are those of the page. That rows recorded stay recorded (`Grows`) is true of every step but a
rescan, which declares a gap in every other walk. What a page and its successor
have to do with each other is arithmetic of one lemma, `PageFacts`.

**Detection.** `BestWorkingEncoder` is said without the ranking, so the ranking has to be shown to
be one. `Lists` says of a list of candidates that it holds what is wanted of some encoders,
nothing unwanted as a candidate, better ones first (`Sorted`); `ConcatLists` that
two such lists one after the other are such a list, if the encoders of the first are better;
`RankedLists` that `Ranked` is one for all encoders, for any number of render nodes. `Ranking`
is what remains of this while the list is worked through: everything wanted is on it, and is
rejected only after a try, and before the selected one all are rejected.

**Configuration.** `FaultsAreTold` says that what is set, after merging and defaults, is
refused exactly when what was written is at fault. The direction that matters needs each default:
a switch not written must not count as thrown. `BootOK` carries from there to the end of a
start which of the two it is.

**A job.** `JobInv` says for each step of the encode what the two files of the
temporary directory hold: the source what was downloaded, the output something that a run can
have `Made`, with the orientation as the command leaves it and later as exiftool does; and
that what the job has noted (`seen`, `out`, `hash`) was read from them. `RightWayUp` then is
a calculation with quarter turns and edge lengths (`EdgesTell`).

**Where a picture ends.** `WalkAt` relates the walk of the code to the grammar: in a
segment it stands where a part begins, in a scan it is inside the coded data of one, and what
it says at the end is the end of the last part, or that there is none. Its heart is that the
grammar leaves no choice: at an offset there is one marker (`OneMarker`) and behind it one end
of a part (`OnePart`, `OneScanEnd`), so the part the walk has read is the one the file was
made of, whatever bytes look like a marker inside it. Files that break off have their own
case: where nothing can be read as a part, the walk says that it cannot tell.

**The metadata tolerance.** A relative tolerance (1e-6 in the code and in the run, 1/`Precision`
in the theorems) is there for rounded rationals. It must not let an exposure time of 1/200 pass for 1/199: `FractionsStayExact`. And it is relative
only, so that an altitude of zero that has become anything else is seen: `ZeroStaysZero`.

**What stays with TLC.** Every invariant and every action property that a passing run checks
is also proved. What is left is liveness, which is out of the prover's reach: `JobSettles`,
`DeletionSettles`, `PauseBringsRest`, `RowComesBack`, `SyncProgresses`, `GateDelivers`,
`InventoryDrains`. `NoUploadOnceRecorded` and `NoSecondGeneration` are proved for
one worker, because with two they are false.

<a id="findings"></a>
## 5. Where code and documentation part

Each is a run that TLC refutes; `PROJECT.json` quotes the sentence and the lines.

| run | what happens |
|---|---|
| `crash_after_marker` | the source marker is written before the state: after a crash in between the replay is stopped by its own marker, for good |
| `crash_before_schedule` | `pending_delete` is written before `delete_after`: after a crash in between nobody selects the row any more |
| `double_claim` | two workers of a lane claim the same job |

Observed while modelling, without a run of its own:

* *Upload.* The id of an upload is written after the upload (`pipeline.py` 391, 418). A
  crash in between makes the replay upload again, or end as `duplicate` of its own upload;
  `docs/faq.md:168` says that it resumes from `uploaded`.
* *Shim, a copy that comes with the delete.* A line is recognised as a claim only if the
  maps of its response are armed. A copy whose line comes in the response that carries the
  original's delete is applied and not sighted (`shim.py` 265); the translation then fails
  the phone's sync every time, until the pipeline has classified the copy. `SyncProgresses`
  holds since `FairSpec` has a worker that gets there.
* *Shim, two devices.* A second phone's response, bound to maps from before a gate opened,
  receives the touched replacement untranslated: the touch is spent (`shim.py` 587, against
  the comment at 724–727). `GateDelivers` is checked with one request at a time.
* *Shim.* A copy that is deleted before its line was sighted and classified afterwards holds
  the translation back for good.
* *Deletion.* A process started with `dry_run: true` and `trash_original: true` still deletes
  what an earlier configuration scheduled, though `docs/configuration.md:80` says that
  nothing is deleted. A pause does not stop a job that has been claimed, its inline deletion
  included. A permanent delete whose answer is lost stays in `pending_delete` for ever, its
  repeat being refused by the server.
* *Breaker.* When it trips, "nothing further is queued" (`routes.py` 212) has the exception
  that `LateBounded` bounds. A restart empties the window.
* *Scan.* The cursor is a page number without its page size (`backfill.py` 181–187): resumed
  with another `--page-size` a walk passes over assets or repeats them, where
  `docs/operations.md:173-174` says that it resumes where it stopped. `run` scans with the
  default page size whatever it is given (`__main__.py` 625). A crash between the two
  statements of `--rescan` (`backfill.py` 177, 178) leaves the cursor in the middle of an
  empty inventory. As many uploads as a page holds, between two pages, repeat the first id
  of the page before, and the scan takes that for the end (`backfill.py` 195–201). All four
  are repaired by a full rescan; `gap` excuses them in `WalkCovers`.
* *Run.* A candidate whose live check fails every time is picked first every time: the
  run raises, and everything behind it waits.
* *Hardware.* `collect_host_facts` says that no failure becomes an exception; a timeout of
  `ffmpeg -encoders` or `vainfo` does (`Hang`), and the process does not start.
* *Sanity gate.* A lost rotation "shows up as a swapped display size" (`encoder.py` 880–882):
  not by half a turn, not in a square picture, and not if exiftool has not answered.

<a id="left-out"></a>
## 6. What is left out, and why

* The pause check and the SELECT of a claim are one step, as are the reads at the
  start of a sweep: none of them depends on the others, so another order of the
  environment gives the same result.
* The order of `run_after` among jobs; delays; `attempts` beyond `MaxAttempts`.
* *Assumed of Immich: `duplicate` is byte-exact* (`Holds`, `UploadDuplicate`). A server that
  answers so must hold the very bytes of the upload. `_duplicate_checksum` (`pipeline.py`
  751-775) calls that plausible and unverified, and records what the server really holds.
  `NothingLost`, `CarriedOver` and `KeepsPromise` rest on it: if another asset were named, its id
  and its own checksum would be on record, a forced re-run would find both in order, and
  the original would go for bytes never encoded from it.
* *Assumed of Immich: an asset has a checksum and an owner* (`WriteLedger`). `AssetDetail` reads
  both as optional (`models.py` 189-206), and NULL may be written; Immich declares `ownerId`
  required, and the checksum was seen on a live instance (`docs/immich-api-notes.md` 70). A
  server that left one out would cost recognition: `RemovalIsRemembered` and
  `NoSecondGeneration` rest on it, and so does `remembered` in `SafeReplacement`.
* The reasons for which an asset is skipped on sight are one reason, `policy`.
* The capture date, the last condition of the verification, is part of `Refuse`.
* Markers of older versions. Errors of SQLite, and exceptions that are not an
  `ImmichError` inside `finalize_original`.
* The touch after a freed checksum is left out of `JobPipeline` and is in `ChecksumShim`.
* In `ChecksumShim`: all assets have one owner, and a batch the app applies is one line,
  applied and acknowledged at once. Reading the body, counters, and the owner lookup are
  no steps. What `bulk_upload_check` answers writes to no mirror and is left out; that it
  asks for the maps, and so may rebuild them, is in. `log_only` is off,
  `rewrite_sync_stream` and `watch_deletes` are on. A mark and the invalidation and
  counter after it are one step. The state of an original's own row is not followed, nor
  how it came to be replaced: that is `JobPipeline`'s subject.
* In `Intake`: a refusal changes nothing and is no step; counters and wording.
* In `Backfill`: one asset type (each has its own cursor and rows); dry runs and a limit of
  zero; `--no-verify`; a server that answers searches without the envelope of pages; what
  the guards say of a payload is a constant per asset (`Refused`).
* In `Restore`: where the ids come from. The command asks the store for them
  (`replaced_source_asset_ids`) or is given them.
* In `Startup`: reading `/sys` and the text of the report; the form of a single value (URL, suffix, shell syntax) is one condition.
* In `Encoder`: floating point (ratios are in percent, comparisons exact); what ffprobe and
  exiftool print is taken to parse to what they found; the arguments of a command beyond
  those that steer something.
* Wording, logging, and the parsing of payloads.
* *Metrics* renders what others count, and fills its histogram anew from the table on every
  request: it keeps no state, and what could be wrong is the text. *Setup* is a dialogue
  that runs once and writes two files; nothing runs beside it. Neither has a module.

<a id="plan"></a>
## 7. Plan

Done: the core with its proofs and its refinement; the shim, intake, backfill and restore,
startup and media steps, with all their invariants proved. No module that is proved
about reaches a RECURSIVE operator.

What remains worth doing, in this order:

1. Abstract specifications in the manner of `SafeReplacement` for the shim (what a phone is
   shown for an original, with the moments at which that may change) and for the
   surge breaker, and proofs that `ChecksumShim` and `Intake` implement them.
2. `Intake` and `Backfill` composed with `JobPipeline` over one table: today they share its
   statements (`Enqueued`, the latch) by translation, not by instance.
3. `translate_upload_check` of the shim as a function of the maps.
