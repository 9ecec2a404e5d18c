# Verification of fs-enrs

TLA+ models of the Emergency Notification and Response System, the TLC
configurations that check them, and the theorems TLAPS has proved about them.
Paths below are relative to `src/`. `ENGINE` stands for
`backend/src/services/campaignEngine.js`, `ERS` for
`backend/src/controllers/internal/ersInternalController.js`, `ESL` for
`backend/src/services/eslService.js`, `LUA` for `backend/src/nodeTypes/registry.js`.

    tlc -workers 2 -config EnsCampaign_faults.cfg MCEnsCampaign    # a run
    tlapm ErsProofs.tla                                    # a proof

`PROJECT.json` lists the runs, the theorems, the hazards, and for each
definition the lines it models.

## 1. The system

One Node process (`ecosystem.config.cjs`: one instance) serves the REST API,
runs the campaign engine and holds one ESL connection to FreeSWITCH. Its state
of record is PostgreSQL; what it keeps in memory is lost with it. Lua handlers
inside FreeSWITCH run one per call and talk to the backend over the internal
REST routes. A React client follows by Socket.IO.

                 REST                    SQL (pool of 20)
    frontend  <-------->  backend  <------------------->  PostgreSQL
                          |  ^  ^
           bgapi/api, ESL |  |  | internal REST
                 events   v  |  |
                        FreeSWITCH ---- Lua handlers of each call

| Component | State | Operations | What makes it hard | Correct when | Model |
|---|---|---|---|---|---|
| **ENS campaign engine** (`ENGINE`) | `ens_campaigns`, `ens_campaign_destinations`; in memory the tick flag, a calls-per-second window, a table of originates | one-second tick: count, synthesise, claim, originate; `onCallAnswer`, `onCallHangup`; rejection of an originate; stale recovery; pause, resume, cancel, expire | every handler reads a row, awaits, and writes by row id; job results and channel events come in either order; events lost with the connection; crash between claim and originate | calls within `max_concurrent`; no contact dialled twice at once, after answering, or more than `max_attempts` times; retries are kept; every campaign ends | `EnsCampaign` |
| **ERS emergency calls** (`ERS`, `LUA`, `ESL`) | `ers_incidents`, `ers_queues`; the rooms, in FreeSWITCH | tier status, ring-all, enqueue, poll, complete and promote; conference-destroy reconciliation; a sweep every 30 s; an operator's cancel | occupancy is a live member count, read before the record is written and true only once a caller has been bridged; four parties complete incidents and promote the queue's head | one incident per tier; a caller leaves the queue once and in turn; row and incident agree; every incident ends and everyone who holds is served | `ErsIncident` |
| **ERS ring loop** (`backend/src/services/ersRingService.js`) | `activeRings`, by room | start; waves of `bgapi originate`; polls of the member count; deadline | the loop's end races with the next caller's start; phones ring on after the loop; a responder left alone counts as a caller | the phones stop ringing when the callers have gone | `ErsRing` |
| **Database pool** (`backend/src/db/pool.js`) | 20 clients, 5 s wait | `query`, `withTransaction`, advisory lock of ring-all | a query inside a transaction takes a second client; a swallowed failure has aborted the transaction | no one waits for ever for a client that all holders wait for; nothing is left on a client given back; success means committed | `DbPool` |
| **ESL connection** (`ESL`) | connection, `isConn`, the reconnect timer, pending commands | connect, ready, error, end, reconnect, command with timeout | handlers of an old connection run after the new one is up, and share its flag and timer | the client never gives up | `ConfRegistry` |
| **Conference registry** (`ESL`) | registry of rooms and members | create, destroy, add- and del-member; seed from a snapshot; reconciliation; sweep | a snapshot is older than the events it overwrites; events are lost with the link | registry agrees with FreeSWITCH once calls rest; no incident of an empty room stays ACTIVE | `ConfRegistry` |
| **Conference recording** (`ESL`, `conferenceManager.js`, `recordingController.js`) | recording state OFF, STARTING, ACTIVE, STOPPING, FAILED; table `recordings`; 5 s timers | start, stop, events, file search, row insertion and completion, directory scan | three confirmations of one start; a timer outliving its conference; four writers of one row | ACTIVE has a file; a row is completed for a recording that has ended, and for every one that has | `Recording` |
| **Participant and responder tracking** (`ESL`) | `conference_participants`, `ers_incident_responders` | add, leave, hangup cause, MISSED stamp, seed | select-then-insert by two events; order of hangup and completion | who has joined is recorded, and not MISSED; an open row is of a leg in the room | `Participants` |
| **IVR deployment** (`backend/src/services/deploymentEngine.js`) | a promise chain as lock; dialplan file; deployed version | `deployFlow`, `redeployAll` | the failing holder must release; Lua is written outside the lock, versions recorded after it | neither the file nor FreeSWITCH goes back to an older dialplan; success means in the file, and loaded as far as an answer can tell | `IvrDeploy`, `Dialplan` |
| **Configuration deployment** (`backend/platform/configuration/deploy`, `history`) | files, backups, versions | read, drift check, write, reload, version, verify, rollback | read and write are several awaits apart with no lock | newest version active and loaded; failure restores | `ConfigDeploy` |
| **Dial-string resolution, queue eligibility, throttle** | none, or one number | pure decisions | order of rules; rounding | agree with their documented tables | - |
| **Gateway deployment, providers, parsers, IVR generation, auth, REST controllers, event bus, health, frontend, Piper, stand-alone Lua** | see section 7 | - | little concurrency of their own | - | - |

Interactions that matter: the engine and `ESL` share the connection and the
command timeout (40 s); `ESL` calls the engine's two call handlers and
`completeIncidentCore` of `ERS`; `ERS` asks `ESL` for member counts and starts
ring loops; ring loops ask `ESL` for counts; completion stamps responders and
closes participant rows; all share the pool. Composed in the models are ERS with
its ring loops (`ErsRing` EXTENDS `ErsIncident`) and the ESL link with registry,
incidents, seed and sweep (`ConfRegistry`).

## 2. Modules

| Module | Models | Checked by | Proved |
|---|---|---|---|
| `EnsCampaign` | one campaign, its rows, its calls | `ens_cluster`, `ens_faults`, `ens_retry` | typing, all seven safety properties of the passing runs |
| `ErsIncident` | the emergency calls of one configuration | through `ErsRing` | typing, three safety properties |
| `ErsRing` | the ring loops, EXTENDS `ErsIncident` | `ers_ring_live`, `ers_ring_crash`, `ers_one_incident` | implements `ErsIncident` (in `ErsProofs`), keeps its properties |
| `DbPool` | pool, transactions, advisory lock | `db_pool` | typing, three invariants |
| `ConfRegistry` | ESL link, registry, seed, reconciliation, sweep | `conf_converges` | typing, reconnection |
| `Recording` | recordings of one room | `recording` | typing, ACTIVE has a file, completed is stopped |
| `Participants` | one responder, several legs | `participants` | typing, answered is not missed, rows follow calls |
| `Dialplan` | what an IVR deployment promises | as a PROPERTY of `ivr_deploy` | implemented by `IvrDeploy` |
| `IvrDeploy` | the deployment engine | `ivr_deploy` | typing, versions, refinement |
| `ConfigDeploy` | deploy and rollback of one file | `config_deploy` | typing, its three properties |
| `MCEnsCampaign`, `MCErsRing`, `MCConfigDeploy` | symmetry for TLC | | |
| `...Proofs` | theorems about the module of that name; `ErsProofs` has those of `ErsIncident` and `ErsRing` | | |

Definitions whose comment starts with "A slip" are plausible bugs of the
definition below them. They are used by nothing; `PROJECT.json` ("mutants")
names, for every property, the one that breaks it.

### EnsCampaign

One step is one SQL statement or one event of FreeSWITCH. A call is named by
its row and attempt number, which stands for the random `call_uuid`.

| State | Code |
|---|---|
| `campaign` | `ens_campaigns.status` |
| `row` | `ens_campaign_destinations`: status, call_uuid, attempt_count, whether `next_attempt_at` has come, `answered_at` |
| `call` | FreeSWITCH's leg and cause; the originate promise; events received but not handled; what `onCallHangup` has decided after its SELECT |
| `tick` | where each process is in `processCampaign`, and what it has read |
| `api` | the cancel request between its two statements |
| `node`, `link`, `timedOut`, `faults` | process, ESL connection, campaign deadline, fault counter |

| Actions | Code |
|---|---|
| `TickSelect`, `TickStart`, `TickExpireRows`, `TickFinish` | `processAllCampaigns`, start, `expireCampaign`, `completeCampaign` |
| `TickCount`, `TickNoSlot`, `TickNothingLeft`, `TickNoMedia`, `TickClaim`, `TickOriginate` | `processCampaign`, `originateDestination` |
| `LegAnswers`, `LegFails`, `LegEnds` | FreeSWITCH (external) |
| `OnCallAnswer`, `OnCallHangupRead`, `OnCallHangupWrite`, `OriginateRejected` | `onCallAnswer`, the two halves of `onCallHangup`, the `catch` of the originate |
| `RetryDue`, `RecoverDialing`, `RecoverAnswered` | the retry clock, `recoverStaleDialing` |
| `Pause`, `Resume`, `CancelRows`, `CancelCampaign` | the operator |
| `TimeOut`, `Crash`, `Restart`, `LinkDrops`, `LinkReturns` | environment |

**Time.** There is no clock. Guards encode the order of the code's constants: a
statement already issued (milliseconds) < a retry interval, the 5 s of recovery
< `originate_timeout` 30 s < the 40 s command timeout < 90 s of
`STALE_DIALING_SEC`, and a message is shorter than the 600 s of the answered
recovery. `Settled`, `Quiet` and the guard of `OriginateRejected` are the places.

**A rejected originate.** `ESL:1811-1813` says that the BACKGROUND_JOB of an
originate comes when its call is answered or hangs up; 1816 that an -ERR means no
channel was created. `LegFails` allows both: the job of a leg that rang and was not
answered may end in -ERR, or not. Its catch (`OriginateRejected`) fails the row by
id, whatever its hangup has written. `ens_retry` shows that this loses a retry. The
other properties hold of everything else, and name the exception: `CatchWrote`, a
call whose promise has thrown (`job = "thrown"`, set by the catch alone).

**Left out.** The campaign's stored counters (no decision reads them), the arithmetic
of the throttle (any number of slots up to the limit may be counted; a tick
throttled to none is no step), contact resolution, the null `sip_caller_id`
branch (the claim's query never yields it). In the run with two processes the
second one only ticks.

### ErsIncident and ErsRing

One step is one transaction, or one read of the live member count with the
decision taken on it. Rooms are those of a STATIC configuration, one per tier.
A tier outside `Tier` stays occupied. People who are not callers of the model
(responders, or someone who dialled the bridge number) count as one per room.

| State | Code |
|---|---|
| `call` | the call as its Lua session and its open request see it |
| `incident`, `row` | `ers_incidents`, `ers_queues`, by the caller they were created for |
| `others`, `destroyed` | the room; a conference-destroy event not handled yet |
| `recon`, `sweep` | `reconcileOrphanedIncident` and `reconcileAllActiveIncidents` at work |
| `ring`, `legs` (`ErsRing`) | `activeRings`; responders' phones still ringing |

| Actions | Code |
|---|---|
| `Dial` | `exec_ers_overflow_check` or a graph that goes straight to ring-all |
| `RingAllCheck`, `RingAllCreate`, `RingAllRejoin` | `ersRingAll` under its advisory lock |
| `Enqueue(S, p)` | `ersOverflowEnqueue`; `S` has several callers when they find the queue empty together, for then `FOR UPDATE` has no row to lock |
| `PollReady`, `PollCancelled`, `PollSeesFree`, `PollPromote` | `ersOverflowPoll`, decision and transaction apart |
| `GiveUp` | `exec_ers_overflow_wait` ends; it posts nothing |
| `Join`, `HangUpEarly`, `Leave`, `Complete` | the room and `exec_ers_ring_all`'s completion |
| `CompleteIncidentCore` | the transaction shared by completion, reconciliation and sweep |
| `ReconcileRead`, `ReconcileComplete`, `ReconcileAgain` | `reconcileOrphanedIncident` |
| `SweepCount`, `SweepComplete`, `SweepExpire`, `SweepOrphan` | `reconcileAllActiveIncidents` |
| `OperatorCancel` | `cancelQueuedIncident` |
| `RingAllCreateRings`, `PollPromoteRings`, `RingWave`, `RingStops`, `RingTimesOut` | `startRingAll` and who calls it |

`getConferenceMemberCount` answers 0 when its command fails; `Seen` does so
while the connection is down. `ErsRing` conjoins the loop to the actions that
start one and leaves the others as they are (`Quietly`), so every step of
`ErsRing` is a step of `ErsIncident` or leaves its variables alone. The one
exception is `ResponderJoins`, which sets `others`, as `OthersJoin` may.

**Time.** A caller stops waiting (at most 1 h) before his row expires (2 h), and
enters his room (below 1 s) before the first poll (3 s) and the deadline (at
least 10 s) of the loop started for him.

**Abstractions.** `SweepOrphan`, and the sweep's list read, are merged per
incident. A transaction is atomic: waits for row locks, and PostgreSQL's
re-check of a `LIMIT 1 FOR UPDATE` after such a wait, are left out. Each caller
enqueues alone in the runs (`Enqueue({c}, p)`); the proofs cover every `S`.
Not modelled: the legacy `/ers/incidents` route, an operator's completion (see
section 5), rejoin, playback and observer endpoints, DYNAMIC rooms.

### DbPool

`Ring` requests are POST `/ring-all` for one configuration, `Plain` ones a
single `query()`.

| State | Code |
|---|---|
| `pc` | the await each request is at |
| `queue`, `held` | the pool's waiting requests; clients each holds |
| `tx`, `lock` | its transaction as PostgreSQL sees it; `pg_advisory_xact_lock` |
| `caught` | whether the failure of the initiator's INSERT was swallowed (`ERS:979-983`) |

| Actions | Code |
|---|---|
| `Ask`, `Grant`, `TimeOut` | `pool.connect`, `pool.query` and their 5 s timer |
| `Begin`, `TakeLock`, `Occupied`, `Write`, `Commit`, `Rollback`, `Release` | `withTransaction` around `ersRingAll`; BEGIN, the lock, the nested query, the INSERTs and COMMIT may each fail |
| `QueryEnds` | `query`, alone or nested by `tierLiveStatus` (`ERS:966`) |

A failed statement aborts its transaction, and COMMIT of an aborted one undoes
it without an error; a COMMIT that fails has undone it as well, and the ROLLBACK of the
catch finds nothing to do: this is PostgreSQL, external. No failure is owed to a
request that waits for the lock: fairness is that of the steps that succeed.

### ConfRegistry

Events and the answers to commands come over one ordered connection, and go
with it. FreeSWITCH evaluates a command some time before its answer arrives, so
an answer can be older than events handled before it. An incident is named by
the caller who opened it.

| State | Code |
|---|---|
| `place`, `wire` | FreeSWITCH's rooms; what it has sent (external) |
| `link`, `retry` | `isConn`, `retryTimer` |
| `conn`, `stray` | the connection in use; an end event of a replaced one is still to come |
| `known`, `registered` | keys and members of `conferenceRegistry` |
| `active`, `todo` | ACTIVE incidents; reconciliations awaited by conference-destroy |
| `seed`, `sweep` | `seedConferenceRegistry` and `reconcileAllActiveIncidents` at work |

| Actions | Code |
|---|---|
| `OnCreate`, `OnDestroy`, `OnAdd`, `OnDel`, `DestroyReconciles` | the handlers of `conference::maintenance` |
| `SeedStart`, `SeedHears`, `SeedFails`, `SeedApplies`, `SeedDrops`, `SeedReconciles`, `SeedEnds` | the seed: `conference list`, `xml_list` room by room, overwrite, drop with its awaited completion |
| `SweepStart`, `SweepCount`, `SweepCompletes` | the sweep, row by row |
| `Connect`, `Ready`, `OnError`, `OnEnd`, `OnStrayEnd` | `connect`, its three handlers, also those of a connection already replaced |
| `Join`, `Leave`, `Evaluate`, `Reply`, `Breaks`, `Restart` | environment |

Left out: the length of the back-off, and the Lua script's own completion, as
these are the paths for when it does not come; mute, deaf, floor, lock and
talking state, with the post-join sync that corrects them.

### Recording

One room; every start has a path of its own, which names the recording. A start
is confirmed by the answer to its command, by the start-recording event, or by
the file that `verifyRecordingCreated` finds, in any order.

| State | Code |
|---|---|
| `live`, `rooms`, `rec`, `file`, `wire` | FreeSWITCH, its files and messages (external) |
| `entry`, `timer` | the recording fields of the registry entry; its 5 s timer |
| `start`, `polls`, `stop` | requests under way |
| `upserts`, `closes`, `row` | tasks nobody awaits; table `recordings` |
| `scanned` | history: rows the scan has completed |

| Actions | Code |
|---|---|
| `StartChecks`, `StartSends`, `StartAccepted`, `StartFails`, `StartTimesOut`, `Poll` | start of a recording, manual or by `conferenceManager` |
| `StopSends`, `StopDone`, `StopFails` | stop, with `norecord` of the path and then of all |
| `OnCreate`, `OnDestroy`, `OnStart`, `OnStop`, `Seed` | events and the seed |
| `Upsert`, `Close`, `Scan` | `upsertRecordingStart`, `closeRecording`, `scanRecordingDirectory` |

`AnswerDropped` is an answer after its command was given up; the rest are
FreeSWITCH and faults. `Scan` finds files only under the directories it walks
(`recordingController.js:484-495`): `Scanned` are the paths there. A
`recording_directory` of a configuration (`conferenceManager.js:174-178`) or a path
given in the request (`monitoringController.js:202`) may lie elsewhere; in the run the
manual recording does. RECORD_STOP, which inserts and completes a row once more,
is left out, and so are pause and resume.

### Participants

One responder of one incident, called by several legs. Each event starts a task
of several queries that nobody awaits.

| State | Code |
|---|---|
| `responder`, `rows` | `ers_incident_responders.status`; rows of `conference_participants` |
| `registered`, `channel` | the registry's members; `ersChannelMap` |
| `join`, `found`, `leave`, `hangup` | the tasks, and the row a join has found |
| `answered`, `lost`, `late` | history: a join was recorded; legs whose del-member was lost, or whose join was recorded after their end was, since rows were last closed |

| Actions | Code |
|---|---|
| `Resolve`, `Look`, `Reopen`, `Insert`, `Respond`, `Leave` | `trackParticipant` |
| `Hangup` | the hangup cause, mapped by `CauseStatus` |
| `Seed`, `Invite`, `Complete` | the other writers: registry seed, ring loop, `completeIncidentCore` |
| `Joins`, `Leaves`, `Hangs` | calls, whose events are handled or lost |

`Seed` enters a member whose add-member was lost in the registry, and does no more to
the responder: its task has no dialled number and takes the caller's number
(`ESL:498-502`, `1338-1351`), which on a leg of the ring loop is the initiator's
(`ersRingService.js:138`). It finds the initiator's row, which is left out.

### IvrDeploy, an implementation of Dialplan

The contents of tables, file and FreeSWITCH are told apart by a revision that
every publish, bind, unbind and delete counts up (`Change`).

| State | Code |
|---|---|
| `pc`, `want`, `snap` | a request, the version it was asked to bring, the bindings it has read |
| `queue` | the promise chain: its head holds the lock |
| `tmp`, `disk`, `loaded` | the temporary file, `enrs_ivr.xml`, what FreeSWITCH has |
| `recorded` | `last_deployed_version` |

`Fetch`, `Prepare`, `ReadBindings`, `WriteTmp`, `Rename`, `Reload`, `Verify`,
`Record`, `Report` are the awaits of `deployFlow` and `redeployAll`, which is done in
`Prepare` when no flow is bound (`deploymentEngine.js:444`);
`FailLocked`, `RecordFails` and `Fail` their error paths. `Reload` ends in one of three
ways: done; answered and not done, which `eslCommandTimeout` (`ESL:219-224`) resolves
all the same and only an answer with "fail" to `deployFlow` tells apart; or not
answered. History `refused` keeps the requests of the second kind. `Verify` looks for
extensions by name, which an older dialplan may have too.

`Dialplan` promises, without a lock: neither the file (`written`) nor FreeSWITCH
(`loaded`) goes back to an older revision; a deployment answered with success has the
revision it was asked for, or a newer one, in the file, and loaded too unless its
reload was answered without being done (`RefuseLoad`); success with a warning, the
file alone; a redeployment that found nothing to do, nothing. `ImplementsDialplan`
maps `written` to `disk`, `asked` to `want` and `answer` to how `pc` ended.

### ConfigDeploy

One file and the versions of one tenant and provider. Nothing orders concurrent
jobs, so every await is a step, and `createVersion` is taken statement by
statement: its UPDATE sees the rows committed when it started, waits for a
transaction that has changed one of them and re-checks, and does not see a row
inserted meanwhile (READ COMMITTED, external).

| State | Code |
|---|---|
| `disk`, `loaded`, `versions` | file, FreeSWITCH, `config_versions` |
| `pc`, `base`, `goal`, `backup`, `locks`, `num` | a job and what it remembers |
| `seen`, `alone` | history: contents ever loaded; jobs nobody has disturbed |

| Actions | Code |
|---|---|
| `Read`, `Refuse`, `Backup`, `Write`, `Apply`, `Finish`, `Restore` | `DeploymentManager.deploy` |
| `Choose`, `ApplyRollback`, `GiveUp` | `rollback`: version first, FreeSWITCH after, no restore |
| `Deactivate`, `Deactivated`, `Number`, `Insert`, `Commit` | `VersionManager.createVersion` |
| `Throws` | whatever throws between |
| `Edit`, `LoadsElsewhere`, `Restart` | environment |

## 3. Runs

| Run | Instance | Shows |
|---|---|---|
| `ens_cluster` | 2 processes, 2 rows, 2 slots, 2 attempts, operator, deadline, no fault | call ownership, no redial after an answer, outcomes final, completed campaigns resolved; SKIP LOCKED keeps two engines apart |
| `ens_faults` | 1 process, 2 rows, 1 slot, 1 fault, fairness | slots; attempts; who is given up; the campaign finishes |
| `ers_ring_live` | 2 callers, one tier that others may hold, queue, fairness | promotion in order of position; whoever waits is served or stops waiting; the phones stop when all callers have gone |
| `ers_ring_crash` | 1 caller, both tiers, operator, 1 fault, fairness | row and incident agree; a row leaves the queue once; incidents end |
| `db_pool` | 3 ring-all requests, 1 plain one, 3 clients, 2 failing statements, fairness | no deadlock for good; nothing left on a client; success is committed |
| `conf_converges` | 1 room, 2 callers, 1 seeder, 2 faults, fairness | the client reconnects; registry and incidents settle |
| `recording` | 1 manual recording that the scan never sees and 1 automatic one, one life of the room, 1 fault, fair handlers, tasks and scan | who may complete a row; ACTIVE has a file; every row settles |
| `participants` | 2 legs, 2 lost events, fair tasks | answered is not missed; open rows are of legs in the room; a join whose event was handled is recorded |
| `ivr_deploy` | 2 `deployFlow`, 1 `redeployAll`, 3 revisions, 1 fault, fair requests | `IvrDeploy` implements `Dialplan`; every deployment is answered |
| `config_deploy` | 2 deployments, 1 rollback, 1 fault, hand edits | newest version active; undisturbed versions loaded; failure restores |
| `ens_retry` (violation) | 1 process, 1 row, 2 attempts, no fault | a retry overwritten by the -ERR of the same call |
| `ers_one_incident` (violation) | 2 callers, one tier | two ACTIVE incidents for one tier |

**Why the bounds are enough.** *ENS*: two processes and two rows are each other's rival
for either row, and two attempts give one retry, the boundary of
`max_attempts` and a late event of an earlier attempt; two rows over one slot let the
slot free while the second is claimed. One process crash or link
drop can hit any step, and recovery is the same after a second; a failed speech
synthesis (`TickNoMedia`) counts as a fault too. `AttemptCap` adds one attempt
per fault, as recovery does not look at `max_attempts`; that it is never reached is
a theorem (`AttemptsWithinLimit`). *ERS*: two callers give a
promoted caller and one who arrives, hangs up or is completed between decision
and transaction; a single caller reaches every failure the sweeps answer. *Pool*:
three clients against three requests that need two each is the smallest pool
that fills with the lock's holder inside. *Registry*: the hazards are between one
connection and its replacement, or one snapshot and the events after it; two
faults give a failure during the recovery from another, two callers a snapshot
that is wrong in both directions. One seeder only: two that start together
undo each other in turn for ever under weak fairness alone, which their interval
of 30 s excludes. *Recording*: two paths are all that a wrong path can be
confused with. *Participants*: the races are between two legs, or a leg and a
single other writer. *Deployments*: two rivals and a third behind them in the
lock; a rollback has two versions to choose from. For every
property `PROJECT.json` names a slip in the code that the same instance exposes.

CHECK_DEADLOCK is off everywhere: a finished campaign, call or request has
nothing left to do.

**Fairness.** Weak fairness of every step the backend, FreeSWITCH or a caller
owes: statements return, timers fire, legs end by `originate_timeout` or with
the message, people leave rooms, the process is restarted by its supervisor and
`ESL` reconnects with back-off for ever. Nothing is owed by operators, faults,
callers who dial or give up, or the deadline. `Finishes` excepts an operator who
pauses for ever again. `CancelCampaign` is fair only as the second statement of
a request under way. In `DbPool` the timers of waiting requests are fair: they
alone end the wait of all for all. In `ConfRegistry` callers owe nothing, and a
handshake is fair once the end of the connection before it has been delivered.
One that overtakes it, or takes longer than the back-off, is counted as a fault,
for otherwise each replacement could be torn down by the end of its predecessor,
or by its own timer, for ever. In `Recording` what FreeSWITCH has sent is handled, the
tasks run, and so does the scan, every two minutes; `RecordingsSettle` needs the
handlers for files the scan does not see. In `Participants` the tasks are fair, in
`IvrDeploy` the steps of a request once it has been made.

## 4. Proofs

Every theorem holds for all values of the constants that the module's ASSUME
allows.

| Theorem | States |
|---|---|
| `EnsCampaignProofs!TypeCorrect` | `[]TypeOK` |
| `EnsCampaignProofs!ConcurrencyBounded` | `[]ConcurrencyBound`, with one process (`OneProcess`) |
| `EnsCampaignProofs!LiveLegsOwned` | `[](faults = 0 => LiveLegOwned)` |
| `EnsCampaignProofs!AttemptsWithinLimit` | `[]AttemptsBounded`: `max_attempts`, and one more for each fault |
| `EnsCampaignProofs!AnsweredLeftAlone` | `[](faults = 0) => AnsweredNotRedialled` |
| `EnsCampaignProofs!RetriesKept` | `[]FailedForCause` |
| `EnsCampaignProofs!ReportsStand` | `SettledStaysSettled` |
| `EnsCampaignProofs!CompletedMeansResolved` | `[]CompletedIsResolved` |
| `ErsProofs!TypeCorrect` | `[]TypeOK` |
| `ErsProofs!RecordsAgree` | `[]QueueMatchesIncident` |
| `ErsProofs!RowsSettle` | `RowSettled` |
| `ErsProofs!PromotionsInOrder` | `PromotedInOrder` |
| `ErsProofs!RingImplements` | `RingSpec => Spec` |
| `ErsProofs!RingKeepsQueue` | the three above, of `RingSpec` |
| `ErsProofs!RungForIncident` | a loop runs and phones ring only for a tier that had an incident |
| `ConfRegistryProofs!TypeCorrect` | `[]TypeOK` |
| `ConfRegistryProofs!AlwaysReconnects` | `[]ReconnectPending` |
| `DbPoolProofs!TypeCorrect` | `[]TypeOK` |
| `DbPoolProofs!ConnectionsClean` | `[]ReleasedClean` |
| `DbPoolProofs!ClientsReturn` | `[]NoClientLost` |
| `DbPoolProofs!SuccessMeansCommit` | `[]SuccessIsCommitted` |
| `ParticipantsProofs!TypeCorrect` | `[]TypeOK` |
| `ParticipantsProofs!RowsAreOfCalls` | `[]RowsFollowCalls` |
| `ParticipantsProofs!AnswersStand` | `[]AnsweredNotMissed` |
| `IvrDeployProofs!TypeCorrect` | `[]TypeOK` |
| `IvrDeployProofs!RecordedVersions` | `[]RecordedIsOnDisk` |
| `IvrDeployProofs!Implementation` | `ImplementsDialplan` |
| `ConfigDeployProofs!TypeCorrect` | `[]TypeOK` |
| `ConfigDeployProofs!NewestIsActive` | `[]NewestActive` |
| `ConfigDeployProofs!LoadedBeforeRecorded` | `[]VersionsWereLoaded` |
| `ConfigDeployProofs!FailuresRestore` | `FailureRestores` |
| `RecordingProofs!TypeCorrect` | `[]TypeOK` |
| `RecordingProofs!ActiveHasFile` | `[]ActiveIsConfirmed` |
| `RecordingProofs!OnlyScanAhead` | `[]CompletedIsStopped` |

*Concurrency.* `ConcurrencyBound` is not inductive: between count and claim the
tick holds slots that no row shows. `ConcurrencyInv` adds `SlotsReserved`: rows
in flight plus slots counted stay within the limit. `NoNewCall` covers every
step that puts no row in flight, `CountReserves` and `ClaimInSlots` the two
that matter. With two processes both may count before either claims, and the
bound fails; hence `OneProcess`, which `ecosystem.config.cjs` grants, while
`docs/01-system-architecture.md:221-230` promises an advisory lock that the code
does not take.

*Rows and calls in step.* Neither `LiveLegOwned` nor `AnsweredNotRedialled` is
inductive: a handler decides on a call and writes the row some steps later, an
originate's promise settles in its own time, and the claim does not look at
`attempt_count` at all. `InStep` says how far a row and its calls may be apart
(`DestInv`): calls of earlier attempts are over, later ones untouched, and the
last one fits its row (`Fits`, the conjunction of `CallShape`, `RowShape` and
`LastCall`) - a row that holds a slot has a live leg or a handler still to run,
and a row that does not has no live leg. One lemma per kind of step shows that row and call fit again
(`LegFits`, `AnswerFits`, `HangupFits`, `WriteFits`, ...); `Bystander` and `Moved`
carry that to all rows. Two engines are kept apart by `BatchesApart`, no more.
`StepInv == TypeOK /\ (faults = 0 => InStep)`, because each fault really breaks it:
a crash forgets whose call it was, recovery ignores `max_attempts`, a lost reply
fails a row whose call goes on (section 5). The hypotheses of these two
theorems are therefore those of the runs, but on the behaviour and not on `MaxFaults`:
they hold of every run up to its first fault.

*Attempts through faults.* `AttemptsWithinLimit` needs no such hypothesis. Recovery
queues a row for one attempt more, but only a row that nothing will move on, and only
a fault leaves one. `SoundInv` says so row by row (`Spares`): a queued row has fewer
attempts than `max_attempts` plus the faults so far (`Limit`); a dialing row that has
used them up is claimed, or its call has something `ToCome`: it rings with the
connection up, or an event, a decision or a rejection waits. A step that uses such a
thing up leaves the next one, or moves the row on (`LegSpares`, `AnswerSpares`,
`HangupSpares`, `WriteSpares`); what is to come keeps `Quiet` false, so recovery finds
only rows below the limit (`RecoverSpares`); a fault may take away all that was to
come, and raises the limit by one (`FaultSpares`).

*Reports, through faults and deadlines.* `RetriesKept`, `ReportsStand` and
`CompletedMeansResolved` hold of every run. What breaks the order of a row's writers
is the catch of a rejected originate alone, and the mark it leaves on the call is part
of the invariant: `Tidy`, the other half of `SoundInv`, says that a row it has not
written is `Orderly` - a settled row has no call that will find it, a decision still to
be written belongs to the row's own call, and one to fail the row has a final cause or
no attempt left. Crashes and lost connections take events and decisions away, which
keeps that; recovery finds a row with nothing to come, and a claim a row whose calls
are over. `SettledStep` reads finality off it. *Completion* needs `ClosingInv` besides:
from the count that finds nothing left, or the UPDATE that expires the queue, to the
end of the tick and ever after, every row is `Resolved`; `SettledStep` keeps that, and a
row without an outcome then has had an attempt before the deadline.

*ERS.* Types: `started` stays within its bound because a record dated now belongs
to a caller who has none yet; `Unrecorded` says so, and
`TypeInv == TypeOK /\ Unrecorded` is inductive. Records: `RecordSteps` shows that
any step does one of seven things to one caller's row and incident (kept,
closed, created, queued, promoted, expired, cancelled); `RecordsAgree` and
`RowsSettle` follow from that alone. Order: a poll decides before its
transaction, so `PromotedInOrder` needs `PromoterAtHead`: a caller about to be
promoted, if still queued, is at the head. Arrivals keep it, as they get a
position no smaller than any other; departures keep it, as they only shorten
the queue.

*Ring loops.* Each step of `ErsRing` is one of `ErsIncident` or a stutter. The one
that needs an argument is the responder who answers: `ErsIncident` lets others into
a room only once its tier has had an incident, and a phone may ring long after
the incident it was dialled for is over. `RingInv` keeps `HasRung` for every loop and
every ringing phone: a caller with a record of that tier who does not queue, and
no completion gives such a record another tier (`TierStays`). The
properties of the calls carry over (`RingKeepsQueue`): `RingSpec` is what TLC checks
in `ers_ring_live` and `ers_ring_crash`.

*Pool.* `IInv` fixes what goes with each place a request can be at: the clients
held (`HeldAt`), the transaction (`TxAt`) and the lock (`LockAt`). The three
properties read off it; that the pool is not over its limit needs that a client
is granted below it, and that a Cardinality moves by one.

*Reconnection.* `ReconnectPending` is inductive as it stands. `OthersKeepLink`
sets aside all steps but the seven of connections and process.

*Registry.* That a registered member's room has an entry rests on `ToldRooms`: a seed
has been told the room of each member it has been told, through every command
that fails, is answered late or is lost with the connection.

*Participants.* `InvitedFirst`: calls are made only to a responder invited
before, so the task that records an answer finds the responder's row.
`RowsFollowCalls` is inductive, whichever tasks overlap: a row is opened by a task
whose leg is inside, is leaving, or left unseen, or else enters `late` (`OpenedHeld`);
and the step that takes the last of these away, a leave or the completion, closes all
rows (`HeldStep`). The types need the number of rows bounded: a leg inserts once.

*Dialplan.* `LockExcludes`: no request is in the chain twice, and only its head
is past "queued". So what the holder has read is no older than the file it
replaces (`Ordered`, `Reached`), from which each step is a step of `Dialplan` or
a stutter: a rename is `Write`, a reload that is done `Load`, one that is not
`RefuseLoad`, and `Reached` keeps what the answer will promise - the file, and
FreeSWITCH unless the request is in `refused`.

*Configuration.* `Numbers`: at most one transaction holds an uncommitted version
and it bears the next number, so the row it commits is the newest. `Undisturbed`:
as long as a job is alone, file and backup are what it believes they are.
`Sizes`: a job commits one version at most, so the versions are no more than the jobs.

*Recording.* `Sound`: an event on the way names a file that exists. ACTIVE comes
from such an event or from the search for the file, and no step moves path and
state apart. `CompletedIsStopped`
is about what is past (`Life`): a stop event on the way, a path about to be closed
and a completed row speak of a recording or a room that has ended, and in
one life of the room neither is undone; a stop-recording can only end what runs,
and only the scan writes ahead.

**Only model-checked.** Liveness (`Finishes`, `WaitersServed`, `IncidentsEnd`,
`RequestsEnd`, `RegistryConverges`, `EmptyRoomsSettle`, `RecordingsSettle`,
`RingingEnds`, `JoinsRecorded`, `RequestsAnswered`), as fairness and ENABLED are out of
the prover's reach. Every invariant and action property of a passing run is a theorem;
`LiveLegOwned` and `AnsweredNotRedialled` up to the first fault, as in their run, and
`ConcurrencyBound` with one process. No module declares a
RECURSIVE operator.

## 5. Where code and text disagree

Two runs show a disagreement. In `ers_one_incident`, `ERS:966` decides inside the lock on a member count
that the caller before does not show in yet, so two callers who dial together
get two incidents, against the comment at `ERS:960`. In `ens_retry`, `ENGINE:587` fails a row by id when
the originate's promise rejects: if the job of a leg that rang ends in -ERR after its
hangup was handled, the retry the hangup scheduled is overwritten, which
`docs/15-ens-guide.md:351` promises.

Met while modelling and kept out of the runs; the models show each step.

ENS:

- Recovery queues a stale row whatever its `attempt_count` (`ENGINE:342`); with
  a crash a row may be dialled once more than `max_attempts`: `AttemptsBounded`
  grants one attempt for each fault.
- A command whose reply is lost with the connection fails its row after 40 s
  while the call goes on (`ENGINE:587`); its slot is given away. Hence no fault
  in `ens_cluster`.
- A call in progress when its campaign expires may be queued for retry in the
  completed campaign (`ENGINE:658`): the exception of `CompletedIsResolved`.
- `Finishes` assumes that the throttle leaves a slot. At one call per second,
  above 15 % busy calls of at least ten, `getEffectiveCps` (`ENGINE:1007-1015`)
  rounds to 0; its counts do not decay, so dialling stops until the deadline or a
  restart.

ERS:

- `ERS:1140` locks the rows of the queue; an empty queue has none, and two
  callers get position 1, against the comment at `ERS:1138`.
- `ERS:413` promotes the head of the queue on completion and starts no ring
  loop, against the comment at `ERS:1215`; the poll of the promoted caller only
  returns the room. With two callers one may so be alone in his room without a
  loop: no property says that a caller alone is rung for.
- A completion promotes without counting the room (`ERS:406`), and the cascade
  of `reconcileOrphanedIncident` may complete the incident just promoted
  (`ESL:1185`).
- An operator may complete an incident that is still queued
  (`completeIncidentExternal`, `controllers/ersController.js:753-759`): the
  completion then promotes that incident's own row and opens it again, with no
  ring loop. A caller who rejoins one still queued (`ERS:851`) can do the same.
- A holding caller who hangs up stays at the head of the queue; nothing calls
  `/overflow/cancel`, which `ERS:1181` says the Lua loop does (`LUA:1672`).
  `WaitersServed` holds all the same, by promotions and by the two-hour sweep.
- `startRingAll` is a no-op while the loop of the caller before is about to end
  (`ersRingService.js:172`): nobody is rung for the second caller.
- The INSERT of the initiator is caught (`ERS:979-983`), but has aborted the
  transaction: the request answers 201 for an incident that COMMIT has undone.

ESL, registry, recordings, participants:

- A failed `conference list` yields no rooms "so we don't corrupt registry"
  (`ESL:2200-2204`); the seed then drops every room and completes its incidents.
- The sweep looks at `isConn` once, and a member count that fails is 0, although
  `ESL:2360-2363` says the guard is there so that incidents are not "falsely
  completed as an orphan the moment ESL disconnects". A connection that ends in an
  error without an end event leaves `isConn` true for the whole outage
  (`ESL:1633-1636`), and then seed and sweep both pass their guards.
- Mute state lost with a connection is not repaired by the seed (`ESL:506`),
  against "registry never drifts more than 30 s" (`ESL:2439-2441`).
- `docs/02-runtime-architecture.md:157` and `ESL:2353` have the sweep run every
  60 s; it is 30 s.
- The directory scan completes the rows of running recordings
  (`recordingController.js:520-536`), though existing rows "are not touched"
  (`:480-481`); `CompletedIsStopped` excepts it.
- STOPPING stays after a failed stop, and ACTIVE after a lost stop event; two
  starts can pass the guard, and an automatic start does not look at it.
- When a room comes back, the conference-destroy of its first life can close a
  recording asked for in that life and begun in the second; hence `rooms <= 1`.
- `trackParticipant` "is idempotent" (`ESL:500`), but two joins at once insert two
  rows, a leave that overtakes a slow join leaves its row open (`late` in
  `RowsFollowCalls`), and the leave of one leg closes the row of the other.
- The seed is to make up for a lost add-member (`ESL:497-501`). For a responder it does
  not: the only number its task has is the caller's number of the leg, the initiator's,
  so the task skips or reopens the initiator's row, and the responder ends as MISSED.
- A hangup cause between insertion and response leaves FAILED or BUSY on someone
  who has answered. Legs never answered are not in `ersChannelMap`, so their cause
  is not recorded at all.

Deployments:

- `redeployAll` "is called automatically" when a number is bound or unbound
  (`docs/06-xml-generation-pipeline.md:263`, `deploymentEngine.js:428`) and "an unbound
  number is immediately removed" (`:269`). Only POST `/deployment/redeploy-all` calls
  it, and after the last unbind it returns before the lock, file and FreeSWITCH as
  they were (`deploymentEngine.js:444`).
- "do NOT trust reloadxml's +OK" (`deploymentEngine.js:345`), but `redeployAll` looks at
  no answer, `deployFlow` only for "fail", and the verification only for names that an
  older dialplan may have: success may be answered with an older dialplan loaded.
  `Dialplan` grants it (`RefuseLoad`).

- `last_deployed_version` can go backwards when two deployments record out of
  order (`deploymentEngine.js:386`); while ESL is down a deployment succeeds with
  a warning; a number bound since the write makes an earlier deployment fail its
  verification.
- "Only one row per provider is marked is_active = true at any time"
  (`VersionManager.js:6`) fails when two `createVersion` overlap; only
  `NewestActive` holds. One that loses the race for a number fails altogether.
- A failed deployment restores the file but does not reload it, against "This
  prevents the filesystem and FreeSWITCH from diverging"
  (`DeploymentManager.js:281-283`); if verification throws after the version was
  committed, the active version is not the file.
- A rollback ignores a strategy that reports failure, and never restores.
- The drift check is made at reading time, and the restore of one job overwrites
  what a concurrent one wrote; hence `alone` in two properties.

## 6. Hazards without a property

`PROJECT.json` lists 40 hazards. Those without a property have a note. The code
does not prevent the danger for: equal positions in the queue, the completion of an
incident whose queue row is open, a loop that swallows the next start, the sweep that
reads a lost link as empty rooms, the rejoin of a closed or queued incident, the
responder whose join event is lost, a caught failure inside a transaction, two
administrators who write one file, and mute state that is never repaired: a property
would only restate the divergence, and those near them except it by name. The throttle
that rounds to zero belongs to a part not modelled.

## 7. Not modelled

| Part | Reason |
|---|---|
| Dial-string resolution, callcenter queue eligibility | pure decision lists over one row or one answer, each branch under unit tests |
| Calls-per-second throttle, stored campaign counters | arithmetic that no other decision reads back; see section 5 for the rounding |
| Gateway deployment | sequential write, rescan and verify of one file: `IvrDeploy` and `ConfigDeploy` have that shape, with the concurrency it lacks |
| Configuration providers and parsers | conversions of text, without state |
| IVR graph validation, Lua and XML generation | a walk of one graph, and templates; the ERS handlers generated are in `ErsIncident` |
| Authentication and authorisation | checks of a single request |
| REST controllers | single statements without a protocol of their own |
| Socket.IO and event bus | notification of a display; no decision rests on it |
| Health, logging, Redis client, migrations, Piper, stand-alone Lua | infrastructure or sequential scripts |
| Web frontend | shows what the backend sends |

## 8. What could follow

In order of what it would add: an operator's completion in `ErsIncident`, whose promotion
starts no ring loop either; the initiator's rows in `Participants`; mute
state in `ConfRegistry`; the throttle with the stored counters beside
`EnsCampaign`; the other invariants of the campaign beyond the first fault, with the calls each
fault may add.
