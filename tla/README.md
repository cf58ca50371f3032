# ThorSync in TLA+

ThorSync keeps the save files of an Android handheld ("thor") and a Windows PC
("windows") in step through a hub. Each endpoint's saves arrive in a folder of
the hub by Syncthing; the service captures every stable file into a
content-addressed archive, records an immutable revision of the game in SQLite,
and delivers a new head to the other endpoint's folder, unless the histories
have diverged: then it opens a conflict and waits for the user.

This directory specifies that service: TLA+ modules translated from the Go code
under `src/internal`, TLC configurations that check them on small instances, and
TLAPS proofs for the properties that matter most.

    tlc -config Delivery.cfg MCBroker      # model-check one run
    tlapm BrokerProofs.tla                 # check the proofs of a module

`PROJECT.json` lists the runs, the mutants (one plausible bug per property that
the property must catch), the map from each definition to its source lines, the
hazards of the code, the findings and the theorems.

## 1. Inventory

| Component | State it keeps | Operations | Talks to |
|---|---|---|---|
| Revision store (`store/`) | SQLite: `games`, `revisions`, `revision_payloads`, `conflicts`, `save_bindings`, `broker_operations`, `mutation_requests`, `observations`, `unassigned_files`, `settings` | `UpsertBinding`, `ConfigureWindowsGBAProfile`, `RecordIngest`, `CreateOperation`, `UpdateOperation`, `CompleteEndpointDeliveries`, `CreateHeadFromExisting`, `CreateSnapshot`, `RecordUnassigned`, `RecordRejectedIngest`, `RecordQuarantine`, `RecordDeletion`, `ClearUnassigned` | called by broker, runner, API |
| Broker (`broker/`) | in memory: the map of debounce timers, `closed`; on disk: the endpoint folders | `Schedule`, `Capture`, `PropagateRevision`, `RematerializeBinding`, `DeleteObserved`, `Restore`, `Close` | store, archive, adapter, folders |
| Archive (`archive/`) | objects named by SHA-256, temporary files, the mutex `mu` | `PutFile`, `PutBytes`, `Open`, `State` | the file system |
| Adapters (`adapter/`) | none | profiles, `Validate`, `Decode`, `Encode`, conflict names; the Pokemon Generation III check `ValidatePayload` | pure functions |
| Syncthing runner (`syncthing/runner.go`) | the event cursor, in memory and as a setting; the pass of the walk | event loop, `handleEvent`, `Reconcile`, `refreshStatus` | broker, store, Syncthing |
| Syncthing client (`syncthing/client.go`) | none | REST calls | Syncthing (external) |
| HTTP API (`api/`) | none of its own | mapping, restore, promote, snapshot, propagation switch, profile settings, imports, reading | store, broker |
| Authentication (`auth/`) | the cache of signing keys | token and origin checks | the identity provider |
| Migrations (`store.go`) | `user_version`, a marker in `settings`, backup files | `Open`: `migrate`, `migrateRevisionPayloads`, `backupDatabase`, `seed` | SQLite |
| Event hub, catalogue, configuration, web interface | subscriptions; none | notify; look up; parse; display | - |

**How they interact.** A Syncthing event, the periodic walk or a request leads to
`Schedule`. Five seconds after the last `Schedule` of a path a timer's own
goroutine runs `Capture`: look twice at the file, look up the mapping, archive,
check, decode, one transaction (`RecordIngest`), clear the inbox row, and then, in
the same goroutine, `PropagateRevision`: for each other endpoint's binding a
journal row, a rename into the folder, and the journal row's update. The status loop
reads Syncthing's completion and marks written operations delivered. API requests
run `Capture` and `PropagateRevision` in goroutines of their own. All of it shares
the database (one connection: each statement and each transaction is atomic), the
archive (one mutex) and the folders (shared also with Syncthing, and locked by
nobody).

**What is hard.** Every value is read long before it is used: the binding before the
transaction that decides linearity from it, the file before the rename that
replaces it, the completion before the update that relies on it. Captures and
deliveries of one save can overlap. The process can die between journal, rename and
update; a request can be retried; devices go stale and come back. A file can
change, vanish or be mapped at any moment of a capture. A power loss can take a
name the archive has acknowledged.

**What makes each component correct.**

- *Revision store*: one head per game; history is one immutable line; the same
  conflicting bytes never make a second branch; an open conflict freezes the head
  until the user decides; a retried request creates nothing; a device's baseline is
  never a branch; a battery-only emulator keeps the RTC it was given; every
  ingested file can be given back.
- *Broker and runner*: the rows only ever change as the store's transactions do;
  bytes reach a folder only after their journal row; the head in a folder gives way to another
  revision only by a delivery that is stale by then; a conflict artifact is removed only once
  it is a branch; the head reaches every device in the end, and the page says so. A scheduled
  change is not lost among the timers; `Close` means closed; a service that stays up records
  what is there.
- *API, settings*: a change of the Windows emulator replaces the file only by the head and
  only when the file is archived; it costs the clock only by a file in the old format that is
  captured under the new mapping, which takes a failure or an overlap; and it leaves the device
  with the head in the new format.
- *Migrations*: what was there before a migration survives in a complete backup; every
  revision that is served has its payload row; a choice is not reset; a start that is not
  given up serves.
- *Inbox*: inbox, observations and revisions end up agreeing with the file; a
  quarantine ends only with an ingest, or by a capture that crossed it.
- *Archive*: no torn read gets a name; the reserve is kept; what was acknowledged
  survives, but for a name whose put was cut off before its directory sync.
- *Generation III check*: the verdict does not depend on the order of Go's map.

## 2. Modules

| Module | Models | Extended by |
|---|---|---|
| `SaveHistory` | the abstract specification: what the owner of one game's saves is promised | `RevisionStore` instantiates it |
| `RevisionStore` | the rows of one game and every store method that changes them, and captures that have read their binding | `MCRevisionStore`, `RevisionStoreProofs`, `Broker` |
| `Broker` | folders, timers, captures, deliveries, status loop, requests and crashes around `RevisionStore` | `MCBroker`, `MCArrival`, `BrokerProofs`, `ProfileSwitch` |
| `MCArrival` | `Broker` from the state with the first save captured, for liveness on a small instance | - |
| `ProfileSwitch` | the settings handlers that give the Windows save another emulator, on the running `Broker` | `ProfileSwitchProofs` |
| `Watcher` | how a change comes to be captured: event feed and cursor, reconciliation passes, debounce timers, shutdown | `WatcherProofs` |
| `Inbox` | captures that do not become revisions, for one save path | `InboxProofs` |
| `Migration` | `Open`: schema, backup, payload migration, seeds, with deaths, upgrades and rollbacks | `MigrationProofs` |
| `Archive` | `PutFile`, `PutBytes`, `putReader` on a disk with power losses | `MCArchive`, `ArchiveProofs` |
| `SaveIntegrity` | `ValidatePayload` of Generation III saves | `SaveIntegrityProofs` |
| `RevisionStoreProofs`, `BrokerProofs`, `ProfileSwitchProofs`, `WatcherProofs`, `MigrationProofs`, `ArchiveProofs`, `InboxProofs`, `SaveIntegrityProofs` | the theorems | - |

Three levels refine each other: `Broker` implements `RevisionStore` (`StoreSpec`), and
`RevisionStore` implements `SaveHistory` (`HistorySpec`). Both refinements are checked and
proved. `ProfileSwitch` composes the handlers with `Broker`; `Watcher`, `Inbox`, `Archive`
and `Migration` look closer at what is one step, or not there, in the others.

### SaveHistory

A line of versions that only grows, versions set aside, questions about them, and
decisions. Progress of a device that had the head advances the line, but only while no
question is open; other progress is set aside once and asked about; a decision makes any
version the head and answers every question; a decision is made once however often it is
asked for. The refinement mapping takes the revisions that are or were the head for the
line, the branches for what is set aside, the open conflicts for the questions, and
`mutation_requests` for the decisions. What the mapping hides (bindings, baselines,
operations, captures, statuses) may move without the owner seeing anything.

### RevisionStore

One game, both endpoints. A blob is the pair of components it holds (battery and
RTC), a hash is the blob, an identifier is a position in creation order with 0 for
the empty one. Each variable is a table or a column of `games`; `captures` holds
what a running `Capture` has read (its copy of the binding). One action per store
method: `RecordIngest` is one action with its five outcomes in the order of the
code's early returns (echo, duplicate, known branch, linear update, branch). The
module is open: which file a capture has read, whether it is a conflict artifact or
a confirmed occurrence, and when a method is called are free, so it is also the
abstract specification of what any caller may do to the rows.

### Broker

Closes `RevisionStore`: adds for each endpoint the hub's file, the conflict artifact,
the device's file, whether the device has an unsent edit, and whether Syncthing knows
and has sent the hub's file (`index`), and for the process the timers, what each
worker's capture was scheduled with and has archived, the deliveries in progress with
their step, and the status loop's reading. A capture is three steps (`BeginCapture`
reads the binding, `PutFile` reads the file, `Ingest` is the transaction with what
follows it in memory); a delivery is list, journal, write, mark for each target. The
devices and Syncthing are external: `Play`, `Upload`, `Scan`, `Download`, `Collide` do
what the code relies on. `Crash` drops everything that is only in memory.

`StoreSpec` is the refinement: the service's specification implements the
specification of the store, under the identity mapping of the store's variables.

Abstractions. `targetMatches` and `writeTarget` are one step: nothing depends on
what happens between them but an upload in that window, which the step order already
allows just before. Artifact names carry a time and a device, so a new
artifact never takes the name of one that is being captured: `names` counts them, and a
capture that finds another name, or no artifact, fails like one whose file vanished. The
model keeps one artifact at a time. `UpsertBinding` happens once per endpoint here; the change of a
profile is the subject of `ProfileSwitch`.

`GameDelivery` is the delivery status the page shows, computed from three tables that
change at different times.

### ProfileSwitch

`upsertBinding` and `configureWindowsGBAProfile` are the same three calls in a row, each of
which the service can overtake: capture the file under the old profile, change the binding,
then rewrite the head in the new format (`RematerializeBinding`, whose writes are forced
through an operation that may already be journaled) or, if nothing was captured, capture the
file under the new profile. `request` is the handler: its step, the worker it runs as, and
what its capture returned. The steps of `Broker` around it go on. A file of the wrong
format is quarantined (`Quarantine`), a battery file read as standalone mGBA's loses its
clock: that is what the handler must avoid, and does as long as nothing fails in it and no
capture overlaps it. `LosesClock` and `MistakesFormat` name the loss and the only way to it.

The system starts with one save captured on Windows and delivered to the Thor, under either
Windows emulator. Propagation is on. Failures are those that hit a request; what fails
otherwise is `Broker`'s matter.

### Watcher

One endpoint whose folder has a mapped save at each path. Syncthing's feed numbers its events
from one and forgets them when Syncthing restarts; `eventLoop` fetches a batch, handles its
events one by one and saves the cursor after the last; `reconcileLoop` walks the paths one by
one and then reports those it has not seen. `Schedule` replaces the timer of a path under the
mutex, but `Stop` does nothing to a timer that has fired, whose function then waits for the
mutex, clears the map's entry, whichever timer that names by then, and looks at `closed`.
`timers` holds armed timers and running functions; a timer's number is reused once it is gone.
Shutdown is the order of `main`: the context is cancelled, the server stops, the broker closes,
the process ends. Nobody waits for the loops: the batch in hand and the walk go on without
looking at the context, and a request that `Shutdown` gave up on does too, so `Schedule` is
called also after `Close` (`HandleEvent`, `Walk`, `Retry`). What these do to the database fails
once the context is cancelled.

A capture here only reads and, later, records a version; overlapping captures can record in
the wrong order. `owed` is a history variable: the path was scheduled and not read since.

### Migration

One database, two images. The current image's `Open` is a step per statement of the schema
that later steps depend on, with `user_version` last; the backup by `VACUUM INTO` (a death
leaves an incomplete file), the pruning file by file, the transaction of the payload migration,
and the seeds one by one. The previous image knows neither `revision_payloads` nor the
`broker_operations.profile_id` column and may run before, in between and after. The image may
die anywhere, is restarted by the container runtime, and may be replaced when stopped. A
revision is the identity its payload row must have: that of its blob, or a composed one that
only the current image records. `legacy` is a history variable.

The clock is taken to run forward between failed starts, so that a later backup has a later
name; the number of failed starts stands for the time. A power loss during `VACUUM INTO` and
the loss of acknowledged pages are SQLite's matter. While `schemaVersion` is 1 the branch that
backs up before a schema change has no database it applies to. A fresh database whose first
start died before the marker was set is backed up by the next start although it is empty, which
is harmless and in the model.

### Inbox

One save path. The file has a version (its modification time), so a file that is
written again with the same bytes counts as changed; two writes within the clock's
resolution and of equal size are not distinguished by the code and not modelled.
Steps of a capture: first look, second look, mapping, archive, checks, time of
observation, transaction, clearing the row. Between any two the file may be
written, emptied, removed or replaced by a file that fails the checks, and the mapping
may be saved (in its two statements) or moved. Captures of the path may overlap. `since` in a
row, `ingested`, and `crossed` in a capture (another one wrote the row after this one archived
its file) are history variables for the property.

### Archive

A file is two halves, because a read is not atomic; the disk has units. A put is the
lock with the reserve check, two reads, the check of the source with the sync of the
data, then deduplication or a rename, and the directory sync. A killed process leaves
its temporary file; a power loss keeps any subset of the names not yet synced. Errors, kills and
power losses fall between any two steps, the rename and its directory sync included; `cut` is a
history variable, the names whose put ended there and which no put has synced since.
Nothing else uses the disk. A source rewritten within the
resolution of its modification time looks unchanged to the code; the model gives every
edit a new time.

### SaveIntegrity

`ValidatePayload` over files of two slots: a sector is blank or has a section number,
a counter and a good or bad checksum. The range over Go's map is a nondeterministic
order (`Visit`). Counters are modulo `Modulus` for 2^32. The real layout has fourteen
sections; two are enough to have a complete, an incomplete and a mixed slot.

## 3. Runs

### Runs that pass

| Run | Configuration | Question | Distinct states |
|---|---|---|---|
| `history` | `History.cfg` | does any mix of captures, restores, promotions, snapshots and profile changes implement `SaveHistory`: one immutable line, held by open conflicts? | 119 thousand |
| `journal` | `Journal.cfg` | with RTCs, profile changes and operations: baselines, RTC inheritance, recoverability | 387 thousand |
| `delivery` | `Delivery.cfg` | the service with edits, a keyed restore with its replays, the switch and a fault: does it implement the store, which deliveries take the head out of a folder, are artifacts archived? | 1.2 million |
| `arrival` | `Arrival.cfg` | does a newer head reach every device whatever failed, is that shown, and is the journal ahead of the folders? | 101 thousand |
| `switch` | `Switch.cfg` | does a change of emulator, to and fro and around an edit, keep the file and the head, and when does it lose the clock? | 145 thousand |
| `watcher` | `Watcher.cfg` | is a change lost among timers, events and passes, and is a shutdown quiet while the loops go on? | 1.1 million |
| `inbox` | `Inbox.cfg` | with overlapping captures: do inbox, observations and revisions end up agreeing with the file, and what ends a quarantine? | 1.0 million |
| `migration` | `Migration.cfg` | does any mix of starts, deaths, upgrades and rollbacks keep backup, payload rows and choices, and serve in the end? | 278 thousand |
| `archive` | `Archive.cfg` | torn reads, reserve, and what a power loss can take | 461 thousand |
| `integrity` | `Integrity.cfg` | is the verdict independent of the map's order and right? | 1.5 million |

**Bounds.** Four revisions are enough for a branch and a head, a user decision, and a
capture by a worker that read its binding before it. Two contents are enough to
differ. `Journal.cfg` has one battery and two RTCs, so that revisions differ in the RTC alone.
`Delivery.cfg` has two batteries and two edits (one on each device, or two in a row), a key for a
restore and its replays, three revisions, so that a replay can come when its revision is no
longer the head, and a fault. `Arrival.cfg` starts with the first save captured on Windows and
the Thor not mapped, which is how a game begins; there are two batteries, so that the head that
follows has bytes of its own and has to replace others, in both directions and also by edits
that collide, four revisions and five operations. Restores and replays are left out there: a head
arrives the same way whoever made it. In `Inbox.cfg` two captures overlap while the file changes
twice, is mapped once and a call fails or the process dies once. `Archive.cfg` has room for one file more
than the reserve check admits. `Integrity.cfg` starts from every file with counters
within half the range, which is 1.5 million states with the orders.

`Switch.cfg` has two changes of emulator or failures together, one edit and two batteries with
one clock: enough to go to mGBA and back, with an edit or a failure in between, and seven
operations so that no delivery is cut off by the bound. `Watcher.cfg` has two saves, so that a
timer of one path could be mistaken for that of another, two changes, so that one can be
overtaken, two timers or functions at a time (a third only waits behind them), and one fault,
which may be a crash, a failed call, a failed pass or a restart of Syncthing. `Migration.cfg`
keeps two backups and allows four deaths, so that the pruning has something to remove while
backups of failed starts are around, and has one revision for each image.

Symmetry is used for payloads, keys and workers in safety runs only; endpoints are
not symmetric, since bindings are served in their order. `CHECK_DEADLOCK FALSE`
is given where the system may really stop: an archive with no put in progress and its
bounds used up, a verdict that has been reached, and an unmapped save path without a
file.

**Workers.** `delivery`, `arrival` and `switch` have one worker, which keeps them small: captures
and deliveries of one save do not overlap there, though they overlap requests, the status loop
and Syncthing. Nothing in the code enforces that, so what they check of overlaps is proved
instead: `StoreSpec`, `WriteAheadJournal`, `OnlyStaleDeliveriesRollBack`, `ArtifactsAreArchived`
and `SwitchKeepsFile` hold for any number of workers (section 4). Of `RtcIsKept` the part for any
number of workers is `ClockGoesByMistake`; that without a failure no such mistake is made is true
only if no capture overlaps the handler, and its comment says so. Captures overlap in `history`,
`inbox`, `watcher` and `observed`.

### Runs that find a violation

Each checks one statement of a document or comment, and TLC refutes it.

| Run | Statement | What happens |
|---|---|---|
| `observed` | README.md:44-46, a stale device never overwrites progress | a delivery writes over a head that overtook it, or over an upload that is still being debounced and no capture has read |
| `durable` | broker.go:201, the content is durably archived | a retry finds the object of a put that was cut off before its directory sync and acknowledges it unsynced |

`durable` and `archive` are the same instance: what is acknowledged can be lost, and only by
names that a put which was cut off has left behind (`OnlyCutNamesAreLost`). `observed` and
`delivery` relate in the same way: the head in a folder is overwritten, and only by deliveries
that are stale by then.

### Fairness

`arrival`, `switch`, `inbox`, `watcher` and `migration` use it. The runner's reconciliation and status loops are
tickers that run as long as the process: weak fairness of `Reconcile`,
`DeleteObserved` and `ConfirmDeliveries`, and strong fairness of `ReadCompletion`, since
completion is only sometimes 100% when a round comes. A goroutine that has begun a
capture or delivery goes on: weak fairness of their steps. A timer fires: strong fairness
of `BeginCapture` in the broker, where the one worker may be busy each time (in the code
each timer has its own goroutine, so none is starved), and weak in the inbox. In `watcher`
the timer's firing is a step of its own and weakly fair for each path even though every pass
replaces the timer, because passes are further apart than its five seconds; so are the steps of
both loops and of the functions. In `switch` the handler goes on, as a goroutine does. In
`migration` a step of `Open` that can run does, and a process that died is restarted
(`restart: unless-stopped`). `StartsServe` is about a database that is not of a later image, and
relies on the failures of `Open` coming to an end.
Syncthing exchanges what it can: weak fairness of `Exchange`. Nothing is assumed of users,
of devices being played, or of faults; faults are bounded, which is what lets anything
arrive at all. `HeadArrives` is conditional on propagation staying on, no conflict
staying open and both endpoints being mapped.

## 4. Proofs

`RevisionStoreProofs` proves, for any payloads, paths, workers, keys and bounds:

| Theorem | Says |
|---|---|
| `RowsReferToRevisions` | the inductive type invariant |
| `TypeCorrect` | `Spec => []TypeOK` |
| `HistoryInvariant` | the inductive invariant of the history |
| `OneHead` | `Spec => []HeadIsCurrent` |
| `OneLine` | `Spec => []LinearHistory` |
| `RevisionsAreImmutable` | `Spec => ImmutableRevisions` |
| `BaselinesOnLine` | `Spec => []BaselineOnHeadLine` |

`TypeOK` alone is not inductive: an operation's encoded file has a type only if its
revision exists, a capture's copy of a binding must name an existing revision. The
strengthening adds those references. For the history, `HeadIsCurrent` and
`LinearHistory` need each other and one fact more: the current revision is the
*newest* one that is not a branch, so that a new head, whose parent is the current
one, is created just after it. Baselines on the head line need the same of the copies
that captures hold and of the journal, because each is the source from which a later
step sets a baseline.

Its second half proves, for the same constants:

| Theorem | Says |
|---|---|
| `EachBranchOnce` | `Spec => []BranchesAreDistinct` |
| `ConflictsAreAboutBranches` | `Spec => []ConflictsNameBranches` |
| `StatusIsTrue` | `Spec => []StatusTellsConflict` |
| `OneHeadPerKey` | `Spec => []MutationsAreKeyed` |
| `RtcStays` | `Spec => []RtcIsInherited` |
| `NothingSeenIsLost` | `Spec => IngestIsRecoverable` |
| `StoreImplementsHistory` | `Spec => HistorySpec` |

`StepKinds` reduces a step to one of six kinds: nothing to the history, a review opened again, a
linear capture, a branch, a decision, a snapshot. The reviews need the history: a linear capture
leaves conflicts as they are, which is right only because it can meet an open one only while
the game has no head, and then no conflict names a head. The RTC needs the copies of
bindings that captures hold: their profiles belong to their endpoints and their baselines
are on the line, so that what a battery-only emulator sends is joined with the clock of a
revision that is there. Recoverability needs that decoding undoes encoding (`RoundTrip`) and
that an operation's bytes are those of its revision (`JournalInv`), since an echo records
no revision and is found again through its operation.

In the refinement a step that touches neither revisions, head, conflicts nor requests is a
stutter; the others come down to two lemmas, one for a head more and one for a branch more, and
`HistoryInv` supplies that the new head follows the old one. That an open conflict freezes the
head, and that a conflict needs a decision to end, are parts of this refinement and no
properties of their own.

`BrokerProofs` proves, for any number of workers, keys, plays and faults:

| Theorem | Says |
|---|---|
| `ServiceInvariant` | the inductive invariant of the running service |
| `ServiceImplementsStore` | `BrokerSpec => StoreSpec` |
| `ServiceImplementsHistory` | `BrokerSpec => HistorySpec` |
| `ServiceKeepsHistory` | the service keeps one head, one line, and baselines on it |
| `ServiceKeepsReviews` | branches, conflicts, status, keyed decisions and clocks, on the service |
| `ServiceLosesNothing` | `BrokerSpec => ImmutableRevisions /\ IngestIsRecoverable` |
| `ServiceTypes` | `BrokerSpec => []BrokerTypeOK` |
| `JournalIsAhead` | `BrokerSpec => []WriteAheadJournal` |
| `RollBacksAreStale` | `BrokerSpec => OnlyStaleDeliveriesRollBack` |
| `ArtifactsBecomeBranches` | `BrokerSpec => ArtifactsAreArchived` |

The refinement needs an invariant: a step of the broker is a step of the store only if
the arguments it passes are ones the store accepts: the file a capture has archived is a
payload, the revision a delivery names exists and is on the head line, the operation
it is about to mark exists, and is the row of its revision, endpoint, path and profile.
`ServiceInv` says just that. With `StoreSpec` the store's theorems carry over to
the service without a second proof, and the two refinements compose. `JournalIsAhead` is
inductive together with `ServiceInv`, which gives that an operation's row, once there, keeps
its bytes. `ServiceTypes` needs that a worker does one thing at a time (`WorkersOK`).

Captures and deliveries overlap, so what a goroutine has read may no longer be true when it
acts. `RollBacksAreStale` rests on what stays true: each binding that a capture or a delivery
holds is a row of the table but for its baseline (`CopiesAreMapped`), so that what a delivery
writes is its revision in the format of that row, and if that is not the head's bytes the
delivery is stale. That a delivery *starts* as one of the head needs the store: a capture
propagates only the head it made or found (`IsDuplicate`). `ArtifactsBecomeBranches` needs that the
file of a forced capture is the conflict artifact of its endpoint as long as the name is still the
one it was scheduled with (`ForcedCaptures`), whoever else removes it meanwhile.

`ProfileSwitchProofs` proves, for any number of workers, plays, faults and changes:

| Theorem | Says |
|---|---|
| `SwitchKeepsHistory` | with the handlers too: one head, one line, baselines on it |
| `SwitchKeepsFiles` | `SwitchSpec => SwitchKeepsFile` |
| `SwitchKeepsClock` | `SwitchSpec => ClockGoesByMistake` |

A handler's step is a step of the store and keeps `ServiceInv`, so what `BrokerProofs` knows of
a step of the service can be used here; the system starts with a head, so `SwitchStarts` has to show
the invariants of a history that is already there. The emulator is closed while the user's request
is served, so its file changes only by writes of the broker, and each of these is a revision in the
format of a Windows emulator (`WindowsWrite`). That is what the handler may rely on whatever overlaps
it (`HandlerOK`): the file it has captured is still there or was replaced by one a revision holds,
and what its capture delivers goes to the other device. That a capture
*returned* is not enough, for it may have been refused: the forced write needs the step "changed",
that step is only reached if the capture was recorded, and then the ingest has made or
found the revision that holds the bytes (`HandlerIngest`).

The clock: only an ingest changes the head (`HeadSteps`), a new head is what the capture read,
decoded against a binding whose baseline *is* the head (`IngestHead`), so a battery-only emulator
inherits the head's clock, and what is left is a file without a clock under a mapping that carries
one. That such a file is captured is possible: after a handler that failed or died, and, with more
workers, by a capture that read the old file before the change. `RtcIsKept`, which excludes
it without failures, is therefore about captures that do not overlap the handler and is checked and
not proved.

`ArchiveProofs` proves, for any number of writers, edits and faults and any disk:

| Theorem | Says |
|---|---|
| `ArchiveTypes` | `Spec => []TypeOK` |
| `NoTornReads` | `Spec => []ReadsAreSnapshots` |
| `ReserveHolds` | `Spec => []ReserveIsKept` |
| `OnlyCutNames` | `Spec => []OnlyCutNamesAreLost` |

The last three rest on `Mutex`: who is inside a put holds the lock, so there is one
temporary file at most. A read is untorn because, as long as the modification time is that
of the first Stat, everything read so far equals the file (`Reading`). The reserve needs the
space a put will take to be counted from the moment it passed the check (`Committed`).
For
durability, an object without a synced name belongs to a put that is about to sync it or was cut off
before it could (`Durability`), and the mutex makes that one put at most; a deduplication finds
nothing else unsynced. The types need that the source's time counts its edits and that leaked
files are paid for by faults (`Counts`).

`InboxProofs` proves, for any contents and any number of overlapping captures, writes, mappings and faults:

| Theorem | Says |
|---|---|
| `InboxTypes` | `Spec => []InboxTypeOK` |
| `QuarantineEnds` | `Spec => QuarantineEndsWithIngest` |

The types need that a capture which has passed the checks has a save (`Checked`), for it was read
long before it is recorded. A quarantine ends with an ingest because a row is never about a later
version than a capture that has archived its file has read, unless another capture has written the
row in between (`RowIsOlder`); such a capture is `crossed`.

`SaveIntegrityProofs` proves, for any number of sections, any even modulus and every file whose
counters are within half the range, so for fourteen sections and 2^32 as well:

| Theorem | Says |
|---|---|
| `NewestIsHeld` | `Spec => []HoldsNewest` |
| `CompleteSavesAreAccepted` | `Spec => []VerdictIsRight` |

"After" on counters modulo 2^32 is not transitive, so one pass over the cycles need not find a
newest one. Within a window of half the range it is the order of the distances from the
window's base (`SerialOrder`), and then the loop holds a newest of those it has visited in
whatever order it visits them (`LoopInv`).

`WatcherProofs` proves, for any number of saves, timers, changes and faults:

| Theorem | Says |
|---|---|
| `WatcherTypes` | `Spec => []WatcherTypeOK` |
| `NoChangeIsDropped` | `Spec => []ScheduledIsRead` |
| `CloseIsQuiet` | `Spec => ClosedIsQuiet` |

A step leaves the timers alone, schedules a path, moves one timer on, ends one, or stops them
all; one lemma for each. `ClosedIsQuiet` is about whoever calls `Schedule`: the batch, the walk and
requests still do after `Close`, and then leave the timers alone. `ScheduledIsRead` needs that a map entry names an armed or fired timer of
its own path, if it names one: otherwise stopping the entry of one path could stop the only timer of
another.

`MigrationProofs` proves, for any revisions, settings, folders, number of backups kept and
number of failed starts:

| Theorem | Says |
|---|---|
| `MigrationTypes` | `Spec => []MigrationTypeOK` |
| `PayloadsComplete` | `Spec => []EveryRevisionHasItsPayload` |
| `BackedUpBeforeMigration` | `Spec => []MigrationIsBackedUp` |
| `ChoicesStay` | `Spec => ChoicesSurviveStarts` |

The backup that counts is that of the start which migrates. It has the newest name there is, so
the pruning keeps it (`NewestIsKept`); after the migration the marker is set and no start
touches the backups again; a start that makes none although the marker is not set began with an
empty database (`BackupInv`). A payload row that is there is
that of its revision, and only a revision of the previous image can be without one, so the
backfill of the transaction makes the table complete (`PayloadInv`).

The assumptions are those the modules name: `NoRtcAssumption` (the absent RTC is no
RTC), `InstalledAssumption` (installed profiles are profiles), `WriterAssumption` (nobody
is not a writer), `SpaceAssumption` (a file takes space, and the reserve fits the disk),
`ContentsAssumption` (saves, rejected, empty and missing files differ), `ModulusAssumption`,
`SectionsAssumption` (there are finitely many) and `BlankAssumption` (a blank sector is no sector
or cycle), `KeepAssumption` (at least one backup is kept), and those that say that the bounds are
numbers, `HandlerAssumption` (no worker has the name of none) and `FirstAssumption` (the first save
is a payload; `FirstBatteryAssumption` in `MCArrival`, where nothing is proved, says the same). No
theorem has a hypothesis of its own: where the code does not keep what one would like, the theorem
states what it does keep, with the exception named in the formula.

**Only model-checked.** The liveness properties `HeadArrives`, `DeliveryIsShown`,
`HeadArrivesInFormat`, `ChangesAreRecorded`, `StartsServe` and `FileIsAccountedFor`: fairness is
out of the provers' reach. And `RtcIsKept`, whose proved part is `ClockGoesByMistake`. The theorems
state every other property that a passing run checks.

## 5. Not modelled

- The cache of signing keys, tokens and origins: they decide who may log in and touch no save;
  the cache's time-outs need a clock the other modules do not have.
- `EnsureFolder` and `SetFolderPaused`: a stateless conversation with Syncthing. The endpoint
  and folder states that `refreshStatus` shows.
- Game creation, imports, artwork, activity rows, the event hub, the catalogue, read-only
  handlers but the delivery status, configuration and the web interface: they keep no state the
  above depends on.
- Sidecar names, sizes and platform tables of the adapters; NDS saves are payloads without
  RTC. In the inbox a mapped save is a Game Boy Advance save, whose size is checked again
  on the archived bytes; for other platforms only the size stableFile saw is checked
  (`broker.go:144`).
- The archive's soft quota, which changes only a reported state, and `Open`.
- The mapping of a save to another path on the running service; `RevisionStore` has the
  store's side of it, `Inbox` that of a path that is not yet mapped.
- `backupBeforeMigration`, which no database needs while `schemaVersion` is 1; a power loss
  during `VACUUM INTO`; a clock that runs backward between two starts.

## 6. Seen with these models, without a run of their own

Overlapping and stale operations:

- A delivery that was overtaken by a newer head still writes its older revision, and Syncthing
  sends that (`broker.go:371`). A replayed restore propagates the revision its key created long ago,
  also when it is no longer the head (`broker.go:499`). Both break `ProgressIsNotOverwritten`;
  `OnlyStaleDeliveriesRollBack` says that nothing else puts another revision over the head.
- A reconciliation recaptures the unchanged head and delivers it over the file of a branch that
  is under review (`ingest.go:212`, `broker.go:315`). The bytes of the branch are archived.
- Enabling propagation looks for open conflicts and then writes the setting (`api.go:571`): a
  conflict can open in between, and propagation is then on next to it.

Whose bytes these are:

- A capture scheduled by a remote change reads what the folder holds five seconds
  later, so it can confirm the broker's own later write (`broker.go:80`, `ingest.go:143`),
  which `broker.go:28-29` excludes.
- A completion that was read before Syncthing has scanned a write counts the write as
  delivered (`runner.go:220`, `ingest.go:512-513`). What is shown in the end is right
  (`DeliveryIsShown`).
- Only pending and written operations are echoes (`ingest.go:134`): bytes of a failed,
  superseded or delivered operation are ingested as the device's own. Conversely, a device
  that returns to exactly the bytes of an operation that is still written is taken for an echo,
  and its file is not recorded; with two plays this happens after a change of emulator.
- A rescan of an unchanged file whose baseline lags behind the head opens a conflict
  (`ingest.go:259`).

Change of emulator, with an overlapping capture or a failure in it:

- A capture that read VBA-M's file before the change of the binding and is recorded after it, or
  any capture after a handler that died or failed before the forced write, reads that file as
  standalone mGBA's and makes a head without the clock (`README.md:22-26`,
  `broker_test.go:277`). `RtcIsKept` admits just this.
- A death on the way from mGBA to VBA-M leaves the file with its footer quarantined while
  `lastDeployed` is the head: nothing tries again, and the page shows "delivered"
  (`docs/zimaos-deployment.md:116-137`).

Inbox:

- A path that vanished before its timer fired, such as a removed conflict artifact, gets a
  quarantine row that no later capture resolves (`broker.go:108`).
- A capture clears the row of its path whatever an overlapping capture has just put there
  (`broker.go:210`); the next walk brings the row of a file that is still there back.

Delivery status:

- A delivery that failed, to a device that then makes the same head by itself, is not tried again
  and stays the newest operation of the head: the page says "paused" although both devices have
  it (`FailedBeforeArrival`, `dto.go:283`).

## 7. Plan

Done, in this order: `RevisionStore` and its proofs; `Broker` with the violations of the
documented promises; `Archive`; `SaveIntegrity`; `BrokerProofs`; `Inbox`; `ArchiveProofs`;
`SaveHistory` and the proof that `RevisionStore` implements it; `Migration`, `Watcher` and
`ProfileSwitch`; the theorems on the reviews; `MigrationProofs` and `WatcherProofs`; the
theorems of `BrokerProofs` on folders and artifacts; `InboxProofs` and `SaveIntegrityProofs`;
`ProfileSwitchProofs`; the loops that outlive `Close` in `Watcher`, overlapping captures in `Inbox`,
faults between rename and sync in `Archive`, and the theorems of `BrokerProofs`,
`ProfileSwitchProofs`, `ArchiveProofs` and `InboxProofs` without restrictions on workers and faults.

Next, by importance:

1. The mapping of a save to another path on the running service.
2. Liveness of uploads: each uploaded file that stands still ends up archived.
3. The signing-key cache as a timed module.
