--------------------------------- MODULE Broker ---------------------------------
(***************************************************************************)
(* internal/broker and internal/syncthing around the revision store: two   *)
(* endpoint folders on the hub, the debounced captures of their save       *)
(* file, the deliveries of a new head into the other folder, the status    *)
(* loop that confirms them, and crashes of the process.                   *)
(*                                                                         *)
(* Syncthing and the devices are external and are modelled by what the     *)
(* code relies on: a device edit is uploaded and announced by a            *)
(* RemoteChangeDetected event, a file the broker wrote is indexed by a     *)
(* scan and then downloaded, concurrent changes leave one winner and one   *)
(* conflict artifact, and completion is 100% when the remote device needs  *)
(* nothing the hub has indexed.                                            *)
(*                                                                         *)
(* A goroutine is a worker; it runs a capture (FindBinding, PutFile,       *)
(* RecordIngest) and then the delivery that the capture asks for, one      *)
(* database call or file operation at a time.  Captures and deliveries of  *)
(* two workers overlap: nothing in the code prevents it.                   *)
(***************************************************************************)
EXTENDS RevisionStore

CONSTANTS Installed,    \* the emulator profile the user runs on each endpoint
          Switchable,   \* whether the propagation setting is ever changed
          NoFile,       \* the save file does not exist
          MaxPlays,     \* bound on edits of devices and on turning propagation off
          MaxFaults     \* bound on the crashes and failing calls together

ASSUME InstalledAssumption == Installed \subseteq Profiles
ASSUME BrokerBoundsAssumption == MaxPlays \in Nat /\ MaxFaults \in Nat

VARIABLES propagation,  \* settings.propagation_enabled
          enabling,     \* the settings handler has checked for open conflicts
          timers,       \* debounce timer of the save path of each endpoint
          inputs,       \* what the capture a worker runs was scheduled with and read
          deliveries,   \* PropagateRevision calls in progress
          complete,     \* the status loop has read a completion of 100%
          hub,          \* the save file in the endpoint's folder on the hub
          artifact,     \* the Syncthing conflict file in that folder
          names,        \* the name of that file, or of the last one there was
          device,       \* the save file on the device
          edited,       \* the device has an edit the hub has not received
          index,        \* whether Syncthing knows, and has sent, the hub's file
          plays, faults

storeVars == vars
service == <<timers, inputs, deliveries, complete, enabling>>
folders == <<hub, artifact, names, device, edited, index>>
bounds == <<plays, faults>>
brokerVars == <<storeVars, propagation, service, folders, bounds>>

-----------------------------------------------------------------------------
File == Payload \cup {NoFile}

Idle == [file |-> NoFile, force |-> FALSE, confirm |-> FALSE, name |-> 0]

ProfileOf(e) == CHOOSE profile \in Installed : EndpointOf(profile) = e

BindingsOf(e) == {b \in bindings : b.endpoint = e}

\* Mutant: a worker that delivers counts as free.
IsNotCapturing(w) == \A c \in captures : c.worker # w

IsFree(w) == /\ \A c \in captures : c.worker # w
             /\ \A d \in deliveries : d.worker # w

\* ListBindings returns the endpoints in order: "thor" before "windows".
First(todo) == IF \E b \in todo : b.endpoint = "thor"
               THEN CHOOSE b \in todo : b.endpoint = "thor"
               ELSE CHOOSE b \in todo : TRUE

Delivery(w, r, source) ==
    [worker |-> w, revision |-> r, source |-> source, todo |-> {},
     step |-> "list", op |-> 0]

Fault == faults < MaxFaults /\ faults' = faults + 1

BrokerInit ==
    /\ Init
    /\ propagation \in (IF Switchable THEN BOOLEAN ELSE {TRUE})  \* shared by all games
    /\ enabling = FALSE
    /\ timers = [e \in Endpoints |-> "off"]
    /\ inputs = [w \in Workers |-> Idle]
    /\ deliveries = {}
    /\ complete = [e \in Endpoints |-> FALSE]
    /\ hub = [e \in Endpoints |-> NoFile]
    /\ artifact = [e \in Endpoints |-> NoFile]
    /\ names = [e \in Endpoints |-> 0]
    /\ device = [e \in Endpoints |-> NoFile]
    /\ edited = [e \in Endpoints |-> FALSE]
    /\ index = [e \in Endpoints |-> "sent"]
    /\ plays = 0
    /\ faults = 0

(***************************************************************************)
(* The devices and Syncthing (external).                                   *)
(***************************************************************************)
Play(e, file) ==
    /\ plays < MaxPlays
    /\ file # device[e]
    /\ file.rtc # NoRtc => CarriesRtc(ProfileOf(e))
    /\ device' = [device EXCEPT ![e] = file]
    /\ edited' = [edited EXCEPT ![e] = TRUE]
    /\ plays' = plays + 1
    /\ UNCHANGED <<storeVars, propagation, service, hub, artifact, names, index, faults>>

\* RemoteChangeDetected reaches handleEvent, which schedules the capture as a
\* confirmed occurrence.
Upload(e) ==
    /\ edited[e]
    /\ index[e] = "sent"
    /\ hub' = [hub EXCEPT ![e] = device[e]]
    /\ edited' = [edited EXCEPT ![e] = FALSE]
    /\ timers' = [timers EXCEPT ![e] = "confirm"]
    /\ UNCHANGED <<storeVars, propagation, inputs, deliveries, complete, enabling,
                   artifact, names, device, index, bounds>>

\* The folder scan finds the broker's write: LocalChangeDetected, which
\* schedules an unconfirmed capture.
Scan(e) ==
    /\ index[e] = "written"
    /\ index' = [index EXCEPT ![e] = "known"]
    /\ timers' = [timers EXCEPT ![e] = "plain"]
    /\ UNCHANGED <<storeVars, propagation, inputs, deliveries, complete, enabling,
                   hub, artifact, names, device, edited, bounds>>

Download(e) ==
    /\ index[e] = "known"
    /\ ~edited[e]
    /\ device' = [device EXCEPT ![e] = hub[e]]
    /\ index' = [index EXCEPT ![e] = "sent"]
    /\ UNCHANGED <<storeVars, propagation, service, hub, artifact, names, edited,
                   bounds>>

\* Both sides changed: Syncthing keeps one file and renames the other, by a
\* name that it has not used before.
Collide(e) ==
    /\ edited[e]
    /\ index[e] # "sent"
    /\ artifact[e] = NoFile
    /\ names' = [names EXCEPT ![e] = @ + 1]
    /\ edited' = [edited EXCEPT ![e] = FALSE]
    /\ index' = [index EXCEPT ![e] = "sent"]
    /\ \/ /\ hub' = [hub EXCEPT ![e] = device[e]]
          /\ artifact' = [artifact EXCEPT ![e] = hub[e]]
          /\ timers' = [timers EXCEPT ![e] = "confirm"]
          /\ UNCHANGED device
       \/ /\ device' = [device EXCEPT ![e] = hub[e]]
          /\ artifact' = [artifact EXCEPT ![e] = device[e]]
          /\ UNCHANGED <<hub, timers>>
    /\ UNCHANGED <<storeVars, propagation, inputs, deliveries, complete, enabling, bounds>>

(***************************************************************************)
(* Scheduling and capture.                                                 *)
(***************************************************************************)
\* Startup and periodic reconciliation schedule every file of the folder; a
\* pending timer is replaced with its input.
Reconcile(e) ==
    /\ hub[e] # NoFile
    /\ timers' = [timers EXCEPT ![e] = "plain"]
    /\ UNCHANGED <<storeVars, propagation, inputs, deliveries, complete, enabling,
                   folders, bounds>>

\* A mapping is saved and its file captured; an absent file is tried later.
MapSave(profile, path) ==
    /\ RowsFor(profile) = {}
    /\ UpsertBinding(profile, path)
    /\ timers' = [timers EXCEPT ![EndpointOf(profile)] = "plain"]
    /\ UNCHANGED <<propagation, inputs, deliveries, complete, enabling, folders, bounds>>

\* The timer fires, the file has been stable, and the binding is read.
BeginCapture(w, e) ==
    /\ timers[e] # "off"
    /\ hub[e] # NoFile
    /\ IsFree(w)
    /\ \E b \in BindingsOf(e) : FindBinding(w, b)
    /\ timers' = [timers EXCEPT ![e] = "off"]
    /\ inputs' = [inputs EXCEPT ![w] = [Idle EXCEPT !.confirm = (timers[e] = "confirm")]]
    /\ UNCHANGED <<propagation, deliveries, complete, enabling, folders, bounds>>

\* The same for a conflict artifact, whose path maps to the same binding.
BeginConflictCapture(w, e) ==
    /\ artifact[e] # NoFile
    /\ IsFree(w)
    /\ \E b \in BindingsOf(e) : FindBinding(w, b)
    /\ inputs' = [inputs EXCEPT ![w] = [Idle EXCEPT !.force = TRUE, !.name = names[e]]]
    /\ UNCHANGED <<propagation, timers, deliveries, complete, enabling, folders, bounds>>

\* A timer without a file or without a mapping ends in quarantine.
DropTimer(e) ==
    /\ timers[e] # "off"
    /\ hub[e] = NoFile \/ BindingsOf(e) = {}
    /\ timers' = [timers EXCEPT ![e] = "off"]
    /\ UNCHANGED <<storeVars, propagation, inputs, deliveries, complete, enabling,
                   folders, bounds>>

\* Mutant: the file of the mapping is archived instead of the artifact.
PutMappedFile(c) ==
    /\ inputs[c.worker].file = NoFile
    /\ hub[c.binding.endpoint] # NoFile
    /\ inputs' = [inputs EXCEPT ![c.worker].file = hub[c.binding.endpoint]]
    /\ UNCHANGED <<storeVars, propagation, timers, deliveries, complete, enabling,
                   folders, bounds>>

\* The artifact the capture is of, if it is still there.
IsThere(c) == LET e == c.binding.endpoint IN
              inputs[c.worker].name = names[e] /\ artifact[e] # NoFile

\* PutFile archives the bytes that are in the folder now.
PutFile(c) ==
    /\ inputs[c.worker].file = NoFile
    /\ inputs[c.worker].force => IsThere(c)
    /\ LET e == c.binding.endpoint
           file == IF inputs[c.worker].force THEN artifact[e] ELSE hub[e] IN
         /\ file # NoFile
         /\ inputs' = [inputs EXCEPT ![c.worker].file = file]
    /\ UNCHANGED <<storeVars, propagation, timers, deliveries, complete, enabling,
                   folders, bounds>>

\* Mutant: only a new head is propagated.
ShouldPropagateNewHead(b, file, force) ==
    /\ propagation
    /\ ~IsEcho(b, file, force)
    /\ ~IsDuplicate(b, file, force)
    /\ BranchesWith(Decoded(b, file)) = {}
    /\ IsLinear(b, force)

\* The result a capture acts on: the head it made or already had.
ShouldPropagate(b, file, force) ==
    /\ propagation
    /\ ~IsEcho(b, file, force)
    /\ \/ IsDuplicate(b, file, force)
       \/ BranchesWith(Decoded(b, file)) = {} /\ IsLinear(b, force)

\* The transaction, and the removal of an archived artifact, which can fail or
\* find that another capture of it was faster.
Ingest(c) ==
    LET w == c.worker
        e == c.binding.endpoint
        in == inputs[w]
    IN  /\ in.file # NoFile
        /\ RecordIngest(c, in.file, in.force, in.confirm)
        /\ deliveries' = IF ShouldPropagate(c.binding, in.file, in.force)
                         THEN deliveries \cup {Delivery(w, current', e)}
                         ELSE deliveries
        /\ artifact' \in IF in.force /\ IsThere(c)
                         THEN {artifact, [artifact EXCEPT ![e] = NoFile]}
                         ELSE {artifact}
        /\ inputs' = [inputs EXCEPT ![w] = Idle]
        /\ UNCHANGED <<propagation, timers, complete, enabling, hub, names, device,
                       edited, index, bounds>>

\* The file vanished (another capture has removed the artifact) or kept changing,
\* the quota was reached, or the capture's 30 seconds were over.
AbortCapture(c) ==
    /\ AbandonCaptures({c})
    /\ Fault
    /\ inputs' = [inputs EXCEPT ![c.worker] = Idle]
    /\ UNCHANGED <<propagation, timers, deliveries, complete, enabling, folders, plays>>

(***************************************************************************)
(* Delivery of a revision to the other folders (PropagateRevision and      *)
(* deliverRevisionToBinding).                                              *)
(***************************************************************************)
DeliveryVars == <<propagation, timers, inputs, complete, enabling, plays>>

Becomes(d, e) == deliveries' = (deliveries \ {d}) \cup {e}

\* The next binding, or the end of the call.
Continue(d) ==
    LET rest == d.todo \ {First(d.todo)} IN
    IF rest = {} THEN deliveries' = deliveries \ {d}
    ELSE Becomes(d, [d EXCEPT !.todo = rest, !.step = "journal", !.op = 0])

ListTargets(d) ==
    LET targets == {b \in bindings : b.endpoint # d.source /\ b.lastDeployed # d.revision}
    IN  /\ d.step = "list"
        /\ IF targets = {} THEN deliveries' = deliveries \ {d}
           ELSE Becomes(d, [d EXCEPT !.todo = targets, !.step = "journal"])
        /\ UNCHANGED <<storeVars, folders, DeliveryVars, faults>>

\* CreateOperation returns a new row, or the row its key already has.
Journal(d) ==
    LET b == First(d.todo)
        known == {i \in OperationIds :
                    SameKey(operations[i], d.revision, b.endpoint, b.path, b.profile)}
    IN  /\ d.step = "journal"
        /\ \/ /\ known = {}
              /\ CreateOperation(d.revision, b.endpoint, b.path, b.profile)
              /\ Becomes(d, [d EXCEPT !.step = "write", !.op = Len(operations) + 1])
           \/ /\ \E i \in known :
                   IF operations[i].state \in {"delivered", "written", "superseded"}
                   THEN Continue(d)
                   ELSE Becomes(d, [d EXCEPT !.step = "write", !.op = i])
              /\ UNCHANGED storeVars
        /\ UNCHANGED <<folders, DeliveryVars, faults>>

\* Mutant: the source folder's file is copied instead of the journaled bytes.
CopyToTarget(d) ==
    LET e == First(d.todo).endpoint
        file == IF d.source = "none" THEN operations[d.op].file ELSE hub[d.source]
    IN  /\ d.step = "write"
        /\ hub' = [hub EXCEPT ![e] = file]
        /\ index' = IF hub[e] = file THEN index ELSE [index EXCEPT ![e] = "written"]
        /\ Becomes(d, [d EXCEPT !.step = "mark"])
        /\ UNCHANGED <<storeVars, artifact, names, device, edited, DeliveryVars, faults>>

\* targetMatches, then writeTarget: temporary file, sync and rename.
WriteTarget(d) ==
    LET e == First(d.todo).endpoint
        file == operations[d.op].file
    IN  /\ d.step = "write"
        /\ hub' = [hub EXCEPT ![e] = file]
        /\ index' = IF hub[e] = file THEN index ELSE [index EXCEPT ![e] = "written"]
        /\ Becomes(d, [d EXCEPT !.step = "mark"])
        /\ UNCHANGED <<storeVars, artifact, names, device, edited, DeliveryVars, faults>>

\* The write failed: the operation says so and the call returns.
FailWrite(d) ==
    /\ d.step = "write"
    /\ hub[First(d.todo).endpoint] # operations[d.op].file
    /\ UpdateOperation(d.op, "failed")
    /\ deliveries' = deliveries \ {d}
    /\ Fault
    /\ UNCHANGED <<folders, DeliveryVars>>

\* The capture's 30 seconds were over, or the database failed: the call returns
\* from where it is.
AbandonDelivery(d) ==
    /\ deliveries' = deliveries \ {d}
    /\ Fault
    /\ UNCHANGED <<storeVars, folders, DeliveryVars>>

\* Mutant: what was written counts as delivered.
MarkDelivered(d) ==
    /\ d.step = "mark"
    /\ UpdateOperation(d.op, "delivered")
    /\ Continue(d)
    /\ UNCHANGED <<folders, DeliveryVars, faults>>

MarkWritten(d) ==
    /\ d.step = "mark"
    /\ UpdateOperation(d.op, "written")
    /\ Continue(d)
    /\ UNCHANGED <<folders, DeliveryVars, faults>>

(***************************************************************************)
(* The status loop: the completion is read, then acted on.                 *)
(***************************************************************************)
ReadCompletion(e) ==
    /\ index[e] # "known"
    /\ ~complete[e]
    /\ complete' = [complete EXCEPT ![e] = TRUE]
    /\ UNCHANGED <<storeVars, propagation, timers, inputs, deliveries, enabling,
                   folders, bounds>>

ConfirmDeliveries(e) ==
    /\ complete[e]
    /\ complete' = [complete EXCEPT ![e] = FALSE]
    /\ IF Written(e) = {} THEN UNCHANGED storeVars ELSE CompleteEndpointDeliveries(e)
    /\ UNCHANGED <<propagation, timers, inputs, deliveries, enabling, folders, bounds>>

(***************************************************************************)
(* Requests of the user.                                                   *)
(***************************************************************************)
\* Both take any revision; a promotion must come from a conflict still open.
Restore(w, k, kind, source) ==
    /\ IsFree(w)
    /\ kind = "promote" => OpenConflicts # {}
    /\ CreateHeadFromExisting(k, kind, source, current)
    /\ deliveries' = deliveries \cup {Delivery(w, current', "none")}
    /\ UNCHANGED <<folders, DeliveryVars, faults>>

\* The same request again: no new revision, but it is propagated again.
ReplayRestore(w, k) ==
    /\ IsFree(w)
    /\ requests[k] # NoRevision
    /\ revisions[requests[k]].kind # "snapshot"
    /\ deliveries' = deliveries \cup {Delivery(w, requests[k], "none")}
    /\ UNCHANGED <<storeVars, folders, DeliveryVars, faults>>

Snapshot(k) ==
    /\ CreateSnapshot(k, current)
    /\ UNCHANGED <<propagation, service, folders, bounds>>

CheckConflicts ==
    /\ ~propagation
    /\ ~enabling
    /\ OpenConflicts = {}
    /\ enabling' = TRUE
    /\ UNCHANGED <<storeVars, propagation, timers, inputs, deliveries, complete,
                   folders, bounds>>

EnablePropagation ==
    /\ enabling
    /\ enabling' = FALSE
    /\ propagation' = TRUE
    /\ UNCHANGED <<storeVars, timers, inputs, deliveries, complete, folders, bounds>>

DisablePropagation ==
    /\ Switchable
    /\ propagation
    /\ plays < MaxPlays
    /\ plays' = plays + 1
    /\ propagation' = FALSE
    /\ UNCHANGED <<storeVars, service, folders, faults>>

\* The process dies between any two steps and starts again.
Crash ==
    /\ Fault
    /\ captures' = {}
    /\ timers' = [e \in Endpoints |-> "off"]
    /\ inputs' = [w \in Workers |-> Idle]
    /\ deliveries' = {}
    /\ complete' = [e \in Endpoints |-> FALSE]
    /\ enabling' = FALSE
    /\ UNCHANGED <<revisions, current, status, conflicts, bindings, operations,
                   requests, propagation, folders, plays>>

-----------------------------------------------------------------------------
External ==
    \E e \in Endpoints :
        \/ \E file \in Payload : Play(e, file)
        \/ Upload(e)
        \/ Scan(e)
        \/ Download(e)
        \/ Collide(e)

Capturing ==
    \/ \E e \in Endpoints : Reconcile(e) \/ DropTimer(e)
    \/ \E w \in Workers, e \in Endpoints : BeginCapture(w, e) \/ BeginConflictCapture(w, e)
    \/ \E c \in captures : PutFile(c) \/ Ingest(c) \/ AbortCapture(c)

Delivering ==
    \/ \E d \in deliveries : \/ ListTargets(d)
                             \/ Journal(d)
                             \/ WriteTarget(d)
                             \/ FailWrite(d)
                             \/ AbandonDelivery(d)
                             \/ MarkWritten(d)
    \/ \E e \in Endpoints : ReadCompletion(e) \/ ConfirmDeliveries(e)

Requests ==
    \/ \E profile \in Installed, path \in Paths : MapSave(profile, path)
    \/ \E w \in Workers, k \in Keys :
          \/ ReplayRestore(w, k)
          \/ \E kind \in {"restore", "promote"}, source \in RevisionIds :
                Restore(w, k, kind, source)
    \/ \E k \in Keys : Snapshot(k)
    \/ CheckConflicts \/ EnablePropagation \/ DisablePropagation

BrokerNext == External \/ Capturing \/ Delivering \/ Requests \/ Crash

BrokerSpec == BrokerInit /\ [][BrokerNext]_brokerVars

(***************************************************************************)
(* Fairness: Syncthing exchanges what it can, the reconciliation and       *)
(* status loops keep running, a goroutine that is started goes on, and a   *)
(* timer or status round that comes up again and again is not starved (Go  *)
(* gives each its own goroutine).  Users and faults are not fair.          *)
(***************************************************************************)
Exchange(e) == Upload(e) \/ Scan(e) \/ Download(e) \/ Collide(e)

Work == \/ \E c \in captures : PutFile(c) \/ Ingest(c)
        \/ \E d \in deliveries : ListTargets(d) \/ Journal(d) \/ WriteTarget(d) \/ MarkWritten(d)

Fairness ==
    /\ WF_brokerVars(Work)
    /\ \A e \in Endpoints :
          /\ WF_brokerVars(Exchange(e))
          /\ WF_brokerVars(Reconcile(e))
          /\ SF_brokerVars(\E w \in Workers : BeginCapture(w, e))
          /\ SF_brokerVars(\E w \in Workers : BeginConflictCapture(w, e))
          /\ SF_brokerVars(ReadCompletion(e))
          /\ WF_brokerVars(ConfirmDeliveries(e))

-----------------------------------------------------------------------------
(***************************************************************************)
(* Properties.                                                             *)
(***************************************************************************)
\* Each variable has its type, a delivery that writes has its journaled
\* operation, and a worker is inside one capture or one delivery at most.
BrokerTypeOK ==
    /\ propagation \in BOOLEAN
    /\ enabling \in BOOLEAN
    /\ timers \in [Endpoints -> {"off", "plain", "confirm"}]
    /\ inputs \in [Workers -> [file : File, force : BOOLEAN, confirm : BOOLEAN, name : Nat]]
    /\ complete \in [Endpoints -> BOOLEAN]
    /\ hub \in [Endpoints -> File]
    /\ artifact \in [Endpoints -> File]
    /\ names \in [Endpoints -> Nat]
    /\ device \in [Endpoints -> File]
    /\ edited \in [Endpoints -> BOOLEAN]
    /\ index \in [Endpoints -> {"sent", "written", "known"}]
    /\ plays \in 0 .. MaxPlays
    /\ faults \in 0 .. MaxFaults
    /\ \A d \in deliveries :
          /\ d.worker \in Workers
          /\ d.revision \in RevisionIds
          /\ d.source \in Endpoints \cup {"none"}
          /\ d.step = "list" <=> d.todo = {}
          /\ d.step \in {"write", "mark"} =>
                /\ d.op \in OperationIds
                /\ SameKey(operations[d.op], d.revision, First(d.todo).endpoint,
                           First(d.todo).path, First(d.todo).profile)
    /\ \A w \in Workers : Cardinality({c \in captures : c.worker = w})
                          + Cardinality({d \in deliveries : d.worker = w}) <= 1

\* The running service is an instance of the store: whatever the timers, the
\* overlapping captures and deliveries and the crashes do to the rows is a
\* history of RevisionStore, so its properties hold of the service.
StoreSpec == Spec

\* Write-ahead: bytes the broker put into a folder, which Syncthing has not sent
\* yet, are those of a journaled operation on that endpoint, wherever the
\* process died; only such bytes can be told from an edit of the user.
WriteAheadJournal ==
    \A e \in Endpoints : index[e] # "sent" =>
        \E i \in OperationIds : operations[i].endpoint = e /\ operations[i].file = hub[e]

\* A Syncthing conflict artifact only disappears once its bytes are a branch.
ArtifactsAreArchived ==
    [][\A e \in Endpoints, b \in bindings :
          b.endpoint = e /\ artifact[e] # NoFile /\ artifact'[e] # artifact[e]
          => \E i \in 1 .. Len(revisions') :
                /\ revisions'[i].state = "branch"
                /\ Encode(b.profile, revisions'[i].content) = artifact[e]]_brokerVars

\* The broker replaces the file in the folder of e.
Overwrites(e) == index'[e] = "written" /\ hub'[e] # hub[e] /\ hub[e] # NoFile

HoldsHead(b) == current # NoRevision /\ hub[b.endpoint] = Encode(b.profile, revisions[current].content)

IsStale(d) == revisions[d.revision].content # revisions[current].content

\* The head's bytes in a folder are replaced by another revision's only by a
\* delivery that a newer head has overtaken, or by that of a replayed request: a
\* delivery starts as one of the head, whatever the capture found (an echo, a
\* duplicate, a resumed operation after a crash), and what it writes is what
\* was journaled for that binding, however many of them overlap
\* (broker.go:311-325, 371-375).
OnlyStaleDeliveriesRollBack ==
    [][/\ \A b \in bindings : HoldsHead(b) /\ Overwrites(b.endpoint) =>
             \E d \in deliveries : IsStale(d) /\ WriteTarget(d)
       /\ \A d \in deliveries' :
             \/ d.revision = current'
             \/ \E old \in deliveries : old.worker = d.worker /\ old.revision = d.revision
             \/ \E k \in Keys : d.revision = requests[k]]_brokerVars

HasHead(b) == current # NoRevision /\ device[b.endpoint] = Encode(b.profile, revisions[current].content)

\* Crash-safe delivery: whatever failed before, if propagation stays on, no
\* conflict stays open and both endpoints are mapped, every device gets the
\* head in the end (reconciliation sees the head again and resumes).
HeadArrives ==
    <>[](/\ propagation
         /\ OpenConflicts = {}
         /\ current # NoRevision
         /\ \A e \in Endpoints : BindingsOf(e) # {})
    => <>[](\A b \in bindings : HasHead(b))

\* Mutant: whatever operation is under way is shown.
ShownWithOldOperations ==
    IF OpenConflicts # {} \/ status = "conflict" THEN "paused"
    ELSE IF \E i \in OperationIds : operations[i].state = "failed"
    THEN "paused"
    ELSE IF \E i \in OperationIds : IsLive(operations[i])
    THEN "syncing"
    ELSE IF current = NoRevision \/ bindings = {}
            \/ \E b \in bindings : b.lastDeployed # current
    THEN "paused"
    ELSE "delivered"

\* The delivery status of the game's page, its inbox aside.  The journal is
\* looked through from the newest operation back.
GameDelivery ==
    LET ofHead == {i \in OperationIds : /\ operations[i].revision = current
                                        /\ operations[i].state \in {"failed", "pending", "written"}}
    IN  IF OpenConflicts # {} \/ status = "conflict" THEN "paused"
        ELSE IF ofHead # {}
        THEN IF operations[Latest(ofHead)].state = "failed" THEN "paused" ELSE "syncing"
        ELSE IF \/ current = NoRevision
                \/ bindings = {}
                \/ \E b \in bindings : b.lastDeployed # current
        THEN "paused"
        ELSE "delivered"

\* A delivery to a device failed, and the device came to the head by itself: no
\* delivery is made to it again, and the operation stays failed.
FailedBeforeArrival ==
    \E i \in OperationIds : /\ operations[i].revision = current
                            /\ operations[i].state = "failed"
                            /\ \A b \in BindingsOf(operations[i].endpoint) : b.lastDeployed = current

\* The user is told when to go on elsewhere: what HeadArrives promises is also
\* shown, and stays so (README.md:124-126, dto.go:271-314), but where a delivery
\* failed and its device then made the same head itself: the page stays "paused".
DeliveryIsShown ==
    <>[](/\ propagation
         /\ OpenConflicts = {}
         /\ current # NoRevision
         /\ \A e \in Endpoints : BindingsOf(e) # {})
    => <>[](GameDelivery = "delivered" \/ FailedBeforeArrival)

-----------------------------------------------------------------------------
(***************************************************************************)
(* What the documentation says and the code does not keep.                 *)
(***************************************************************************)
IsRecorded(b, file) == \E i \in RevisionIds : Encode(b.profile, revisions[i].content) = file

\* README.md:44-46, what is not linear "creates a branch or quarantine state
\* instead of overwriting progress": the broker overwrites only bytes that some
\* revision records or a running capture has archived, and never the head by
\* another revision.
ProgressIsNotOverwritten ==
    [][\A b \in bindings : Overwrites(b.endpoint) =>
          /\ \/ IsRecorded(b, hub[b.endpoint])
             \/ \E c \in captures : /\ c.binding.endpoint = b.endpoint
                                    /\ inputs[c.worker].file = hub[b.endpoint]
          /\ ~HoldsHead(b)]_brokerVars
=============================================================================
