------------------------------ MODULE BrokerProofs ------------------------------
(***************************************************************************)
(* Theorems of Broker for every value of its constants, with any number of *)
(* goroutines and faults: the service implements the revision store, so    *)
(* the theorems about the store hold of it, the journal is ahead of the    *)
(* folders, only late and replayed deliveries take a folder back from the  *)
(* head, and a conflict artifact goes only once its bytes are a branch.    *)
(*                                                                         *)
(* The inductive invariant ServiceInv is about what a goroutine keeps      *)
(* between two of its steps: the file a capture has read is a payload or   *)
(* none, and a delivery is for a revision and an operation that exist,     *)
(* with bindings left to serve as long as it is not listing them.          *)
(***************************************************************************)
EXTENDS Broker, RevisionStoreProofs, FiniteSetTheorems

CaptureState == [file : File, force : BOOLEAN, confirm : BOOLEAN, name : Nat]

DeliveryState == [worker : Workers, revision : Nat, source : Endpoints \cup {"none"},
                  todo : SUBSET Binding, step : {"list", "journal", "force", "write", "mark"}, op : Nat]

\* A delivery that is past the journal holds the operation of its next target.
IsDelivery(d) ==
    /\ d \in DeliveryState
    /\ d.revision \in RevisionIds
    /\ d.step = "list" <=> d.todo = {}
    /\ d.step \in {"write", "mark"} =>
          /\ d.op \in OperationIds
          /\ SameKey(operations[d.op], d.revision, First(d.todo).endpoint,
                     First(d.todo).path, First(d.todo).profile)

FoldersOK ==
    /\ hub \in [Endpoints -> File]
    /\ artifact \in [Endpoints -> File]
    /\ names \in [Endpoints -> Nat]
    /\ device \in [Endpoints -> File]
    /\ index \in [Endpoints -> {"sent", "written", "known"}]

InputsOK == inputs \in [Workers -> CaptureState]

DeliveriesOK == \A d \in deliveries : IsDelivery(d)

ServiceInv == TypeInv /\ FoldersOK /\ InputsOK /\ DeliveriesOK

-----------------------------------------------------------------------------
(***************************************************************************)
(* Each step of the service is a step of the store or changes no row.      *)
(***************************************************************************)
LEMMA FirstIsMember ==
    ASSUME NEW todo, todo # {}
    PROVE  First(todo) \in todo
BY DEF First

\* A binding of an endpoint is a row, with the types of its columns.
LEMMA BindingTypes ==
    ASSUME NEW b \in Binding
    PROVE  b.endpoint \in Endpoints /\ b.path \in Paths /\ b.profile \in Profiles
BY DEF Binding

LEMMA CaptureStep ==
    ASSUME ServiceInv, Capturing
    PROVE  Next \/ UNCHANGED vars
<1>1. ASSUME NEW e \in Endpoints, Reconcile(e) \/ DropTimer(e)
      PROVE  UNCHANGED vars
  BY <1>1 DEF Reconcile, DropTimer, storeVars
<1>2. ASSUME NEW w \in Workers, NEW e \in Endpoints,
             BeginCapture(w, e) \/ BeginConflictCapture(w, e)
      PROVE  Next
  BY <1>2 DEF BeginCapture, BeginConflictCapture, BindingsOf, Next
<1>3. ASSUME NEW c \in captures, PutFile(c)
      PROVE  UNCHANGED vars
  BY <1>3 DEF PutFile, storeVars
<1>4. ASSUME NEW c \in captures, Ingest(c)
      PROVE  Next
  <2>1. c.worker \in Workers
    BY DEF ServiceInv, TypeInv, IsCaptureSet, Capture
  <2>2. inputs[c.worker] \in CaptureState /\ inputs[c.worker].file # NoFile
    BY <1>4, <2>1 DEF ServiceInv, InputsOK, Ingest
  <2>3. /\ inputs[c.worker].file \in Payload
        /\ inputs[c.worker].force \in BOOLEAN
        /\ inputs[c.worker].confirm \in BOOLEAN
    BY <2>2 DEF CaptureState, File
  <2>4. RecordIngest(c, inputs[c.worker].file, inputs[c.worker].force, inputs[c.worker].confirm)
    BY <1>4 DEF Ingest
  <2> QED
    BY <2>3, <2>4 DEF Next
<1>5. ASSUME NEW c \in captures, AbortCapture(c)
      PROVE  Next
  <2>1. {c} \in SUBSET captures /\ AbandonCaptures({c})
    BY <1>5 DEF AbortCapture
  <2> QED
    BY <2>1 DEF Next
<1> QED
  BY <1>1, <1>2, <1>3, <1>4, <1>5 DEF Capturing

LEMMA DeliveryStep ==
    ASSUME ServiceInv, Delivering
    PROVE  Next \/ UNCHANGED vars
<1>1. ASSUME NEW d \in deliveries, ListTargets(d) \/ WriteTarget(d) \/ AbandonDelivery(d)
      PROVE  UNCHANGED vars
  BY <1>1 DEF ListTargets, WriteTarget, AbandonDelivery, storeVars
<1>2. ASSUME NEW d \in deliveries, Journal(d)
      PROVE  Next \/ UNCHANGED vars
  <2> DEFINE b == First(d.todo)
  <2>1. IsDelivery(d) /\ d.step = "journal"
    BY <1>2 DEF ServiceInv, DeliveriesOK, Journal
  <2>2. d.revision \in RevisionIds /\ d.todo # {} /\ d.todo \subseteq Binding
    BY <2>1 DEF IsDelivery, DeliveryState
  <2>3. b \in Binding
    BY <2>2, FirstIsMember
  <2>4. CreateOperation(d.revision, b.endpoint, b.path, b.profile) \/ UNCHANGED vars
    BY <1>2 DEF Journal, storeVars
  <2> HIDE DEF b
  <2> QED
    BY <2>2, <2>3, <2>4, BindingTypes DEF Next
<1>3. ASSUME NEW d \in deliveries, FailWrite(d) \/ MarkWritten(d)
      PROVE  Next
  <2>1. UpdateOperation(d.op, "failed") \/ UpdateOperation(d.op, "written")
    BY <1>3 DEF FailWrite, MarkWritten
  <2>2. d.op \in OperationIds
    BY <2>1 DEF UpdateOperation
  <2> QED
    BY <2>1, <2>2 DEF Next
<1>4. ASSUME NEW e \in Endpoints, ReadCompletion(e)
      PROVE  UNCHANGED vars
  BY <1>4 DEF ReadCompletion, storeVars
<1>5. ASSUME NEW e \in Endpoints, ConfirmDeliveries(e)
      PROVE  Next \/ UNCHANGED vars
  BY <1>5 DEF ConfirmDeliveries, storeVars, Next
<1> QED
  BY <1>1, <1>2, <1>3, <1>4, <1>5 DEF Delivering

LEMMA RequestStep ==
    ASSUME ServiceInv, Requests
    PROVE  Next \/ UNCHANGED vars
<1>1. ASSUME NEW profile \in Installed, NEW path \in Paths, MapSave(profile, path)
      PROVE  Next
  BY <1>1, InstalledAssumption DEF MapSave, Next
<1>2. ASSUME NEW w \in Workers, NEW k \in Keys, ReplayRestore(w, k)
      PROVE  UNCHANGED vars
  BY <1>2 DEF ReplayRestore, storeVars
<1>3. ASSUME NEW w \in Workers, NEW k \in Keys, NEW kind \in {"restore", "promote"},
             NEW source \in RevisionIds, Restore(w, k, kind, source)
      PROVE  Next
  BY <1>3 DEF Restore, Next, ServiceInv, TypeInv
<1>4. ASSUME NEW k \in Keys, Snapshot(k)
      PROVE  Next
  BY <1>4 DEF Snapshot, Next, ServiceInv, TypeInv
<1>5. CASE CheckConflicts \/ EnablePropagation \/ DisablePropagation
  BY <1>5 DEF CheckConflicts, EnablePropagation, DisablePropagation, storeVars
<1> QED
  BY <1>1, <1>2, <1>3, <1>4, <1>5 DEF Requests

LEMMA ExternalStep ==
    ASSUME External
    PROVE  UNCHANGED vars
BY DEF External, Play, Upload, Scan, Download, Collide, storeVars

LEMMA CrashStep ==
    ASSUME Crash
    PROVE  Next
<1>1. captures \in SUBSET captures /\ AbandonCaptures(captures)
  BY DEF Crash, AbandonCaptures
<1> QED
  BY <1>1 DEF Next

LEMMA StoreStep ==
    ASSUME ServiceInv, [BrokerNext]_brokerVars
    PROVE  [Next]_vars
<1>1. CASE UNCHANGED brokerVars
  BY <1>1 DEF brokerVars, storeVars
<1> QED
  BY <1>1, CaptureStep, DeliveryStep, RequestStep, ExternalStep, CrashStep DEF BrokerNext

-----------------------------------------------------------------------------
(***************************************************************************)
(* A step of the store keeps the revisions and operations there are; an    *)
(* operation keeps all but its state.                                      *)
(***************************************************************************)
RowsKept == RevisionIds \subseteq RevisionIds' /\ JournalKept

LEMMA RowsAreKept ==
    ASSUME TypeInv, [Next]_vars
    PROVE  TypeInv' /\ RowsKept
<1>1. TypeInv' /\ StepsRevisions
  BY RevisionStep DEF StepsRevisions
<1>2. RevisionIds \subseteq RevisionIds'
  BY <1>1, OneMoreRevision DEF RevisionIds
<1> QED
  BY <1>1, <1>2, OperationSources DEF RowsKept

\* A delivery in progress is not touched by what others do to the rows.
LEMMA DeliveryIsKept ==
    ASSUME RowsKept, NEW d, IsDelivery(d)
    PROVE  IsDelivery(d)'
BY DEF RowsKept, JournalKept, SameOperation, SameKey, IsDelivery

LEMMA DeliveriesAreKept ==
    ASSUME RowsKept, DeliveriesOK, deliveries' \subseteq deliveries
    PROVE  DeliveriesOK'
BY DeliveryIsKept DEF DeliveriesOK

\* One delivery is added, or takes a step, or ends.
LEMMA DeliveryBecomes ==
    ASSUME RowsKept, DeliveriesOK, NEW d, IsDelivery(d)',
           \A x \in deliveries' : x \in deliveries \/ x = d
    PROVE  DeliveriesOK'
BY DeliveryIsKept DEF DeliveriesOK

-----------------------------------------------------------------------------
(***************************************************************************)
(* The folders and the captures.                                           *)
(***************************************************************************)
LEMMA FilesAndPayloads ==
    /\ NoFile \in File
    /\ Payload \subseteq File
    /\ \A f \in File : f # NoFile => f \in Payload
    /\ Idle \in CaptureState
BY DEF File, Idle, CaptureState

LEMMA ExternalFolders ==
    ASSUME FoldersOK, External
    PROVE  FoldersOK' /\ inputs' = inputs /\ deliveries' = deliveries
<1>1. ASSUME NEW e \in Endpoints, NEW file \in Payload, Play(e, file)
      PROVE  FoldersOK' /\ inputs' = inputs /\ deliveries' = deliveries
  BY <1>1, FilesAndPayloads DEF Play, FoldersOK, service
<1>2. ASSUME NEW e \in Endpoints, Upload(e) \/ Scan(e) \/ Download(e) \/ Collide(e)
      PROVE  FoldersOK' /\ inputs' = inputs /\ deliveries' = deliveries
  BY <1>2 DEF Upload, Scan, Download, Collide, FoldersOK, service
<1> QED
  BY <1>1, <1>2 DEF External

\* The file of a journaled operation is a payload.
LEMMA JournaledFile ==
    ASSUME TypeInv, NEW i \in OperationIds
    PROVE  operations[i].file \in Payload
<1>1. operations[i] \in Operation
  BY DEF TypeInv, IsJournal, OperationIds
<1> QED
  BY <1>1 DEF Operation

LEMMA CapturingInv ==
    ASSUME ServiceInv, Capturing, TypeInv', RowsKept
    PROVE  ServiceInv'
<1>1. FoldersOK /\ InputsOK /\ DeliveriesOK /\ \A c \in captures : c.worker \in Workers
  BY DEF ServiceInv, TypeInv, IsCaptureSet, Capture
<1>2. ASSUME NEW e \in Endpoints, Reconcile(e) \/ DropTimer(e)
      PROVE  ServiceInv'
  <2>1. UNCHANGED <<hub, artifact, names, device, index, inputs, deliveries>>
    BY <1>2 DEF Reconcile, DropTimer, folders
  <2> QED
    BY <1>1, <2>1, DeliveriesAreKept DEF ServiceInv, FoldersOK, InputsOK
<1>3. ASSUME NEW w \in Workers, NEW e \in Endpoints,
             BeginCapture(w, e) \/ BeginConflictCapture(w, e)
      PROVE  ServiceInv'
  <2>1. UNCHANGED <<hub, artifact, names, device, index, deliveries>>
    BY <1>3 DEF BeginCapture, BeginConflictCapture, folders
  <2>2. \/ inputs' = [inputs EXCEPT ![w] = [Idle EXCEPT !.confirm = (timers[e] = "confirm")]]
        \/ inputs' = [inputs EXCEPT ![w] = [Idle EXCEPT !.force = TRUE, !.name = names[e]]]
    BY <1>3 DEF BeginCapture, BeginConflictCapture
  <2>3. /\ [Idle EXCEPT !.confirm = (timers[e] = "confirm")] \in CaptureState
        /\ [Idle EXCEPT !.force = TRUE, !.name = names[e]] \in CaptureState
    <3>1. (timers[e] = "confirm") \in BOOLEAN /\ names[e] \in Nat
      BY <1>1 DEF FoldersOK
    <3> QED
      BY <3>1, FilesAndPayloads DEF CaptureState
  <2>4. InputsOK'
    BY <1>1, <2>2, <2>3 DEF InputsOK
  <2> QED
    BY <1>1, <2>1, <2>4, DeliveriesAreKept DEF ServiceInv, FoldersOK
<1>4. ASSUME NEW c \in captures, PutFile(c)
      PROVE  ServiceInv'
  <2>1. UNCHANGED <<hub, artifact, names, device, index, deliveries>>
    BY <1>4 DEF PutFile, folders
  <2>2. c.binding.endpoint \in Endpoints
    BY DEF ServiceInv, TypeInv, IsCaptureSet, Capture, Binding
  <2>3. PICK file \in File : inputs' = [inputs EXCEPT ![c.worker].file = file]
    BY <1>1, <1>4, <2>2 DEF PutFile, FoldersOK
  <2>4. InputsOK'
    BY <1>1, <2>3 DEF InputsOK, CaptureState
  <2> QED
    BY <1>1, <2>1, <2>4, DeliveriesAreKept DEF ServiceInv, FoldersOK
<1>5. ASSUME NEW c \in captures, Ingest(c)
      PROVE  ServiceInv'
  <2> DEFINE w == c.worker
             e == c.binding.endpoint
             b == c.binding
             file == inputs[w].file
             force == inputs[w].force
  <2>1. w \in Workers /\ e \in Endpoints
    BY DEF ServiceInv, TypeInv, IsCaptureSet, Capture, Binding
  <2>2. FoldersOK'
    <3>1. /\ UNCHANGED <<hub, names, device, index>>
          /\ artifact' \in {artifact, [artifact EXCEPT ![e] = NoFile]}
      BY <1>5 DEF Ingest
    <3> QED
      BY <1>1, <2>1, <3>1, FilesAndPayloads DEF FoldersOK
  <2>3. InputsOK'
    BY <1>1, <1>5, <2>1, FilesAndPayloads DEF Ingest, InputsOK
  <2>4. ShouldPropagate(b, file, force) => current' \in RevisionIds'
    <3>1. current' \in 0 .. Len(revisions')
      BY DEF TypeInv
    <3>2. RecordIngest(c, file, force, inputs[w].confirm)
      BY <1>5 DEF Ingest
    <3>3. CASE IsDuplicate(b, file, force) /\ ~IsEcho(b, file, force)
      <4>1. RecordDuplicate(b, file, force)
        BY <3>2, <3>3 DEF RecordIngest, RecordEcho, RecordKnownBranch, RecordLinear,
                          RecordBranch, IsNew
      <4>2. current' = current /\ current # NoRevision
        BY <3>3, <4>1 DEF RecordDuplicate, IsDuplicate
      <4> QED
        BY <3>1, <4>2 DEF RevisionIds, NoRevision
    <3>4. CASE /\ ~IsDuplicate(b, file, force) /\ ~IsEcho(b, file, force)
               /\ BranchesWith(Decoded(b, file)) = {} /\ IsLinear(b, force)
      <4>1. RecordLinear(b, file, force)
        BY <3>2, <3>4 DEF RecordIngest, RecordEcho, RecordDuplicate, RecordKnownBranch,
                          RecordBranch
      <4>2. current' = NextRevision /\ NextRevision # 0
        BY <4>1 DEF RecordLinear, NextRevision, ServiceInv, TypeInv
      <4> QED
        BY <3>1, <4>2 DEF RevisionIds
    <3> QED
      BY <3>3, <3>4 DEF ShouldPropagate
  <2>5. DeliveriesOK'
    <3>1. CASE ~ShouldPropagate(b, file, force)
      BY <1>1, <1>5, <3>1, DeliveriesAreKept DEF Ingest
    <3>2. CASE ShouldPropagate(b, file, force)
      <4>1. PICK r : /\ r = current'
                     /\ deliveries' = deliveries \cup {Delivery(w, r, e)}
        BY <1>5, <3>2 DEF Ingest
      <4>2. r \in RevisionIds' /\ r \in Nat
        BY <2>4, <3>2, <4>1 DEF TypeInv
      <4>3. IsDelivery(Delivery(w, r, e))'
        BY <2>1, <4>2 DEF IsDelivery, Delivery, DeliveryState
      <4> QED
        BY <1>1, <4>1, <4>3, DeliveryBecomes
    <3> QED
      BY <3>1, <3>2
  <2> QED
    BY <2>2, <2>3, <2>5 DEF ServiceInv
<1>6. ASSUME NEW c \in captures, AbortCapture(c)
      PROVE  ServiceInv'
  <2>1. UNCHANGED <<hub, artifact, names, device, index, deliveries>>
    BY <1>6 DEF AbortCapture, folders
  <2>2. InputsOK'
    BY <1>1, <1>6, FilesAndPayloads DEF AbortCapture, InputsOK
  <2> QED
    BY <1>1, <2>1, <2>2, DeliveriesAreKept DEF ServiceInv, FoldersOK
<1> QED
  BY <1>2, <1>3, <1>4, <1>5, <1>6 DEF Capturing

\* A delivery goes on to the bindings that are left, or ends.
LEMMA ContinueInv ==
    ASSUME TypeInv, RowsKept, DeliveriesOK, NEW d \in deliveries, Continue(d)
    PROVE  DeliveriesOK'
<1> DEFINE rest == d.todo \ {First(d.todo)}
           next == [d EXCEPT !.todo = rest, !.step = "journal", !.op = 0]
<1>1. IsDelivery(d)
  BY DEF DeliveriesOK
<1>2. CASE rest = {}
  BY <1>2, DeliveriesAreKept DEF Continue
<1>3. CASE rest # {}
  <2>1. deliveries' = (deliveries \ {d}) \cup {next}
    BY <1>3 DEF Continue, Becomes
  <2>2. /\ next \in DeliveryState /\ next.step = "journal"
        /\ next.todo # {} /\ next.revision \in RevisionIds
    BY <1>1, <1>3 DEF IsDelivery, DeliveryState
  <2>3. IsDelivery(next)'
    BY <2>2 DEF IsDelivery, RowsKept
  <2> HIDE DEF next
  <2> QED
    BY <2>1, <2>3, DeliveryBecomes
<1> QED
  BY <1>2, <1>3

LEMMA DeliveringInv ==
    ASSUME ServiceInv, Delivering, TypeInv', RowsKept
    PROVE  ServiceInv'
<1>1. FoldersOK /\ InputsOK /\ DeliveriesOK /\ TypeInv
  BY DEF ServiceInv
<1>2. ASSUME NEW d \in deliveries, ListTargets(d)
      PROVE  ServiceInv'
  <2> DEFINE targets == {b \in bindings : b.endpoint # d.source /\ b.lastDeployed # d.revision}
  <2>1. UNCHANGED <<hub, artifact, names, device, index, inputs>>
    BY <1>2 DEF ListTargets, folders, DeliveryVars
  <2>2. CASE targets = {}
    BY <1>1, <1>2, <2>1, <2>2, DeliveriesAreKept DEF ListTargets, ServiceInv, FoldersOK, InputsOK
  <2>3. CASE targets # {}
    <3>1. PICK next : /\ next = [d EXCEPT !.todo = targets, !.step = "journal"]
                      /\ deliveries' = (deliveries \ {d}) \cup {next}
      BY <1>2, <2>3 DEF ListTargets, Becomes
    <3>2. targets \in SUBSET Binding
      BY <1>1 DEF TypeInv, IsBindingTable
    <3>3. /\ next \in DeliveryState /\ next.step = "journal"
          /\ next.todo # {} /\ next.revision \in RevisionIds
      BY <1>1, <2>3, <3>1, <3>2 DEF DeliveriesOK, IsDelivery, DeliveryState
    <3>4. IsDelivery(next)'
      BY <3>3 DEF IsDelivery, RowsKept
    <3>5. DeliveriesOK'
      BY <1>1, <3>1, <3>4, DeliveryBecomes
    <3> QED
      BY <1>1, <2>1, <3>5 DEF ServiceInv, FoldersOK, InputsOK
  <2> QED
    BY <2>2, <2>3
<1>3. ASSUME NEW d \in deliveries, Journal(d)
      PROVE  ServiceInv'
  <2> DEFINE b == First(d.todo)
  <2>1. UNCHANGED <<hub, artifact, names, device, index, inputs>>
    BY <1>3 DEF Journal, folders, DeliveryVars
  <2>2. IsDelivery(d)
    BY <1>1 DEF DeliveriesOK
  <2>3. CASE Continue(d)
    BY <1>1, <2>1, <2>3, ContinueInv DEF ServiceInv, FoldersOK, InputsOK
  <2>4. ASSUME NEW i \in OperationIds',
               SameKey(operations'[i], d.revision, b.endpoint, b.path, b.profile),
               deliveries' = (deliveries \ {d}) \cup {[d EXCEPT !.step = "write", !.op = i]}
        PROVE  ServiceInv'
    <3> DEFINE next == [d EXCEPT !.step = "write", !.op = i]
    <3>1. i \in Nat
      BY <2>4 DEF OperationIds, TypeInv, IsJournal
    <3>2. /\ next \in DeliveryState /\ next.step = "write" /\ next.op = i
          /\ next.todo = d.todo /\ next.revision = d.revision /\ d.revision \in RevisionIds
      BY <2>2, <3>1 DEF IsDelivery, DeliveryState
    <3>3. d.todo # {}
      BY <1>3, <2>2 DEF Journal, IsDelivery
    <3> HIDE DEF next
    <3>4. IsDelivery(next)'
      BY <2>4, <3>2, <3>3 DEF IsDelivery, RowsKept
    <3>5. DeliveriesOK'
      BY <1>1, <2>4, <3>4, DeliveryBecomes DEF next
    <3> QED
      BY <1>1, <2>1, <3>5 DEF ServiceInv, FoldersOK, InputsOK
  <2>5. ASSUME CreateOperation(d.revision, b.endpoint, b.path, b.profile),
               Becomes(d, [d EXCEPT !.step = "write", !.op = Len(operations) + 1])
        PROVE  ServiceInv'
    <3>1. d.revision \in RevisionIds /\ d.todo # {} /\ d.todo \subseteq Binding
      BY <1>3, <2>2 DEF IsDelivery, DeliveryState, Journal
    <3>2. b \in Binding
      BY <3>1, FirstIsMember
    <3> HIDE DEF b
    <3>3. b.endpoint \in Endpoints /\ b.path \in Paths /\ b.profile \in Profiles
      BY <3>2, BindingTypes
    <3>4. /\ Len(operations) + 1 \in OperationIds'
          /\ SameKey(operations'[Len(operations) + 1],
                     d.revision, b.endpoint, b.path, b.profile)
      BY <1>1, <2>5, <3>1, <3>3, CreatedOperation
    <3> QED
      BY <2>4, <2>5, <3>4 DEF Becomes
  <2>6. ASSUME NEW i \in OperationIds,
               SameKey(operations[i], d.revision, b.endpoint, b.path, b.profile),
               UNCHANGED storeVars, Becomes(d, [d EXCEPT !.step = "write", !.op = i])
        PROVE  ServiceInv'
    <3>1. /\ i \in OperationIds'
          /\ SameKey(operations'[i], d.revision, b.endpoint, b.path, b.profile)
      BY <2>6 DEF storeVars, vars, OperationIds
    <3> QED
      BY <2>4, <2>6, <3>1 DEF Becomes
  <2> HIDE DEF b
  <2> QED
    BY <1>3, <2>3, <2>5, <2>6 DEF Journal, b
<1>4. ASSUME NEW d \in deliveries, WriteTarget(d)
      PROVE  ServiceInv'
  <2> DEFINE next == [d EXCEPT !.step = "mark"]
             e == First(d.todo).endpoint
  <2>1. IsDelivery(d) /\ d.step = "write"
    BY <1>1, <1>4 DEF DeliveriesOK, WriteTarget
  <2>2. d.op \in OperationIds /\ d.todo # {}
    BY <2>1 DEF IsDelivery
  <2>3. operations[d.op].file \in File
    BY <1>1, <2>2, JournaledFile, FilesAndPayloads
  <2>4. UNCHANGED <<artifact, names, device, inputs, revisions, operations>>
    BY <1>4 DEF WriteTarget, storeVars, vars, DeliveryVars
  <2>5. FoldersOK'
    <3>1. /\ hub' = [hub EXCEPT ![e] = operations[d.op].file]
          /\ index' \in {index, [index EXCEPT ![e] = "written"]}
      BY <1>4 DEF WriteTarget
    <3> HIDE DEF e
    <3> QED
      BY <1>1, <2>3, <2>4, <3>1 DEF FoldersOK
  <2>6. /\ next \in DeliveryState /\ next.step = "mark" /\ next.op = d.op
        /\ next.todo = d.todo /\ next.revision = d.revision
    BY <2>1 DEF IsDelivery, DeliveryState
  <2>7. deliveries' = (deliveries \ {d}) \cup {next}
    BY <1>4 DEF WriteTarget, Becomes
  <2> HIDE DEF next
  <2>8. IsDelivery(next)'
    BY <2>1, <2>2, <2>4, <2>6 DEF IsDelivery, OperationIds, RevisionIds
  <2>9. DeliveriesOK'
    BY <1>1, <2>7, <2>8, DeliveryBecomes
  <2> QED
    BY <1>1, <2>4, <2>5, <2>9 DEF ServiceInv, InputsOK
<1>5. ASSUME NEW d \in deliveries, FailWrite(d) \/ AbandonDelivery(d)
      PROVE  ServiceInv'
  <2>1. /\ UNCHANGED <<hub, artifact, names, device, index, inputs>>
        /\ deliveries' \subseteq deliveries
    BY <1>5 DEF FailWrite, AbandonDelivery, folders, DeliveryVars
  <2> QED
    BY <1>1, <2>1, DeliveriesAreKept DEF ServiceInv, FoldersOK, InputsOK
<1>6. ASSUME NEW d \in deliveries, MarkWritten(d)
      PROVE  ServiceInv'
  <2>1. UNCHANGED <<hub, artifact, names, device, index, inputs>> /\ Continue(d)
    BY <1>6 DEF MarkWritten, folders, DeliveryVars
  <2> QED
    BY <1>1, <2>1, ContinueInv DEF ServiceInv, FoldersOK, InputsOK
<1>7. ASSUME NEW e \in Endpoints, ReadCompletion(e) \/ ConfirmDeliveries(e)
      PROVE  ServiceInv'
  <2>1. UNCHANGED <<hub, artifact, names, device, index, inputs, deliveries>>
    BY <1>7 DEF ReadCompletion, ConfirmDeliveries, folders
  <2> QED
    BY <1>1, <2>1, DeliveriesAreKept DEF ServiceInv, FoldersOK, InputsOK
<1> QED
  BY <1>2, <1>3, <1>4, <1>5, <1>6, <1>7 DEF Delivering

LEMMA RequestsInv ==
    ASSUME ServiceInv, Requests, TypeInv', RowsKept
    PROVE  ServiceInv'
<1>1. FoldersOK /\ InputsOK /\ DeliveriesOK /\ TypeInv
  BY DEF ServiceInv
<1>2. ASSUME UNCHANGED <<hub, artifact, names, device, index, inputs, deliveries>>
      PROVE  ServiceInv'
  BY <1>1, <1>2, DeliveriesAreKept DEF ServiceInv, FoldersOK, InputsOK
<1>3. ASSUME NEW w \in Workers, NEW r \in RevisionIds',
             UNCHANGED <<hub, artifact, names, device, index, inputs>>,
             deliveries' = deliveries \cup {Delivery(w, r, "none")}
      PROVE  ServiceInv'
  <2>1. r \in Nat
    BY DEF RevisionIds, TypeInv
  <2>2. IsDelivery(Delivery(w, r, "none"))'
    BY <2>1 DEF IsDelivery, Delivery, DeliveryState
  <2>3. DeliveriesOK'
    BY <1>1, <1>3, <2>2, DeliveryBecomes
  <2> QED
    BY <1>1, <1>3, <2>3 DEF ServiceInv, FoldersOK, InputsOK
<1>4. ASSUME NEW w \in Workers, NEW k \in Keys, NEW kind, NEW source,
             Restore(w, k, kind, source)
      PROVE  ServiceInv'
  <2>1. PICK r : r = current' /\ deliveries' = deliveries \cup {Delivery(w, r, "none")}
    BY <1>4 DEF Restore
  <2>2. r \in RevisionIds'
    <3>1. current' \in 0 .. Len(revisions')
      BY DEF TypeInv
    <3>2. current' = NextRevision /\ NextRevision # 0
      BY <1>1, <1>4 DEF Restore, CreateHeadFromExisting, NextRevision, TypeInv
    <3> QED
      BY <2>1, <3>1, <3>2 DEF RevisionIds
  <2>3. UNCHANGED <<hub, artifact, names, device, index, inputs>>
    BY <1>4 DEF Restore, folders, DeliveryVars
  <2> QED
    BY <1>3, <2>1, <2>2, <2>3
<1>5. ASSUME NEW w \in Workers, NEW k \in Keys, ReplayRestore(w, k)
      PROVE  ServiceInv'
  <2>1. PICK r : r = requests[k] /\ deliveries' = deliveries \cup {Delivery(w, r, "none")}
    BY <1>5 DEF ReplayRestore
  <2>2. r \in RevisionIds'
    BY <1>1, <1>5, <2>1 DEF ReplayRestore, TypeInv, NoRevision, RevisionIds, RowsKept
  <2>3. UNCHANGED <<hub, artifact, names, device, index, inputs>>
    BY <1>5 DEF ReplayRestore, folders, DeliveryVars
  <2> QED
    BY <1>3, <2>1, <2>2, <2>3
<1>6. ASSUME \/ \E profile \in Installed, path \in Paths : MapSave(profile, path)
             \/ \E k \in Keys : Snapshot(k)
             \/ CheckConflicts \/ EnablePropagation \/ DisablePropagation
      PROVE  ServiceInv'
  <2>1. UNCHANGED <<hub, artifact, names, device, index, inputs, deliveries>>
    BY <1>6 DEF MapSave, Snapshot, CheckConflicts, EnablePropagation, DisablePropagation,
                service, folders
  <2> QED
    BY <1>2, <2>1
<1> QED
  BY <1>4, <1>5, <1>6 DEF Requests

LEMMA CrashInv ==
    ASSUME ServiceInv, Crash, TypeInv'
    PROVE  ServiceInv'
<1>1. UNCHANGED <<hub, artifact, names, device, index>> /\ deliveries' = {}
  BY DEF Crash, folders
<1>2. InputsOK'
  BY FilesAndPayloads DEF Crash, InputsOK
<1> QED
  BY <1>1, <1>2 DEF ServiceInv, FoldersOK, DeliveriesOK

LEMMA ServiceInit == BrokerInit => ServiceInv
BY TypeInvInit, FilesAndPayloads
   DEF BrokerInit, ServiceInv, FoldersOK, InputsOK, DeliveriesOK

LEMMA ServiceStep ==
    ASSUME ServiceInv, [BrokerNext]_brokerVars
    PROVE  ServiceInv' /\ [Next]_vars /\ RowsKept
<1>1. [Next]_vars /\ TypeInv' /\ RowsKept
  BY StoreStep, RowsAreKept DEF ServiceInv
<1>2. CASE External
  BY <1>1, <1>2, ExternalFolders, DeliveriesAreKept DEF ServiceInv, InputsOK
<1>3. CASE UNCHANGED brokerVars
  <2>1. UNCHANGED <<hub, artifact, names, device, index, inputs, deliveries>>
    BY <1>3 DEF brokerVars, service, folders
  <2> QED
    BY <1>1, <2>1, DeliveriesAreKept DEF ServiceInv, FoldersOK, InputsOK
<1> QED
  BY <1>1, <1>2, <1>3, CapturingInv, DeliveringInv, RequestsInv, CrashInv DEF BrokerNext

-----------------------------------------------------------------------------
\* What a goroutine keeps between its steps stays valid, whatever the others,
\* Syncthing and the faults do meanwhile.
THEOREM ServiceInvariant == BrokerSpec => []ServiceInv
<1>1. BrokerInit => ServiceInv
  BY ServiceInit
<1>2. ServiceInv /\ [BrokerNext]_brokerVars => ServiceInv'
  BY ServiceStep
<1> QED
  BY <1>1, <1>2, PTL DEF BrokerSpec

\* The running service, with any number of overlapping captures and deliveries,
\* crashes and lost calls, changes the rows only as the store allows.
THEOREM ServiceImplementsStore == BrokerSpec => StoreSpec
<1>1. BrokerInit => Init
  BY DEF BrokerInit
<1>2. ServiceInv /\ [BrokerNext]_brokerVars => [Next]_vars
  BY ServiceStep
<1> QED
  BY <1>1, <1>2, ServiceInvariant, PTL DEF BrokerSpec, StoreSpec, Spec

\* So the history of a game on the running service is one line with one head,
\* and no device's baseline is a branch.
THEOREM ServiceKeepsHistory ==
    BrokerSpec => [](HeadIsCurrent /\ LinearHistory /\ BaselineOnHeadLine)
BY ServiceImplementsStore, OneHead, OneLine, BaselinesOnLine, PTL DEF StoreSpec

LEMMA AheadExternal ==
    ASSUME ServiceInv, WriteAheadJournal, External
    PROVE  WriteAheadJournal'
<1>1. FoldersOK /\ UNCHANGED vars
  BY ExternalStep DEF ServiceInv
<1>2. \A e \in Endpoints : index'[e] # "sent" => index[e] # "sent" /\ hub'[e] = hub[e]
  <2>1. ASSUME NEW f \in Endpoints, Upload(f) \/ Scan(f) \/ Download(f) \/ Collide(f)
        PROVE  \A e \in Endpoints : index'[e] # "sent" => index[e] # "sent" /\ hub'[e] = hub[e]
    BY <1>1, <2>1 DEF Upload, Scan, Download, Collide, FoldersOK
  <2>2. ASSUME NEW f \in Endpoints, NEW file \in Payload, Play(f, file)
        PROVE  UNCHANGED <<hub, index>>
    BY <2>2 DEF Play
  <2> QED
    BY <2>1, <2>2 DEF External
<1> QED
  BY <1>1, <1>2 DEF WriteAheadJournal, OperationIds, vars

LEMMA AheadWrite ==
    ASSUME ServiceInv, WriteAheadJournal, NEW d \in deliveries, WriteTarget(d)
    PROVE  WriteAheadJournal'
<1> DEFINE f == First(d.todo).endpoint
<1>1. d.op \in OperationIds /\ operations[d.op].endpoint = f
  BY DEF ServiceInv, DeliveriesOK, IsDelivery, SameKey, WriteTarget
<1>2. UNCHANGED <<operations, artifact, device>>
  BY DEF WriteTarget, storeVars, vars
<1>3. /\ hub' = [hub EXCEPT ![f] = operations[d.op].file]
      /\ index' \in {index, [index EXCEPT ![f] = "written"]}
  BY DEF WriteTarget
<1>4. hub \in [Endpoints -> File] /\ index \in [Endpoints -> {"sent", "written", "known"}]
  BY DEF ServiceInv, FoldersOK
<1> HIDE DEF f
<1>5. \A e \in Endpoints : index'[e] # "sent" =>
          \/ index[e] # "sent" /\ hub'[e] = hub[e]
          \/ e = f /\ hub'[e] = operations[d.op].file
  BY <1>3, <1>4
<1> QED
  BY <1>1, <1>2, <1>5 DEF WriteAheadJournal, OperationIds

LEMMA FoldersUntouched ==
    ASSUME BrokerNext, ~External, ~ \E d \in deliveries : WriteTarget(d)
    PROVE  UNCHANGED <<hub, index>>
<1>1. CASE Capturing
  BY <1>1 DEF Capturing, Reconcile, DropTimer, BeginCapture, BeginConflictCapture, PutFile,
              Ingest, AbortCapture, folders
<1>2. CASE Delivering
  BY <1>2 DEF Delivering, ListTargets, Journal, FailWrite, AbandonDelivery, MarkWritten,
              ReadCompletion, ConfirmDeliveries, folders
<1>3. CASE Requests
  BY <1>3 DEF Requests, MapSave, ReplayRestore, Restore, Snapshot, CheckConflicts,
              EnablePropagation, DisablePropagation, folders
<1>4. CASE Crash
  BY <1>4 DEF Crash, folders
<1> QED
  BY <1>1, <1>2, <1>3, <1>4 DEF BrokerNext

\* Whatever the broker put into a folder and Syncthing has not sent yet is in
\* the journal, for any number of goroutines and wherever the process died.
THEOREM JournalIsAhead == BrokerSpec => []WriteAheadJournal
<1>1. BrokerInit => WriteAheadJournal
  BY DEF BrokerInit, WriteAheadJournal
<1>2. ServiceInv /\ WriteAheadJournal /\ [BrokerNext]_brokerVars => WriteAheadJournal'
  <2> SUFFICES ASSUME ServiceInv, WriteAheadJournal, [BrokerNext]_brokerVars
               PROVE  WriteAheadJournal'
    OBVIOUS
  <2>1. JournalKept
    BY ServiceStep DEF RowsKept
  <2>2. CASE UNCHANGED <<hub, index>>
    BY <2>1, <2>2 DEF WriteAheadJournal, JournalKept, SameOperation
  <2>3. UNCHANGED brokerVars => UNCHANGED <<hub, index>>
    BY DEF brokerVars, folders
  <2> QED
    BY <2>2, <2>3, AheadExternal, AheadWrite, FoldersUntouched
<1> QED
  BY <1>1, <1>2, ServiceInvariant, PTL DEF BrokerSpec

-----------------------------------------------------------------------------
(***************************************************************************)
(* Goroutines: a worker is inside one capture or one delivery.             *)
(***************************************************************************)
WorkersOK ==
    /\ \A c1, c2 \in captures : c1.worker = c2.worker => c1 = c2
    /\ \A d1, d2 \in deliveries : d1.worker = d2.worker => d1 = d2
    /\ \A c \in captures, d \in deliveries : c.worker # d.worker

LEMMA GoroutineEnds ==
    ASSUME WorkersOK, captures' \subseteq captures, deliveries' \subseteq deliveries
    PROVE  WorkersOK'
BY DEF WorkersOK

LEMMA CaptureBegins ==
    ASSUME WorkersOK, NEW w, IsFree(w), NEW c, c.worker = w,
           captures' = captures \cup {c}, deliveries' = deliveries
    PROVE  WorkersOK'
BY DEF WorkersOK, IsFree

LEMMA DeliveryBegins ==
    ASSUME WorkersOK, captures' \subseteq captures, NEW d,
           \A c \in captures' : c.worker # d.worker,
           \A x \in deliveries : x.worker # d.worker,
           deliveries' = deliveries \cup {d}
    PROVE  WorkersOK'
BY DEF WorkersOK

LEMMA DeliveryGoesOn ==
    ASSUME WorkersOK, captures' = captures, NEW d \in deliveries, NEW next,
           next.worker = d.worker, deliveries' = (deliveries \ {d}) \cup {next}
    PROVE  WorkersOK'
BY DEF WorkersOK

LEMMA DeliveringWorkers ==
    ASSUME ServiceInv, WorkersOK, Delivering
    PROVE  WorkersOK'
<1>1. \A d \in deliveries : d \in DeliveryState
  BY DEF ServiceInv, DeliveriesOK, IsDelivery
<1>2. ASSUME NEW d \in deliveries, captures' = captures, NEW todo, NEW step, NEW op,
             deliveries' = (deliveries \ {d}) \cup
                           {[d EXCEPT !.todo = todo, !.step = step, !.op = op]}
      PROVE  WorkersOK'
  <2> DEFINE next == [d EXCEPT !.todo = todo, !.step = step, !.op = op]
  <2>1. next.worker = d.worker
    BY <1>1 DEF DeliveryState
  <2> HIDE DEF next
  <2> QED
    BY <1>2, <2>1, DeliveryGoesOn DEF next
<1>3. ASSUME NEW d \in deliveries, Continue(d), captures' = captures
      PROVE  WorkersOK'
  BY <1>2, <1>3, GoroutineEnds DEF Continue, Becomes
<1>4. ASSUME NEW d \in deliveries, ListTargets(d)
      PROVE  WorkersOK'
  <2>1. captures' = captures
    BY <1>4 DEF ListTargets, storeVars, vars
  <2>2. ASSUME NEW targets,
               deliveries' = (deliveries \ {d}) \cup {[d EXCEPT !.todo = targets, !.step = "journal"]}
        PROVE  WorkersOK'
    <3>1. [d EXCEPT !.todo = targets, !.step = "journal"].worker = d.worker
      BY <1>1 DEF DeliveryState
    <3> QED
      BY <2>1, <2>2, <3>1, DeliveryGoesOn
  <2> QED
    BY <1>4, <2>1, <2>2, GoroutineEnds DEF ListTargets, Becomes
<1>5. ASSUME NEW d \in deliveries, Journal(d)
      PROVE  WorkersOK'
  <2>1. captures' = captures
    BY <1>5 DEF Journal, CreateOperation, storeVars, vars
  <2>2. ASSUME NEW i, Becomes(d, [d EXCEPT !.step = "write", !.op = i])
        PROVE  WorkersOK'
    <3>1. [d EXCEPT !.step = "write", !.op = i].worker = d.worker
      BY <1>1 DEF DeliveryState
    <3> QED
      BY <2>1, <2>2, <3>1, DeliveryGoesOn DEF Becomes
  <2> QED
    BY <1>3, <1>5, <2>1, <2>2 DEF Journal
<1>6. ASSUME NEW d \in deliveries, WriteTarget(d)
      PROVE  WorkersOK'
  <2>1. captures' = captures /\ [d EXCEPT !.step = "mark"].worker = d.worker
    BY <1>1, <1>6 DEF WriteTarget, storeVars, vars, DeliveryState
  <2> QED
    BY <1>6, <2>1, DeliveryGoesOn DEF WriteTarget, Becomes
<1>7. ASSUME NEW d \in deliveries, FailWrite(d) \/ AbandonDelivery(d)
      PROVE  WorkersOK'
  BY <1>7, GoroutineEnds DEF FailWrite, AbandonDelivery, UpdateOperation, storeVars, vars
<1>8. ASSUME NEW d \in deliveries, MarkWritten(d)
      PROVE  WorkersOK'
  BY <1>3, <1>8 DEF MarkWritten, UpdateOperation
<1>9. ASSUME NEW e \in Endpoints, ReadCompletion(e) \/ ConfirmDeliveries(e)
      PROVE  WorkersOK'
  <2>1. UNCHANGED <<captures, deliveries>>
    BY <1>9 DEF ReadCompletion, ConfirmDeliveries, CompleteEndpointDeliveries, storeVars, vars
  <2> QED
    BY <2>1, GoroutineEnds
<1> QED
  BY <1>4, <1>5, <1>6, <1>7, <1>8, <1>9 DEF Delivering

LEMMA CapturingWorkers ==
    ASSUME ServiceInv, WorkersOK, Capturing
    PROVE  WorkersOK'
<1>1. ASSUME NEW e \in Endpoints, Reconcile(e) \/ DropTimer(e)
      PROVE  WorkersOK'
  BY <1>1, GoroutineEnds DEF Reconcile, DropTimer, storeVars, vars
<1>2. ASSUME NEW w \in Workers, NEW e \in Endpoints,
             BeginCapture(w, e) \/ BeginConflictCapture(w, e)
      PROVE  WorkersOK'
  <2>1. PICK b : FindBinding(w, b)
    BY <1>2 DEF BeginCapture, BeginConflictCapture
  <2>2. IsFree(w) /\ deliveries' = deliveries
    BY <1>2 DEF BeginCapture, BeginConflictCapture
  <2>3. PICK c : c.worker = w /\ captures' = captures \cup {c}
    BY <2>1 DEF FindBinding
  <2> QED
    BY <2>2, <2>3, CaptureBegins
<1>3. ASSUME NEW c \in captures, PutFile(c) \/ AbortCapture(c)
      PROVE  WorkersOK'
  BY <1>3, GoroutineEnds DEF PutFile, AbortCapture, AbandonCaptures, storeVars, vars
<1>4. ASSUME NEW c \in captures, Ingest(c)
      PROVE  WorkersOK'
  <2>1. captures' = captures \ {c}
    BY <1>4 DEF Ingest, RecordIngest
  <2>2. CASE deliveries' = deliveries
    BY <2>1, <2>2, GoroutineEnds
  <2>3. ASSUME NEW d, d.worker = c.worker, deliveries' = deliveries \cup {d}
        PROVE  WorkersOK'
    <3>1. \A x \in captures' : x.worker # d.worker
      BY <2>1, <2>3 DEF WorkersOK
    <3>2. \A x \in deliveries : x.worker # d.worker
      BY <2>3 DEF WorkersOK
    <3> QED
      BY <2>1, <2>3, <3>1, <3>2, DeliveryBegins
  <2>4. \A r, e : Delivery(c.worker, r, e).worker = c.worker
    BY DEF Delivery
  <2> QED
    BY <1>4, <2>2, <2>3, <2>4 DEF Ingest
<1> QED
  BY <1>1, <1>2, <1>3, <1>4 DEF Capturing

LEMMA RequestsWorkers ==
    ASSUME ServiceInv, WorkersOK, Requests
    PROVE  WorkersOK'
<1>1. ASSUME NEW w \in Workers, NEW r, IsFree(w), captures' = captures,
             deliveries' = deliveries \cup {Delivery(w, r, "none")}
      PROVE  WorkersOK'
  <2>1. PICK d : d.worker = w /\ deliveries' = deliveries \cup {d}
    BY <1>1 DEF Delivery
  <2> QED
    BY <1>1, <2>1, DeliveryBegins DEF IsFree
<1>2. ASSUME NEW w \in Workers, NEW k \in Keys, NEW kind, NEW source,
             Restore(w, k, kind, source)
      PROVE  WorkersOK'
  BY <1>1, <1>2 DEF Restore, CreateHeadFromExisting
<1>3. ASSUME NEW w \in Workers, NEW k \in Keys, ReplayRestore(w, k)
      PROVE  WorkersOK'
  BY <1>1, <1>3 DEF ReplayRestore, storeVars, vars
<1>4. ASSUME \/ \E profile \in Installed, path \in Paths : MapSave(profile, path)
             \/ \E k \in Keys : Snapshot(k)
             \/ CheckConflicts \/ EnablePropagation \/ DisablePropagation
      PROVE  WorkersOK'
  <2>1. UNCHANGED <<captures, deliveries>>
    BY <1>4 DEF MapSave, UpsertBinding, Snapshot, CreateSnapshot, CheckConflicts,
                EnablePropagation, DisablePropagation, service, storeVars, vars
  <2> QED
    BY <2>1, GoroutineEnds
<1> QED
  BY <1>2, <1>3, <1>4 DEF Requests

LEMMA WorkersStep ==
    ASSUME ServiceInv, WorkersOK, [BrokerNext]_brokerVars
    PROVE  WorkersOK'
<1>1. CASE External \/ UNCHANGED brokerVars
  <2>1. UNCHANGED <<captures, deliveries>>
    BY <1>1 DEF External, Play, Upload, Scan, Download, Collide, brokerVars, storeVars, vars, service
  <2> QED
    BY <2>1, GoroutineEnds
<1>2. CASE Crash
  BY <1>2, GoroutineEnds DEF Crash
<1> QED
  BY <1>1, <1>2, CapturingWorkers, DeliveringWorkers, RequestsWorkers DEF BrokerNext

-----------------------------------------------------------------------------
(***************************************************************************)
(* Types of what no row or folder depends on.                              *)
(***************************************************************************)
SwitchesOK ==
    /\ propagation \in BOOLEAN
    /\ enabling \in BOOLEAN
    /\ timers \in [Endpoints -> {"off", "plain", "confirm"}]
    /\ complete \in [Endpoints -> BOOLEAN]
    /\ edited \in [Endpoints -> BOOLEAN]
    /\ plays \in 0 .. MaxPlays
    /\ faults \in 0 .. MaxFaults

LEMMA FaultCounts ==
    ASSUME faults \in 0 .. MaxFaults, Fault
    PROVE  faults' \in 0 .. MaxFaults
BY BrokerBoundsAssumption DEF Fault

LEMMA SwitchesStep ==
    ASSUME SwitchesOK, [BrokerNext]_brokerVars
    PROVE  SwitchesOK'
<1> USE DEF SwitchesOK
<1>1. CASE External
  <2>1. ASSUME NEW e \in Endpoints, NEW file \in Payload, Play(e, file)
        PROVE  SwitchesOK'
    BY <2>1, BrokerBoundsAssumption DEF Play, service
  <2>2. ASSUME NEW e \in Endpoints, Upload(e) \/ Scan(e) \/ Download(e) \/ Collide(e)
        PROVE  SwitchesOK'
    BY <2>2 DEF Upload, Scan, Download, Collide, service, bounds
  <2> QED
    BY <1>1, <2>1, <2>2 DEF External
<1>2. CASE Capturing
  <2>1. ASSUME NEW e \in Endpoints, Reconcile(e) \/ DropTimer(e)
        PROVE  SwitchesOK'
    BY <2>1 DEF Reconcile, DropTimer, folders, bounds
  <2>2. ASSUME NEW w \in Workers, NEW e \in Endpoints,
               BeginCapture(w, e) \/ BeginConflictCapture(w, e)
        PROVE  SwitchesOK'
    BY <2>2 DEF BeginCapture, BeginConflictCapture, folders, bounds
  <2>3. ASSUME NEW c \in captures, PutFile(c) \/ Ingest(c)
        PROVE  SwitchesOK'
    BY <2>3 DEF PutFile, Ingest, folders, bounds
  <2>4. ASSUME NEW c \in captures, AbortCapture(c)
        PROVE  SwitchesOK'
    BY <2>4, FaultCounts DEF AbortCapture, folders
  <2> QED
    BY <1>2, <2>1, <2>2, <2>3, <2>4 DEF Capturing
<1>3. CASE Delivering
  <2>1. ASSUME NEW d \in deliveries,
               ListTargets(d) \/ Journal(d) \/ WriteTarget(d) \/ MarkWritten(d)
        PROVE  SwitchesOK'
    BY <2>1 DEF ListTargets, Journal, WriteTarget, MarkWritten, DeliveryVars, folders
  <2>2. ASSUME NEW d \in deliveries, FailWrite(d) \/ AbandonDelivery(d)
        PROVE  SwitchesOK'
    BY <2>2, FaultCounts DEF FailWrite, AbandonDelivery, DeliveryVars, folders
  <2>3. ASSUME NEW e \in Endpoints, ReadCompletion(e) \/ ConfirmDeliveries(e)
        PROVE  SwitchesOK'
    BY <2>3 DEF ReadCompletion, ConfirmDeliveries, folders, bounds
  <2> QED
    BY <1>3, <2>1, <2>2, <2>3 DEF Delivering
<1>4. CASE Requests
  <2>1. ASSUME NEW w \in Workers, NEW k \in Keys,
               ReplayRestore(w, k) \/ \E kind, source : Restore(w, k, kind, source)
        PROVE  SwitchesOK'
    BY <2>1 DEF ReplayRestore, Restore, DeliveryVars, folders
  <2>2. ASSUME \/ \E profile \in Installed, path \in Paths : MapSave(profile, path)
               \/ \E k \in Keys : Snapshot(k)
               \/ CheckConflicts \/ EnablePropagation
        PROVE  SwitchesOK'
    BY <2>2 DEF MapSave, Snapshot, CheckConflicts, EnablePropagation, service, folders, bounds
  <2>3. CASE DisablePropagation
    <3>1. plays' \in 0 .. MaxPlays
      BY <2>3, BrokerBoundsAssumption DEF DisablePropagation
    <3> QED
      BY <2>3, <3>1 DEF DisablePropagation, service, folders
  <2> QED
    BY <1>4, <2>1, <2>2, <2>3 DEF Requests
<1>5. CASE Crash
  BY <1>5, FaultCounts DEF Crash, folders
<1>6. CASE UNCHANGED brokerVars
  BY <1>6 DEF brokerVars, service, folders, bounds
<1> QED
  BY <1>1, <1>2, <1>3, <1>4, <1>5, <1>6 DEF BrokerNext

\* At most one member, and none of the other set if there is one.
LEMMA OneOfTwo ==
    ASSUME NEW S, NEW T,
           \A x, y \in S : x = y,
           \A x, y \in T : x = y,
           S = {} \/ T = {}
    PROVE  Cardinality(S) + Cardinality(T) <= 1
<1>1. ASSUME NEW U, \A x, y \in U : x = y
      PROVE  U = {} \/ \E x : U = {x}
  BY <1>1
<1>2. Cardinality({}) = 0 /\ \A x : Cardinality({x}) = 1
  BY FS_EmptySet, FS_Singleton
<1>3. \A U : (\A x, y \in U : x = y) => Cardinality(U) = 0 \/ Cardinality(U) = 1
  BY <1>1, <1>2
<1> QED
  BY <1>2, <1>3

\* Every variable of the service keeps its type, what a delivery writes is the
\* operation it journaled for the revision and binding it is at, and a worker is
\* inside one capture or one delivery, for any number of workers and faults.
THEOREM ServiceTypes == BrokerSpec => []BrokerTypeOK
<1>1. BrokerInit => SwitchesOK /\ WorkersOK
  <2> SUFFICES ASSUME BrokerInit PROVE SwitchesOK /\ WorkersOK
    OBVIOUS
  <2>1. propagation \in BOOLEAN
    BY DEF BrokerInit
  <2>2. plays \in 0 .. MaxPlays /\ faults \in 0 .. MaxFaults
    <3>1. plays = 0 /\ faults = 0
      BY DEF BrokerInit
    <3> QED
      BY <3>1, BrokerBoundsAssumption
  <2>3. /\ enabling \in BOOLEAN
        /\ timers \in [Endpoints -> {"off", "plain", "confirm"}]
        /\ complete \in [Endpoints -> BOOLEAN] /\ edited \in [Endpoints -> BOOLEAN]
    BY DEF BrokerInit
  <2> QED
    BY <2>1, <2>2, <2>3 DEF BrokerInit, Init, SwitchesOK, WorkersOK
<1>2. /\ SwitchesOK /\ [BrokerNext]_brokerVars => SwitchesOK'
      /\ ServiceInv /\ WorkersOK /\ [BrokerNext]_brokerVars => WorkersOK'
  BY SwitchesStep, WorkersStep
<1>3. ServiceInv /\ SwitchesOK /\ WorkersOK => BrokerTypeOK
  <2> SUFFICES ASSUME ServiceInv, SwitchesOK, WorkersOK
               PROVE  BrokerTypeOK
    OBVIOUS
  <2>1. ASSUME NEW d \in deliveries
        PROVE  /\ d.worker \in Workers
               /\ d.revision \in RevisionIds
               /\ d.source \in Endpoints \cup {"none"}
               /\ d.step = "list" <=> d.todo = {}
               /\ d.step \in {"write", "mark"} =>
                     /\ d.op \in OperationIds
                     /\ SameKey(operations[d.op], d.revision, First(d.todo).endpoint,
                                First(d.todo).path, First(d.todo).profile)
    BY <2>1 DEF ServiceInv, DeliveriesOK, IsDelivery, DeliveryState
  <2>2. ASSUME NEW w \in Workers
        PROVE  Cardinality({c \in captures : c.worker = w})
               + Cardinality({d \in deliveries : d.worker = w}) <= 1
    <3> DEFINE S == {c \in captures : c.worker = w}
               T == {d \in deliveries : d.worker = w}
    <3>1. (\A x, y \in S : x = y) /\ (\A x, y \in T : x = y) /\ (S = {} \/ T = {})
      BY DEF WorkersOK
    <3> HIDE DEF S, T
    <3>2. Cardinality(S) + Cardinality(T) <= 1
      BY <3>1, OneOfTwo
    <3> QED
      BY <3>2 DEF S, T
  <2>3. inputs \in [Workers -> [file : File, force : BOOLEAN, confirm : BOOLEAN, name : Nat]]
    BY DEF ServiceInv, InputsOK, CaptureState
  <2> QED
    BY <2>1, <2>2, <2>3 DEF BrokerTypeOK, ServiceInv, FoldersOK, SwitchesOK
<1> QED
  BY <1>1, <1>2, <1>3, ServiceInvariant, PTL DEF BrokerSpec

-----------------------------------------------------------------------------
(***************************************************************************)
(* What the store promises, on the running service.                        *)
(***************************************************************************)
\* The owner of a running service sees the promised history.
THEOREM ServiceImplementsHistory == BrokerSpec => HistorySpec
BY ServiceImplementsStore, StoreImplementsHistory, PTL DEF StoreSpec

\* Overlapping captures, retried requests, late deliveries and crashes archive no
\* branch twice, confuse no review, make no second head for a key, and give the
\* Thor's captures no RTC but that of the revision they descend from.
THEOREM ServiceKeepsReviews ==
    BrokerSpec => /\ [](BranchesAreDistinct /\ ConflictsNameBranches /\ StatusTellsConflict)
                  /\ [](MutationsAreKeyed /\ RtcIsInherited)
BY ServiceImplementsStore, EachBranchOnce, ConflictsAreAboutBranches, StatusIsTrue,
   OneHeadPerKey, RtcStays, PTL DEF StoreSpec

\* Revisions stay as they are on the running service, and each file a capture
\* has ingested can be had back from one of them.
THEOREM ServiceLosesNothing == BrokerSpec => ImmutableRevisions /\ IngestIsRecoverable
BY ServiceImplementsStore, RevisionsAreImmutable, NothingSeenIsLost, PTL DEF StoreSpec

-----------------------------------------------------------------------------
(***************************************************************************)
(* Folders and conflict files, whoever overlaps.  The copies of bindings   *)
(* that a goroutine keeps stay good: the service changes baselines only.   *)
(* What it keeps of the head may be stale, and then it says so.            *)
(***************************************************************************)
SameMapping(b, x) == b.endpoint = x.endpoint /\ b.path = x.path /\ b.profile = x.profile

IsMapped(x) == \E b \in bindings : SameMapping(b, x)

CopiesAreMapped == /\ \A c \in captures : IsMapped(c.binding)
                   /\ \A d \in deliveries : \A b \in d.todo : IsMapped(b)

\* A step of the service keeps the bindings, changes a baseline, or adds one.
LEMMA MappingsStay ==
    ASSUME ServiceInv, [BrokerNext]_brokerVars, NEW x, IsMapped(x)
    PROVE  IsMapped(x)'
<1> DEFINE Goal == \A b \in bindings : \E new \in bindings' : SameMapping(new, b)
<1> SUFFICES Goal
  BY DEF IsMapped, SameMapping
<1>1. \A b \in bindings : b \in Binding
  BY DEF ServiceInv, TypeInv, IsBindingTable
<1>2. ASSUME bindings \subseteq bindings'
      PROVE  Goal
  BY <1>2 DEF SameMapping
<1>3. ASSUME NEW e, NEW r, bindings' = Deployed(e, r)
      PROVE  Goal
  <2>1. \A b \in bindings : SameMapping([b EXCEPT !.lastDeployed = r], b)
    BY <1>1 DEF SameMapping, Binding
  <2>2. \A b \in bindings : SameMapping(b, b)
    BY DEF SameMapping
  <2> QED
    BY <1>3, <2>1, <2>2 DEF Deployed
<1>4. CASE External \/ Crash \/ UNCHANGED brokerVars
  BY <1>2, <1>4 DEF External, Play, Upload, Scan, Download, Collide, Crash, brokerVars, storeVars, vars
<1>5. CASE Capturing
  <2>1. ASSUME NEW c \in captures, Ingest(c)
        PROVE  Goal
    <3>1. \/ bindings' = bindings
          \/ \E e, r : bindings' = Deployed(e, r)
      BY <2>1 DEF Ingest, RecordIngest, RecordEcho, RecordDuplicate, RecordKnownBranch,
                  RecordLinear, RecordBranch
    <3> QED
      BY <1>2, <1>3, <3>1
  <2>2. CASE UNCHANGED bindings
    BY <1>2, <2>2
  <2>3. UNCHANGED bindings \/ \E c \in captures : Ingest(c)
    BY <1>5 DEF Capturing, Reconcile, DropTimer, BeginCapture, BeginConflictCapture, FindBinding,
                PutFile, AbortCapture, AbandonCaptures, storeVars, vars
  <2> QED
    BY <2>1, <2>2, <2>3
<1>6. CASE Delivering
  <2>1. ASSUME NEW e \in Endpoints, ConfirmDeliveries(e)
        PROVE  Goal
    <3>1. CASE CompleteEndpointDeliveries(e)
      <4> DEFINE last(b) == operations[Latest({i \in Written(e) : /\ operations[i].path = b.path
                                                                 /\ operations[i].profile = b.profile})].revision
      <4>1. \A r : \A b \in bindings : SameMapping([b EXCEPT !.lastDeployed = r], b)
        BY <1>1 DEF SameMapping, Binding
      <4>2. \A b \in bindings : SameMapping(b, b)
        BY DEF SameMapping
      <4>3. ASSUME NEW b \in bindings
            PROVE  b \in bindings' \/ [b EXCEPT !.lastDeployed = last(b)] \in bindings'
        BY <3>1 DEF CompleteEndpointDeliveries
      <4> QED
        BY <4>1, <4>2, <4>3
    <3> QED
      BY <1>2, <2>1, <3>1 DEF ConfirmDeliveries, storeVars, vars
  <2>2. CASE UNCHANGED bindings
    BY <1>2, <2>2
  <2>3. UNCHANGED bindings \/ \E e \in Endpoints : ConfirmDeliveries(e)
    BY <1>6 DEF Delivering, ListTargets, Journal, CreateOperation, WriteTarget, FailWrite,
                AbandonDelivery, MarkWritten, UpdateOperation, ReadCompletion, storeVars, vars
  <2> QED
    BY <2>1, <2>2, <2>3
<1>7. CASE Requests
  <2>1. ASSUME NEW profile \in Installed, NEW path \in Paths, MapSave(profile, path)
        PROVE  Goal
    BY <1>2, <2>1 DEF MapSave, UpsertBinding
  <2>2. ASSUME NEW k \in Keys, Snapshot(k)
        PROVE  Goal
    <3>1. \A b \in bindings : /\ SameMapping([b EXCEPT !.lastDeployed = NextRevision], b)
                              /\ SameMapping(b, b)
      BY <1>1 DEF SameMapping, Binding
    <3>2. bindings' = {IF b.lastDeployed = current
                       THEN [b EXCEPT !.lastDeployed = NextRevision] ELSE b : b \in bindings}
      BY <2>2 DEF Snapshot, CreateSnapshot
    <3> QED
      BY <3>1, <3>2
  <2>3. CASE UNCHANGED bindings
    BY <1>2, <2>3
  <2>4. \/ UNCHANGED bindings
        \/ \E profile \in Installed, path \in Paths : MapSave(profile, path)
        \/ \E k \in Keys : Snapshot(k)
    BY <1>7 DEF Requests, ReplayRestore, Restore, CreateHeadFromExisting, CheckConflicts,
                EnablePropagation, DisablePropagation, storeVars, vars
  <2> QED
    BY <2>1, <2>2, <2>3, <2>4
<1> QED
  BY <1>4, <1>5, <1>6, <1>7 DEF BrokerNext

\* A delivery is an earlier one with its bindings, those it listed, or fewer; or
\* it is new and lists none yet.
LEMMA DeliverySources ==
    ASSUME ServiceInv, [BrokerNext]_brokerVars, NEW x \in deliveries'
    PROVE  \/ \E d \in deliveries : /\ x.worker = d.worker /\ x.revision = d.revision
                                    /\ \A b \in x.todo : b \in d.todo \/ b \in bindings
           \/ /\ x.todo = {}
              /\ \/ x.revision = current' /\ current' # NoRevision
                 \/ \E w \in Workers, k \in Keys : ReplayRestore(w, k) /\ x.revision = requests[k]
<1> DEFINE Goal == \/ \E d \in deliveries : /\ x.worker = d.worker /\ x.revision = d.revision
                                            /\ \A b \in x.todo : b \in d.todo \/ b \in bindings
                   \/ /\ x.todo = {}
                      /\ \/ x.revision = current' /\ current' # NoRevision
                         \/ \E w \in Workers, k \in Keys :
                               ReplayRestore(w, k) /\ x.revision = requests[k]
<1>1. CASE x \in deliveries
  BY <1>1
<1>2. /\ \A d \in deliveries : d \in DeliveryState
      /\ \A w, r, e : Delivery(w, r, e).revision = r /\ Delivery(w, r, e).todo = {}
  BY DEF ServiceInv, DeliveriesOK, IsDelivery, Delivery
<1>3. TypeInv' /\ current' \in Nat
  BY ServiceStep DEF ServiceInv, TypeInv
<1>4. CASE x \notin deliveries
  <2>1. ASSUME NEW d \in deliveries, NEW next,
               next.worker = d.worker, next.revision = d.revision,
               \A b \in next.todo : b \in d.todo \/ b \in bindings,
               Becomes(d, next)
        PROVE  Goal
    BY <1>4, <2>1 DEF Becomes
  <2>2. CASE Delivering
    <3>1. ASSUME NEW d \in deliveries, Continue(d)
          PROVE  Goal
      BY <1>2, <1>4, <2>1, <3>1 DEF Continue, DeliveryState
    <3>2. ASSUME NEW d \in deliveries, ListTargets(d)
          PROVE  Goal
      <4> DEFINE targets == {b \in bindings : b.endpoint # d.source /\ b.lastDeployed # d.revision}
                 next == [d EXCEPT !.todo = targets, !.step = "journal"]
      <4>1. Becomes(d, next)
        BY <1>4, <3>2 DEF ListTargets
      <4>2. next.worker = d.worker /\ next.revision = d.revision /\ next.todo = targets
        BY <1>2 DEF DeliveryState
      <4> HIDE DEF next
      <4> QED
        BY <2>1, <4>1, <4>2
    <3>3. ASSUME NEW d \in deliveries, Journal(d)
          PROVE  Goal
      <4>1. \/ Continue(d)
            \/ \E i : Becomes(d, [d EXCEPT !.step = "write", !.op = i])
        BY <3>3 DEF Journal
      <4>2. \A i : /\ [d EXCEPT !.step = "write", !.op = i].worker = d.worker
                   /\ [d EXCEPT !.step = "write", !.op = i].revision = d.revision
                   /\ [d EXCEPT !.step = "write", !.op = i].todo = d.todo
        BY <1>2 DEF DeliveryState
      <4> QED
        BY <2>1, <3>1, <4>1, <4>2
    <3>4. ASSUME NEW d \in deliveries, WriteTarget(d)
          PROVE  Goal
      <4>1. /\ Becomes(d, [d EXCEPT !.step = "mark"])
            /\ [d EXCEPT !.step = "mark"].worker = d.worker
            /\ [d EXCEPT !.step = "mark"].revision = d.revision
            /\ [d EXCEPT !.step = "mark"].todo = d.todo
        BY <1>2, <3>4 DEF WriteTarget, DeliveryState
      <4> QED
        BY <2>1, <4>1
    <3>5. ASSUME NEW d \in deliveries, MarkWritten(d)
          PROVE  Goal
      BY <3>1, <3>5 DEF MarkWritten
    <3>6. ASSUME NEW d \in deliveries, FailWrite(d) \/ AbandonDelivery(d)
          PROVE  FALSE
      BY <1>4, <3>6 DEF FailWrite, AbandonDelivery
    <3>7. ASSUME NEW e \in Endpoints, ReadCompletion(e) \/ ConfirmDeliveries(e)
          PROVE  FALSE
      BY <1>4, <3>7 DEF ReadCompletion, ConfirmDeliveries
    <3> QED
      BY <2>2, <3>2, <3>3, <3>4, <3>5, <3>6, <3>7 DEF Delivering
  <2>3. ASSUME NEW c \in captures, Ingest(c)
        PROVE  Goal
    <3>1. x = Delivery(c.worker, current', c.binding.endpoint)
      BY <1>4, <2>3 DEF Ingest
    <3>2. x.revision \in RevisionIds'
      BY ServiceStep DEF ServiceInv, DeliveriesOK, IsDelivery
    <3> QED
      BY <1>2, <3>1, <3>2 DEF RevisionIds, NoRevision
  <2>4. ASSUME NEW w \in Workers, NEW k \in Keys, NEW kind, NEW source,
               Restore(w, k, kind, source)
        PROVE  Goal
    <3>1. x = Delivery(w, current', "none")
      BY <1>4, <2>4 DEF Restore
    <3>2. x.revision \in RevisionIds'
      BY ServiceStep DEF ServiceInv, DeliveriesOK, IsDelivery
    <3> QED
      BY <1>2, <3>1, <3>2 DEF RevisionIds, NoRevision
  <2>5. ASSUME NEW w \in Workers, NEW k \in Keys, ReplayRestore(w, k)
        PROVE  Goal
    <3>1. x = Delivery(w, requests[k], "none")
      BY <1>4, <2>5 DEF ReplayRestore
    <3> QED
      BY <1>2, <2>5, <3>1
  <2>6. CASE Capturing /\ ~ \E c \in captures : Ingest(c)
    BY <1>4, <2>6 DEF Capturing, Reconcile, DropTimer, BeginCapture, BeginConflictCapture,
                      PutFile, AbortCapture
  <2>7. CASE \/ \E profile \in Installed, path \in Paths : MapSave(profile, path)
             \/ \E k \in Keys : Snapshot(k)
             \/ CheckConflicts \/ EnablePropagation \/ DisablePropagation
    BY <1>4, <2>7 DEF MapSave, Snapshot, CheckConflicts, EnablePropagation, DisablePropagation, service
  <2>8. CASE External \/ Crash \/ UNCHANGED brokerVars
    BY <1>4, <2>8 DEF External, Play, Upload, Scan, Download, Collide, Crash, brokerVars, service
  <2> QED
    BY <2>2, <2>3, <2>4, <2>5, <2>6, <2>7, <2>8 DEF BrokerNext, Requests
<1> QED
  BY <1>1, <1>4

LEMMA CopiesMappedStep ==
    ASSUME ServiceInv, CopiesAreMapped, [BrokerNext]_brokerVars
    PROVE  CopiesAreMapped'
<1>1. \A b \in bindings : IsMapped(b)
  BY DEF IsMapped, SameMapping
<1>2. ASSUME NEW c \in captures'
      PROVE  IsMapped(c.binding)'
  BY <1>1, <1>2, StoreStep, NewCaptures, MappingsStay DEF CopiesAreMapped
<1>3. ASSUME NEW x \in deliveries', NEW b \in x.todo
      PROVE  IsMapped(b)'
  <2>1. IsMapped(b)
    BY <1>1, <1>3, DeliverySources DEF CopiesAreMapped
  <2> QED
    BY <2>1, MappingsStay
<1> QED
  BY <1>2, <1>3 DEF CopiesAreMapped

\* A binding that is mapped is the row of its endpoint.
LEMMA MappedBy ==
    ASSUME ServiceInv, NEW b \in bindings, NEW x, IsMapped(x), x.endpoint = b.endpoint
    PROVE  SameMapping(b, x)
BY DEF ServiceInv, TypeInv, IsBindingTable, IsMapped, SameMapping

\* Syncthing has sent what it put into a folder.
LEMMA ExternalSends ==
    ASSUME FoldersOK, External, NEW e \in Endpoints
    PROVE  hub'[e] = hub[e] \/ index'[e] # "written"
BY DEF External, Play, Upload, Scan, Download, Collide, FoldersOK

\* A delivery of the head's bytes leaves a folder that has them as it is.
LEMMA StaleWrite ==
    ASSUME ServiceInv, JournalInv, CopiesAreMapped,
           NEW d \in deliveries, WriteTarget(d),
           NEW b \in bindings, HoldsHead(b), Overwrites(b.endpoint)
    PROVE  IsStale(d)
<1> SUFFICES ASSUME revisions[d.revision].content = revisions[current].content
             PROVE  FALSE
  BY DEF IsStale
<1> DEFINE t == First(d.todo)
<1>1. IsDelivery(d) /\ d.step = "write"
  BY DEF ServiceInv, DeliveriesOK, WriteTarget
<1>2. SameKey(operations[d.op], d.revision, t.endpoint, t.path, t.profile) /\ d.op \in OperationIds
  BY <1>1 DEF IsDelivery
<1>3. t \in d.todo
  BY <1>1, FirstIsMember DEF IsDelivery
<1>4. operations[d.op].file = Encode(t.profile, revisions[current].content)
  <2>1. operations[d.op].file = Encode(operations[d.op].profile, revisions[operations[d.op].revision].content)
    BY <1>2 DEF JournalInv, HoldsItsRevision
  <2>2. operations[d.op].profile = t.profile /\ operations[d.op].revision = d.revision
    BY <1>2 DEF SameKey
  <2> QED
    BY <2>1, <2>2 DEF Encode
<1>5. b.endpoint \in Endpoints /\ hub \in [Endpoints -> File]
  BY DEF ServiceInv, FoldersOK, TypeInv, IsBindingTable, Binding
<1>6. hub' = [hub EXCEPT ![t.endpoint] = operations[d.op].file]
  BY DEF WriteTarget
<1>7. CASE t.endpoint = b.endpoint
  <2>1. b.profile = t.profile
    BY <1>3, <1>7, MappedBy DEF CopiesAreMapped, SameMapping
  <2> QED
    BY <1>4, <1>5, <1>6, <1>7, <2>1 DEF HoldsHead, Overwrites
<1>8. CASE t.endpoint # b.endpoint
  BY <1>5, <1>6, <1>8 DEF Overwrites
<1> QED
  BY <1>7, <1>8

\* For any number of overlapping captures, deliveries and requests, with any
\* faults: nothing but a delivery that a newer head has overtaken, or one of a
\* replayed request, takes the head's bytes from a folder.
THEOREM RollBacksAreStale == BrokerSpec => OnlyStaleDeliveriesRollBack
<1>1. BrokerInit => CopiesAreMapped
  BY DEF BrokerInit, Init, CopiesAreMapped
<1>2. ServiceInv /\ CopiesAreMapped /\ [BrokerNext]_brokerVars => CopiesAreMapped'
  BY CopiesMappedStep
<1>3. ASSUME ServiceInv, JournalInv, CopiesAreMapped, BrokerNext,
             NEW b \in bindings, HoldsHead(b), Overwrites(b.endpoint)
      PROVE  \E d \in deliveries : IsStale(d) /\ WriteTarget(d)
  <2>1. b.endpoint \in Endpoints
    BY <1>3 DEF ServiceInv, TypeInv, IsBindingTable, Binding
  <2>2. ~External
    BY <1>3, <2>1, ExternalSends DEF ServiceInv, Overwrites
  <2>3. PICK d \in deliveries : WriteTarget(d)
    BY <1>3, <2>2, FoldersUntouched DEF Overwrites
  <2> QED
    BY <1>3, <2>3, StaleWrite
<1>4. ASSUME ServiceInv, BrokerNext, NEW d \in deliveries'
      PROVE  \/ d.revision = current'
             \/ \E old \in deliveries : old.worker = d.worker /\ old.revision = d.revision
             \/ \E k \in Keys : d.revision = requests[k]
  BY <1>4, DeliverySources
<1>5. ServiceInv /\ JournalInv /\ CopiesAreMapped /\ [BrokerNext]_brokerVars
      => [/\ \A b \in bindings : HoldsHead(b) /\ Overwrites(b.endpoint) =>
                \E d \in deliveries : IsStale(d) /\ WriteTarget(d)
          /\ \A d \in deliveries' :
                \/ d.revision = current'
                \/ \E old \in deliveries : old.worker = d.worker /\ old.revision = d.revision
                \/ \E k \in Keys : d.revision = requests[k]]_brokerVars
  BY <1>3, <1>4
<1>6. BrokerSpec => []JournalInv
  BY ServiceImplementsStore, JournalInvariant, PTL DEF StoreSpec
<1> QED
  BY <1>1, <1>2, <1>5, <1>6, ServiceInvariant, PTL DEF BrokerSpec, OnlyStaleDeliveriesRollBack

\* What a capture of a conflict artifact has archived is what the artifact holds,
\* unless another capture has removed it; a later one has a later name.
ForcedCaptures ==
    \A c \in captures :
        LET e == c.binding.endpoint
            in == inputs[c.worker]
        IN  in.force => /\ in.name <= names[e]
                        /\ in.file # NoFile /\ in.name = names[e] => artifact[e] \in {in.file, NoFile}

\* An artifact only goes with the ingest of a capture of it, and only comes with
\* a name of its own.
LEMMA ArtifactSteps ==
    ASSUME ServiceInv, [BrokerNext]_brokerVars, NEW e \in Endpoints
    PROVE  \/ names'[e] = names[e] /\ artifact'[e] = artifact[e]
           \/ names'[e] = names[e] + 1 /\ artifact[e] = NoFile
           \/ /\ names'[e] = names[e] /\ artifact'[e] = NoFile
              /\ \E c \in captures : /\ Ingest(c) /\ inputs[c.worker].force
                                     /\ IsThere(c) /\ e = c.binding.endpoint
<1>1. artifact \in [Endpoints -> File] /\ names \in [Endpoints -> Nat]
  BY DEF ServiceInv, FoldersOK
<1>2. CASE External
  BY <1>1, <1>2 DEF External, Play, Upload, Scan, Download, Collide
<1>3. CASE Capturing
  <2>1. ASSUME NEW c \in captures, Ingest(c)
        PROVE  /\ names' = names
               /\ \/ artifact'[e] = artifact[e]
                  \/ /\ artifact'[e] = NoFile /\ inputs[c.worker].force
                     /\ IsThere(c) /\ e = c.binding.endpoint
    <3>1. artifact' \in IF inputs[c.worker].force /\ IsThere(c)
                        THEN {artifact, [artifact EXCEPT ![c.binding.endpoint] = NoFile]}
                        ELSE {artifact}
      BY <2>1 DEF Ingest
    <3>2. names' = names
      BY <2>1 DEF Ingest
    <3> QED
      BY <1>1, <3>1, <3>2
  <2>2. UNCHANGED <<names, artifact>> \/ \E c \in captures : Ingest(c)
    BY <1>3 DEF Capturing, Reconcile, DropTimer, BeginCapture, BeginConflictCapture, PutFile,
                AbortCapture, folders
  <2> QED
    BY <2>1, <2>2
<1>4. CASE Delivering
  BY <1>4 DEF Delivering, ListTargets, Journal, WriteTarget, FailWrite, AbandonDelivery, MarkWritten,
              ReadCompletion, ConfirmDeliveries, folders
<1>5. CASE Requests
  BY <1>5 DEF Requests, MapSave, ReplayRestore, Restore, Snapshot, CheckConflicts,
              EnablePropagation, DisablePropagation, folders
<1>6. CASE Crash \/ UNCHANGED brokerVars
  BY <1>6 DEF Crash, brokerVars, folders
<1> QED
  BY <1>2, <1>3, <1>4, <1>5, <1>6 DEF BrokerNext

\* What a capture of an artifact has read only changes when it reads it, and a new
\* one has read nothing.
LEMMA ReadCaptures ==
    ASSUME ServiceInv, WorkersOK, [BrokerNext]_brokerVars, NEW c \in captures',
           inputs'[c.worker].force
    PROVE  \/ c \in captures /\ inputs'[c.worker] = inputs[c.worker]
           \/ /\ c \in captures /\ inputs[c.worker].force
              /\ names' = names /\ artifact' = artifact
              /\ inputs'[c.worker].name = names[c.binding.endpoint]
              /\ inputs'[c.worker].file = artifact[c.binding.endpoint]
           \/ /\ c.binding.endpoint \in Endpoints /\ names' = names
              /\ inputs'[c.worker].name = names[c.binding.endpoint]
              /\ inputs'[c.worker].file = NoFile
<1> DEFINE Same == c \in captures /\ inputs'[c.worker] = inputs[c.worker]
           Reads == /\ c \in captures /\ inputs[c.worker].force
                    /\ names' = names /\ artifact' = artifact
                    /\ inputs'[c.worker].name = names[c.binding.endpoint]
                    /\ inputs'[c.worker].file = artifact[c.binding.endpoint]
           Begins == /\ c.binding.endpoint \in Endpoints /\ names' = names
                     /\ inputs'[c.worker].name = names[c.binding.endpoint]
                     /\ inputs'[c.worker].file = NoFile
<1>1. /\ inputs \in [Workers -> CaptureState]
      /\ \A x \in captures : x.worker \in Workers
  BY DEF ServiceInv, InputsOK, TypeInv, IsCaptureSet, Capture
<1>2. c.worker \in Workers
  <2>1. c.worker \in Workers \/ c \in captures
    BY ServiceStep DEF ServiceInv, TypeInv, IsCaptureSet, Capture
  <2> QED
    BY <1>1, <2>1
<1>3. CASE Capturing
  <2>1. ASSUME NEW w \in Workers, NEW e \in Endpoints,
               BeginCapture(w, e) \/ BeginConflictCapture(w, e)
        PROVE  Same \/ Begins
    <3>1. PICK b : b.endpoint = e /\ captures' = captures \cup {[worker |-> w, binding |-> b]}
      BY <2>1 DEF BeginCapture, BeginConflictCapture, FindBinding, BindingsOf
    <3>2. \A x \in captures : x.worker # w
      BY <2>1 DEF BeginCapture, BeginConflictCapture, IsFree
    <3>3. CASE c.worker # w
      <4>1. c \in captures /\ inputs'[c.worker] = inputs[c.worker]
        BY <1>1, <1>2, <2>1, <3>1, <3>3 DEF BeginCapture, BeginConflictCapture
      <4> QED
        BY <4>1
    <3>4. CASE c.worker = w
      <4>1. c.binding.endpoint = e
        BY <3>1, <3>2, <3>4
      <4>2. ~BeginCapture(w, e)
        BY <1>1, <3>4 DEF BeginCapture, Idle
      <4>3. names' = names /\ inputs' = [inputs EXCEPT ![w] = [Idle EXCEPT !.force = TRUE, !.name = names[e]]]
        BY <2>1, <4>2 DEF BeginConflictCapture, folders
      <4> QED
        BY <1>1, <3>4, <4>1, <4>3 DEF Idle
    <3> QED
      BY <3>3, <3>4
  <2>2. ASSUME NEW x \in captures, PutFile(x)
        PROVE  Same \/ Reads
    <3>1. c \in captures /\ captures' = captures /\ names' = names /\ artifact' = artifact
      BY <2>2 DEF PutFile, storeVars, vars, folders
    <3>2. CASE x = c
      <4> DEFINE e == c.binding.endpoint
      <4>1. inputs'[c.worker] =
              [inputs[c.worker] EXCEPT !.file = IF inputs[c.worker].force THEN artifact[e] ELSE hub[e]]
        BY <1>1, <1>2, <2>2, <3>2 DEF PutFile
      <4>2. inputs[c.worker] \in CaptureState
        BY <1>1, <1>2
      <4> HIDE DEF e
      <4>3. /\ inputs'[c.worker].force = inputs[c.worker].force
            /\ inputs'[c.worker].name = inputs[c.worker].name
            /\ inputs'[c.worker].file = IF inputs[c.worker].force THEN artifact[e] ELSE hub[e]
        BY <4>1, <4>2 DEF CaptureState
      <4>4. inputs[c.worker].force
        BY <4>3
      <4>5. inputs[c.worker].name = names[e]
        BY <2>2, <3>2, <4>4 DEF PutFile, IsThere, e
      <4> QED
        BY <3>1, <4>3, <4>4, <4>5 DEF e
    <3>3. CASE x # c
      <4>1. x.worker # c.worker
        BY <3>1, <3>3 DEF WorkersOK
      <4>2. inputs'[c.worker] = inputs[c.worker]
        BY <1>1, <1>2, <2>2, <4>1 DEF PutFile
      <4> QED
        BY <3>1, <4>2
    <3> QED
      BY <3>2, <3>3
  <2>3. ASSUME NEW x \in captures, Ingest(x) \/ AbortCapture(x)
        PROVE  Same
    <3>1. captures' = captures \ {x}
      BY <2>3 DEF Ingest, AbortCapture, RecordIngest, AbandonCaptures
    <3>2. c \in captures /\ c # x
      BY <3>1
    <3>3. c.worker # x.worker
      BY <3>2 DEF WorkersOK
    <3>4. inputs'[c.worker] = inputs[c.worker]
      BY <1>1, <1>2, <2>3, <3>3 DEF Ingest, AbortCapture
    <3> QED
      BY <3>2, <3>4
  <2>4. ASSUME NEW e \in Endpoints, Reconcile(e) \/ DropTimer(e)
        PROVE  Same
    BY <2>4 DEF Reconcile, DropTimer, storeVars, vars
  <2> QED
    BY <1>3, <2>1, <2>2, <2>3, <2>4 DEF Capturing
<1>4. CASE captures' = captures /\ inputs' = inputs
  BY <1>4
<1>5. CASE Crash
  BY <1>5 DEF Crash
<1>6. External \/ Delivering \/ Requests \/ UNCHANGED brokerVars
      => captures' = captures /\ inputs' = inputs
  <2>1. External => captures' = captures /\ inputs' = inputs
    BY DEF External, Play, Upload, Scan, Download, Collide, storeVars, vars, service
  <2>2. Delivering => captures' = captures /\ inputs' = inputs
    BY DEF Delivering, ListTargets, Journal, WriteTarget, FailWrite, AbandonDelivery, MarkWritten,
           ReadCompletion, ConfirmDeliveries, CreateOperation, UpdateOperation,
           CompleteEndpointDeliveries, DeliveryVars, storeVars, vars
  <2>3. Requests => captures' = captures /\ inputs' = inputs
    BY DEF Requests, MapSave, UpsertBinding, ReplayRestore, Restore, CreateHeadFromExisting,
           Snapshot, CreateSnapshot, CheckConflicts, EnablePropagation, DisablePropagation,
           DeliveryVars, storeVars, vars, service
  <2>4. UNCHANGED brokerVars => captures' = captures /\ inputs' = inputs
    BY DEF brokerVars, storeVars, vars, service
  <2> QED
    BY <2>1, <2>2, <2>3, <2>4
<1> QED
  BY <1>3, <1>4, <1>5, <1>6 DEF BrokerNext

\* So it stays what the artifact of that name holds, if it is still there.
LEMMA ForcedStep ==
    ASSUME ServiceInv, WorkersOK, ForcedCaptures, [BrokerNext]_brokerVars
    PROVE  ForcedCaptures'
<1> SUFFICES ASSUME NEW c \in captures', inputs'[c.worker].force
             PROVE  LET e == c.binding.endpoint
                        in == inputs'[c.worker]
                    IN  /\ in.name <= names'[e]
                        /\ in.file # NoFile /\ in.name = names'[e] => artifact'[e] \in {in.file, NoFile}
  BY DEF ForcedCaptures
<1> DEFINE e == c.binding.endpoint
           in == inputs[c.worker]
<1>1. c \in captures => e \in Endpoints /\ in \in CaptureState
  BY BindingTypes DEF ServiceInv, TypeInv, IsCaptureSet, Capture, InputsOK
<1>2. names \in [Endpoints -> Nat] /\ \A f \in Endpoints : names[f] \in Nat
  BY DEF ServiceInv, FoldersOK
<1>3. CASE c \in captures /\ inputs'[c.worker] = inputs[c.worker]
  <2>1. /\ in.name <= names[e]
        /\ in.file # NoFile /\ in.name = names[e] => artifact[e] \in {in.file, NoFile}
    BY <1>3 DEF ForcedCaptures
  <2>2. \/ names'[e] = names[e] /\ (artifact'[e] = artifact[e] \/ artifact'[e] = NoFile)
        \/ names'[e] = names[e] + 1
    BY <1>1, <1>3, ArtifactSteps
  <2>3. in.name \in Nat /\ names[e] \in Nat
    BY <1>1, <1>2, <1>3 DEF CaptureState
  <2> HIDE DEF e
  <2>4. in.name <= names'[e] /\ (in.name = names'[e] => names'[e] = names[e])
    BY <2>1, <2>2, <2>3
  <2>5. in.name = names'[e] => artifact'[e] = artifact[e] \/ artifact'[e] = NoFile
    BY <2>1, <2>2, <2>3
  <2> QED
    BY <1>3, <2>1, <2>4, <2>5 DEF e
<1>4. CASE ~(c \in captures /\ inputs'[c.worker] = inputs[c.worker])
  <2>1. /\ e \in Endpoints /\ names' = names /\ inputs'[c.worker].name = names[e]
        /\ \/ artifact' = artifact /\ inputs'[c.worker].file = artifact[e]
           \/ inputs'[c.worker].file = NoFile
    BY <1>1, <1>4, ReadCaptures
  <2>2. names[e] \in Nat
    BY <1>2, <2>1
  <2> HIDE DEF e
  <2> QED
    BY <2>1, <2>2 DEF e
<1> QED
  BY <1>3, <1>4

\* For any number of overlapping captures of it, a Syncthing conflict artifact
\* leaves the folder only when a branch gives its bytes back for the profile of
\* the mapping.
THEOREM ArtifactsBecomeBranches == BrokerSpec => ArtifactsAreArchived
<1>1. BrokerInit => CopiesAreMapped /\ ForcedCaptures /\ WorkersOK
  BY DEF BrokerInit, Init, CopiesAreMapped, ForcedCaptures, WorkersOK
<1>2. ServiceInv /\ CopiesAreMapped /\ [BrokerNext]_brokerVars => CopiesAreMapped'
  BY CopiesMappedStep
<1>3. ServiceInv /\ WorkersOK /\ [BrokerNext]_brokerVars => WorkersOK'
  BY WorkersStep
<1>4. ServiceInv /\ WorkersOK /\ ForcedCaptures /\ [BrokerNext]_brokerVars => ForcedCaptures'
  BY ForcedStep
<1>5. ASSUME ServiceInv, CopiesAreMapped, ForcedCaptures, BrokerNext,
             NEW e \in Endpoints, NEW b \in bindings,
             b.endpoint = e, artifact[e] # NoFile, artifact'[e] # artifact[e]
      PROVE  \E i \in 1 .. Len(revisions') :
                /\ revisions'[i].state = "branch"
                /\ Encode(b.profile, revisions'[i].content) = artifact[e]
  <2>1. PICK c \in captures : /\ Ingest(c) /\ inputs[c.worker].force
                              /\ IsThere(c) /\ e = c.binding.endpoint
    BY <1>5, ArtifactSteps
  <2>2. c.worker \in Workers /\ inputs[c.worker] \in CaptureState
    BY <1>5 DEF ServiceInv, InputsOK, TypeInv, IsCaptureSet, Capture
  <2>3. /\ inputs[c.worker].file # NoFile
        /\ RecordIngest(c, inputs[c.worker].file, TRUE, inputs[c.worker].confirm)
    <3>1. inputs[c.worker].force = TRUE
      BY <2>1, <2>2 DEF CaptureState
    <3> QED
      BY <2>1, <3>1 DEF Ingest
  <2>4. inputs[c.worker].file \in Payload /\ inputs[c.worker].confirm \in BOOLEAN
    BY <2>2, <2>3, FilesAndPayloads DEF CaptureState
  <2>5. inputs[c.worker].file = artifact[e]
    BY <1>5, <2>1, <2>3 DEF ForcedCaptures, IsThere
  <2>6. b.profile = c.binding.profile
    BY <1>5, <2>1, MappedBy DEF CopiesAreMapped, SameMapping
  <2> QED
    BY <1>5, <2>3, <2>4, <2>5, <2>6, ForcedIngest DEF ServiceInv
<1>6. ServiceInv /\ CopiesAreMapped /\ ForcedCaptures /\ [BrokerNext]_brokerVars
      => [\A e \in Endpoints, b \in bindings :
             b.endpoint = e /\ artifact[e] # NoFile /\ artifact'[e] # artifact[e]
             => \E i \in 1 .. Len(revisions') :
                   /\ revisions'[i].state = "branch"
                   /\ Encode(b.profile, revisions'[i].content) = artifact[e]]_brokerVars
  BY <1>5
<1> QED
  BY <1>1, <1>2, <1>3, <1>4, <1>6, ServiceInvariant, PTL DEF BrokerSpec, ArtifactsAreArchived
=============================================================================
