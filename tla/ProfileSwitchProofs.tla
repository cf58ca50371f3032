--------------------------- MODULE ProfileSwitchProofs ---------------------------
(***************************************************************************)
(* Theorems of ProfileSwitch for every value of its constants.             *)
(*                                                                         *)
(* A step of the system is one of Broker's or one of the handlers'; each   *)
(* keeps what BrokerProofs needs of the service, so the store's theorems   *)
(* hold here too, for any number of workers (SwitchInv).                   *)
(*                                                                         *)
(* HandlerOK says what the handler relies on from one of its steps to the  *)
(* next, whatever the captures and deliveries of others do meanwhile: the  *)
(* emulator is closed, and what they write into the Windows folder is held *)
(* by a revision.  It gives SwitchKeepsFile.  ClockGoesByMistake needs the  *)
(* store's types only: what makes a head decides whether it has a clock.   *)
(***************************************************************************)
EXTENDS ProfileSwitch, BrokerProofs

-----------------------------------------------------------------------------
(***************************************************************************)
(* The steps that are not Broker's, and what they need of the request.     *)
(***************************************************************************)
Handles ==
    \/ \E b \in bindings, file \in Payload : PlayConfigured(b, file)
    \/ \E w \in Workers, profile \in WindowsGBA : CaptureBefore(w, profile)
    \/ Handling
    \/ \E c \in captures : Quarantine(c)
    \/ \E e \in Endpoints : ConfirmAtOnce(e)

\* Broker's steps here: the user restores nothing and maps nothing anew.
Serves == External \/ Capturing \/ Delivering \/ Crash

LEMMA SwitchSteps ==
    ASSUME [SwitchNext]_switchVars
    PROVE  Handles \/ Serves \/ UNCHANGED switchVars
BY DEF SwitchNext, Handles, Serves, IngestFor, Serve, Proceed, ReconcileWhenFree, Fail, CrashAndForget,
       External, Capturing, Delivering

\* The same, action by action.
ServesFolders == \E e \in Endpoints : Upload(e) \/ Scan(e) \/ Download(e) \/ Collide(e) \/ Reconcile(e)

ServesCaptures ==
    \/ \E w \in Workers, e \in Endpoints : IsOther(w) /\ (BeginCapture(w, e) \/ BeginConflictCapture(w, e))
    \/ \E c \in captures : PutFile(c) \/ IngestFor(c) \/ AbortCapture(c)

ServesDeliveries == \E d \in deliveries : \/ ListTargets(d) \/ Journal(d) \/ WriteTarget(d)
                                          \/ MarkWritten(d) \/ FailWrite(d) \/ AbandonDelivery(d)

LEMMA SwitchActions ==
    ASSUME [SwitchNext]_switchVars
    PROVE  \/ Handles \/ ServesFolders \/ ServesCaptures \/ ServesDeliveries
           \/ CrashAndForget \/ UNCHANGED switchVars
BY DEF SwitchNext, Handles, ServesFolders, ServesCaptures, ServesDeliveries, Serve, Proceed,
       ReconcileWhenFree, Fail

RequestOK ==
    /\ request \in [step : {"none", "captured", "changed", "uncaptured", "rewriting", "recaptured"},
                    worker : Workers \cup {"none"}, profile : WindowsGBA \cup {"none"},
                    captured : BOOLEAN]
    /\ request.step = "none" => request = NoRequest
    /\ request.step # "none" => request.worker \in Workers /\ request.profile \in WindowsGBA

LEMMA RequestTypes ==
    ASSUME RequestOK, [SwitchNext]_switchVars
    PROVE  RequestOK'
<1>1. ASSUME NEW w \in Workers, NEW profile \in WindowsGBA, CaptureBefore(w, profile)
      PROVE  RequestOK'
  BY <1>1 DEF CaptureBefore, RequestOK, NoRequest
<1>2. CASE ChangeProfile \/ RematerializeBinding \/ CaptureAfter \/ Answer
  <2>1. CASE Answer
    BY <2>1 DEF Answer, RequestOK, NoRequest
  <2>2. ASSUME request.step # "none", NEW step \in {"changed", "uncaptured", "rewriting", "recaptured"},
               \/ request' = [request EXCEPT !.step = step]
               \/ request' = [request EXCEPT !.step = step, !.captured = FALSE]
        PROVE  RequestOK'
    BY <2>2 DEF RequestOK
  <2> QED
    BY <1>2, <2>1, <2>2 DEF ChangeProfile, PreCaptured, RematerializeBinding, CaptureAfter, Goes, Serving
<1>3. CASE UNCHANGED request
  BY <1>3 DEF RequestOK
<1>4. CASE CrashAndForget
  BY <1>4 DEF CrashAndForget, RequestOK, NoRequest
<1>5. ASSUME NEW c \in captures, IngestFor(c)
      PROVE  RequestOK'
  BY <1>5 DEF IngestFor, IsOther, RequestOK, NoRequest
<1>6. \/ UNCHANGED request
      \/ \E w \in Workers, profile \in WindowsGBA : CaptureBefore(w, profile)
      \/ ChangeProfile \/ RematerializeBinding \/ CaptureAfter \/ Answer \/ CrashAndForget
      \/ \E c \in captures : IngestFor(c)
  BY DEF SwitchNext, PlayConfigured, Handling, JournalForced, Quarantine, Fail, handler, switchVars
<1> QED
  BY <1>1, <1>2, <1>3, <1>4, <1>5, <1>6

WindowsMapped == \E b \in bindings : b.endpoint = "windows"

\* No row of the bindings table ever goes.
LEMMA MappedStays ==
    ASSUME TypeInv, WindowsMapped, [Next]_vars
    PROVE  WindowsMapped'
<1>1. \A b \in bindings : b \in Binding
  BY DEF TypeInv, IsBindingTable
<1>2. PICK b \in bindings : b.endpoint = "windows"
  BY DEF WindowsMapped
<1>3. ASSUME NEW r, b \in bindings' \/ [b EXCEPT !.lastDeployed = r] \in bindings'
      PROVE  WindowsMapped'
  <2>1. [b EXCEPT !.lastDeployed = r].endpoint = "windows"
    BY <1>1, <1>2 DEF Binding
  <2> QED
    BY <1>2, <1>3, <2>1 DEF WindowsMapped
<1>4. ASSUME NEW profile \in Profiles, NEW path \in Paths, UpsertBinding(profile, path)
      PROVE  WindowsMapped'
  <2>1. b \in bindings' \/ [b EXCEPT !.profile = profile, !.path = path] \in bindings'
    <3>1. CASE b \in RowsFor(profile)
      BY <1>4, <3>1 DEF UpsertBinding
    <3>2. CASE b \notin RowsFor(profile)
      BY <1>2, <1>4, <3>2 DEF UpsertBinding
    <3> QED
      BY <3>1, <3>2
  <2>2. [b EXCEPT !.profile = profile, !.path = path].endpoint = "windows"
    BY <1>1, <1>2 DEF Binding
  <2> QED
    BY <1>2, <2>1, <2>2 DEF WindowsMapped
<1>5. ASSUME NEW profile \in Profiles, ConfigureWindowsGBAProfile(profile)
      PROVE  WindowsMapped'
  <2>1. [b EXCEPT !.profile = profile] \in bindings'
    BY <1>2, <1>5 DEF ConfigureWindowsGBAProfile
  <2>2. [b EXCEPT !.profile = profile].endpoint = "windows"
    BY <1>1, <1>2 DEF Binding
  <2> QED
    BY <2>1, <2>2 DEF WindowsMapped
<1>6. ASSUME NEW e, NEW r, bindings' = Deployed(e, r)
      PROVE  WindowsMapped'
  BY <1>3, <1>6 DEF Deployed
<1>7. ASSUME NEW e \in Endpoints, CompleteEndpointDeliveries(e)
      PROVE  WindowsMapped'
  <2> DEFINE last == operations[Latest({i \in Written(e) : /\ operations[i].path = b.path
                                                         /\ operations[i].profile = b.profile})].revision
  <2>1. b \in bindings' \/ [b EXCEPT !.lastDeployed = last] \in bindings'
    BY <1>7 DEF CompleteEndpointDeliveries
  <2> QED
    BY <1>3, <2>1
<1>8. ASSUME NEW k \in Keys, NEW expected, CreateSnapshot(k, expected)
      PROVE  WindowsMapped'
  BY <1>3, <1>8 DEF CreateSnapshot
<1>9. ASSUME NEW c \in captures, NEW file, NEW force, NEW confirm, RecordIngest(c, file, force, confirm)
      PROVE  WindowsMapped'
  <2>1. bindings' = bindings \/ \E e, r : bindings' = Deployed(e, r)
    BY <1>9 DEF RecordIngest, RecordEcho, RecordDuplicate, RecordKnownBranch, RecordLinear, RecordBranch
  <2> QED
    BY <1>3, <1>6, <2>1
<1>10. CASE UNCHANGED bindings
  BY <1>3, <1>10
<1>11. \/ UNCHANGED bindings
       \/ \E profile \in Profiles, path \in Paths : UpsertBinding(profile, path)
       \/ \E profile \in Profiles : ConfigureWindowsGBAProfile(profile)
       \/ \E e \in Endpoints : CompleteEndpointDeliveries(e)
       \/ \E k \in Keys, expected \in 0 .. Len(revisions) : CreateSnapshot(k, expected)
       \/ \E c \in captures, file \in Payload, force, confirm \in BOOLEAN :
             RecordIngest(c, file, force, confirm)
  BY DEF Next, vars, FindBinding, AbandonCaptures, CreateOperation, UpdateOperation,
         CreateHeadFromExisting
<1> QED
  BY <1>4, <1>5, <1>7, <1>8, <1>9, <1>10, <1>11

-----------------------------------------------------------------------------
(***************************************************************************)
(* What the handlers do is a step of the store too, and leaves what the    *)
(* goroutines keep between their steps valid.                              *)
(***************************************************************************)
LEMMA HandlesRows ==
    ASSUME ServiceInv, RequestOK, Handles
    PROVE  [Next]_vars
<1>1. ASSUME NEW b \in bindings, NEW file \in Payload, PlayConfigured(b, file)
      PROVE  UNCHANGED vars
  BY <1>1 DEF PlayConfigured, storeVars
<1>2. ASSUME NEW w \in Workers, NEW profile \in WindowsGBA, CaptureBefore(w, profile)
      PROVE  Next
  BY <1>2 DEF CaptureBefore, BindingsOf, Next
<1>3. CASE ChangeProfile
  BY <1>3 DEF ChangeProfile, Serving, RequestOK, WindowsGBA, Next
<1>4. CASE RematerializeBinding \/ Answer
  BY <1>4 DEF RematerializeBinding, Answer, storeVars
<1>5. CASE CaptureAfter
  BY <1>5 DEF CaptureAfter, Serving, RequestOK, BindingsOf, Next
<1>6. ASSUME NEW d \in deliveries, JournalForced(d)
      PROVE  [Next]_vars
  <2> DEFINE b == First(d.todo)
  <2>1. IsDelivery(d) /\ d.step = "force"
    BY <1>6 DEF ServiceInv, DeliveriesOK, JournalForced
  <2>2. d.revision \in RevisionIds /\ d.todo # {} /\ d.todo \subseteq Binding
    BY <2>1 DEF IsDelivery, DeliveryState
  <2>3. b \in Binding
    BY <2>2, FirstIsMember
  <2>4. CreateOperation(d.revision, b.endpoint, b.path, b.profile) \/ UNCHANGED vars
    BY <1>6 DEF JournalForced, storeVars
  <2> HIDE DEF b
  <2> QED
    BY <2>2, <2>3, <2>4, BindingTypes DEF Next
<1>7. ASSUME NEW c \in captures, Quarantine(c)
      PROVE  Next
  <2>1. {c} \in SUBSET captures /\ AbandonCaptures({c})
    BY <1>7 DEF Quarantine
  <2> QED
    BY <2>1 DEF Next
<1>8. ASSUME NEW e \in Endpoints, ConfirmAtOnce(e)
      PROVE  Next
  BY <1>8 DEF ConfirmAtOnce, Next
<1> QED
  BY <1>1, <1>2, <1>3, <1>4, <1>5, <1>6, <1>7, <1>8 DEF Handles, Handling

\* The delivery that RematerializeBinding starts, and where JournalForced takes it.
Rewriting == [Delivery(request.worker, current, "none") EXCEPT
                 !.todo = BindingsOf("windows"), !.step = "force"]

LEMMA RewritingIsDelivery ==
    ASSUME ServiceInv, RequestOK, WindowsMapped, Serving("changed"), MayRematerialize
    PROVE  IsDelivery(Rewriting)
<1>1. request.worker \in Workers
  BY DEF Serving, RequestOK
<1>2. current \in RevisionIds /\ current \in Nat
  BY NextIsNew DEF ServiceInv, MayRematerialize
<1>3. BindingsOf("windows") \in SUBSET Binding /\ BindingsOf("windows") # {}
  BY DEF ServiceInv, TypeInv, IsBindingTable, BindingsOf, WindowsMapped
<1>4. Rewriting \in DeliveryState
  BY <1>1, <1>2, <1>3 DEF Rewriting, Delivery, DeliveryState
<1>5. /\ Rewriting.revision = current /\ Rewriting.step = "force"
      /\ Rewriting.todo = BindingsOf("windows")
  BY DEF Rewriting, Delivery
<1> QED
  BY <1>2, <1>3, <1>4, <1>5 DEF IsDelivery

LEMMA HandlesInv ==
    ASSUME ServiceInv, RequestOK, WindowsMapped, Handles
    PROVE  ServiceInv' /\ RowsKept
<1>1. TypeInv' /\ RowsKept
  BY HandlesRows, RowsAreKept DEF ServiceInv
<1>2. FoldersOK /\ InputsOK /\ DeliveriesOK /\ TypeInv
  BY DEF ServiceInv
<1>3. ASSUME NEW b \in bindings, NEW file \in Payload, PlayConfigured(b, file)
      PROVE  ServiceInv'
  <2>1. b.endpoint \in Endpoints /\ file \in File
    BY <1>2, FilesAndPayloads DEF TypeInv, IsBindingTable, Binding
  <2>2. FoldersOK' /\ UNCHANGED <<inputs, deliveries>>
    BY <1>2, <1>3, <2>1 DEF PlayConfigured, FoldersOK, service
  <2> QED
    BY <1>1, <1>2, <2>2, DeliveriesAreKept DEF ServiceInv, InputsOK
<1>4. ASSUME hub' = hub, artifact' = artifact, names' = names, device' = device, index' = index,
             deliveries' = deliveries, InputsOK'
      PROVE  ServiceInv'
  <2>1. DeliveriesOK'
    BY <1>1, <1>2, <1>4, DeliveriesAreKept
  <2> QED
    BY <1>1, <1>2, <1>4, <2>1 DEF ServiceInv, FoldersOK
<1>5. /\ UNCHANGED inputs => InputsOK'
      /\ \A w : inputs' = [inputs EXCEPT ![w] = Idle] => InputsOK'
  BY <1>2, FilesAndPayloads DEF InputsOK
<1>6. ASSUME \/ \E w \in Workers, profile \in WindowsGBA : CaptureBefore(w, profile)
             \/ ChangeProfile \/ CaptureAfter \/ Answer
             \/ \E c \in captures : Quarantine(c)
             \/ \E e \in Endpoints : ConfirmAtOnce(e)
      PROVE  ServiceInv'
  <2>1. InputsOK'
    BY <1>5, <1>6 DEF CaptureBefore, ChangeProfile, CaptureAfter, Answer, Quarantine, ConfirmAtOnce, service
  <2>2. /\ hub' = hub /\ artifact' = artifact /\ names' = names /\ device' = device
        /\ index' = index /\ deliveries' = deliveries
    BY <1>6 DEF CaptureBefore, ChangeProfile, CaptureAfter, Answer, Quarantine, ConfirmAtOnce, service, folders
  <2> QED
    BY <1>4, <2>1, <2>2
<1>7. CASE RematerializeBinding
  <2>1. UNCHANGED <<hub, artifact, names, device, index, inputs>>
    BY <1>7 DEF RematerializeBinding, folders, DeliveryVars
  <2>2. CASE MayRematerialize
    <3>1. PICK d : d = Rewriting /\ deliveries' = deliveries \cup {d}
      BY <1>7, <2>2 DEF RematerializeBinding, Rewriting
    <3>2. IsDelivery(d)'
      BY <1>1, <1>7, <2>2, <3>1, RewritingIsDelivery, DeliveryIsKept DEF RematerializeBinding
    <3>3. DeliveriesOK'
      BY <1>1, <1>2, <3>1, <3>2, DeliveryBecomes
    <3> QED
      BY <1>1, <1>2, <2>1, <3>3 DEF ServiceInv, FoldersOK, InputsOK
  <2>3. CASE ~MayRematerialize
    <3>1. deliveries' = deliveries
      BY <1>7, <2>3 DEF RematerializeBinding
    <3> QED
      BY <1>1, <1>4, <1>5, <2>1, <3>1
  <2> QED
    BY <2>2, <2>3
<1>8. ASSUME NEW d \in deliveries, JournalForced(d)
      PROVE  ServiceInv'
  <2> DEFINE b == First(d.todo)
  <2>1. UNCHANGED <<hub, artifact, names, device, index, inputs>>
    BY <1>8 DEF JournalForced, folders, DeliveryVars
  <2>2. IsDelivery(d) /\ d.step = "force"
    BY <1>2, <1>8 DEF DeliveriesOK, JournalForced
  <2>3. ASSUME NEW i \in OperationIds',
               SameKey(operations'[i], d.revision, b.endpoint, b.path, b.profile),
               deliveries' = (deliveries \ {d}) \cup {[d EXCEPT !.step = "write", !.op = i]}
        PROVE  ServiceInv'
    <3> DEFINE next == [d EXCEPT !.step = "write", !.op = i]
    <3>1. i \in Nat
      BY <1>1, <2>3 DEF OperationIds, TypeInv, IsJournal
    <3>2. /\ next \in DeliveryState /\ next.step = "write" /\ next.op = i
          /\ next.todo = d.todo /\ next.revision = d.revision /\ d.revision \in RevisionIds
      BY <2>2, <3>1 DEF IsDelivery, DeliveryState
    <3>3. d.todo # {}
      BY <2>2 DEF IsDelivery
    <3> HIDE DEF next
    <3>4. IsDelivery(next)'
      BY <1>1, <2>3, <3>2, <3>3 DEF IsDelivery, RowsKept
    <3>5. DeliveriesOK'
      BY <1>1, <1>2, <2>3, <3>4, DeliveryBecomes DEF next
    <3> QED
      BY <1>1, <1>2, <2>1, <3>5 DEF ServiceInv, FoldersOK, InputsOK
  <2>4. ASSUME CreateOperation(d.revision, b.endpoint, b.path, b.profile),
               Becomes(d, [d EXCEPT !.step = "write", !.op = Len(operations) + 1])
        PROVE  ServiceInv'
    <3>1. d.revision \in RevisionIds /\ d.todo # {} /\ d.todo \subseteq Binding
      BY <2>2 DEF IsDelivery, DeliveryState
    <3>2. b \in Binding
      BY <3>1, FirstIsMember
    <3> HIDE DEF b
    <3>3. b.endpoint \in Endpoints /\ b.path \in Paths /\ b.profile \in Profiles
      BY <3>2, BindingTypes
    <3>4. /\ Len(operations) + 1 \in OperationIds'
          /\ SameKey(operations'[Len(operations) + 1],
                     d.revision, b.endpoint, b.path, b.profile)
      BY <1>2, <2>4, <3>1, <3>3, CreatedOperation
    <3> QED
      BY <2>3, <2>4, <3>4 DEF Becomes
  <2>5. ASSUME NEW i \in OperationIds,
               SameKey(operations[i], d.revision, b.endpoint, b.path, b.profile),
               UNCHANGED storeVars, Becomes(d, [d EXCEPT !.step = "write", !.op = i])
        PROVE  ServiceInv'
    <3>1. /\ i \in OperationIds'
          /\ SameKey(operations'[i], d.revision, b.endpoint, b.path, b.profile)
      BY <2>5 DEF storeVars, vars, OperationIds
    <3> QED
      BY <2>3, <2>5, <3>1 DEF Becomes
  <2> HIDE DEF b
  <2> QED
    BY <1>8, <2>4, <2>5 DEF JournalForced, b
<1> QED
  BY <1>1, <1>3, <1>6, <1>7, <1>8 DEF Handles, Handling

-----------------------------------------------------------------------------
(***************************************************************************)
(* The store's invariants hold here for any number of workers, although    *)
(* the system does not start empty.                                        *)
(***************************************************************************)
SwitchInv == ServiceInv /\ SwitchesOK /\ RequestOK /\ WindowsMapped /\ JournalInv /\ CopiesMatch

LEMMA HandlesSwitches ==
    ASSUME ServiceInv, SwitchesOK, Handles
    PROVE  SwitchesOK'
<1>1. ASSUME NEW b \in bindings, NEW file \in Payload, PlayConfigured(b, file)
      PROVE  SwitchesOK'
  <2>1. plays' \in 0 .. MaxPlays
    BY <1>1, BrokerBoundsAssumption DEF PlayConfigured, SwitchesOK
  <2>2. edited' \in [Endpoints -> BOOLEAN]
    BY <1>1 DEF PlayConfigured, SwitchesOK
  <2> QED
    BY <1>1, <2>1, <2>2 DEF PlayConfigured, SwitchesOK, service
<1>2. CASE Answer
  <2>1. timers' \in [Endpoints -> {"off", "plain", "confirm"}]
    BY <1>2 DEF Answer, SwitchesOK
  <2> QED
    BY <1>2, <2>1 DEF Answer, SwitchesOK, folders, bounds
<1>3. UNCHANGED <<propagation, enabling, timers, complete, edited, plays, faults>> => SwitchesOK'
  BY DEF SwitchesOK
<1>4. \/ UNCHANGED <<propagation, enabling, timers, complete, edited, plays, faults>>
      \/ \E b \in bindings, file \in Payload : PlayConfigured(b, file)
      \/ Answer
  BY DEF Handles, Handling, CaptureBefore, ChangeProfile, RematerializeBinding, CaptureAfter, JournalForced,
         Quarantine, ConfirmAtOnce, service, folders, bounds, DeliveryVars
<1> QED
  BY <1>1, <1>2, <1>3, <1>4

LEMMA SwitchStep ==
    ASSUME SwitchInv, [SwitchNext]_switchVars
    PROVE  SwitchInv' /\ [Next]_vars
<1>1. ServiceInv' /\ [Next]_vars
  <2>1. CASE Handles
    BY <2>1, HandlesInv, HandlesRows DEF SwitchInv
  <2>2. CASE Serves
    BY <2>2, ServiceStep DEF SwitchInv, Serves, BrokerNext
  <2>3. CASE UNCHANGED switchVars
    BY <2>3, ServiceStep DEF SwitchInv, switchVars
  <2> QED
    BY <2>1, <2>2, <2>3, SwitchSteps
<1>2. SwitchesOK'
  <2>1. CASE Serves \/ UNCHANGED switchVars
    BY <2>1, SwitchesStep DEF SwitchInv, Serves, BrokerNext, switchVars
  <2> QED
    BY <2>1, HandlesSwitches, SwitchSteps DEF SwitchInv
<1> QED
  BY <1>1, <1>2, RequestTypes, MappedStays, JournalStep, CopiesStep DEF SwitchInv, ServiceInv

\* The first save has the type of a revision, its two bindings that of bindings,
\* its delivery that of an operation.
LEMMA SwitchStarts ==
    ASSUME SwitchInit
    PROVE  SwitchInv /\ HistoryInv /\ BaselineOnHeadLine
<1>1. PICK content \in Payload, profile \in WindowsGBA, path \in Paths :
         /\ revisions = <<[parent |-> NoRevision, content |-> content, source |-> "windows",
                           kind |-> "captured", from |-> NoRevision, state |-> "head"]>>
         /\ bindings = {[endpoint |-> EndpointOf(q), path |-> path, profile |-> q,
                         lastDeployed |-> 1] : q \in {"thor-mgba", profile}}
         /\ operations = <<[revision |-> 1, endpoint |-> "thor", path |-> path,
                            profile |-> "thor-mgba", file |-> Encode("thor-mgba", content),
                            state |-> "delivered"]>>
         /\ hub = [e \in Endpoints |-> IF e = "windows" THEN content
                                       ELSE Encode("thor-mgba", content)]
  BY DEF SwitchInit
<1>2. profile \in Profiles /\ EndpointOf(profile) = "windows" /\ EndpointOf("thor-mgba") = "thor"
      /\ profile # "thor-mgba"
  BY DEF WindowsGBA, EndpointOf
<1>3. Encode("thor-mgba", content) \in Payload
  BY DEF Encode, CarriesRtc, Payload
<1>4. /\ Len(revisions) = 1 /\ revisions[1] \in Revision /\ revisions \in Seq(Revision)
      /\ revisions[1].state = "head" /\ revisions[1].parent = NoRevision
      /\ revisions[1].content = content
  BY <1>1 DEF Revision, Endpoints, NoRevision
<1>5. IsBindingTable(bindings, 1)
  BY <1>1, <1>2 DEF IsBindingTable, Binding, Endpoints, Profiles
<1>6. /\ Len(operations) = 1 /\ operations \in Seq(Operation)
      /\ operations[1].revision = 1 /\ HoldsItsRevision(operations[1])
  BY <1>1, <1>3, <1>4 DEF Operation, Endpoints, Profiles, HoldsItsRevision
<1>7. IsJournal(operations, 1) /\ JournalInv
  BY <1>6 DEF IsJournal, JournalInv, OperationIds
<1>8. /\ current = 1 /\ status = "healthy" /\ conflicts = {} /\ captures = {} /\ deliveries = {}
      /\ requests = [k \in Keys |-> NoRevision]
  BY DEF SwitchInit
<1>9. TypeInv
  BY <1>4, <1>5, <1>7, <1>8 DEF TypeInv, IsCaptureSet, NoRevision
<1>10. FoldersOK /\ InputsOK /\ DeliveriesOK
  <2>1. hub \in [Endpoints -> File]
    BY <1>1, <1>3, FilesAndPayloads
  <2> QED
    BY <1>8, <2>1, FilesAndPayloads DEF SwitchInit, FoldersOK, InputsOK, DeliveriesOK
<1>11. RequestOK
  BY DEF SwitchInit, RequestOK, NoRequest
<1>12. WindowsMapped
  <2>1. [endpoint |-> EndpointOf(profile), path |-> path, profile |-> profile, lastDeployed |-> 1]
           \in bindings
    BY <1>1
  <2> QED
    BY <1>2, <2>1 DEF WindowsMapped
<1>13. SwitchesOK
  <2>1. /\ propagation = TRUE /\ enabling = FALSE
        /\ timers = [e \in Endpoints |-> "off"]
        /\ complete = [e \in Endpoints |-> FALSE]
        /\ edited = [e \in Endpoints |-> FALSE]
        /\ plays = 0 /\ faults = 0
    BY DEF SwitchInit
  <2>2. timers \in [Endpoints -> {"off", "plain", "confirm"}]
    BY <2>1
  <2>3. complete \in [Endpoints -> BOOLEAN] /\ edited \in [Endpoints -> BOOLEAN]
    BY <2>1
  <2>4. plays \in 0 .. MaxPlays /\ faults \in 0 .. MaxFaults
    BY <2>1, BrokerBoundsAssumption
  <2>5. propagation \in BOOLEAN /\ enabling \in BOOLEAN
    BY <2>1
  <2> QED
    BY <2>2, <2>3, <2>4, <2>5 DEF SwitchesOK
<1>14. RevisionIds = {1} /\ HeadLine = {1}
  BY <1>4 DEF RevisionIds, HeadLine
<1>15. HistoryInv
  BY <1>4, <1>8, <1>14 DEF HistoryInv, HeadIsCurrent, LinearHistory, NewestIsHead, IsBaseline, NoRevision
<1>16. BaselineOnHeadLine
  BY <1>1, <1>6, <1>8, <1>14 DEF BaselineOnHeadLine, IsBaseline, OperationIds
<1> QED
  BY <1>7, <1>8, <1>9, <1>10, <1>11, <1>12, <1>13, <1>15, <1>16 DEF SwitchInv, ServiceInv, CopiesMatch

\* What is right of the store's tables stays right while emulators are changed,
\* whoever overtakes the handler: types, one head, one line, baselines on it.
THEOREM SwitchKeepsHistory ==
    SwitchSpec => []SwitchInv /\ [](HeadIsCurrent /\ LinearHistory /\ BaselineOnHeadLine)
<1>1. SwitchInit => SwitchInv /\ HistoryInv /\ BaselineOnHeadLine
  BY SwitchStarts
<1>2. SwitchInv /\ [SwitchNext]_switchVars => SwitchInv'
  BY SwitchStep
<1>3. SwitchInv /\ HistoryInv /\ [SwitchNext]_switchVars => HistoryInv'
  BY SwitchStep, HistoryStep DEF SwitchInv, ServiceInv
<1>4. SwitchInv /\ HistoryInv /\ BaselineOnHeadLine /\ [SwitchNext]_switchVars => BaselineOnHeadLine'
  BY SwitchStep, BaselineStep DEF SwitchInv, ServiceInv
<1>5. HistoryInv => HeadIsCurrent /\ LinearHistory
  BY DEF HistoryInv
<1> QED
  BY <1>1, <1>2, <1>3, <1>4, <1>5, PTL DEF SwitchSpec

-----------------------------------------------------------------------------
(***************************************************************************)
(* While a request is served the Windows emulator is closed, so its file   *)
(* changes only by a write of the broker, and that is held by a revision.  *)
(***************************************************************************)
\* The handler's capture has archived the Windows file, unless a delivery has
\* replaced it since.
ReadsFolder(c) ==
    /\ c.binding.endpoint = "windows"
    /\ ~inputs[c.worker].force
    /\ inputs[c.worker].file \in {NoFile, hub["windows"]} \/ IsKept(hub["windows"])

\* What the handler's capture delivers goes to the other device.
SparesWindows(d) == d.source = "windows" /\ \A b \in d.todo : b.endpoint # "windows"

TargetsMatch == \A d \in deliveries : \A b \in d.todo : EndpointOf(b.profile) = b.endpoint

HandlerOK ==
    request.step # "none" =>
        /\ ~edited["windows"]
        /\ \A c \in captures : c.worker = request.worker => ReadsFolder(c)
        /\ \/ request.step = "rewriting"
           \/ \A d \in deliveries : d.worker = request.worker => SparesWindows(d)
        /\ request.captured \/ request.step \in {"changed", "rewriting"} => IsKept(hub["windows"])

FileInv == SwitchInv /\ TargetsMatch /\ HandlerOK

\* A file that a revision holds stays held.
LEMMA KeptStays ==
    ASSUME SwitchInv, [SwitchNext]_switchVars, NEW file, IsKept(file)
    PROVE  \E i \in RevisionIds', profile \in WindowsGBA :
              Encode(profile, revisions'[i].content) = file
<1>1. PICK i \in RevisionIds, profile \in WindowsGBA : Encode(profile, revisions[i].content) = file
  BY DEF IsKept
<1>2. i \in RevisionIds' /\ revisions'[i].content = revisions[i].content
  BY SwitchStep, ContentStays DEF SwitchInv, ServiceInv, RevisionIds
<1>3. Encode(profile, revisions'[i].content) = file
  BY <1>1, <1>2 DEF Encode
<1> QED
  BY <1>2, <1>3

\* What is written for a Windows binding is a revision in a Windows format.
LEMMA WindowsWrite ==
    ASSUME FileInv, [SwitchNext]_switchVars, NEW d \in deliveries, WriteTarget(d),
           First(d.todo).endpoint = "windows"
    PROVE  IsKept(hub["windows"])'
<1> DEFINE t == First(d.todo)
           op == operations[d.op]
<1>1. IsDelivery(d) /\ d.step = "write" /\ d.todo # {}
  BY DEF FileInv, SwitchInv, ServiceInv, DeliveriesOK, IsDelivery, WriteTarget
<1>2. /\ d.op \in OperationIds /\ d.revision \in RevisionIds /\ t.profile \in Profiles
      /\ op.revision = d.revision /\ op.profile = t.profile
  BY <1>1, FirstIsMember, BindingTypes DEF IsDelivery, SameKey, DeliveryState
<1>3. t.profile \in WindowsGBA
  BY <1>1, <1>2, FirstIsMember DEF FileInv, TargetsMatch, WindowsGBA
<1>4. op.file = Encode(t.profile, revisions[d.revision].content)
  BY <1>2 DEF FileInv, SwitchInv, JournalInv, HoldsItsRevision, Encode
<1>5. hub' = [hub EXCEPT !["windows"] = op.file] /\ hub \in [Endpoints -> File]
  BY DEF WriteTarget, FileInv, SwitchInv, ServiceInv, FoldersOK
<1>6. hub'["windows"] = op.file
  BY <1>5 DEF Endpoints
<1>7. IsKept(op.file)
  BY <1>2, <1>3, <1>4 DEF IsKept
<1>8. PICK file : file = op.file
  OBVIOUS
<1> QED
  BY <1>6, <1>7, <1>8, KeptStays DEF FileInv, IsKept

\* The Windows file stays, or is one that a revision holds; no edit arrives.
LEMMA WindowsStays ==
    ASSUME FileInv, [SwitchNext]_switchVars, request.step # "none"
    PROVE  /\ ~edited'["windows"]
           /\ hub'["windows"] = hub["windows"] \/ IsKept(hub["windows"])'
           /\ IsKept(hub["windows"]) => IsKept(hub["windows"])'
<1>1. /\ hub \in [Endpoints -> File] /\ edited \in [Endpoints -> BOOLEAN] /\ ~edited["windows"]
      /\ \A b \in bindings : b.endpoint \in Endpoints
  BY DEF FileInv, SwitchInv, ServiceInv, FoldersOK, SwitchesOK, HandlerOK, TypeInv, IsBindingTable, Binding
<1>2. ASSUME ~edited'["windows"], hub'["windows"] = hub["windows"] \/ IsKept(hub["windows"])'
      PROVE  /\ ~edited'["windows"]
             /\ hub'["windows"] = hub["windows"] \/ IsKept(hub["windows"])'
             /\ IsKept(hub["windows"]) => IsKept(hub["windows"])'
  BY <1>2, KeptStays DEF FileInv, IsKept
<1>3. ASSUME NEW b \in bindings, NEW file \in Payload, PlayConfigured(b, file)
      PROVE  ~edited'["windows"] /\ hub' = hub
  BY <1>1, <1>3 DEF PlayConfigured, Serving, Endpoints
<1>4. ASSUME NEW e \in Endpoints, Upload(e) \/ Collide(e)
      PROVE  ~edited'["windows"] /\ hub'["windows"] = hub["windows"]
  <2>1. e # "windows"
    BY <1>1, <1>4 DEF Upload, Collide
  <2>2. hub'["windows"] = hub["windows"] /\ edited'["windows"] = edited["windows"]
    BY <1>1, <1>4, <2>1 DEF Upload, Collide, Endpoints
  <2> QED
    BY <1>1, <2>2
<1>5. ASSUME NEW d \in deliveries, WriteTarget(d)
      PROVE  ~edited'["windows"] /\ (hub'["windows"] = hub["windows"] \/ IsKept(hub["windows"])')
  <2>1. First(d.todo).endpoint # "windows" => hub'["windows"] = hub["windows"]
    BY <1>1, <1>5 DEF WriteTarget, Endpoints
  <2>2. edited' = edited
    BY <1>5 DEF WriteTarget
  <2> QED
    BY <1>1, <1>5, <2>1, <2>2, WindowsWrite
<1>6. \/ UNCHANGED <<hub, edited>>
      \/ \E b \in bindings, file \in Payload : PlayConfigured(b, file)
      \/ \E e \in Endpoints : Upload(e) \/ Collide(e)
      \/ \E d \in deliveries : WriteTarget(d)
  <2>1. Handles => \/ UNCHANGED <<hub, edited>>
                   \/ \E b \in bindings, file \in Payload : PlayConfigured(b, file)
    BY DEF Handles, Handling, CaptureBefore, ChangeProfile, RematerializeBinding, CaptureAfter, Answer,
           JournalForced, Quarantine, ConfirmAtOnce, folders
  <2>2. ServesFolders => UNCHANGED <<hub, edited>> \/ \E e \in Endpoints : Upload(e) \/ Collide(e)
    BY DEF ServesFolders, Scan, Download, Reconcile, folders
  <2>3. ServesCaptures => UNCHANGED <<hub, edited>>
    BY DEF ServesCaptures, BeginCapture, BeginConflictCapture, PutFile, IngestFor, Ingest,
           AbortCapture, folders
  <2>4. ServesDeliveries => UNCHANGED <<hub, edited>> \/ \E d \in deliveries : WriteTarget(d)
    BY DEF ServesDeliveries, ListTargets, Journal, FailWrite, AbandonDelivery, MarkWritten, folders
  <2>5. (CrashAndForget \/ UNCHANGED switchVars) => UNCHANGED <<hub, edited>>
    BY DEF CrashAndForget, Crash, folders, switchVars, brokerVars
  <2> QED
    BY <2>1, <2>2, <2>3, <2>4, <2>5, SwitchActions
<1> QED
  BY <1>1, <1>2, <1>3, <1>4, <1>5, <1>6

\* Nobody but the handler captures in its name; what it read changes when it
\* reads the file, or is forgotten.
LEMMA HandlerCaptures ==
    ASSUME FileInv, [SwitchNext]_switchVars, request.step # "none",
           NEW c \in captures', c.worker = request.worker
    PROVE  ReadsFolder(c)'
<1> DEFINE w == request.worker
<1>1. /\ inputs \in [Workers -> CaptureState] /\ w \in Workers
      /\ \A x \in captures : x.worker \in Workers
      /\ \A x \in captures : x.worker = w => ReadsFolder(x)
  BY DEF FileInv, SwitchInv, ServiceInv, InputsOK, RequestOK, TypeInv, IsCaptureSet, Capture, HandlerOK
<1>2. /\ hub'["windows"] = hub["windows"] \/ IsKept(hub["windows"])'
      /\ IsKept(hub["windows"]) => IsKept(hub["windows"])'
  BY WindowsStays
<1>3. ASSUME c.binding.endpoint = "windows", inputs'[w] = Idle
      PROVE  ReadsFolder(c)'
  BY <1>3 DEF ReadsFolder, Idle
<1>4. ASSUME c \in captures, inputs'[w] = inputs[w]
      PROVE  ReadsFolder(c)'
  BY <1>1, <1>2, <1>4 DEF ReadsFolder
<1>5. ASSUME c \in captures, inputs'[w] = Idle
      PROVE  ReadsFolder(c)'
  BY <1>1, <1>3, <1>5 DEF ReadsFolder
<1> HIDE DEF w
<1>6. CASE Handles
  <2>1. CASE CaptureAfter
    <3>1. inputs'[w] = Idle
      BY <1>1, <2>1 DEF CaptureAfter, w
    <3>2. c \in captures \/ c.binding.endpoint = "windows"
      BY <2>1 DEF CaptureAfter, FindBinding, BindingsOf
    <3> QED
      BY <1>3, <1>5, <3>1, <3>2
  <2>2. ASSUME NEW x \in captures, Quarantine(x)
        PROVE  ReadsFolder(c)'
    <3>1. inputs'[w] = inputs[w] \/ inputs'[w] = Idle
      BY <1>1, <2>2 DEF Quarantine
    <3>2. c \in captures
      BY <2>2 DEF Quarantine, AbandonCaptures
    <3> QED
      BY <1>4, <1>5, <3>1, <3>2
  <2>3. CASE captures' = captures /\ inputs' = inputs
    BY <1>4, <2>3
  <2>4. \/ CaptureAfter
        \/ \E x \in captures : Quarantine(x)
        \/ captures' = captures /\ inputs' = inputs
    BY <1>6 DEF Handles, Handling, PlayConfigured, CaptureBefore, Serving, ChangeProfile,
                ConfigureWindowsGBAProfile, RematerializeBinding, Answer, JournalForced, CreateOperation,
                ConfirmAtOnce, CompleteEndpointDeliveries, DeliveryVars, service, storeVars, vars
  <2> QED
    BY <2>1, <2>2, <2>3, <2>4
<1>7. CASE ServesCaptures
  <2>1. ASSUME NEW v \in Workers, NEW e \in Endpoints, IsOther(v),
               BeginCapture(v, e) \/ BeginConflictCapture(v, e)
        PROVE  ReadsFolder(c)'
    <3>1. v # w
      BY <2>1 DEF IsOther, w
    <3>2. c \in captures
      BY <2>1, <3>1 DEF BeginCapture, BeginConflictCapture, FindBinding, w
    <3>3. inputs'[w] = inputs[w]
      BY <1>1, <2>1, <3>1 DEF BeginCapture, BeginConflictCapture
    <3> QED
      BY <1>4, <3>2, <3>3
  <2>2. ASSUME NEW x \in captures, PutFile(x)
        PROVE  ReadsFolder(c)'
    <3>1. c \in captures
      BY <2>2 DEF PutFile, storeVars, vars
    <3>2. CASE x.worker # w
      <4>1. inputs'[w] = inputs[w]
        BY <1>1, <2>2, <3>2 DEF PutFile
      <4> QED
        BY <1>4, <3>1, <4>1
    <3>3. CASE x.worker = w
      <4>1. /\ x.binding.endpoint = "windows" /\ ~inputs[w].force
            /\ c.binding.endpoint = "windows"
        BY <1>1, <3>1, <3>3 DEF ReadsFolder, w
      <4>2. inputs' = [inputs EXCEPT ![w].file = hub["windows"]] /\ hub' = hub
        BY <2>2, <3>3, <4>1 DEF PutFile, folders
      <4>3. inputs[w] \in CaptureState /\ inputs'[w] = [inputs[w] EXCEPT !.file = hub["windows"]]
        BY <1>1, <4>2
      <4>4. inputs'[w].file = hub["windows"] /\ inputs'[w].force = inputs[w].force
        BY <4>3 DEF CaptureState
      <4> QED
        BY <4>1, <4>2, <4>4 DEF ReadsFolder, w
    <3> QED
      BY <3>2, <3>3
  <2>3. ASSUME NEW x \in captures, Ingest(x) \/ AbortCapture(x)
        PROVE  ReadsFolder(c)'
    <3>1. c \in captures
      BY <2>3 DEF Ingest, AbortCapture, RecordIngest, AbandonCaptures
    <3>2. inputs'[w] = inputs[w] \/ inputs'[w] = Idle
      BY <1>1, <2>3 DEF Ingest, AbortCapture
    <3> QED
      BY <1>4, <1>5, <3>1, <3>2
  <2> QED
    BY <1>7, <2>1, <2>2, <2>3 DEF ServesCaptures, IngestFor
<1>8. CASE ServesFolders \/ ServesDeliveries \/ CrashAndForget \/ UNCHANGED switchVars
  <2>1. c \in captures
    BY <1>8 DEF ServesFolders, ServesDeliveries, CrashAndForget, Crash, Upload, Scan, Download, Collide,
                Reconcile, ListTargets, Journal, CreateOperation, WriteTarget, FailWrite, AbandonDelivery,
                MarkWritten, UpdateOperation, switchVars, brokerVars, storeVars, vars
  <2>2. inputs'[w] = inputs[w] \/ inputs'[w] = Idle
    BY <1>1, <1>8 DEF ServesFolders, ServesDeliveries, CrashAndForget, Crash, Upload, Scan, Download, Collide,
                Reconcile, ListTargets, Journal, WriteTarget, FailWrite, AbandonDelivery,
                MarkWritten, DeliveryVars, switchVars, brokerVars, service
  <2> QED
    BY <1>4, <1>5, <2>1, <2>2
<1> QED
  BY <1>6, <1>7, <1>8, SwitchActions

\* A delivery is an earlier one with its bindings, those it listed, or fewer; or
\* it starts with an ingest; or it is the rewriting.
LEMMA DeliveriesGo ==
    ASSUME FileInv, [SwitchNext]_switchVars, NEW x \in deliveries'
    PROVE  \/ \E o \in deliveries :
                 /\ x.worker = o.worker /\ x.source = o.source
                 /\ \A b \in x.todo : b \in o.todo \/ (b \in bindings /\ b.endpoint # o.source)
           \/ \E c \in captures : /\ Ingest(c) /\ x.worker = c.worker
                                  /\ x.source = c.binding.endpoint /\ x.todo = {}
           \/ RematerializeBinding /\ x.todo \subseteq bindings
<1> DEFINE From(o, y) == /\ y.worker = o.worker /\ y.source = o.source
                         /\ \A b \in y.todo : b \in o.todo \/ (b \in bindings /\ b.endpoint # o.source)
           Goal == \/ \E o \in deliveries : From(o, x)
                   \/ \E c \in captures : /\ Ingest(c) /\ x.worker = c.worker
                                          /\ x.source = c.binding.endpoint /\ x.todo = {}
                   \/ RematerializeBinding /\ x.todo \subseteq bindings
<1>1. \A d \in deliveries : d \in DeliveryState
  BY DEF FileInv, SwitchInv, ServiceInv, DeliveriesOK, IsDelivery
<1>2. CASE x \in deliveries
  BY <1>2
<1>3. ASSUME NEW d \in deliveries, NEW next, Becomes(d, next), From(d, next)
      PROVE  Goal
  BY <1>2, <1>3 DEF Becomes
<1>4. ASSUME NEW d \in deliveries, NEW i, Becomes(d, [d EXCEPT !.step = "write", !.op = i])
      PROVE  Goal
  <2> DEFINE next == [d EXCEPT !.step = "write", !.op = i]
  <2>1. next.worker = d.worker /\ next.source = d.source /\ next.todo = d.todo
    BY <1>1 DEF DeliveryState
  <2> HIDE DEF next
  <2>2. From(d, next)
    BY <2>1
  <2> HIDE DEF From
  <2> QED
    BY <1>3, <1>4, <2>2 DEF next
<1>5. ASSUME NEW d \in deliveries, Continue(d)
      PROVE  Goal
  <2> DEFINE rest == d.todo \ {First(d.todo)}
             next == [d EXCEPT !.todo = rest, !.step = "journal", !.op = 0]
  <2>1. next.worker = d.worker /\ next.source = d.source /\ next.todo = rest
    BY <1>1 DEF DeliveryState
  <2>2. deliveries' \subseteq deliveries \/ Becomes(d, next)
    BY <1>5 DEF Continue
  <2> HIDE DEF next
  <2>3. From(d, next)
    BY <2>1
  <2>4. CASE deliveries' \subseteq deliveries
    BY <1>2, <2>4
  <2> HIDE DEF From
  <2>5. CASE Becomes(d, next)
    BY <1>3, <2>3, <2>5
  <2> QED
    BY <2>2, <2>4, <2>5
<1>6. CASE ServesDeliveries
  <2>1. ASSUME NEW d \in deliveries, ListTargets(d)
        PROVE  Goal
    <3> DEFINE targets == {b \in bindings : b.endpoint # d.source /\ b.lastDeployed # d.revision}
               next == [d EXCEPT !.todo = targets, !.step = "journal"]
    <3>1. next.worker = d.worker /\ next.source = d.source /\ next.todo = targets
      BY <1>1 DEF DeliveryState
    <3>2. deliveries' \subseteq deliveries \/ Becomes(d, next)
      BY <2>1 DEF ListTargets
    <3> HIDE DEF next
    <3>3. From(d, next)
      BY <3>1
    <3>4. CASE deliveries' \subseteq deliveries
      BY <1>2, <3>4
    <3> HIDE DEF From
    <3>5. CASE Becomes(d, next)
      BY <1>3, <3>3, <3>5
    <3> QED
      BY <3>2, <3>4, <3>5
  <2>2. ASSUME NEW d \in deliveries, Journal(d)
        PROVE  Goal
    <3>1. Continue(d) \/ \E i : Becomes(d, [d EXCEPT !.step = "write", !.op = i])
      BY <2>2 DEF Journal
    <3> QED
      BY <1>4, <1>5, <3>1
  <2>3. ASSUME NEW d \in deliveries, WriteTarget(d)
        PROVE  Goal
    <3> DEFINE next == [d EXCEPT !.step = "mark"]
    <3>1. next.worker = d.worker /\ next.source = d.source /\ next.todo = d.todo
      BY <1>1 DEF DeliveryState
    <3>2. Becomes(d, next)
      BY <2>3 DEF WriteTarget
    <3> HIDE DEF next
    <3>3. From(d, next)
      BY <3>1
    <3> HIDE DEF From
    <3> QED
      BY <1>3, <3>2, <3>3
  <2>4. ASSUME NEW d \in deliveries, MarkWritten(d)
        PROVE  Goal
    BY <1>5, <2>4 DEF MarkWritten
  <2>5. ASSUME NEW d \in deliveries, FailWrite(d) \/ AbandonDelivery(d)
        PROVE  Goal
    BY <1>2, <2>5 DEF FailWrite, AbandonDelivery
  <2> QED
    BY <1>6, <2>1, <2>2, <2>3, <2>4, <2>5 DEF ServesDeliveries
<1>7. CASE Handles
  <2>1. ASSUME NEW d \in deliveries, JournalForced(d)
        PROVE  Goal
    <3>1. \E i : Becomes(d, [d EXCEPT !.step = "write", !.op = i])
      BY <2>1 DEF JournalForced
    <3> QED
      BY <1>4, <3>1
  <2>2. CASE RematerializeBinding
    <3>1. x \in deliveries \/ x = Rewriting
      BY <2>2 DEF RematerializeBinding, Rewriting
    <3>2. Rewriting.todo = BindingsOf("windows")
      BY DEF Rewriting, Delivery
    <3> QED
      BY <1>2, <2>2, <3>1, <3>2 DEF BindingsOf
  <2>3. \/ deliveries' = deliveries
        \/ RematerializeBinding
        \/ \E d \in deliveries : JournalForced(d)
    BY <1>7 DEF Handles, Handling, PlayConfigured, CaptureBefore, ChangeProfile, CaptureAfter, Answer,
                Quarantine, ConfirmAtOnce, service
  <2> QED
    BY <1>2, <2>1, <2>2, <2>3
<1>8. ASSUME NEW c \in captures, Ingest(c)
      PROVE  Goal
  <2>1. x \in deliveries \/ x = Delivery(c.worker, current', c.binding.endpoint)
    BY <1>8 DEF Ingest
  <2>2. LET d == Delivery(c.worker, current', c.binding.endpoint)
        IN  d.worker = c.worker /\ d.source = c.binding.endpoint /\ d.todo = {}
    BY DEF Delivery
  <2> QED
    BY <1>2, <1>8, <2>1, <2>2
<1>9. CASE ServesCaptures /\ ~ \E c \in captures : Ingest(c)
  BY <1>2, <1>9 DEF ServesCaptures, BeginCapture, BeginConflictCapture, PutFile, IngestFor, AbortCapture
<1>10. CASE ServesFolders \/ CrashAndForget \/ UNCHANGED switchVars
  BY <1>2, <1>10 DEF ServesFolders, CrashAndForget, Crash, Upload, Scan, Download, Collide, Reconcile,
                     switchVars, brokerVars, service
<1> QED
  BY <1>6, <1>7, <1>8, <1>9, <1>10, SwitchActions

LEMMA TargetsStep ==
    ASSUME FileInv, [SwitchNext]_switchVars
    PROVE  TargetsMatch'
<1>1. \A b \in bindings : EndpointOf(b.profile) = b.endpoint
  BY DEF FileInv, SwitchInv, ServiceInv, TypeInv, IsBindingTable
<1> SUFFICES ASSUME NEW x \in deliveries', NEW b \in x.todo
             PROVE  EndpointOf(b.profile) = b.endpoint
  BY DEF TargetsMatch
<1> QED
  BY <1>1, DeliveriesGo DEF FileInv, TargetsMatch

\* Before the rewriting, the handler delivers only what it captured.
LEMMA HandlerSpares ==
    ASSUME FileInv, [SwitchNext]_switchVars, ~RematerializeBinding,
           request.step # "none", request.step # "rewriting",
           NEW d \in deliveries', d.worker = request.worker
    PROVE  SparesWindows(d)
<1>1. CASE \E o \in deliveries :
              /\ d.worker = o.worker /\ d.source = o.source
              /\ \A b \in d.todo : b \in o.todo \/ (b \in bindings /\ b.endpoint # o.source)
  BY <1>1 DEF FileInv, HandlerOK, SparesWindows
<1>2. CASE \E c \in captures : /\ Ingest(c) /\ d.worker = c.worker
                               /\ d.source = c.binding.endpoint /\ d.todo = {}
  BY <1>2 DEF FileInv, HandlerOK, ReadsFolder, SparesWindows
<1> QED
  BY <1>1, <1>2, DeliveriesGo

\* Its capture ends: what the folder holds is in a revision now.
LEMMA HandlerIngest ==
    ASSUME FileInv, [SwitchNext]_switchVars, request.step # "none",
           NEW c \in captures, Ingest(c), c.worker = request.worker
    PROVE  IsKept(hub["windows"])'
<1>1. ServiceInv /\ JournalInv /\ TypeInv /\ [Next]_vars /\ ReadsFolder(c) /\ c.worker \in Workers
  BY SwitchStep DEF FileInv, SwitchInv, ServiceInv, HandlerOK, TypeInv, IsCaptureSet, Capture
<1>2. /\ inputs[c.worker].file # NoFile
      /\ RecordIngest(c, inputs[c.worker].file, inputs[c.worker].force, inputs[c.worker].confirm)
      /\ hub' = hub
  BY DEF Ingest
<1>3. IsKept(hub["windows"]) => IsKept(hub["windows"])'
  BY WindowsStays
<1>4. CASE inputs[c.worker].file = hub["windows"]
  <2>1. /\ inputs[c.worker].file \in Payload /\ inputs[c.worker].force \in BOOLEAN
        /\ inputs[c.worker].confirm \in BOOLEAN
    BY <1>1, <1>2, FilesAndPayloads DEF ServiceInv, InputsOK, CaptureState
  <2>2. PICK i \in RevisionIds' : Encode(c.binding.profile, revisions'[i].content) = hub["windows"]
    BY <1>1, <1>2, <1>4, <2>1, RecoverStep DEF RevisionIds
  <2>3. c.binding.profile \in WindowsGBA
    BY <1>1 DEF FileInv, SwitchInv, ReadsFolder, WindowsGBA, CopiesMatch, TypeInv, IsCaptureSet, Capture, Binding
  <2> QED
    BY <1>2, <2>2, <2>3 DEF IsKept
<1> QED
  BY <1>1, <1>2, <1>3, <1>4 DEF ReadsFolder

\* The request goes on, ends, or learns that its capture was ingested.
LEMMA RequestGoes ==
    ASSUME FileInv, [SwitchNext]_switchVars, request.step # "none"
    PROVE  \/ request' = request
           \/ request'.step = "none"
           \/ /\ request'.worker = request.worker
              /\ \/ ChangeProfile /\ ~request'.captured
                    /\ request'.step = (IF request.captured THEN "changed" ELSE "uncaptured")
                 \/ RematerializeBinding /\ request.step = "changed" /\ request'.captured = request.captured
                 \/ CaptureAfter /\ request'.captured = request.captured
                    /\ request.step = "uncaptured" /\ request'.step = "recaptured"
                 \/ /\ request'.step = request.step
                    /\ \E c \in captures : Ingest(c) /\ c.worker = request.worker
<1>1. request \in [step : {"none", "captured", "changed", "uncaptured", "rewriting", "recaptured"},
                   worker : Workers \cup {"none"}, profile : WindowsGBA \cup {"none"},
                   captured : BOOLEAN]
  BY DEF FileInv, SwitchInv, RequestOK
<1>2. CASE ChangeProfile
  BY <1>1, <1>2 DEF ChangeProfile, PreCaptured
<1>3. CASE RematerializeBinding
  BY <1>1, <1>3 DEF RematerializeBinding, Goes, Serving
<1>4. CASE CaptureAfter
  BY <1>1, <1>4 DEF CaptureAfter, Goes, Serving
<1>5. CASE Answer \/ CrashAndForget
  BY <1>5 DEF Answer, CrashAndForget, NoRequest
<1>6. ASSUME NEW c \in captures, IngestFor(c)
      PROVE  \/ request' = request
             \/ /\ Ingest(c) /\ c.worker = request.worker
                /\ request'.worker = request.worker /\ request'.step = request.step
  BY <1>1, <1>6 DEF IngestFor, IsOther
<1>7. \/ request' = request
      \/ ChangeProfile \/ RematerializeBinding \/ CaptureAfter \/ Answer \/ CrashAndForget
      \/ \E c \in captures : IngestFor(c)
  BY DEF SwitchNext, PlayConfigured, CaptureBefore, Serving, Handling, JournalForced, Quarantine, Fail,
         handler, switchVars
<1> QED
  BY <1>2, <1>3, <1>4, <1>5, <1>6, <1>7

\* The request begins with the capture of the file, on a free goroutine.
LEMMA HandlerBegins ==
    ASSUME FileInv, NEW w \in Workers, NEW profile \in WindowsGBA, CaptureBefore(w, profile)
    PROVE  HandlerOK'
<1>1. request' = [step |-> "captured", worker |-> w, profile |-> profile, captured |-> FALSE]
  BY DEF CaptureBefore
<1>2. inputs'[w] = Idle /\ ~edited'["windows"] /\ deliveries' = deliveries
  BY DEF CaptureBefore, FileInv, SwitchInv, ServiceInv, InputsOK, folders
<1>3. \A c \in captures' : c.worker = w => c.binding.endpoint = "windows"
  BY DEF CaptureBefore, FindBinding, IsFree, BindingsOf
<1>4. \A d \in deliveries' : d.worker # w
  BY <1>2 DEF CaptureBefore, IsFree
<1>5. \A c \in captures' : c.worker = w => ReadsFolder(c)'
  BY <1>2, <1>3 DEF ReadsFolder, Idle
<1> QED
  BY <1>1, <1>2, <1>4, <1>5 DEF HandlerOK

LEMMA HandlerStep ==
    ASSUME FileInv, [SwitchNext]_switchVars
    PROVE  HandlerOK'
<1>1. CASE request.step = "none"
  <2>1. \/ request' = request
        \/ \E w \in Workers, profile \in WindowsGBA : CaptureBefore(w, profile)
        \/ request'.step = "none"
    BY <1>1 DEF SwitchNext, PlayConfigured, Handling, ChangeProfile, RematerializeBinding, CaptureAfter,
                Answer, JournalForced, IngestFor, IsOther, Quarantine, Fail, Serving, handler, switchVars
  <2> QED
    BY <1>1, <2>1, HandlerBegins DEF HandlerOK
<1>2. CASE request.step # "none"
  <2>1. ~edited'["windows"] /\ (IsKept(hub["windows"]) => IsKept(hub["windows"])')
    BY <1>2, WindowsStays
  <2>2. request.captured \/ request.step \in {"changed", "rewriting"} => IsKept(hub["windows"])
    BY <1>2 DEF FileInv, HandlerOK
  <2>3. ASSUME request'.worker = request.worker, request'.step # "none",
               request'.step = "rewriting" \/ (request.step # "rewriting" /\ ~RematerializeBinding),
               request'.captured \/ request'.step \in {"changed", "rewriting"} => IsKept(hub["windows"])'
        PROVE  HandlerOK'
    <3>1. \A c \in captures' : c.worker = request'.worker => ReadsFolder(c)'
      BY <1>2, <2>3, HandlerCaptures
    <3>2. request'.step # "rewriting" =>
             \A d \in deliveries' : d.worker = request'.worker => SparesWindows(d)'
      <4>1. request'.step # "rewriting" =>
               \A d \in deliveries' : d.worker = request'.worker => SparesWindows(d)
        BY <1>2, <2>3, HandlerSpares
      <4> QED
        BY <4>1 DEF SparesWindows
    <3> QED
      BY <2>1, <2>3, <3>1, <3>2 DEF HandlerOK
  <2>4. CASE request' = request
    <3>1. RematerializeBinding => request'.step # request.step
      BY DEF RematerializeBinding, Goes, Serving, FileInv, SwitchInv, RequestOK
    <3> QED
      BY <1>2, <2>1, <2>2, <2>3, <2>4, <3>1
  <2>5. CASE request'.step = "none"
    BY <2>5 DEF HandlerOK
  <2>6. CASE ChangeProfile /\ request'.worker = request.worker /\ ~request'.captured
             /\ request'.step = (IF request.captured THEN "changed" ELSE "uncaptured")
    <3>1. request.step = "captured" /\ deliveries' = deliveries
      BY <2>6 DEF ChangeProfile, Serving, service
    <3>2. ~RematerializeBinding
      BY <3>1 DEF RematerializeBinding, Serving
    <3> QED
      BY <2>1, <2>2, <2>3, <2>6, <3>1, <3>2
  <2>7. CASE RematerializeBinding /\ request.step = "changed" /\ request'.worker = request.worker
    <3>1. request'.step = "rewriting"
      BY <2>7 DEF RematerializeBinding, Goes, FileInv, SwitchInv, RequestOK
    <3> QED
      BY <2>1, <2>2, <2>3, <2>7, <3>1
  <2>8. CASE CaptureAfter /\ request'.worker = request.worker /\ request'.captured = request.captured
             /\ request.step = "uncaptured" /\ request'.step = "recaptured"
    <3>1. ~RematerializeBinding
      BY <2>8 DEF RematerializeBinding, Serving
    <3> QED
      BY <2>1, <2>2, <2>3, <2>8, <3>1
  <2>9. ASSUME NEW c \in captures, Ingest(c), c.worker = request.worker,
               request'.step = request.step, request'.worker = request.worker
        PROVE  HandlerOK'
    <3>1. IsKept(hub["windows"])'
      BY <1>2, <2>9, HandlerIngest
    <3>2. ~RematerializeBinding
      BY <2>9 DEF Ingest, RecordIngest, RematerializeBinding, storeVars, vars
    <3> QED
      BY <1>2, <2>3, <2>9, <3>1, <3>2
  <2> QED
    BY <1>2, <2>4, <2>5, <2>6, <2>7, <2>8, <2>9, RequestGoes
<1> QED
  BY <1>1, <1>2

\* For any number of goroutines that overlap the handler, and whatever played,
\* failed or crashed: the forced write of the new format finds only a file that a
\* revision holds.
THEOREM SwitchKeepsFiles == SwitchSpec => SwitchKeepsFile
<1> DEFINE Keeps == \A d \in deliveries : d.worker = request.worker /\ Overwrites("windows") /\ WriteTarget(d)
                        => IsKept(hub["windows"])
<1>1. SwitchInit => FileInv
  <2> SUFFICES ASSUME SwitchInit PROVE FileInv
    OBVIOUS
  <2>1. deliveries = {} /\ request.step = "none"
    BY DEF SwitchInit, NoRequest
  <2> QED
    BY <2>1, SwitchStarts DEF FileInv, TargetsMatch, HandlerOK
<1>2. FileInv /\ [SwitchNext]_switchVars => FileInv'
  BY SwitchStep, TargetsStep, HandlerStep DEF FileInv
<1>3. ASSUME FileInv
      PROVE  Keeps
  <2> SUFFICES ASSUME NEW d \in deliveries, d.worker = request.worker, Overwrites("windows"), WriteTarget(d)
               PROVE  IsKept(hub["windows"])
    OBVIOUS
  <2>1. RequestOK /\ HandlerOK /\ d.worker \in Workers /\ d.todo # {} /\ hub \in [Endpoints -> File]
    BY <1>3 DEF FileInv, SwitchInv, ServiceInv, FoldersOK, DeliveriesOK, IsDelivery, DeliveryState, WriteTarget
  <2>2. request.step # "none"
    BY <2>1, HandlerAssumption DEF RequestOK, NoRequest
  <2>3. ~SparesWindows(d)
    <3>1. First(d.todo).endpoint = "windows"
      BY <2>1 DEF WriteTarget, Overwrites, Endpoints
    <3> QED
      BY <2>1, <3>1, FirstIsMember DEF SparesWindows
  <2> QED
    BY <2>1, <2>2, <2>3 DEF HandlerOK
<1>4. FileInv /\ [SwitchNext]_switchVars => [Keeps]_switchVars
  BY <1>3
<1> QED
  BY <1>1, <1>2, <1>4, PTL DEF SwitchSpec, SwitchKeepsFile

-----------------------------------------------------------------------------
(***************************************************************************)
(* The clock of the head.                                                  *)
(***************************************************************************)
\* Only an ingest changes the head.
HeadUnchanged == UNCHANGED <<revisions, current>>

LEMMA HeadSteps ==
    ASSUME [SwitchNext]_switchVars
    PROVE  HeadUnchanged \/ \E c \in captures : IngestFor(c)
<1>1. CASE Handling
  BY <1>1 DEF Handling, ChangeProfile, ConfigureWindowsGBAProfile, RematerializeBinding, CaptureAfter,
              FindBinding, Answer, JournalForced, CreateOperation, storeVars, vars, HeadUnchanged
<1>2. CASE Serve
  BY <1>2 DEF Serve, Proceed, Upload, Scan, Download, Collide, ReconcileWhenFree, Reconcile, ConfirmAtOnce,
              CompleteEndpointDeliveries, BeginCapture, BeginConflictCapture, FindBinding, PutFile,
              ListTargets, Journal, CreateOperation, WriteTarget, MarkWritten, UpdateOperation,
              storeVars, vars, HeadUnchanged
<1>3. CASE Fail
  BY <1>3 DEF Fail, AbortCapture, AbandonCaptures, FailWrite, UpdateOperation, AbandonDelivery,
              CrashAndForget, Crash, storeVars, vars, HeadUnchanged
<1>4. ASSUME NEW b \in bindings, NEW file \in Payload, PlayConfigured(b, file)
      PROVE  HeadUnchanged
  BY <1>4 DEF PlayConfigured, storeVars, vars, HeadUnchanged
<1>5. ASSUME NEW w \in Workers, NEW profile \in WindowsGBA, CaptureBefore(w, profile)
      PROVE  HeadUnchanged
  BY <1>5 DEF CaptureBefore, FindBinding, HeadUnchanged
<1>6. ASSUME NEW c \in captures, Quarantine(c)
      PROVE  HeadUnchanged
  BY <1>6 DEF Quarantine, AbandonCaptures, HeadUnchanged
<1>7. CASE UNCHANGED switchVars
  BY <1>7 DEF switchVars, brokerVars, storeVars, vars, HeadUnchanged
<1> QED
  BY <1>1, <1>2, <1>3, <1>4, <1>5, <1>6, <1>7 DEF SwitchNext

\* An ingest keeps the head, or makes one of what the capture has read, which is
\* then linear to the old one.
LEMMA IngestHead ==
    ASSUME SwitchInv, current # NoRevision, NEW c \in captures, IngestFor(c)
    PROVE  \/ revisions'[current'] = revisions[current]
           \/ /\ revisions'[current'].content = Decoded(c.binding, inputs[c.worker].file)
              /\ c.binding.lastDeployed = current
<1> DEFINE file == inputs[c.worker].file
           force == inputs[c.worker].force
<1>1. RecordIngest(c, file, force, inputs[c.worker].confirm)
  BY DEF IngestFor, Ingest
<1>2. Len(revisions) \in Nat /\ current \in 1 .. Len(revisions)
  BY DEF SwitchInv, ServiceInv, TypeInv, NoRevision
<1>3. CASE RecordLinear(c.binding, file, force)
  BY <1>2, <1>3 DEF RecordLinear, IsLinear, WithHead, NextRevision
<1>4. CASE RecordBranch(c.binding, file, force)
  <2>1. current' = current /\ \E r : revisions' = Append(revisions, r)
    BY <1>4 DEF RecordBranch
  <2>2. revisions \in Seq(Revision)
    BY DEF SwitchInv, ServiceInv, TypeInv
  <2> QED
    BY <1>2, <2>1, <2>2
<1>5. CASE UNCHANGED <<revisions, current>>
  BY <1>5
<1> QED
  BY <1>1, <1>3, <1>4, <1>5 DEF RecordIngest, RecordEcho, RecordDuplicate, RecordKnownBranch

\* However often the emulator is changed, whatever overlaps or fails: only a file
\* that is captured in the wrong format takes the clock from the head.
THEOREM SwitchKeepsClock == SwitchSpec => ClockGoesByMistake
<1> DEFINE Keeps == LosesClock => \E c \in captures : IngestFor(c) /\ MistakesFormat(c)
<1>1. SwitchInit => SwitchInv
  BY SwitchStarts
<1>2. SwitchInv /\ [SwitchNext]_switchVars => SwitchInv'
  BY SwitchStep
<1>3. SwitchInv /\ [SwitchNext]_switchVars => [Keeps]_switchVars
  <2> SUFFICES ASSUME SwitchInv, [SwitchNext]_switchVars, LosesClock
               PROVE  \E c \in captures : IngestFor(c) /\ MistakesFormat(c)
    OBVIOUS
  <2>1. ~HeadUnchanged
    BY DEF LosesClock, HeadUnchanged
  <2>2. PICK c \in captures : IngestFor(c)
    BY <2>1, HeadSteps
  <2> DEFINE file == inputs[c.worker].file
  <2>3. /\ revisions'[current'].content = Decoded(c.binding, file)
        /\ c.binding.lastDeployed = current
    BY <2>2, IngestHead DEF LosesClock
  <2>4. c.worker \in Workers /\ c.binding.profile \in Profiles
    BY DEF SwitchInv, ServiceInv, TypeInv, IsCaptureSet, Capture, Binding
  <2>5. file \in Payload /\ file # NoFile
    BY <2>2, <2>4 DEF SwitchInv, ServiceInv, InputsOK, CaptureState, File, IngestFor, Ingest
  <2>6. CarriesRtc(c.binding.profile) /\ file.rtc = NoRtc
    <3>1. Decoded(c.binding, file).rtc =
            IF file.rtc = NoRtc /\ ProfileInheritsRTC(c.binding.profile) /\ current # NoRevision
            THEN revisions[current].content.rtc ELSE file.rtc
      BY <2>3, <2>5 DEF Decoded, Payload
    <3> QED
      BY <2>3, <2>4, <3>1 DEF LosesClock, ProfileInheritsRTC, CarriesRtc, Profiles
  <2> QED
    BY <2>2, <2>5, <2>6 DEF MistakesFormat
<1> QED
  BY <1>1, <1>2, <1>3, PTL DEF SwitchSpec, ClockGoesByMistake
=============================================================================
