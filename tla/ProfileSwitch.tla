----------------------------- MODULE ProfileSwitch -----------------------------
(***************************************************************************)
(* internal/api: the handlers that give the Windows save of a game another *)
(* emulator (upsertBinding for one game, configureWindowsGBAProfile for    *)
(* all), on top of the running service.  The user says that all emulators  *)
(* are closed; the handler captures the file under the old profile,        *)
(* changes the binding, and then either writes the head anew in the new    *)
(* format (RematerializeBinding) or, when nothing was captured, captures   *)
(* the file under the new profile.                                         *)
(*                                                                         *)
(* A handler is a goroutine and so a worker of its own, which captures and *)
(* deliveries of others may overlap.  Propagation is on, both saves are    *)
(* mapped and there, and the user restores nothing.                        *)
(***************************************************************************)
EXTENDS Broker

CONSTANTS FirstBattery,  \* the first save
          FirstRtc,      \* its clock, if its emulator has one
          MaxSwitches    \* bound on the profile changes and what fails in them together

ASSUME FirstAssumption == FirstBattery \in Batteries /\ FirstRtc \in Rtcs
ASSUME HandlerAssumption == "none" \notin Workers

VARIABLES request,     \* the handler: its step, and what the first capture returned
          switches

switchVars == <<brokerVars, request, switches>>
handler == <<request, switches>>

WindowsGBA == {profile \in Profiles : EndpointOf(profile) = "windows"}

NoRequest == [step |-> "none", worker |-> "none", profile |-> "none", captured |-> FALSE]

\* The first save was captured on Windows and has reached the Thor.
SwitchInit ==
    /\ \E content \in Payload, profile \in WindowsGBA, path \in Paths :
         /\ content = [battery |-> FirstBattery,
                        rtc |-> IF CarriesRtc(profile) THEN FirstRtc ELSE NoRtc]
         /\ revisions = <<[parent |-> NoRevision, content |-> content, source |-> "windows",
                           kind |-> "captured", from |-> NoRevision, state |-> "head"]>>
         /\ bindings = {[endpoint |-> EndpointOf(q), path |-> path, profile |-> q,
                         lastDeployed |-> 1] : q \in {"thor-mgba", profile}}
         /\ operations = <<[revision |-> 1, endpoint |-> "thor", path |-> path,
                            profile |-> "thor-mgba", file |-> Encode("thor-mgba", content),
                            state |-> "delivered"]>>
         /\ hub = [e \in Endpoints |-> IF e = "windows" THEN content
                                       ELSE Encode("thor-mgba", content)]
    /\ current = 1
    /\ status = "healthy"
    /\ conflicts = {}
    /\ requests = [k \in Keys |-> NoRevision]
    /\ captures = {}
    /\ propagation = TRUE
    /\ enabling = FALSE
    /\ timers = [e \in Endpoints |-> "off"]
    /\ inputs = [w \in Workers |-> Idle]
    /\ deliveries = {}
    /\ complete = [e \in Endpoints |-> FALSE]
    /\ artifact = [e \in Endpoints |-> NoFile]
    /\ names = [e \in Endpoints |-> 0]
    /\ device = hub
    /\ edited = [e \in Endpoints |-> FALSE]
    /\ index = [e \in Endpoints |-> "sent"]
    /\ plays = 0
    /\ faults = 0
    /\ request = NoRequest
    /\ switches = 0

Serving(step) == request.step = step

\* The capture or delivery the handler called has returned.
Returned == IsFree(request.worker)

\* A goroutine of its own, not the handler's.
IsOther(w) == request.step = "none" \/ w # request.worker

Goes(step) == request' = [request EXCEPT !.step = step]

Accepts(profile, file) == file.rtc # NoRtc => CarriesRtc(profile)

-----------------------------------------------------------------------------
(***************************************************************************)
(* The devices: standalone mGBA appends the RTC to what it saves, and the  *)
(* Windows emulator is the one that is configured.  It is closed while a   *)
(* request is served, and its edits have arrived by then (external).       *)
(***************************************************************************)
PlayConfigured(b, file) ==
    /\ plays < MaxPlays
    /\ file # device[b.endpoint]
    /\ (file.rtc # NoRtc) = CarriesRtc(b.profile)
    /\ b.endpoint = "windows" => Serving("none")
    /\ device' = [device EXCEPT ![b.endpoint] = file]
    /\ edited' = [edited EXCEPT ![b.endpoint] = TRUE]
    /\ plays' = plays + 1
    /\ UNCHANGED <<storeVars, propagation, service, hub, artifact, names, index, faults,
                   handler>>

-----------------------------------------------------------------------------
(***************************************************************************)
(* The handler.                                                            *)
(***************************************************************************)
\* "Captured before emulator profile or path change".
CaptureBefore(w, profile) ==
    /\ Serving("none")
    /\ IsFree(w)
    /\ switches + faults < MaxSwitches
    /\ ~edited["windows"]
    /\ \E b \in BindingsOf("windows") :
          /\ b.profile # profile
          /\ FindBinding(w, b)
    /\ request' = [step |-> "captured", worker |-> w, profile |-> profile, captured |-> FALSE]
    /\ switches' = switches + 1
    /\ inputs' = [inputs EXCEPT ![w] = Idle]
    /\ UNCHANGED <<propagation, timers, deliveries, complete, enabling, folders, bounds>>

\* Mutant: whatever became of the capture, the head is written anew.
AnyCaptured == TRUE

\* result.RevisionID # ""
PreCaptured == request.captured

\* The binding changes; what was captured decides how its file is treated.
ChangeProfile ==
    /\ Serving("captured")
    /\ Returned
    /\ ConfigureWindowsGBAProfile(request.profile)
    /\ request' = [request EXCEPT !.step = IF PreCaptured THEN "changed" ELSE "uncaptured",
                                  !.captured = FALSE]
    /\ UNCHANGED <<propagation, service, folders, bounds>>

\* Mutant: the device that made the head is taken to have it.
MayRewriteForeignHead ==
    /\ OpenConflicts = {}
    /\ current # NoRevision
    /\ revisions[current].source # "windows"

MayRematerialize == OpenConflicts = {} /\ current # NoRevision

RematerializeBinding ==
    /\ Serving("changed")
    /\ deliveries' =
         IF MayRematerialize
         THEN deliveries \cup {[Delivery(request.worker, current, "none") EXCEPT
                                   !.todo = BindingsOf("windows"), !.step = "force"]}
         ELSE deliveries
    /\ Goes("rewriting")
    /\ UNCHANGED <<storeVars, folders, DeliveryVars, faults>>

\* Mutant: a journaled operation is not carried out again.
JournalUnforced(d) ==
    LET b == First(d.todo)
        known == {i \in OperationIds :
                    SameKey(operations[i], d.revision, b.endpoint, b.path, b.profile)}
    IN  /\ d.step = "force"
        /\ \/ /\ known = {}
              /\ CreateOperation(d.revision, b.endpoint, b.path, b.profile)
              /\ Becomes(d, [d EXCEPT !.step = "write", !.op = Len(operations) + 1])
           \/ /\ known # {}
              /\ Continue(d)
              /\ UNCHANGED storeVars
        /\ UNCHANGED <<folders, DeliveryVars, faults, request>>

\* deliverRevisionToBinding with force: whatever state its operation is in.
JournalForced(d) ==
    LET b == First(d.todo)
        known == {i \in OperationIds :
                    SameKey(operations[i], d.revision, b.endpoint, b.path, b.profile)}
    IN  /\ d.step = "force"
        /\ \/ /\ known = {}
              /\ CreateOperation(d.revision, b.endpoint, b.path, b.profile)
              /\ Becomes(d, [d EXCEPT !.step = "write", !.op = Len(operations) + 1])
           \/ /\ \E i \in known : Becomes(d, [d EXCEPT !.step = "write", !.op = i])
              /\ UNCHANGED storeVars
        /\ UNCHANGED <<folders, DeliveryVars, faults, request>>

\* "Captured after manual save mapping or profile change".
CaptureAfter ==
    /\ Serving("uncaptured")
    /\ \E b \in BindingsOf("windows") :
          FindBinding(request.worker, b)
    /\ inputs' = [inputs EXCEPT ![request.worker] = Idle]
    /\ Goes("recaptured")
    /\ UNCHANGED <<propagation, timers, deliveries, complete, enabling, folders, bounds>>

\* An error of the rewriting is only published, one of the capture is retried.
Answer ==
    /\ request.step \in {"rewriting", "recaptured"}
    /\ Returned
    /\ timers' = IF Serving("recaptured") /\ ~request.captured
                 THEN [timers EXCEPT !["windows"] = "plain"] ELSE timers
    /\ request' = NoRequest
    /\ UNCHANGED <<storeVars, propagation, inputs, deliveries, complete, enabling, folders,
                   bounds>>

-----------------------------------------------------------------------------
(***************************************************************************)
(* The service around it.                                                  *)
(***************************************************************************)
IngestFor(c) ==
    /\ Ingest(c)
    /\ request' = IF IsOther(c.worker) THEN request ELSE [request EXCEPT !.captured = TRUE]
    /\ UNCHANGED switches

\* A file of the other emulator's format does not validate; it is quarantined.
Quarantine(c) ==
    /\ inputs[c.worker].file # NoFile
    /\ ~Accepts(c.binding.profile, inputs[c.worker].file)
    /\ AbandonCaptures({c})
    /\ inputs' = [inputs EXCEPT ![c.worker] = Idle]
    /\ UNCHANGED <<propagation, timers, deliveries, complete, enabling, folders, bounds, handler>>

\* One round of the status loop; how it races with a late write is the matter of
\* Broker's own runs.
ConfirmAtOnce(e) ==
    /\ index[e] # "known"
    /\ Written(e) # {}
    /\ CompleteEndpointDeliveries(e)
    /\ UNCHANGED <<propagation, service, folders, bounds, handler>>

\* A timer that is set while every worker is busy fires after that all the same.
ReconcileWhenFree(e) ==
    /\ \E w \in Workers : IsFree(w) /\ IsOther(w)
    /\ Reconcile(e)

CrashAndForget == Crash /\ request' = NoRequest /\ UNCHANGED switches

Handling ==
    \/ ChangeProfile \/ RematerializeBinding \/ CaptureAfter \/ Answer
    \/ \E d \in deliveries : JournalForced(d)

Proceed ==
    \/ \E c \in captures : PutFile(c)
    \/ \E d \in deliveries : ListTargets(d) \/ Journal(d) \/ WriteTarget(d) \/ MarkWritten(d)

Serve ==
    \/ \E e \in Endpoints :
          \/ Upload(e) \/ Scan(e) \/ Download(e) \/ Collide(e)
          \/ ReconcileWhenFree(e)
          \/ ConfirmAtOnce(e)
          \/ \E w \in Workers : IsOther(w) /\ (BeginCapture(w, e) \/ BeginConflictCapture(w, e))
    \/ Proceed

\* What fails while a request is served; other failures are the matter of
\* Broker's own runs.
Fail ==
    /\ ~Serving("none")
    /\ switches + faults < MaxSwitches
    /\ \/ \E c \in captures : AbortCapture(c) /\ UNCHANGED handler
       \/ \E d \in deliveries : (FailWrite(d) \/ AbandonDelivery(d)) /\ UNCHANGED handler
       \/ CrashAndForget

SwitchNext ==
    \/ \E b \in bindings, file \in Payload : PlayConfigured(b, file)
    \/ \E w \in Workers, profile \in WindowsGBA : CaptureBefore(w, profile)
    \/ Handling /\ UNCHANGED switches
    \/ \E c \in captures : IngestFor(c) \/ Quarantine(c)
    \/ Serve /\ UNCHANGED handler
    \/ Fail

\* The fairness of Broker, and the handler goes on.
SwitchFairness ==
    /\ WF_switchVars(Proceed /\ UNCHANGED handler)
    /\ WF_switchVars(\E c \in captures : IngestFor(c) \/ Quarantine(c))
    /\ WF_switchVars(Handling /\ UNCHANGED switches)
    /\ \A e \in Endpoints :
          /\ WF_switchVars(Exchange(e) /\ UNCHANGED handler)
          /\ SF_switchVars(ReconcileWhenFree(e) /\ UNCHANGED handler)
          /\ SF_switchVars(\E w \in Workers : IsOther(w) /\ BeginCapture(w, e) /\ UNCHANGED handler)

SwitchSpec == SwitchInit /\ [][SwitchNext]_switchVars /\ SwitchFairness

-----------------------------------------------------------------------------
\* Bytes of the folder that some revision holds in the format of a Windows emulator.
IsKept(file) ==
    \E i \in RevisionIds, profile \in WindowsGBA : Encode(profile, revisions[i].content) = file

\* A change of emulator does not cost progress: whatever captures and deliveries
\* overlap it, the forced write replaces a Windows file that some revision holds,
\* captured a moment ago or long before, branches under review included
\* (api.go:174-191, broker.go:325-341).
SwitchKeepsFile ==
    [][\A d \in deliveries : d.worker = request.worker /\ Overwrites("windows") /\ WriteTarget(d)
          => IsKept(hub["windows"])]_switchVars

\* The head had a clock and the next one has none.
LosesClock ==
    /\ current # NoRevision
    /\ revisions[current].content.rtc # NoRtc
    /\ revisions'[current'].content.rtc = NoRtc

\* The capture takes a file that a battery-only emulator wrote for mGBA's.
MistakesFormat(c) ==
    /\ CarriesRtc(c.binding.profile)
    /\ inputs[c.worker].file # NoFile
    /\ inputs[c.worker].file.rtc = NoRtc

\* A change of emulator is not progress.  The head's clock is never lost to a
\* battery-only emulator, whose captures inherit it; it is lost only when a file
\* in the old format is captured under mGBA's mapping (ingest.go:177-185).
ClockGoesByMistake == [][LosesClock => \E c \in captures : IngestFor(c) /\ MistakesFormat(c)]_switchVars

\* And no such file is captured as long as nothing failed, because the handler
\* does not leave one behind (api.go:174-191).  After a handler that failed or
\* died between the change and the rewriting it can be.  This is of captures
\* that do not overlap the handler: one that read the file before and records it
\* after the change makes the same mistake.
RtcIsKept ==
    [][LosesClock => /\ faults > 0
                     /\ \E c \in captures : IngestFor(c) /\ MistakesFormat(c)]_switchVars

\* When nothing fails and no conflict stays open, the Windows device has the head
\* in the format of its new emulator in the end, also when the emulator was
\* changed to and fro (README.md:22-26, api.go:189-194).
HeadArrivesInFormat ==
    [](faults = 0) /\ <>[](OpenConflicts = {} /\ current # NoRevision)
    => <>[](\A b \in BindingsOf("windows") : HasHead(b))
=============================================================================
