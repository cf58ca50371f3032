----------------------------- MODULE RevisionStore -----------------------------
(***************************************************************************)
(* internal/store: the rows ThorSync keeps for one game, and every store   *)
(* method that changes them.  The database has one connection, so each     *)
(* transaction and each statement is one atomic step; what is not atomic   *)
(* is a capture, which reads its binding (FindBinding) long before the     *)
(* transaction that records it (RecordIngest).  Such half-done captures    *)
(* are the variable "captures".                                            *)
(*                                                                         *)
(* Abstractions: a blob is the pair of components it holds, a hash is the  *)
(* blob itself; identifiers are positions in creation order, 0 being the   *)
(* empty identifier.  The module is open: which file a capture reads, and  *)
(* when the broker calls, is left to the environment (module Broker closes *)
(* it).  MaxRevisions and MaxOperations bound the two growing tables.      *)
(***************************************************************************)
EXTENDS Integers, Sequences, FiniteSets

CONSTANTS Batteries,      \* battery payloads
          Rtcs,           \* real-time-clock payloads (empty for an NDS game)
          NoRtc,          \* the absent RTC component
          Paths,          \* relative save paths
          Workers,        \* goroutines that may be inside Capture at once
          Keys,           \* idempotency keys of restore, promote and snapshot
          MaxRevisions,   \* bound on the revisions table
          MaxOperations   \* bound on the broker_operations table

ASSUME NoRtcAssumption == NoRtc \notin Rtcs
ASSUME BoundAssumption == MaxRevisions \in Nat

VARIABLES revisions,    \* table revisions with revision_payloads, by creation order
          current,      \* games.current_revision_id
          status,       \* games.status
          conflicts,    \* table conflicts
          bindings,     \* table save_bindings
          operations,   \* table broker_operations, by creation order
          requests,     \* table mutation_requests: the revision a key created
          captures      \* captures between FindBinding and RecordIngest

vars == <<revisions, current, status, conflicts, bindings, operations,
          requests, captures>>

-----------------------------------------------------------------------------
Endpoints == {"thor", "windows"}
Profiles == {"thor-mgba", "windows-vbam", "windows-mgba"}
EndpointOf(profile) == IF profile = "thor-mgba" THEN "thor" ELSE "windows"

\* Only standalone mGBA stores the RTC behind the battery bytes.
CarriesRtc(profile) == profile = "windows-mgba"

ProfileInheritsRTC(profile) == profile \in {"thor-mgba", "windows-vbam"}

NoRevision == 0

\* A physical save and a logical payload have the same two components.
Payload == [battery : Batteries, rtc : Rtcs \cup {NoRtc}]

Revision == [parent  : Nat,
             content : Payload,
             source  : Endpoints \cup {"none"},
             kind    : {"captured", "conflict", "restore", "promote", "snapshot"},
             from    : Nat,
             state   : {"head", "history", "branch"}]

Conflict == [head : Nat, branch : Nat, state : {"open", "resolved"}]

Binding == [endpoint : Endpoints, path : Paths, profile : Profiles,
            lastDeployed : Nat]

Operation == [revision : Nat, endpoint : Endpoints, path : Paths,
              profile : Profiles, file : Payload,
              state : {"pending", "written", "delivered", "superseded", "failed"}]

Capture == [worker : Workers, binding : Binding]

-----------------------------------------------------------------------------
RevisionIds == 1 .. Len(revisions)
OperationIds == 1 .. Len(operations)
NextRevision == Len(revisions) + 1

OpenConflicts == {c \in conflicts : c.state = "open"}

Latest(ids) == CHOOSE i \in ids : \A j \in ids : j <= i

\* The file a target profile is given for a payload.
Encode(profile, content) ==
    [content EXCEPT !.rtc = IF CarriesRtc(profile) THEN content.rtc ELSE NoRtc]

\* Mutant: the RTC comes from the current head.
DecodedFromHead(b, file) ==
    [file EXCEPT !.rtc =
        IF file.rtc = NoRtc /\ ProfileInheritsRTC(b.profile) /\ current # NoRevision
        THEN revisions[current].content.rtc
        ELSE file.rtc]

\* The logical payload of an observed file: a battery-only emulator keeps the
\* RTC of the revision the binding, as the capture read it, was last given.
Decoded(b, file) ==
    [file EXCEPT !.rtc =
        IF file.rtc = NoRtc /\ ProfileInheritsRTC(b.profile) /\ b.lastDeployed # NoRevision
        THEN revisions[b.lastDeployed].content.rtc
        ELSE file.rtc]

\* Mutant: the old head keeps its state.
WithHeadBesideOld(r) == Append(revisions, r)

\* Mutant: every reviewed branch becomes history as well.
WithHeadOverBranches(r) ==
    Append([i \in RevisionIds |-> [revisions[i] EXCEPT !.state = "history"]], r)

\* The revision r becomes the head and the old head becomes history.
WithHead(r) ==
    [i \in 1 .. NextRevision |->
        IF i = NextRevision THEN r
        ELSE IF i = current /\ revisions[i].state = "head"
             THEN [revisions[i] EXCEPT !.state = "history"]
             ELSE revisions[i]]

\* last_deployed_revision_id := r for the binding of endpoint e.
Deployed(e, r) ==
    {IF b.endpoint = e THEN [b EXCEPT !.lastDeployed = r] ELSE b : b \in bindings}

\* Operations of this endpoint and path that are still to be observed.
IsLive(op) == op.state \in {"pending", "written"}

Echoes(b, file) ==
    {i \in OperationIds : /\ operations[i].endpoint = b.endpoint
                          /\ operations[i].path = b.path
                          /\ operations[i].profile = b.profile
                          /\ operations[i].file = file
                          /\ IsLive(operations[i])}

\* Mutant: only a conflict with the present head counts.
UnderReviewHere(i) == \E c \in OpenConflicts : c.branch = i /\ c.head = current

UnderReview(i) == \E c \in OpenConflicts : c.branch = i

\* Mutant: only branches still under review are recognised.
BranchesUnderReview(content) ==
    {i \in RevisionIds : /\ revisions[i].state = "branch"
                         /\ revisions[i].content = content
                         /\ UnderReview(i)}

BranchesWith(content) ==
    {i \in RevisionIds : revisions[i].state = "branch" /\ revisions[i].content = content}

-----------------------------------------------------------------------------
Init ==
    /\ revisions = << >>
    /\ current = NoRevision
    /\ status = "unconfigured"
    /\ conflicts = {}
    /\ bindings = {}
    /\ operations = << >>
    /\ requests = [k \in Keys |-> NoRevision]
    /\ captures = {}

(***************************************************************************)
(* Bindings.                                                               *)
(***************************************************************************)
\* Mutant: the row is looked up by its profile.
RowsByProfile(profile) == {b \in bindings : b.profile = profile}

\* The row a profile's mapping replaces: UNIQUE(game_id, endpoint_id).
RowsFor(profile) == {b \in bindings : b.endpoint = EndpointOf(profile)}

\* A new mapping starts with no baseline; a changed one keeps its baseline.
UpsertBinding(profile, path) ==
    LET old == RowsFor(profile)
        new == [endpoint |-> EndpointOf(profile), path |-> path,
                profile |-> profile, lastDeployed |-> NoRevision]
    IN  /\ bindings' =
             IF old = {} THEN bindings \cup {new}
             ELSE (bindings \ old) \cup
                  {[b EXCEPT !.profile = profile, !.path = path] : b \in old}
        /\ UNCHANGED <<revisions, current, status, conflicts, operations,
                       requests, captures>>

\* The settings flow: every Windows GBA binding with another profile changes.
ConfigureWindowsGBAProfile(profile) ==
    /\ EndpointOf(profile) = "windows"
    /\ bindings' = {IF b.endpoint = "windows"
                    THEN [b EXCEPT !.profile = profile] ELSE b : b \in bindings}
    /\ UNCHANGED <<revisions, current, status, conflicts, operations,
                   requests, captures>>

\* A capture reads the binding of its path and keeps the copy.
FindBinding(w, b) ==
    /\ b \in bindings
    /\ \A c \in captures : c.worker # w
    /\ captures' = captures \cup {[worker |-> w, binding |-> b]}
    /\ UNCHANGED <<revisions, current, status, conflicts, bindings, operations,
                   requests>>

(***************************************************************************)
(* RecordIngest: one transaction with five outcomes.  b is the copy of the *)
(* binding the capture holds; the row is looked up again by its id, which  *)
(* is its endpoint here.                                                   *)
(***************************************************************************)
IsEcho(b, file, force) == ~force /\ Echoes(b, file) # {}

\* Mutant: the batteries alone are compared.
IsBatteryDuplicate(b, file, force) ==
    /\ ~force
    /\ current # NoRevision
    /\ file.battery = revisions[current].content.battery

IsDuplicate(b, file, force) ==
    /\ ~force
    /\ current # NoRevision
    /\ Decoded(b, file) = revisions[current].content

\* Mutant: open conflicts do not hold a capture back.
IsLinearInConflict(b, force) ==
    /\ ~force
    /\ current = NoRevision \/ b.lastDeployed = current

IsLinear(b, force) ==
    /\ ~force
    /\ \/ current = NoRevision
       \/ b.lastDeployed = current /\ OpenConflicts = {}

\* A file the broker itself wrote was seen: no revision, and only a change
\* Syncthing attributes to the remote device confirms the delivery.
RecordEcho(b, file, force, confirm) ==
    /\ IsEcho(b, file, force)
    /\ LET i == Latest(Echoes(b, file)) IN
         /\ operations' = [operations EXCEPT ![i].state =
                              IF confirm THEN "delivered" ELSE "written"]
         /\ bindings' = IF confirm THEN Deployed(b.endpoint, operations[i].revision)
                        ELSE bindings
    /\ UNCHANGED <<revisions, current, status, conflicts>>

\* The device already has the content of the head.
RecordDuplicate(b, file, force) ==
    /\ ~IsEcho(b, file, force)
    /\ IsDuplicate(b, file, force)
    /\ bindings' = Deployed(b.endpoint, current)
    /\ UNCHANGED <<revisions, current, status, conflicts, operations>>

\* The content of an archived branch came back: reopen its review.
RecordKnownBranch(b, file, force) ==
    LET known == BranchesWith(Decoded(b, file)) IN
    /\ ~IsEcho(b, file, force)
    /\ ~IsDuplicate(b, file, force)
    /\ known # {}
    /\ LET i == Latest(known) IN
         IF UnderReview(i)
         THEN UNCHANGED <<conflicts, status>>
         ELSE /\ conflicts' = conflicts \cup
                    {[head |-> current, branch |-> i, state |-> "open"]}
              /\ status' = "conflict"
    /\ UNCHANGED <<revisions, current, bindings, operations>>

IsNew(b, file, force) ==
    /\ ~IsEcho(b, file, force)
    /\ ~IsDuplicate(b, file, force)
    /\ BranchesWith(Decoded(b, file)) = {}
    /\ Len(revisions) < MaxRevisions

RecordLinear(b, file, force) ==
    /\ IsNew(b, file, force)
    /\ IsLinear(b, force)
    /\ revisions' = WithHead([parent |-> current, content |-> Decoded(b, file),
                              source |-> b.endpoint, kind |-> "captured",
                              from |-> NoRevision, state |-> "head"])
    /\ current' = NextRevision
    /\ status' = "healthy"
    /\ bindings' = Deployed(b.endpoint, NextRevision)
    /\ UNCHANGED <<conflicts, operations>>

\* Mutant: the source's baseline follows its branch.
RecordBranchAsBaseline(b, file, force) ==
    /\ IsNew(b, file, force)
    /\ ~IsLinear(b, force)
    /\ revisions' = Append(revisions,
                           [parent |-> b.lastDeployed, content |-> Decoded(b, file),
                            source |-> b.endpoint, kind |-> "conflict",
                            from |-> NoRevision, state |-> "branch"])
    /\ conflicts' = conflicts \cup
          {[head |-> current, branch |-> NextRevision, state |-> "open"]}
    /\ status' = "conflict"
    /\ bindings' = Deployed(b.endpoint, NextRevision)
    /\ UNCHANGED <<current, operations>>

RecordBranch(b, file, force) ==
    /\ IsNew(b, file, force)
    /\ ~IsLinear(b, force)
    /\ revisions' = Append(revisions,
                           [parent |-> b.lastDeployed, content |-> Decoded(b, file),
                            source |-> b.endpoint, kind |-> "conflict",
                            from |-> NoRevision, state |-> "branch"])
    /\ conflicts' = conflicts \cup
          {[head |-> current, branch |-> NextRevision, state |-> "open"]}
    /\ status' = "conflict"
    /\ UNCHANGED <<current, bindings, operations>>

RecordIngest(c, file, force, confirm) ==
    /\ c \in captures
    /\ file.rtc # NoRtc => CarriesRtc(c.binding.profile)
    /\ captures' = captures \ {c}
    /\ \/ RecordEcho(c.binding, file, force, confirm)
       \/ RecordDuplicate(c.binding, file, force)
       \/ RecordKnownBranch(c.binding, file, force)
       \/ RecordLinear(c.binding, file, force)
       \/ RecordBranch(c.binding, file, force)
    /\ UNCHANGED requests

\* Captures that end without an ingest: one that cannot read its file or is out
\* of time, or all of them when the process dies.
AbandonCaptures(lost) ==
    /\ lost \subseteq captures
    /\ captures' = captures \ lost
    /\ UNCHANGED <<revisions, current, status, conflicts, bindings, operations,
                   requests>>

(***************************************************************************)
(* The operation journal.                                                  *)
(***************************************************************************)
SameKey(op, r, e, path, profile) ==
    /\ op.revision = r
    /\ op.endpoint = e
    /\ op.path = path
    /\ op.profile = profile

\* A call with a known key returns the journaled row and changes nothing, so
\* only the insertion is a step.  The broker delivers revisions that are or
\* were the head, never a branch.
CreateOperation(r, e, path, profile) ==
    /\ r \in RevisionIds
    /\ revisions[r].state # "branch"
    /\ EndpointOf(profile) = e
    /\ Len(operations) < MaxOperations
    /\ \A i \in OperationIds : ~SameKey(operations[i], r, e, path, profile)
    /\ operations' =
         Append([i \in OperationIds |->
                    IF /\ operations[i].endpoint = e
                       /\ operations[i].path = path
                       /\ IsLive(operations[i])
                    THEN [operations[i] EXCEPT !.state = "superseded"]
                    ELSE operations[i]],
                [revision |-> r, endpoint |-> e, path |-> path, profile |-> profile,
                 file |-> Encode(profile, revisions[r].content), state |-> "pending"])
    /\ UNCHANGED <<revisions, current, status, conflicts, bindings, requests, captures>>

UpdateOperation(i, s) ==
    /\ i \in OperationIds
    /\ operations' = [operations EXCEPT ![i].state = s]
    /\ UNCHANGED <<revisions, current, status, conflicts, bindings, requests, captures>>

Written(e) ==
    {i \in OperationIds : operations[i].endpoint = e /\ operations[i].state = "written"}

\* Of the written operations that match a binding, the last one in creation
\* order leaves the baseline.
CompleteEndpointDeliveries(e) ==
    LET matching(b) == {i \in Written(e) : /\ operations[i].path = b.path
                                           /\ operations[i].profile = b.profile}
    IN  /\ Written(e) # {}
        /\ operations' = [i \in OperationIds |->
                             IF i \in Written(e)
                             THEN [operations[i] EXCEPT !.state = "delivered"]
                             ELSE operations[i]]
        /\ bindings' = {IF b.endpoint = e /\ matching(b) # {}
                        THEN [b EXCEPT !.lastDeployed =
                                 operations[Latest(matching(b))].revision]
                        ELSE b : b \in bindings}
        /\ UNCHANGED <<revisions, current, status, conflicts, requests, captures>>

(***************************************************************************)
(* Head mutations a user asks for.  A replayed key returns the revision it *)
(* created and changes nothing; any precondition that fails is an error    *)
(* that rolls back.                                                        *)
(***************************************************************************)
\* Mutant: a key is only remembered while its revision is the head.
IsUnusedNow(k) == requests[k] = NoRevision \/ requests[k] # current

IsUnused(k) == requests[k] = NoRevision

\* Mutant: a restored revision descends from what it restores.
HeadCopyBelowSource(kind, source) ==
    [parent |-> source, content |-> revisions[source].content, source |-> "none",
     kind |-> kind, from |-> source, state |-> "head"]

HeadCopy(kind, source) ==
    [parent |-> current, content |-> revisions[source].content, source |-> "none",
     kind |-> kind, from |-> source, state |-> "head"]

CreateHeadFromExisting(k, kind, source, expected) ==
    /\ IsUnused(k)
    /\ expected = current
    /\ source \in RevisionIds
    /\ Len(revisions) < MaxRevisions
    /\ revisions' = WithHead(HeadCopy(kind, source))
    /\ current' = NextRevision
    /\ status' = "healthy"
    /\ conflicts' = {[c EXCEPT !.state = "resolved"] : c \in conflicts}
    /\ requests' = [requests EXCEPT ![k] = NextRevision]
    /\ UNCHANGED <<bindings, operations, captures>>

\* A snapshot has the bytes of the head, so a device that had the head has it.
CreateSnapshot(k, expected) ==
    /\ IsUnused(k)
    /\ current # NoRevision
    /\ expected = current
    /\ OpenConflicts = {}
    /\ Len(revisions) < MaxRevisions
    /\ revisions' = WithHead([parent |-> current, content |-> revisions[current].content,
                              source |-> "none", kind |-> "snapshot",
                              from |-> NoRevision, state |-> "head"])
    /\ current' = NextRevision
    /\ bindings' = {IF b.lastDeployed = current
                    THEN [b EXCEPT !.lastDeployed = NextRevision] ELSE b : b \in bindings}
    /\ requests' = [requests EXCEPT ![k] = NextRevision]
    /\ UNCHANGED <<status, conflicts, operations, captures>>

-----------------------------------------------------------------------------
Next ==
    \/ \E profile \in Profiles, path \in Paths : UpsertBinding(profile, path)
    \/ \E profile \in Profiles : ConfigureWindowsGBAProfile(profile)
    \/ \E w \in Workers, b \in bindings : FindBinding(w, b)
    \/ \E c \in captures, file \in Payload, force, confirm \in BOOLEAN :
          RecordIngest(c, file, force, confirm)
    \/ \E lost \in SUBSET captures : AbandonCaptures(lost)
    \/ \E r \in RevisionIds, e \in Endpoints, path \in Paths, profile \in Profiles :
          CreateOperation(r, e, path, profile)
    \/ \E i \in OperationIds, s \in {"written", "failed"} : UpdateOperation(i, s)
    \/ \E e \in Endpoints : CompleteEndpointDeliveries(e)
    \/ \E k \in Keys, kind \in {"restore", "promote"},
          source \in RevisionIds, expected \in 0 .. Len(revisions) :
          CreateHeadFromExisting(k, kind, source, expected)
    \/ \E k \in Keys, expected \in 0 .. Len(revisions) : CreateSnapshot(k, expected)

Spec == Init /\ [][Next]_vars

-----------------------------------------------------------------------------
(***************************************************************************)
(* Properties.                                                             *)
(***************************************************************************)
Keyed == {"restore", "promote", "snapshot"}

\* The revisions that are or were the head.
HeadLine == {i \in RevisionIds : revisions[i].state # "branch"}

IsBaseline(r) == r = NoRevision \/ r \in HeadLine

\* Every row has the shape its table declares and refers to rows that exist,
\* and there is one binding per endpoint (UNIQUE(game_id, endpoint_id)).
TypeOK ==
    /\ revisions \in Seq(Revision)
    /\ current \in 0 .. Len(revisions)
    /\ status \in {"unconfigured", "healthy", "conflict"}
    /\ conflicts \subseteq Conflict
    /\ bindings \subseteq Binding
    /\ operations \in Seq(Operation)
    /\ requests \in [Keys -> 0 .. Len(revisions)]
    /\ captures \subseteq Capture
    /\ \A b \in bindings : EndpointOf(b.profile) = b.endpoint
    /\ \A b1, b2 \in bindings : b1.endpoint = b2.endpoint => b1 = b2

\* games.current_revision_id and the revision states tell the same story:
\* the current revision is the one head, whatever mix of captures, restores,
\* promotions and snapshots moved it.
HeadIsCurrent ==
    \A i \in RevisionIds : revisions[i].state = "head" <=> i = current

\* History is never erased or forked: leaving the branches out, each revision
\* has for parent the one created just before it, from the first to the head.
LinearHistory ==
    \A i \in HeadLine :
        LET p == revisions[i].parent IN
        /\ p < i
        /\ IsBaseline(p)
        /\ \A j \in HeadLine : j <= p \/ i <= j

\* A device baseline, also the copy a running capture holds and the one a
\* journaled delivery will set, is a revision that is or was the head: no
\* confirmation or duplicate ever makes a device descend from a branch.
BaselineOnHeadLine ==
    /\ \A b \in bindings : IsBaseline(b.lastDeployed)
    /\ \A c \in captures : IsBaseline(c.binding.lastDeployed)
    /\ \A i \in OperationIds : operations[i].revision \in HeadLine

\* Scanning the same conflicting bytes again, from either device, while the
\* review is open or after it was resolved, never archives a second branch.
BranchesAreDistinct ==
    \A i, j \in RevisionIds :
        /\ revisions[i].state = "branch"
        /\ revisions[j].state = "branch"
        /\ revisions[i].content = revisions[j].content
        => i = j

\* A conflict is about an archived branch and a head, and a branch is under
\* review at most once.
ConflictsNameBranches ==
    /\ \A c \in conflicts : /\ c.branch \in RevisionIds
                            /\ revisions[c.branch].state = "branch"
                            /\ IsBaseline(c.head)
    /\ \A c, d \in OpenConflicts : c.branch = d.branch => c = d

\* A conflict opened against a head keeps the game in status "conflict" until
\* it is resolved, and a game is never held in conflict without one.  Only a
\* conflict opened before the game had any head (a Syncthing conflict file
\* seen first) is hidden, by the initial capture.
StatusTellsConflict ==
    /\ \A c \in OpenConflicts : c.head # NoRevision => status = "conflict"
    /\ status = "conflict" => OpenConflicts # {}

\* Each restore, promotion and snapshot was asked for by exactly one key: a
\* retried request never creates a second head.
MutationsAreKeyed ==
    /\ \A k \in Keys : requests[k] # NoRevision => revisions[requests[k]].kind \in Keyed
    /\ \A i \in RevisionIds : revisions[i].kind \in Keyed => \E k \in Keys : requests[k] = i
    /\ \A k1, k2 \in Keys :
          requests[k1] = requests[k2] /\ requests[k1] # NoRevision => k1 = k2

\* The Thor's emulator cannot write the RTC: a revision captured there keeps
\* the RTC of the revision it descends from, also when the head has since got
\* another one and whatever copy of the binding the capture used.
RtcIsInherited ==
    \A i \in RevisionIds :
        LET r == revisions[i] IN
        r.source = "thor" =>
            r.content.rtc = IF r.parent = NoRevision THEN NoRtc
                            ELSE revisions[r.parent].content.rtc

\* Revisions are immutable: no step removes one or changes anything of it but
\* the state of the head, which becomes history when another head replaces it.
ImmutableRevisions ==
    [][\A i \in RevisionIds :
          /\ i <= Len(revisions')
          /\ \/ revisions'[i] = revisions[i]
             \/ /\ i = current
                /\ current' # current
                /\ revisions'[i] = [revisions[i] EXCEPT !.state = "history"]]_vars

\* No observed progress is lost with the capture that saw it: once a file is
\* ingested, as an echo, a duplicate, a known branch, a head or a branch, some
\* revision encodes to exactly that file for the profile that wrote it.
IngestIsRecoverable ==
    [][\A c \in captures \ captures', file \in Payload, force, confirm \in BOOLEAN :
          RecordIngest(c, file, force, confirm) =>
             \E i \in 1 .. Len(revisions') :
                Encode(c.binding.profile, revisions'[i].content) = file]_vars

-----------------------------------------------------------------------------
(***************************************************************************)
(* The history of a game, as its owner sees it: the line is the head and   *)
(* what it replaced, the questions are the open conflicts.                 *)
(***************************************************************************)
History == INSTANCE SaveHistory WITH
    Ids <- 1 .. MaxRevisions,
    NoId <- NoRevision,
    Contents <- Payload,
    line <- [i \in HeadLine |-> [content |-> revisions[i].content,
                                 parent |-> revisions[i].parent]],
    head <- current,
    aside <- [i \in RevisionIds \ HeadLine |-> revisions[i].content],
    questions <- {c.branch : c \in OpenConflicts},
    decisions <- requests

\* The store implements the history: whatever captures with stale bindings,
\* known branches, forced conflicts, echoes, deliveries, restores and changed
\* mappings do to the tables, the owner sees versions advance, be set aside, be
\* asked about, decided or marked, or nothing at all.  In particular no capture
\* moves a head that is in doubt, and nothing but a decision ends the doubt.
HistorySpec == History!Spec
=============================================================================
