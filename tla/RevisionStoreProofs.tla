-------------------------- MODULE RevisionStoreProofs --------------------------
(***************************************************************************)
(* Theorems of RevisionStore for every value of its constants.             *)
(*                                                                         *)
(* TypeInv, the first inductive invariant, is the type invariant and the   *)
(* existence of every revision a row or a running capture refers to: the   *)
(* RTC that Decoded reads is only a payload because the baseline exists.   *)
(* RevisionStep then reduces every step of the store to what it does to    *)
(* the revisions: nothing, a branch or a head.  The theorems about the     *)
(* history are proved from that lemma alone, and those about the other     *)
(* tables from the history.                                                *)
(*                                                                         *)
(* StepKinds, for the second half, reduces a step to one of six: none, a   *)
(* review that is opened again, a linear capture, a branch, a decision or  *)
(* a snapshot.  The reviews need the history: only while the game has no   *)
(* head can a linear capture meet an open conflict, and then no conflict   *)
(* names a head.  The six steps are those of SaveHistory, whose mapping    *)
(* leaves the tables out.                                                  *)
(***************************************************************************)
EXTENDS RevisionStore, TLAPS, WellFoundedInduction

-----------------------------------------------------------------------------
LEMMA LeastExists ==
    ASSUME NEW T \in SUBSET Nat, T # {}
    PROVE  \E x \in T : \A y \in T : x <= y
<1> DEFINE R == OpToRel(<, Nat)
<1>1. \E x \in T : \A y \in T : ~(<<y, x>> \in R)
  <2>1. IsWellFoundedOn(R, Nat)
    BY NatLessThanWellFounded
  <2> HIDE DEF R
  <2> QED
    BY <2>1, WFMin
<1>2. \A x, y \in Nat : x < y => <<x, y>> \in R
  <2> TAKE x \in Nat, y \in Nat
  <2>1. <<x, y>>[1] = x /\ <<x, y>>[2] = y /\ <<x, y>> \in Nat \X Nat
    OBVIOUS
  <2> QED
    BY <2>1, Zenon DEF OpToRel
<1> HIDE DEF R
<1>3. PICK x \in T : \A y \in T : ~(<<y, x>> \in R)
  BY <1>1
<1>4. \A y \in T : x <= y
  <2> SUFFICES ASSUME NEW y \in T, ~(x <= y) PROVE FALSE
    OBVIOUS
  <2>1. x \in Nat /\ y \in Nat /\ y < x
    OBVIOUS
  <2> QED
    BY <1>2, <1>3, <2>1
<1> QED
  BY <1>4

LEMMA LatestIsMax ==
    ASSUME NEW n \in Nat, NEW S \in SUBSET (1 .. n), S # {}
    PROVE  /\ Latest(S) \in S
           /\ \A j \in S : j <= Latest(S)
<1> DEFINE T == {k \in 0 .. n : n - k \in S}
<1>1. \A i \in S : i \in 1 .. n /\ n - i \in T /\ n - (n - i) = i
  OBVIOUS
<1>2. PICK x \in T : \A y \in T : x <= y
  <2>1. T \subseteq Nat
    OBVIOUS
  <2>2. PICK i \in S : TRUE
    OBVIOUS
  <2> HIDE DEF T
  <2>3. T # {}
    BY <1>1, <2>2
  <2> QED
    BY <2>1, <2>3, LeastExists
<1>3. x \in 0 .. n /\ n - x \in S
  OBVIOUS
<1> HIDE DEF T
<1>4. \A j \in S : j <= n - x
  BY <1>1, <1>2, <1>3
<1> QED
  BY <1>3, <1>4 DEF Latest

-----------------------------------------------------------------------------
(***************************************************************************)
(* Types.  Each table has a predicate of its own, in which n is the number *)
(* of revisions: a row refers to a revision that exists.                   *)
(***************************************************************************)
IsBindingTable(S, n) ==
    /\ S \subseteq Binding
    /\ \A b \in S : EndpointOf(b.profile) = b.endpoint /\ b.lastDeployed \in 0 .. n
    /\ \A b1, b2 \in S : b1.endpoint = b2.endpoint => b1 = b2

IsJournal(ops, n) ==
    /\ ops \in Seq(Operation)
    /\ \A i \in 1 .. Len(ops) : ops[i].revision \in 1 .. n

IsCaptureSet(S, n) ==
    /\ S \subseteq Capture
    /\ \A c \in S : c.binding.lastDeployed \in 0 .. n

TypeInv ==
    /\ revisions \in Seq(Revision)
    /\ current \in 0 .. Len(revisions)
    /\ status \in {"unconfigured", "healthy", "conflict"}
    /\ conflicts \subseteq Conflict
    /\ IsBindingTable(bindings, Len(revisions))
    /\ IsJournal(operations, Len(revisions))
    /\ requests \in [Keys -> 0 .. Len(revisions)]
    /\ IsCaptureSet(captures, Len(revisions))

\* A table stays well-formed when revisions are added.
LEMMA TablesGrow ==
    ASSUME NEW m \in Nat, NEW n \in Nat, m <= n
    PROVE  /\ \A S : IsBindingTable(S, m) => IsBindingTable(S, n)
           /\ \A ops : IsJournal(ops, m) => IsJournal(ops, n)
           /\ \A S : IsCaptureSet(S, m) => IsCaptureSet(S, n)
           /\ 0 .. m \subseteq 0 .. n
BY DEF IsBindingTable, IsJournal, IsCaptureSet

\* The file made from a payload is a payload.
LEMMA EncodeType ==
    ASSUME NEW profile, NEW content \in Payload
    PROVE  Encode(profile, content) \in Payload
BY DEF Encode, Payload

\* What is decoded with an existing baseline is a payload.
LEMMA DecodedType ==
    ASSUME revisions \in Seq(Revision),
           NEW b \in Binding, b.lastDeployed \in 0 .. Len(revisions),
           NEW file \in Payload
    PROVE  Decoded(b, file) \in Payload
<1>1. CASE b.lastDeployed = NoRevision
  BY <1>1 DEF Decoded, Payload
<1>2. CASE b.lastDeployed # NoRevision
  <2>1. b.lastDeployed \in 1 .. Len(revisions)
    BY <1>2 DEF NoRevision
  <2>2. revisions[b.lastDeployed] \in Revision
    BY <2>1
  <2>3. revisions[b.lastDeployed].content.rtc \in Rtcs \cup {NoRtc}
    BY <2>2 DEF Revision, Payload
  <2> QED
    BY <2>3 DEF Decoded, Payload
<1> QED
  BY <1>1, <1>2

\* Every row may be replaced by one of the same endpoint.
LEMMA MapTable ==
    ASSUME NEW m, NEW n \in Nat, IsBindingTable(bindings, m),
           NEW f \in [bindings -> Binding],
           \A b \in bindings : /\ f[b].endpoint = b.endpoint
                               /\ EndpointOf(f[b].profile) = b.endpoint
                               /\ f[b].lastDeployed \in 0 .. n
    PROVE  IsBindingTable({f[b] : b \in bindings}, n)
BY DEF IsBindingTable

\* A row of the bindings table may get any existing revision for baseline.
LEMMA DeployedTable ==
    ASSUME NEW m \in Nat, NEW n \in Nat, m <= n,
           IsBindingTable(bindings, m), NEW e, NEW r \in 0 .. n
    PROVE  IsBindingTable(Deployed(e, r), n)
BY DEF IsBindingTable, Deployed, Binding

\* The operations may change, but not the revisions they are for.
LEMMA JournalStates ==
    ASSUME NEW n \in Nat, IsJournal(operations, n), NEW ops \in [OperationIds -> Operation],
           \A i \in OperationIds : ops[i].revision = operations[i].revision
    PROVE  IsJournal(ops, n) /\ Len(ops) = Len(operations)
<1>1. Len(operations) \in Nat /\ OperationIds = 1 .. Len(operations)
  BY DEF IsJournal, OperationIds
<1>2. ops \in Seq(Operation) /\ Len(ops) = Len(operations)
  BY <1>1
<1> QED
  BY <1>1, <1>2 DEF IsJournal

\* An operation in another state.
LEMMA StateTypes ==
    ASSUME NEW n, IsJournal(operations, n), NEW i \in OperationIds
    PROVE  /\ operations[i] \in Operation
           /\ operations[i].revision \in 1 .. n
           /\ \A s \in {"pending", "written", "delivered", "superseded", "failed"} :
                 /\ [operations[i] EXCEPT !.state = s] \in Operation
                 /\ [operations[i] EXCEPT !.state = s].revision = operations[i].revision
<1>1. operations[i] \in Operation /\ operations[i].revision \in 1 .. n
  BY DEF IsJournal, OperationIds
<1> QED
  BY <1>1 DEF Operation

\* The table with one more row.
LEMMA AppendRevision ==
    ASSUME revisions \in Seq(Revision), NEW r \in Revision
    PROVE  /\ Append(revisions, r) \in Seq(Revision)
           /\ Len(Append(revisions, r)) = NextRevision
           /\ Append(revisions, r)[NextRevision] = r
           /\ \A i \in RevisionIds : Append(revisions, r)[i] = revisions[i]
BY DEF NextRevision, RevisionIds

\* The table with one more head: nothing else changes but the old head's state.
LEMMA WithHeadRevision ==
    ASSUME revisions \in Seq(Revision), NEW r \in Revision
    PROVE  /\ WithHead(r) \in Seq(Revision)
           /\ Len(WithHead(r)) = NextRevision
           /\ WithHead(r)[NextRevision] = r
           /\ \A i \in RevisionIds :
                 WithHead(r)[i] = IF i = current /\ revisions[i].state = "head"
                                  THEN [revisions[i] EXCEPT !.state = "history"]
                                  ELSE revisions[i]
<1>1. NextRevision \in Nat /\ NextRevision = Len(revisions) + 1
  BY DEF NextRevision
<1>2. \A i \in 1 .. NextRevision : i # NextRevision => i \in RevisionIds
  BY <1>1 DEF RevisionIds
<1>3. \A i \in RevisionIds : revisions[i] \in Revision
  BY DEF RevisionIds
<1>4. WithHead(r) \in [1 .. NextRevision -> Revision]
  BY <1>2, <1>3 DEF WithHead, Revision
<1>5. WithHead(r) \in Seq(Revision) /\ Len(WithHead(r)) = NextRevision
  BY <1>1, <1>4
<1> QED
  BY <1>1, <1>5 DEF WithHead, RevisionIds

-----------------------------------------------------------------------------
\* TypeInv holds of the empty store.
LEMMA TypeInvInit == Init => TypeInv
BY DEF Init, TypeInv, IsBindingTable, IsJournal, IsCaptureSet, NoRevision

\* A mapping is new, replaces the row of its endpoint, or changes its profile.
LEMMA UpsertBindingTypes ==
    ASSUME TypeInv, NEW profile \in Profiles, NEW path \in Paths,
           UpsertBinding(profile, path)
    PROVE  TypeInv'
<1> DEFINE e == EndpointOf(profile)
           new == [endpoint |-> e, path |-> path, profile |-> profile,
                   lastDeployed |-> NoRevision]
           f == [b \in bindings |-> IF b.endpoint = e
                                    THEN [b EXCEPT !.profile = profile, !.path = path]
                                    ELSE b]
<1>1. Len(revisions) \in Nat /\ IsBindingTable(bindings, Len(revisions))
  BY DEF TypeInv
<1>2. IsBindingTable(bindings', Len(revisions))
  <2>1. CASE RowsFor(profile) = {}
    <3>1. bindings' = bindings \cup {new} /\ \A b \in bindings : b.endpoint # e
      BY <2>1 DEF UpsertBinding, RowsFor
    <3>2. /\ new \in Binding
          /\ EndpointOf(new.profile) = new.endpoint
          /\ new.lastDeployed \in 0 .. Len(revisions)
          /\ new.endpoint = e
      BY <1>1 DEF Binding, NoRevision, Endpoints, EndpointOf
    <3> HIDE DEF new, e
    <3> QED
      BY <1>1, <3>1, <3>2 DEF IsBindingTable
  <2>2. CASE RowsFor(profile) # {}
    <3>1. bindings' = {f[b] : b \in bindings}
      BY <2>2 DEF UpsertBinding, RowsFor
    <3>2. \A b \in bindings : /\ f[b] \in Binding
                              /\ f[b].endpoint = b.endpoint
                              /\ EndpointOf(f[b].profile) = b.endpoint
                              /\ f[b].lastDeployed \in 0 .. Len(revisions)
      BY <1>1 DEF IsBindingTable, Binding
    <3>3. f \in [bindings -> Binding]
      BY <3>2
    <3> HIDE DEF f
    <3> QED
      BY <1>1, <3>1, <3>2, <3>3, MapTable
  <2> QED
    BY <2>1, <2>2
<1> QED
  BY <1>2 DEF UpsertBinding, TypeInv

LEMMA ConfigureProfileTypes ==
    ASSUME TypeInv, NEW profile \in Profiles, ConfigureWindowsGBAProfile(profile)
    PROVE  TypeInv'
<1>1. IsBindingTable(bindings', Len(revisions))
  BY DEF ConfigureWindowsGBAProfile, IsBindingTable, TypeInv, Binding, Profiles
<1> QED
  BY <1>1 DEF ConfigureWindowsGBAProfile, TypeInv

\* A capture holds a copy of a row.
LEMMA CaptureTypes ==
    ASSUME TypeInv
    PROVE  /\ \A w \in Workers, b \in bindings : FindBinding(w, b) => TypeInv'
           /\ \A lost \in SUBSET captures : AbandonCaptures(lost) => TypeInv'
<1>1. ASSUME NEW w \in Workers, NEW b \in bindings, FindBinding(w, b)
      PROVE  TypeInv'
  <2>1. IsCaptureSet(captures', Len(revisions))
    BY <1>1 DEF FindBinding, IsCaptureSet, IsBindingTable, TypeInv, Capture
  <2> QED
    BY <1>1, <2>1 DEF FindBinding, TypeInv
<1>2. ASSUME NEW lost \in SUBSET captures, AbandonCaptures(lost)
      PROVE  TypeInv'
  <2>1. IsCaptureSet(captures', Len(revisions))
    BY <1>2 DEF AbandonCaptures, IsCaptureSet, TypeInv
  <2> QED
    BY <1>2, <2>1 DEF AbandonCaptures, TypeInv
<1> QED
  BY <1>1, <1>2

\* The journal: a new operation is for a revision in the table, and the others
\* only change their state.
LEMMA CreateOperationTypes ==
    ASSUME TypeInv, NEW r \in RevisionIds, NEW e \in Endpoints, NEW path \in Paths,
           NEW profile \in Profiles, CreateOperation(r, e, path, profile)
    PROVE  TypeInv'
<1> DEFINE kept == [i \in OperationIds |->
                      IF /\ operations[i].endpoint = e
                         /\ operations[i].path = path
                         /\ IsLive(operations[i])
                      THEN [operations[i] EXCEPT !.state = "superseded"]
                      ELSE operations[i]]
           new == [revision |-> r, endpoint |-> e, path |-> path, profile |-> profile,
                   file |-> Encode(profile, revisions[r].content), state |-> "pending"]
<1>1. operations' = Append(kept, new)
  BY DEF CreateOperation
<1>2. new \in Operation
  <2>1. revisions[r] \in Revision
    BY DEF TypeInv, RevisionIds
  <2>2. revisions[r].content \in Payload
    BY <2>1 DEF Revision
  <2>3. r \in Nat
    BY DEF RevisionIds, TypeInv
  <2> QED
    BY <2>2, <2>3, EncodeType DEF Operation
<1>3. IsJournal(kept, Len(revisions))
  <2>1. Len(revisions) \in Nat /\ IsJournal(operations, Len(revisions))
    BY DEF TypeInv
  <2>2. \A i \in OperationIds : /\ kept[i] \in Operation
                                /\ kept[i].revision = operations[i].revision
    BY <2>1, StateTypes
  <2>3. kept \in [OperationIds -> Operation]
    BY <2>2
  <2> HIDE DEF kept
  <2> QED
    BY <2>1, <2>2, <2>3, JournalStates
<1>4. new.revision \in 1 .. Len(revisions)
  BY DEF RevisionIds
<1> HIDE DEF kept, new
<1>5. IsJournal(operations', Len(revisions))
  BY <1>1, <1>2, <1>3, <1>4 DEF IsJournal
<1> QED
  BY <1>5 DEF CreateOperation, TypeInv

LEMMA UpdateOperationTypes ==
    ASSUME TypeInv, NEW i \in OperationIds, NEW s \in {"written", "failed"},
           UpdateOperation(i, s)
    PROVE  TypeInv'
<1>1. Len(revisions) \in Nat /\ IsJournal(operations, Len(revisions))
  BY DEF TypeInv
<1>2. operations \in [OperationIds -> Operation]
  BY <1>1 DEF IsJournal, OperationIds
<1>3. operations' \in [OperationIds -> Operation]
  BY <1>1, <1>2, StateTypes DEF UpdateOperation
<1>4. \A j \in OperationIds : operations'[j].revision = operations[j].revision
  BY <1>1, <1>2, StateTypes DEF UpdateOperation
<1>5. IsJournal(operations', Len(revisions))
  BY <1>1, <1>3, <1>4, JournalStates
<1> QED
  BY <1>5 DEF UpdateOperation, TypeInv

LEMMA CompleteTypes ==
    ASSUME TypeInv, NEW e \in Endpoints, CompleteEndpointDeliveries(e)
    PROVE  TypeInv'
<1> DEFINE matching(b) == {i \in Written(e) : /\ operations[i].path = b.path
                                              /\ operations[i].profile = b.profile}
           f == [b \in bindings |->
                   IF b.endpoint = e /\ matching(b) # {}
                   THEN [b EXCEPT !.lastDeployed = operations[Latest(matching(b))].revision]
                   ELSE b]
<1>1. /\ Len(revisions) \in Nat
      /\ Len(operations) \in Nat
      /\ IsJournal(operations, Len(revisions))
      /\ IsBindingTable(bindings, Len(revisions))
  BY DEF TypeInv, IsJournal
<1>2. IsJournal(operations', Len(revisions))
  <2>1. \A i \in OperationIds : /\ operations'[i] \in Operation
                                /\ operations'[i].revision = operations[i].revision
    BY <1>1, StateTypes DEF CompleteEndpointDeliveries
  <2>2. operations' \in [OperationIds -> Operation]
    BY <2>1 DEF CompleteEndpointDeliveries
  <2> QED
    BY <1>1, <2>1, <2>2, JournalStates
<1>3. \A b \in bindings : matching(b) # {} =>
          operations[Latest(matching(b))].revision \in 0 .. Len(revisions)
  <2> TAKE b \in bindings
  <2>1. matching(b) \in SUBSET (1 .. Len(operations))
    BY DEF Written, OperationIds
  <2> HIDE DEF matching
  <2> HAVE matching(b) # {}
  <2>2. Latest(matching(b)) \in 1 .. Len(operations)
    BY <1>1, <2>1, LatestIsMax
  <2> QED
    BY <1>1, <2>2 DEF IsJournal
<1>4. bindings' = {f[b] : b \in bindings}
  BY DEF CompleteEndpointDeliveries
<1> HIDE DEF matching
<1>5. \A b \in bindings : /\ f[b] \in Binding
                          /\ f[b].endpoint = b.endpoint
                          /\ EndpointOf(f[b].profile) = b.endpoint
                          /\ f[b].lastDeployed \in 0 .. Len(revisions)
  BY <1>1, <1>3 DEF IsBindingTable, Binding
<1>6. f \in [bindings -> Binding]
  BY <1>5
<1> HIDE DEF f
<1>7. IsBindingTable(bindings', Len(revisions))
  BY <1>1, <1>4, <1>5, <1>6, MapTable
<1> QED
  BY <1>2, <1>7 DEF CompleteEndpointDeliveries, TypeInv

\* A step that adds one revision and leaves the journal alone.
LEMMA NewRevisionTypes ==
    ASSUME TypeInv,
           revisions' \in Seq(Revision), Len(revisions') = NextRevision,
           current' \in {current, NextRevision},
           status' \in {"unconfigured", "healthy", "conflict"},
           conflicts' \subseteq Conflict,
           IsBindingTable(bindings', NextRevision),
           operations' = operations,
           requests' \in [Keys -> 0 .. NextRevision],
           captures' \subseteq captures
    PROVE  TypeInv'
<1>1. Len(revisions) \in Nat /\ NextRevision \in Nat /\ Len(revisions) <= NextRevision
  BY DEF TypeInv, NextRevision
<1>2. IsJournal(operations', NextRevision)
  BY <1>1, TablesGrow DEF TypeInv
<1>3. IsCaptureSet(captures', NextRevision)
  <2>1. IsCaptureSet(captures, NextRevision)
    BY <1>1, TablesGrow DEF TypeInv
  <2> QED
    BY <2>1 DEF IsCaptureSet
<1>4. current' \in 0 .. NextRevision
  BY <1>1 DEF TypeInv
<1> QED
  BY <1>2, <1>3, <1>4 DEF TypeInv

\* An echo changes the state of an operation, and perhaps a baseline to its
\* revision.
LEMMA EchoTypes ==
    ASSUME TypeInv, NEW b \in Binding, NEW file, NEW force, NEW confirm \in BOOLEAN,
           RecordEcho(b, file, force, confirm), requests' = requests,
           captures' \subseteq captures
    PROVE  TypeInv'
<1> DEFINE i == Latest(Echoes(b, file))
<1>1. /\ Len(revisions) \in Nat
      /\ IsJournal(operations, Len(revisions))
      /\ IsBindingTable(bindings, Len(revisions))
  BY DEF TypeInv
<1>2. operations \in [OperationIds -> Operation] /\ OperationIds = 1 .. Len(operations)
      /\ Len(operations) \in Nat
  BY <1>1 DEF IsJournal, OperationIds
<1>3. i \in OperationIds
  <2>1. Echoes(b, file) \in SUBSET (1 .. Len(operations)) /\ Echoes(b, file) # {}
    BY DEF RecordEcho, IsEcho, Echoes, OperationIds
  <2> QED
    BY <1>2, <2>1, LatestIsMax
<1>4. /\ operations' = [operations EXCEPT ![i].state =
                           IF confirm THEN "delivered" ELSE "written"]
      /\ bindings' = IF confirm THEN Deployed(b.endpoint, operations[i].revision)
                     ELSE bindings
      /\ UNCHANGED <<revisions, current, status, conflicts>>
  BY DEF RecordEcho
<1> HIDE DEF i
<1>5. IsJournal(operations', Len(revisions))
  <2>1. operations' \in [OperationIds -> Operation]
    BY <1>1, <1>2, <1>3, <1>4, StateTypes
  <2>2. \A j \in OperationIds : operations'[j].revision = operations[j].revision
    BY <1>1, <1>2, <1>3, <1>4, StateTypes
  <2> QED
    BY <1>1, <2>1, <2>2, JournalStates
<1>6. IsBindingTable(bindings', Len(revisions))
  <2>1. operations[i].revision \in 1 .. Len(revisions)
    BY <1>1, <1>2, <1>3 DEF IsJournal
  <2> QED
    BY <1>1, <1>4, <2>1, DeployedTable
<1>7. IsCaptureSet(captures', Len(revisions))
  BY DEF TypeInv, IsCaptureSet
<1> QED
  BY <1>4, <1>5, <1>6, <1>7 DEF TypeInv

LEMMA DuplicateTypes ==
    ASSUME TypeInv, NEW b \in Binding, NEW file, NEW force,
           RecordDuplicate(b, file, force), requests' = requests,
           captures' \subseteq captures
    PROVE  TypeInv'
<1>1. IsBindingTable(bindings', Len(revisions))
  <2>1. Len(revisions) \in Nat /\ IsBindingTable(bindings, Len(revisions))
    BY DEF TypeInv
  <2>2. current \in 0 .. Len(revisions)
    BY DEF TypeInv
  <2> QED
    BY <2>1, <2>2, DeployedTable DEF RecordDuplicate
<1>2. IsCaptureSet(captures', Len(revisions))
  BY DEF TypeInv, IsCaptureSet
<1> QED
  BY <1>1, <1>2 DEF RecordDuplicate, TypeInv

\* The branch whose review is reopened exists.
LEMMA KnownBranchTypes ==
    ASSUME TypeInv, NEW b \in Binding, NEW file, NEW force,
           RecordKnownBranch(b, file, force), requests' = requests,
           captures' \subseteq captures
    PROVE  TypeInv'
<1> DEFINE known == BranchesWith(Decoded(b, file))
           i == Latest(known)
<1>1. i \in Nat
  <2>1. known \in SUBSET (1 .. Len(revisions)) /\ known # {} /\ Len(revisions) \in Nat
    BY DEF RecordKnownBranch, BranchesWith, RevisionIds, TypeInv
  <2> HIDE DEF known
  <2>2. i \in known
    BY <2>1, LatestIsMax
  <2> HIDE DEF i
  <2>3. i \in 1 .. Len(revisions)
    BY <2>1, <2>2
  <2> QED
    BY <2>3
<1>2. /\ \/ UNCHANGED <<conflicts, status>>
         \/ /\ conflicts' = conflicts \cup
                  {[head |-> current, branch |-> i, state |-> "open"]}
            /\ status' = "conflict"
      /\ UNCHANGED <<revisions, current, bindings, operations>>
  BY DEF RecordKnownBranch
<1> HIDE DEF i
<1>3. conflicts' \subseteq Conflict /\ status' \in {"unconfigured", "healthy", "conflict"}
  BY <1>1, <1>2 DEF TypeInv, Conflict
<1>4. IsCaptureSet(captures', Len(revisions))
  BY DEF TypeInv, IsCaptureSet
<1> QED
  BY <1>2, <1>3, <1>4 DEF TypeInv

\* The two kinds of revision a capture adds are well-formed rows.
LEMMA CapturedTypes ==
    ASSUME TypeInv, NEW b \in Binding, b.lastDeployed \in 0 .. Len(revisions),
           NEW file \in Payload
    PROVE  /\ [parent |-> current, content |-> Decoded(b, file), source |-> b.endpoint,
               kind |-> "captured", from |-> NoRevision, state |-> "head"] \in Revision
           /\ [parent |-> b.lastDeployed, content |-> Decoded(b, file),
               source |-> b.endpoint, kind |-> "conflict", from |-> NoRevision,
               state |-> "branch"] \in Revision
<1>1. Decoded(b, file) \in Payload
  BY DecodedType DEF TypeInv
<1>2. current \in Nat /\ b.lastDeployed \in Nat /\ b.endpoint \in Endpoints
  BY DEF TypeInv, Binding
<1> QED
  BY <1>1, <1>2 DEF Revision, NoRevision

\* A user's head copies the payload of an existing revision.
LEMMA CopyTypes ==
    ASSUME TypeInv, NEW source \in RevisionIds,
           NEW kind \in {"restore", "promote", "snapshot"},
           NEW from \in Nat
    PROVE  [parent |-> current, content |-> revisions[source].content, source |-> "none",
            kind |-> kind, from |-> from, state |-> "head"] \in Revision
<1>1. revisions[source] \in Revision
  BY DEF TypeInv, RevisionIds
<1>2. revisions[source].content \in Payload
  BY <1>1 DEF Revision
<1>3. current \in Nat
  BY DEF TypeInv
<1> QED
  BY <1>2, <1>3 DEF Revision

(***************************************************************************)
(* What a step may do to the revisions.                                    *)
(***************************************************************************)
KeepsRevisions == UNCHANGED <<revisions, current>>

AddsBranch ==
    /\ current' = current
    /\ Len(revisions) < MaxRevisions
    /\ \E r \in Revision : r.state = "branch" /\ revisions' = Append(revisions, r)

AddsHead ==
    /\ current' = NextRevision
    /\ Len(revisions) < MaxRevisions
    /\ \E r \in Revision : /\ r.state = "head"
                           /\ r.parent = current
                           /\ revisions' = WithHead(r)

LEMMA LinearTypes ==
    ASSUME TypeInv, NEW b \in Binding, b.lastDeployed \in 0 .. Len(revisions),
           NEW file \in Payload, NEW force,
           RecordLinear(b, file, force), requests' = requests,
           captures' \subseteq captures
    PROVE  TypeInv' /\ AddsHead
<1> DEFINE r == [parent |-> current, content |-> Decoded(b, file), source |-> b.endpoint,
                 kind |-> "captured", from |-> NoRevision, state |-> "head"]
<1>1. r \in Revision /\ r.state = "head" /\ r.parent = current
  BY CapturedTypes
<1>2. revisions' = WithHead(r) /\ current' = NextRevision /\ status' = "healthy"
      /\ bindings' = Deployed(b.endpoint, NextRevision)
      /\ UNCHANGED <<conflicts, operations>> /\ Len(revisions) < MaxRevisions
  BY DEF RecordLinear, IsNew
<1> HIDE DEF r
<1>3. AddsHead
  BY <1>1, <1>2 DEF AddsHead
<1>4. revisions' \in Seq(Revision) /\ Len(revisions') = NextRevision
  BY <1>1, <1>2, WithHeadRevision DEF TypeInv
<1>5. Len(revisions) \in Nat /\ NextRevision \in Nat /\ Len(revisions) <= NextRevision
  BY DEF TypeInv, NextRevision
<1>6. IsBindingTable(bindings', NextRevision)
  BY <1>2, <1>5, DeployedTable DEF TypeInv
<1>7. requests' \in [Keys -> 0 .. NextRevision]
  BY <1>5 DEF TypeInv
<1>8. conflicts' \subseteq Conflict
  BY <1>2 DEF TypeInv
<1> QED
  BY <1>2, <1>3, <1>4, <1>6, <1>7, <1>8, NewRevisionTypes

LEMMA BranchTypes ==
    ASSUME TypeInv, NEW b \in Binding, b.lastDeployed \in 0 .. Len(revisions),
           NEW file \in Payload, NEW force,
           RecordBranch(b, file, force), requests' = requests,
           captures' \subseteq captures
    PROVE  TypeInv' /\ AddsBranch
<1> DEFINE r == [parent |-> b.lastDeployed, content |-> Decoded(b, file),
                 source |-> b.endpoint, kind |-> "conflict", from |-> NoRevision,
                 state |-> "branch"]
           c == [head |-> current, branch |-> NextRevision, state |-> "open"]
<1>1. r \in Revision /\ r.state = "branch"
  BY CapturedTypes
<1>2. revisions' = Append(revisions, r) /\ status' = "conflict"
      /\ conflicts' = conflicts \cup {c}
      /\ UNCHANGED <<current, bindings, operations>> /\ Len(revisions) < MaxRevisions
  BY DEF RecordBranch, IsNew
<1>3. Len(revisions) \in Nat /\ NextRevision \in Nat /\ Len(revisions) <= NextRevision
  BY DEF TypeInv, NextRevision
<1>4. c \in Conflict
  BY <1>3 DEF Conflict, TypeInv
<1> HIDE DEF r, c
<1>5. AddsBranch
  BY <1>1, <1>2 DEF AddsBranch
<1>6. revisions' \in Seq(Revision) /\ Len(revisions') = NextRevision
  BY <1>1, <1>2, AppendRevision DEF TypeInv
<1>7. IsBindingTable(bindings', NextRevision)
  BY <1>2, <1>3, TablesGrow DEF TypeInv
<1>8. requests' \in [Keys -> 0 .. NextRevision]
  BY <1>3 DEF TypeInv
<1>9. conflicts' \subseteq Conflict
  BY <1>2, <1>4 DEF TypeInv
<1> QED
  BY <1>2, <1>5, <1>6, <1>7, <1>8, <1>9, NewRevisionTypes

LEMMA HeadFromExistingTypes ==
    ASSUME TypeInv, NEW k \in Keys, NEW kind \in {"restore", "promote"},
           NEW source \in RevisionIds, NEW expected,
           CreateHeadFromExisting(k, kind, source, expected)
    PROVE  TypeInv' /\ AddsHead
<1> DEFINE r == HeadCopy(kind, source)
<1>1. r \in Revision /\ r.state = "head" /\ r.parent = current
  <2>1. source \in Nat
    BY DEF RevisionIds, TypeInv
  <2> QED
    BY <2>1, CopyTypes DEF HeadCopy
<1>2. /\ revisions' = WithHead(r)
      /\ current' = NextRevision
      /\ status' = "healthy"
      /\ conflicts' = {[c EXCEPT !.state = "resolved"] : c \in conflicts}
      /\ requests' = [requests EXCEPT ![k] = NextRevision]
      /\ UNCHANGED <<bindings, operations, captures>>
      /\ Len(revisions) < MaxRevisions
  BY DEF CreateHeadFromExisting
<1> HIDE DEF r
<1>3. AddsHead
  BY <1>1, <1>2 DEF AddsHead
<1>4. revisions' \in Seq(Revision) /\ Len(revisions') = NextRevision
  BY <1>1, <1>2, WithHeadRevision DEF TypeInv
<1>5. Len(revisions) \in Nat /\ NextRevision \in Nat /\ Len(revisions) <= NextRevision
  BY DEF TypeInv, NextRevision
<1>6. IsBindingTable(bindings', NextRevision)
  BY <1>2, <1>5, TablesGrow DEF TypeInv
<1>7. requests' \in [Keys -> 0 .. NextRevision]
  BY <1>2, <1>5 DEF TypeInv
<1>8. conflicts' \subseteq Conflict
  BY <1>2 DEF TypeInv, Conflict
<1> QED
  BY <1>2, <1>3, <1>4, <1>6, <1>7, <1>8, NewRevisionTypes

LEMMA SnapshotTypes ==
    ASSUME TypeInv, NEW k \in Keys, NEW expected, CreateSnapshot(k, expected)
    PROVE  TypeInv' /\ AddsHead
<1> DEFINE r == [parent |-> current, content |-> revisions[current].content,
                 source |-> "none", kind |-> "snapshot", from |-> NoRevision,
                 state |-> "head"]
           f == [b \in bindings |-> IF b.lastDeployed = current
                                    THEN [b EXCEPT !.lastDeployed = NextRevision] ELSE b]
<1>1. r \in Revision /\ r.state = "head" /\ r.parent = current
  <2>1. current \in RevisionIds /\ NoRevision \in Nat
    BY DEF CreateSnapshot, TypeInv, RevisionIds, NoRevision
  <2> QED
    BY <2>1, CopyTypes
<1>2. /\ revisions' = WithHead(r)
      /\ current' = NextRevision
      /\ bindings' = {f[b] : b \in bindings}
      /\ requests' = [requests EXCEPT ![k] = NextRevision]
      /\ UNCHANGED <<status, conflicts, operations, captures>>
      /\ Len(revisions) < MaxRevisions
  BY DEF CreateSnapshot
<1>3. Len(revisions) \in Nat /\ NextRevision \in Nat /\ NextRevision = Len(revisions) + 1
  BY DEF TypeInv, NextRevision
<1>4. \A b \in bindings : /\ f[b] \in Binding
                          /\ f[b].endpoint = b.endpoint
                          /\ EndpointOf(f[b].profile) = b.endpoint
                          /\ f[b].lastDeployed \in 0 .. NextRevision
  BY <1>3 DEF TypeInv, IsBindingTable, Binding
<1>5. f \in [bindings -> Binding]
  BY <1>4
<1> HIDE DEF r, f
<1>6. AddsHead
  BY <1>1, <1>2 DEF AddsHead
<1>7. revisions' \in Seq(Revision) /\ Len(revisions') = NextRevision
  BY <1>1, <1>2, WithHeadRevision DEF TypeInv
<1>8. IsBindingTable(bindings', NextRevision)
  BY <1>2, <1>3, <1>4, <1>5, MapTable DEF TypeInv
<1>9. requests' \in [Keys -> 0 .. NextRevision]
  BY <1>2, <1>3 DEF TypeInv
<1> QED
  BY <1>2, <1>6, <1>7, <1>8, <1>9, NewRevisionTypes DEF TypeInv

LEMMA IngestTypes ==
    ASSUME TypeInv, NEW c \in captures, NEW file \in Payload, NEW force \in BOOLEAN,
           NEW confirm \in BOOLEAN, RecordIngest(c, file, force, confirm)
    PROVE  TypeInv' /\ (KeepsRevisions \/ AddsBranch \/ AddsHead)
<1> DEFINE b == c.binding
<1>1. /\ b \in Binding /\ b.lastDeployed \in 0 .. Len(revisions)
      /\ requests' = requests /\ captures' \subseteq captures
  BY DEF TypeInv, IsCaptureSet, Capture, RecordIngest
<1> HIDE DEF b
<1>2. CASE RecordEcho(b, file, force, confirm)
  BY <1>1, <1>2, EchoTypes DEF RecordEcho, KeepsRevisions
<1>3. CASE RecordDuplicate(b, file, force)
  BY <1>1, <1>3, DuplicateTypes DEF RecordDuplicate, KeepsRevisions
<1>4. CASE RecordKnownBranch(b, file, force)
  BY <1>1, <1>4, KnownBranchTypes DEF RecordKnownBranch, KeepsRevisions
<1>5. CASE RecordLinear(b, file, force)
  BY <1>1, <1>5, LinearTypes
<1>6. CASE RecordBranch(b, file, force)
  BY <1>1, <1>6, BranchTypes
<1> QED
  BY <1>2, <1>3, <1>4, <1>5, <1>6 DEF RecordIngest, b

\* Every step keeps TypeInv and does one of three things to the revisions.
LEMMA RevisionStep ==
    ASSUME TypeInv, [Next]_vars
    PROVE  TypeInv' /\ (KeepsRevisions \/ AddsBranch \/ AddsHead)
<1>1. ASSUME NEW profile \in Profiles, NEW path \in Paths, UpsertBinding(profile, path)
      PROVE  TypeInv' /\ KeepsRevisions
  BY <1>1, UpsertBindingTypes DEF UpsertBinding, KeepsRevisions
<1>2. ASSUME NEW profile \in Profiles, ConfigureWindowsGBAProfile(profile)
      PROVE  TypeInv' /\ KeepsRevisions
  BY <1>2, ConfigureProfileTypes DEF ConfigureWindowsGBAProfile, KeepsRevisions
<1>3. ASSUME NEW w \in Workers, NEW b \in bindings, FindBinding(w, b)
      PROVE  TypeInv' /\ KeepsRevisions
  BY <1>3, CaptureTypes DEF FindBinding, KeepsRevisions
<1>4. ASSUME NEW c \in captures, NEW file \in Payload, NEW force \in BOOLEAN,
             NEW confirm \in BOOLEAN, RecordIngest(c, file, force, confirm)
      PROVE  TypeInv' /\ (KeepsRevisions \/ AddsBranch \/ AddsHead)
  BY <1>4, IngestTypes
<1>5. ASSUME NEW lost \in SUBSET captures, AbandonCaptures(lost)
      PROVE  TypeInv' /\ KeepsRevisions
  BY <1>5, CaptureTypes DEF AbandonCaptures, KeepsRevisions
<1>6. ASSUME NEW r \in RevisionIds, NEW e \in Endpoints, NEW path \in Paths,
             NEW profile \in Profiles, CreateOperation(r, e, path, profile)
      PROVE  TypeInv' /\ KeepsRevisions
  BY <1>6, CreateOperationTypes DEF CreateOperation, KeepsRevisions
<1>7. ASSUME NEW i \in OperationIds, NEW s \in {"written", "failed"}, UpdateOperation(i, s)
      PROVE  TypeInv' /\ KeepsRevisions
  BY <1>7, UpdateOperationTypes DEF UpdateOperation, KeepsRevisions
<1>8. ASSUME NEW e \in Endpoints, CompleteEndpointDeliveries(e)
      PROVE  TypeInv' /\ KeepsRevisions
  BY <1>8, CompleteTypes DEF CompleteEndpointDeliveries, KeepsRevisions
<1>9. ASSUME NEW k \in Keys, NEW kind \in {"restore", "promote"}, NEW source \in RevisionIds,
             NEW expected \in 0 .. Len(revisions),
             CreateHeadFromExisting(k, kind, source, expected)
      PROVE  TypeInv' /\ AddsHead
  BY <1>9, HeadFromExistingTypes
<1>10. ASSUME NEW k \in Keys, NEW expected \in 0 .. Len(revisions),
              CreateSnapshot(k, expected)
       PROVE  TypeInv' /\ AddsHead
  BY <1>10, SnapshotTypes
<1>11. CASE UNCHANGED vars
  BY <1>11 DEF vars, TypeInv, KeepsRevisions
<1> QED
  BY <1>1, <1>2, <1>3, <1>4, <1>5, <1>6, <1>7, <1>8, <1>9, <1>10, <1>11 DEF Next

\* Every row refers to revisions that exist, whatever captures, deliveries,
\* restores and changed mappings interleave.
THEOREM RowsReferToRevisions == Spec => []TypeInv
<1>1. Init => TypeInv
  BY TypeInvInit
<1>2. TypeInv /\ [Next]_vars => TypeInv'
  BY RevisionStep
<1> QED
  BY <1>1, <1>2, PTL DEF Spec

\* Every row of every table has its type, and an endpoint has one binding.
THEOREM TypeCorrect == Spec => []TypeOK
<1>1. TypeInv => TypeOK
  BY DEF TypeInv, TypeOK, IsBindingTable, IsJournal, IsCaptureSet
<1> QED
  BY <1>1, RowsReferToRevisions, PTL

-----------------------------------------------------------------------------
(***************************************************************************)
(* The history.  HeadIsCurrent and LinearHistory are inductive together    *)
(* with the fact that no revision of the head's line is newer than it: a   *)
(* new head then finds only branches between its parent and itself.        *)
(***************************************************************************)
NewestIsHead == \A i \in HeadLine : i <= current

HistoryInv == HeadIsCurrent /\ LinearHistory /\ NewestIsHead

StepsRevisions == KeepsRevisions \/ AddsBranch \/ AddsHead

\* A step adds a branch, or a head below the old one, or neither; the state of
\* the old head is all it changes of the others.
LEMMA OneMoreRevision ==
    ASSUME TypeInv, StepsRevisions
    PROVE  \/ UNCHANGED <<revisions, current>>
           \/ /\ RevisionIds' = RevisionIds \cup {NextRevision}
              /\ revisions'[NextRevision].state = "branch"
              /\ current' = current
              /\ \A i \in RevisionIds : revisions'[i] = revisions[i]
           \/ /\ RevisionIds' = RevisionIds \cup {NextRevision}
              /\ revisions'[NextRevision].state = "head"
              /\ revisions'[NextRevision].parent = current
              /\ current' = NextRevision
              /\ \A i \in RevisionIds :
                    revisions'[i] = IF i = current /\ revisions[i].state = "head"
                                    THEN [revisions[i] EXCEPT !.state = "history"]
                                    ELSE revisions[i]
<1>1. Len(revisions) \in Nat /\ revisions \in Seq(Revision)
  BY DEF TypeInv
<1>2. 1 .. NextRevision = RevisionIds \cup {NextRevision}
  BY <1>1 DEF RevisionIds, NextRevision
<1>3. CASE KeepsRevisions
  BY <1>3 DEF KeepsRevisions
<1>4. CASE AddsBranch
  <2>1. PICK r \in Revision : r.state = "branch" /\ revisions' = Append(revisions, r)
    BY <1>4 DEF AddsBranch
  <2>2. /\ Len(revisions') = NextRevision
        /\ revisions'[NextRevision] = r
        /\ \A i \in RevisionIds : revisions'[i] = revisions[i]
    BY <1>1, <2>1, AppendRevision
  <2>3. RevisionIds' = 1 .. NextRevision /\ current' = current
    BY <1>4, <2>2 DEF AddsBranch, RevisionIds
  <2> QED
    BY <1>2, <2>1, <2>2, <2>3
<1>5. CASE AddsHead
  <2>1. PICK r \in Revision : /\ r.state = "head"
                              /\ r.parent = current
                              /\ revisions' = WithHead(r)
    BY <1>5 DEF AddsHead
  <2>2. /\ Len(revisions') = NextRevision
        /\ revisions'[NextRevision] = r
        /\ \A i \in RevisionIds :
              revisions'[i] = IF i = current /\ revisions[i].state = "head"
                              THEN [revisions[i] EXCEPT !.state = "history"]
                              ELSE revisions[i]
    BY <1>1, <2>1, WithHeadRevision
  <2>3. RevisionIds' = 1 .. NextRevision /\ current' = NextRevision
    BY <1>5, <2>2 DEF AddsHead, RevisionIds
  <2> QED
    BY <1>2, <2>1, <2>2, <2>3
<1> QED
  BY <1>3, <1>4, <1>5 DEF StepsRevisions

\* A new revision has a number of its own.
LEMMA NextIsNew ==
    ASSUME TypeInv
    PROVE  /\ NextRevision \in Nat
           /\ current \in Nat
           /\ current < NextRevision
           /\ \A i \in RevisionIds : i \in Nat /\ i < NextRevision
           /\ current # NoRevision => current \in RevisionIds
           /\ \A i \in RevisionIds : revisions[i] \in Revision
BY DEF TypeInv, NextRevision, RevisionIds, NoRevision

\* The line of the head stays as it was, or a new head extends it.
LEMMA LineIsExtended ==
    ASSUME TypeInv, StepsRevisions
    PROVE  /\ \/ HeadLine' = HeadLine /\ current' = current
              \/ /\ HeadLine' = HeadLine \cup {NextRevision}
                 /\ current' = NextRevision
                 /\ revisions'[NextRevision].parent = current
           /\ \A i \in HeadLine : revisions'[i].parent = revisions[i].parent
<1>1. CASE UNCHANGED <<revisions, current>>
  BY <1>1 DEF HeadLine, RevisionIds
<1>2. CASE /\ RevisionIds' = RevisionIds \cup {NextRevision}
           /\ revisions'[NextRevision].state = "branch"
           /\ current' = current
           /\ \A i \in RevisionIds : revisions'[i] = revisions[i]
  BY <1>2 DEF HeadLine
<1>3. CASE /\ RevisionIds' = RevisionIds \cup {NextRevision}
           /\ revisions'[NextRevision].state = "head"
           /\ revisions'[NextRevision].parent = current
           /\ current' = NextRevision
           /\ \A i \in RevisionIds :
                 revisions'[i] = IF i = current /\ revisions[i].state = "head"
                                 THEN [revisions[i] EXCEPT !.state = "history"]
                                 ELSE revisions[i]
  <2>1. \A i \in RevisionIds : /\ revisions'[i].state = "branch" <=> revisions[i].state = "branch"
                               /\ revisions'[i].parent = revisions[i].parent
    BY <1>3, NextIsNew DEF Revision
  <2> QED
    BY <1>3, <2>1 DEF HeadLine
<1> QED
  BY <1>1, <1>2, <1>3, OneMoreRevision

LEMMA HistoryInit == Init => HistoryInv
BY DEF Init, HistoryInv, HeadIsCurrent, LinearHistory, NewestIsHead, HeadLine, RevisionIds

\* One head: the old one has become history when another is added.
LEMMA HeadStep ==
    ASSUME TypeInv, HeadIsCurrent, StepsRevisions
    PROVE  HeadIsCurrent'
<1>1. CASE UNCHANGED <<revisions, current>>
  BY <1>1 DEF HeadIsCurrent, RevisionIds
<1>2. CASE /\ RevisionIds' = RevisionIds \cup {NextRevision}
           /\ revisions'[NextRevision].state = "branch"
           /\ current' = current
           /\ \A i \in RevisionIds : revisions'[i] = revisions[i]
  BY <1>2, NextIsNew DEF HeadIsCurrent
<1>3. CASE /\ RevisionIds' = RevisionIds \cup {NextRevision}
           /\ revisions'[NextRevision].state = "head"
           /\ revisions'[NextRevision].parent = current
           /\ current' = NextRevision
           /\ \A i \in RevisionIds :
                 revisions'[i] = IF i = current /\ revisions[i].state = "head"
                                 THEN [revisions[i] EXCEPT !.state = "history"]
                                 ELSE revisions[i]
  <2>1. \A i \in RevisionIds : revisions'[i].state # "head" /\ i # NextRevision
    BY <1>3, NextIsNew DEF HeadIsCurrent, Revision
  <2> QED
    BY <1>3, <2>1 DEF HeadIsCurrent
<1> QED
  BY <1>1, <1>2, <1>3, OneMoreRevision

\* The parent of a new head is the newest revision of the line.
LEMMA LineStep ==
    ASSUME TypeInv, HistoryInv, StepsRevisions
    PROVE  LinearHistory' /\ NewestIsHead'
<1>1. \A i \in HeadLine : i \in Nat /\ i < NextRevision
  BY NextIsNew DEF HeadLine
<1>2. current = NoRevision \/ current \in HeadLine
  BY NextIsNew DEF HistoryInv, HeadIsCurrent, HeadLine
<1>3. \A i \in HeadLine : revisions'[i].parent = revisions[i].parent
  BY LineIsExtended
<1>4. CASE HeadLine' = HeadLine /\ current' = current
  BY <1>3, <1>4 DEF HistoryInv, LinearHistory, NewestIsHead, IsBaseline
<1>5. CASE /\ HeadLine' = HeadLine \cup {NextRevision}
           /\ current' = NextRevision
           /\ revisions'[NextRevision].parent = current
  <2>1. ASSUME NEW i \in HeadLine
        PROVE  /\ revisions'[i].parent < i
               /\ IsBaseline(revisions[i].parent)
               /\ revisions[i].parent = revisions'[i].parent
               /\ \A j \in HeadLine' : j <= revisions'[i].parent \/ i <= j
    BY <1>1, <1>3, <1>5, NextIsNew DEF HistoryInv, LinearHistory
  <2>2. /\ current < NextRevision
        /\ \A j \in HeadLine' : j <= current \/ NextRevision <= j
    BY <1>5, NextIsNew DEF HistoryInv, NewestIsHead
  <2>3. LinearHistory'
    BY <1>2, <1>5, <2>1, <2>2 DEF LinearHistory, IsBaseline
  <2>4. NewestIsHead'
    BY <1>1, <1>5, NextIsNew DEF NewestIsHead
  <2> QED
    BY <2>3, <2>4
<1> QED
  BY <1>4, <1>5, LineIsExtended

LEMMA HistoryStep ==
    ASSUME TypeInv, HistoryInv, [Next]_vars
    PROVE  HistoryInv'
<1>1. StepsRevisions
  BY RevisionStep DEF StepsRevisions
<1> QED
  BY <1>1, HeadStep, LineStep DEF HistoryInv

\* The strengthening the next two theorems follow from.
THEOREM HistoryInvariant == Spec => []HistoryInv
<1>1. Init => HistoryInv
  BY HistoryInit
<1>2. TypeInv /\ HistoryInv /\ [Next]_vars => HistoryInv'
  BY HistoryStep
<1> QED
  BY <1>1, <1>2, RowsReferToRevisions, PTL DEF Spec

\* However captures, restores, promotions and snapshots interleave, the game
\* has exactly one head and current_revision_id names it.
THEOREM OneHead == Spec => []HeadIsCurrent
<1>1. HistoryInv => HeadIsCurrent
  BY DEF HistoryInv
<1> QED
  BY <1>1, HistoryInvariant, PTL

\* The heads form one line from the first to the current: no capture with a
\* stale binding and no user's decision ever forks or skips history.
THEOREM OneLine == Spec => []LinearHistory
<1>1. HistoryInv => LinearHistory
  BY DEF HistoryInv
<1> QED
  BY <1>1, HistoryInvariant, PTL

\* A step changes nothing of an archived revision but the state of a head that
\* another head replaces, whoever asked for the step.
THEOREM RevisionsAreImmutable == Spec => ImmutableRevisions
<1> DEFINE Kept(i) == /\ i <= Len(revisions')
                      /\ \/ revisions'[i] = revisions[i]
                         \/ /\ i = current
                            /\ current' # current
                            /\ revisions'[i] = [revisions[i] EXCEPT !.state = "history"]
<1>1. ASSUME TypeInv, [Next]_vars
      PROVE  [\A i \in RevisionIds : Kept(i)]_vars
  <2>1. StepsRevisions /\ TypeInv'
    BY <1>1, RevisionStep DEF StepsRevisions
  <2>2. \A i \in RevisionIds' : i <= Len(revisions')
    BY <2>1 DEF TypeInv, RevisionIds
  <2> SUFFICES ASSUME NEW i \in RevisionIds PROVE Kept(i)
    OBVIOUS
  <2>3. CASE UNCHANGED <<revisions, current>>
    BY <2>2, <2>3 DEF RevisionIds
  <2>4. CASE /\ RevisionIds' = RevisionIds \cup {NextRevision}
             /\ \A j \in RevisionIds : revisions'[j] = revisions[j]
    BY <2>2, <2>4
  <2>5. CASE /\ RevisionIds' = RevisionIds \cup {NextRevision}
             /\ current' = NextRevision
             /\ \A j \in RevisionIds :
                   revisions'[j] = IF j = current /\ revisions[j].state = "head"
                                   THEN [revisions[j] EXCEPT !.state = "history"]
                                   ELSE revisions[j]
    <3>1. current' # current
      BY <1>1, <2>5, NextIsNew
    <3> QED
      BY <2>2, <2>5, <3>1
  <2> QED
    BY <1>1, <2>1, <2>3, <2>4, <2>5, OneMoreRevision
<1> QED
  BY <1>1, RowsReferToRevisions, PTL DEF Spec, ImmutableRevisions

-----------------------------------------------------------------------------
(***************************************************************************)
(* Baselines.                                                              *)
(***************************************************************************)
\* A step takes a baseline from where there was one, from an operation or from
\* the head it makes or finds; and an operation is for a revision of the line.
LEMMA BaselineSources ==
    ASSUME TypeInv, [Next]_vars
    PROVE  /\ \A b \in bindings' :
                 \/ b.lastDeployed \in {NoRevision, current'}
                 \/ \E a \in bindings : b.lastDeployed = a.lastDeployed
                 \/ \E i \in OperationIds : b.lastDeployed = operations[i].revision
           /\ \A c \in captures' :
                 c \in captures \/ \E a \in bindings : c.binding.lastDeployed = a.lastDeployed
           /\ \A i \in OperationIds' :
                 \/ operations'[i].revision \in HeadLine
                 \/ \E j \in OperationIds : operations'[i].revision = operations[j].revision
<1> DEFINE Bindings ==
             \A b \in bindings' :
                 \/ b.lastDeployed \in {NoRevision, current'}
                 \/ \E a \in bindings : b.lastDeployed = a.lastDeployed
                 \/ \E i \in OperationIds : b.lastDeployed = operations[i].revision
           Captures ==
             \A c \in captures' :
                 c \in captures \/ \E a \in bindings : c.binding.lastDeployed = a.lastDeployed
           Operations ==
             \A i \in OperationIds' :
                 \/ operations'[i].revision \in HeadLine
                 \/ \E j \in OperationIds : operations'[i].revision = operations[j].revision
<1> USE DEF Bindings, Captures, Operations
<1>1. bindings \subseteq Binding
  BY DEF TypeInv, IsBindingTable
<1>2. operations \in Seq(Operation) /\ OperationIds = 1 .. Len(operations)
      /\ Len(operations) \in Nat /\ \A i \in OperationIds : operations[i] \in Operation
  BY DEF TypeInv, IsJournal, OperationIds
<1>3. operations' = operations => Operations
  BY DEF OperationIds
<1>4. ASSUME NEW profile \in Profiles, NEW path \in Paths, UpsertBinding(profile, path)
      PROVE  Bindings /\ Captures /\ Operations
  <2>1. \A b \in bindings' :
           \/ b \in bindings
           \/ b.lastDeployed = NoRevision
           \/ \E a \in bindings : b = [a EXCEPT !.profile = profile, !.path = path]
    <3>1. CASE RowsFor(profile) = {}
      <4>1. \A b \in bindings' : b \in bindings \/ b.lastDeployed = NoRevision
        BY <1>4, <3>1 DEF UpsertBinding
      <4> QED
        BY <4>1, Zenon
    <3>2. CASE RowsFor(profile) # {}
      <4>1. bindings' = (bindings \ RowsFor(profile)) \cup
                        {[b EXCEPT !.profile = profile, !.path = path] : b \in RowsFor(profile)}
        BY <1>4, <3>2 DEF UpsertBinding
      <4>2. RowsFor(profile) \subseteq bindings
        BY DEF RowsFor
      <4> QED
        BY <4>1, <4>2, Zenon
    <3> QED
      BY <3>1, <3>2
  <2> QED
    BY <1>1, <1>3, <1>4, <2>1 DEF UpsertBinding, Binding
<1>5. ASSUME NEW profile \in Profiles, ConfigureWindowsGBAProfile(profile)
      PROVE  Bindings /\ Captures /\ Operations
  BY <1>1, <1>3, <1>5 DEF ConfigureWindowsGBAProfile, Binding
<1>6. ASSUME NEW w \in Workers, NEW b \in bindings, FindBinding(w, b)
      PROVE  Bindings /\ Captures /\ Operations
  BY <1>1, <1>3, <1>6 DEF FindBinding
<1>7. ASSUME NEW c \in captures, NEW file \in Payload, NEW force \in BOOLEAN,
             NEW confirm \in BOOLEAN, RecordIngest(c, file, force, confirm)
      PROVE  Bindings /\ Captures /\ Operations
  <2>1. Captures
    BY <1>7 DEF RecordIngest
  <2>2. CASE RecordEcho(c.binding, file, force, confirm)
    <3> DEFINE i == Latest(Echoes(c.binding, file))
    <3>1. i \in OperationIds
      <4>1. /\ Echoes(c.binding, file) \in SUBSET (1 .. Len(operations))
            /\ Echoes(c.binding, file) # {}
        BY <2>2 DEF RecordEcho, IsEcho, Echoes, OperationIds
      <4> QED
        BY <1>2, <4>1, LatestIsMax
    <3>2. /\ operations' = [operations EXCEPT ![i].state =
                               IF confirm THEN "delivered" ELSE "written"]
          /\ bindings' = IF confirm THEN Deployed(c.binding.endpoint, operations[i].revision)
                         ELSE bindings
      BY <2>2 DEF RecordEcho
    <3> HIDE DEF i
    <3>3. \A j \in OperationIds : operations'[j].revision = operations[j].revision
      BY <1>2, <3>1, <3>2 DEF Operation
    <3>4. OperationIds' = OperationIds
      BY <1>2, <3>1, <3>2 DEF OperationIds
    <3>5. Bindings
      BY <1>1, <3>1, <3>2 DEF Deployed, Binding
    <3> QED
      BY <2>1, <3>3, <3>4, <3>5
  <2>3. CASE RecordDuplicate(c.binding, file, force)
    BY <1>1, <1>3, <2>1, <2>3 DEF RecordDuplicate, Deployed, Binding
  <2>4. CASE RecordKnownBranch(c.binding, file, force)
    BY <1>3, <2>1, <2>4 DEF RecordKnownBranch
  <2>5. CASE RecordLinear(c.binding, file, force)
    BY <1>1, <1>3, <2>1, <2>5 DEF RecordLinear, Deployed, Binding
  <2>6. CASE RecordBranch(c.binding, file, force)
    BY <1>3, <2>1, <2>6 DEF RecordBranch
  <2> QED
    BY <1>7, <2>2, <2>3, <2>4, <2>5, <2>6 DEF RecordIngest
<1>8. ASSUME NEW lost \in SUBSET captures, AbandonCaptures(lost)
      PROVE  Bindings /\ Captures /\ Operations
  BY <1>3, <1>8 DEF AbandonCaptures
<1>9. ASSUME NEW r \in RevisionIds, NEW e \in Endpoints, NEW path \in Paths,
             NEW profile \in Profiles, CreateOperation(r, e, path, profile)
      PROVE  Bindings /\ Captures /\ Operations
  <2> DEFINE kept == [i \in OperationIds |->
                        IF /\ operations[i].endpoint = e
                           /\ operations[i].path = path
                           /\ IsLive(operations[i])
                        THEN [operations[i] EXCEPT !.state = "superseded"]
                        ELSE operations[i]]
             new == [revision |-> r, endpoint |-> e, path |-> path, profile |-> profile,
                     file |-> Encode(profile, revisions[r].content), state |-> "pending"]
  <2>1. /\ operations' = Append(kept, new)
        /\ UNCHANGED <<bindings, captures>>
        /\ r \in HeadLine
    BY <1>9 DEF CreateOperation, HeadLine
  <2>2. \A i \in OperationIds : kept[i].revision = operations[i].revision
    BY <1>2 DEF Operation
  <2>3. kept \in [OperationIds -> Operation]
    BY <1>2 DEF Operation
  <2>4. new.revision = r
    OBVIOUS
  <2> HIDE DEF kept, new
  <2>5. kept \in Seq(Operation) /\ Len(kept) = Len(operations)
    BY <1>2, <2>3
  <2>6. \A i \in OperationIds' : i \in OperationIds \/ i = Len(operations) + 1
    BY <1>2, <2>1, <2>5 DEF OperationIds
  <2>7. /\ \A i \in OperationIds : operations'[i] = kept[i]
        /\ operations'[Len(operations) + 1] = new
    BY <1>2, <2>1, <2>5
  <2>8. Operations
    BY <2>1, <2>2, <2>4, <2>6, <2>7
  <2> QED
    BY <2>1, <2>8
<1>10. ASSUME NEW i \in OperationIds, NEW s \in {"written", "failed"}, UpdateOperation(i, s)
       PROVE  Bindings /\ Captures /\ Operations
  BY <1>2, <1>10 DEF UpdateOperation, OperationIds, Operation
<1>11. ASSUME NEW e \in Endpoints, CompleteEndpointDeliveries(e)
       PROVE  Bindings /\ Captures /\ Operations
  <2> DEFINE matching(b) == {i \in Written(e) : /\ operations[i].path = b.path
                                                /\ operations[i].profile = b.profile}
  <2>1. \A i \in OperationIds : operations'[i].revision = operations[i].revision
    BY <1>2, <1>11 DEF CompleteEndpointDeliveries, Operation
  <2>2. OperationIds' = OperationIds
    BY <1>2, <1>11 DEF CompleteEndpointDeliveries, OperationIds
  <2>3. \A b \in bindings : matching(b) # {} => Latest(matching(b)) \in OperationIds
    <3> TAKE b \in bindings
    <3>1. matching(b) \in SUBSET (1 .. Len(operations))
      BY DEF Written, OperationIds
    <3> HIDE DEF matching
    <3> QED
      BY <1>2, <3>1, LatestIsMax
  <2>4. bindings' = {IF b.endpoint = e /\ matching(b) # {}
                     THEN [b EXCEPT !.lastDeployed = operations[Latest(matching(b))].revision]
                     ELSE b : b \in bindings}
    BY <1>11 DEF CompleteEndpointDeliveries
  <2> HIDE DEF matching
  <2>5. Bindings
    BY <1>1, <2>3, <2>4 DEF Binding
  <2> QED
    BY <1>11, <2>1, <2>2, <2>5 DEF CompleteEndpointDeliveries
<1>12. ASSUME NEW k \in Keys, NEW kind \in {"restore", "promote"}, NEW source \in RevisionIds,
              NEW expected \in 0 .. Len(revisions),
              CreateHeadFromExisting(k, kind, source, expected)
       PROVE  Bindings /\ Captures /\ Operations
  BY <1>3, <1>12 DEF CreateHeadFromExisting
<1>13. ASSUME NEW k \in Keys, NEW expected \in 0 .. Len(revisions),
              CreateSnapshot(k, expected)
       PROVE  Bindings /\ Captures /\ Operations
  BY <1>1, <1>3, <1>13 DEF CreateSnapshot, Binding
<1>14. CASE UNCHANGED vars
  BY <1>3, <1>14 DEF vars
<1> QED
  BY <1>4, <1>5, <1>6, <1>7, <1>8, <1>9, <1>10, <1>11, <1>12, <1>13, <1>14 DEF Next

LEMMA BaselineStep ==
    ASSUME TypeInv, HistoryInv, BaselineOnHeadLine, [Next]_vars
    PROVE  BaselineOnHeadLine'
<1>1. StepsRevisions /\ TypeInv' /\ HistoryInv'
  BY RevisionStep, HistoryStep DEF StepsRevisions
<1>2. HeadLine \subseteq HeadLine'
  BY <1>1, LineIsExtended
<1>3. current' = NoRevision \/ current' \in HeadLine'
  BY <1>1 DEF TypeInv, HistoryInv, HeadIsCurrent, HeadLine, RevisionIds, NoRevision
<1> QED
  BY <1>2, <1>3, BaselineSources DEF BaselineOnHeadLine, IsBaseline

\* No confirmation, duplicate, snapshot or stale copy of a binding ever makes a
\* device descend from a branch.
THEOREM BaselinesOnLine == Spec => []BaselineOnHeadLine
<1>1. Init => BaselineOnHeadLine
  BY DEF Init, BaselineOnHeadLine, OperationIds
<1>2. TypeInv /\ HistoryInv /\ BaselineOnHeadLine /\ [Next]_vars => BaselineOnHeadLine'
  BY BaselineStep
<1> QED
  BY <1>1, <1>2, RowsReferToRevisions, HistoryInvariant, PTL DEF Spec

-----------------------------------------------------------------------------
(***************************************************************************)
(* What the store says of branches, their reviews, the keys of requests    *)
(* and the contents of captures, and that it implements SaveHistory.       *)
(***************************************************************************)
\* What a revision was recorded with, and whether it is a branch, stays.
Kept == \A i \in RevisionIds : /\ revisions'[i].content = revisions[i].content
                               /\ revisions'[i].parent = revisions[i].parent
                               /\ revisions'[i].source = revisions[i].source
                               /\ revisions'[i].kind = revisions[i].kind
                               /\ revisions'[i].state = "branch" <=> revisions[i].state = "branch"

\* A revision more, as it was recorded.
Adds(r) == /\ Len(revisions) < MaxRevisions
           /\ RevisionIds' = RevisionIds \cup {NextRevision}
           /\ revisions'[NextRevision] = r
           /\ Kept

AsksAbout(i) == /\ conflicts' = conflicts \cup {[head |-> current, branch |-> i, state |-> "open"]}
                /\ status' = "conflict"

Asked(k) == /\ requests[k] = NoRevision
            /\ requests' = [requests EXCEPT ![k] = NextRevision]

\* The six kinds of steps.
StepsNot == UNCHANGED <<revisions, current, status, conflicts, requests>>

Reopens == /\ UNCHANGED <<revisions, current, requests>>
           /\ \E i \in RevisionIds : /\ revisions[i].state = "branch"
                                     /\ ~UnderReview(i)
                                     /\ AsksAbout(i)

Advances == /\ current = NoRevision \/ OpenConflicts = {}
            /\ current' = NextRevision
            /\ status' = "healthy"
            /\ UNCHANGED <<conflicts, requests>>
            /\ \E r \in Revision : /\ r.state = "head"
                                   /\ r.kind = "captured"
                                   /\ r.parent = current
                                   /\ BranchesWith(r.content) = {}
                                   /\ current # NoRevision => r.content # revisions[current].content
                                   /\ Adds(r)

SetsAside == /\ current' = current
             /\ AsksAbout(NextRevision)
             /\ UNCHANGED requests
             /\ \E r \in Revision : /\ r.state = "branch"
                                    /\ r.kind = "conflict"
                                    /\ BranchesWith(r.content) = {}
                                    /\ Adds(r)

Decides == /\ current' = NextRevision
           /\ status' = "healthy"
           /\ conflicts' = {[c EXCEPT !.state = "resolved"] : c \in conflicts}
           /\ \E k \in Keys : Asked(k)
           /\ \E r \in Revision : /\ r.state = "head"
                                  /\ r.kind \in {"restore", "promote"}
                                  /\ r.parent = current
                                  /\ \E i \in RevisionIds : r.content = revisions[i].content
                                  /\ Adds(r)

Marks == /\ current # NoRevision
         /\ OpenConflicts = {}
         /\ current' = NextRevision
         /\ UNCHANGED <<status, conflicts>>
         /\ \E k \in Keys : Asked(k)
         /\ \E r \in Revision : /\ r.state = "head"
                                /\ r.kind = "snapshot"
                                /\ r.parent = current
                                /\ r.content = revisions[current].content
                                /\ Adds(r)

LEMMA HeadAdds ==
    ASSUME TypeInv, NEW r \in Revision, r.state = "head", revisions' = WithHead(r),
           Len(revisions) < MaxRevisions
    PROVE  Adds(r)
<1>1. revisions \in Seq(Revision) /\ Len(revisions') = NextRevision
  BY WithHeadRevision DEF TypeInv
<1>2. RevisionIds' = RevisionIds \cup {NextRevision}
  BY <1>1 DEF RevisionIds, NextRevision
<1>3. revisions'[NextRevision] = r
  BY <1>1, WithHeadRevision
<1>4. ASSUME NEW i \in RevisionIds
      PROVE  /\ revisions'[i].content = revisions[i].content
             /\ revisions'[i].parent = revisions[i].parent
             /\ revisions'[i].source = revisions[i].source
             /\ revisions'[i].kind = revisions[i].kind
             /\ revisions'[i].state = "branch" <=> revisions[i].state = "branch"
  <2>1. revisions'[i] = IF i = current /\ revisions[i].state = "head"
                        THEN [revisions[i] EXCEPT !.state = "history"] ELSE revisions[i]
    BY <1>1, WithHeadRevision
  <2>2. revisions[i] \in Revision
    BY NextIsNew
  <2> QED
    BY <2>1, <2>2 DEF Revision
<1> QED
  BY <1>2, <1>3, <1>4 DEF Adds, Kept

LEMMA BranchAdds ==
    ASSUME TypeInv, NEW r \in Revision, revisions' = Append(revisions, r),
           Len(revisions) < MaxRevisions
    PROVE  Adds(r)
<1>1. revisions \in Seq(Revision) /\ Len(revisions') = NextRevision
  BY AppendRevision DEF TypeInv
<1>2. RevisionIds' = RevisionIds \cup {NextRevision}
  BY <1>1 DEF RevisionIds, NextRevision
<1>3. revisions'[NextRevision] = r /\ \A i \in RevisionIds : revisions'[i] = revisions[i]
  BY <1>1, AppendRevision
<1> QED
  BY <1>2, <1>3 DEF Adds, Kept

LEMMA IngestStep ==
    ASSUME TypeInv, NEW c \in captures, NEW file \in Payload, NEW force \in BOOLEAN,
           NEW confirm \in BOOLEAN, RecordIngest(c, file, force, confirm)
    PROVE  StepsNot \/ Reopens \/ Advances \/ SetsAside
<1> DEFINE b == c.binding
           content == Decoded(b, file)
<1>1. b \in Binding /\ b.lastDeployed \in 0 .. Len(revisions) /\ requests' = requests
  BY DEF TypeInv, IsCaptureSet, Capture, RecordIngest
<1> HIDE DEF b
<1>2. CASE RecordEcho(b, file, force, confirm) \/ RecordDuplicate(b, file, force)
  BY <1>1, <1>2 DEF RecordEcho, RecordDuplicate, StepsNot
<1>3. CASE RecordKnownBranch(b, file, force)
  <2> DEFINE known == BranchesWith(content)
             i == Latest(known)
  <2>1. known \in SUBSET (1 .. Len(revisions)) /\ known # {} /\ Len(revisions) \in Nat
    BY <1>3 DEF RecordKnownBranch, BranchesWith, RevisionIds, TypeInv
  <2>2. /\ UNCHANGED <<revisions, current>>
        /\ UnderReview(i) => UNCHANGED <<conflicts, status>>
        /\ ~UnderReview(i) => AsksAbout(i)
    BY <1>3 DEF RecordKnownBranch, AsksAbout
  <2>3. \A j \in known : j \in RevisionIds /\ revisions[j].state = "branch"
    BY DEF BranchesWith
  <2> HIDE DEF known
  <2>4. i \in known
    BY <2>1, LatestIsMax
  <2> HIDE DEF i
  <2> QED
    BY <1>1, <2>2, <2>3, <2>4 DEF StepsNot, Reopens
<1>4. CASE RecordLinear(b, file, force)
  <2> DEFINE r == [parent |-> current, content |-> content, source |-> b.endpoint,
                   kind |-> "captured", from |-> NoRevision, state |-> "head"]
  <2>1. /\ r \in Revision /\ r.state = "head" /\ r.kind = "captured"
        /\ r.parent = current /\ r.content = content
    BY <1>1, CapturedTypes
  <2>2. /\ revisions' = WithHead(r) /\ current' = NextRevision /\ status' = "healthy"
        /\ UNCHANGED conflicts
        /\ current = NoRevision \/ OpenConflicts = {}
        /\ current # NoRevision => content # revisions[current].content
        /\ BranchesWith(content) = {}
        /\ Len(revisions) < MaxRevisions
    BY <1>4 DEF RecordLinear, IsLinear, IsNew, IsDuplicate
  <2> HIDE DEF r, content
  <2>3. Adds(r)
    BY <2>1, <2>2, HeadAdds
  <2> QED
    BY <1>1, <2>1, <2>2, <2>3 DEF Advances
<1>5. CASE RecordBranch(b, file, force)
  <2> DEFINE r == [parent |-> b.lastDeployed, content |-> content, source |-> b.endpoint,
                   kind |-> "conflict", from |-> NoRevision, state |-> "branch"]
  <2>1. r \in Revision /\ r.state = "branch" /\ r.kind = "conflict" /\ r.content = content
    BY <1>1, CapturedTypes
  <2>2. /\ revisions' = Append(revisions, r) /\ current' = current
        /\ AsksAbout(NextRevision)
        /\ BranchesWith(content) = {}
        /\ Len(revisions) < MaxRevisions
    BY <1>5 DEF RecordBranch, IsNew, AsksAbout
  <2> HIDE DEF r, content
  <2>3. Adds(r)
    BY <2>1, <2>2, BranchAdds
  <2> QED
    BY <1>1, <2>1, <2>2, <2>3 DEF SetsAside
<1> QED
  BY <1>2, <1>3, <1>4, <1>5 DEF RecordIngest, b

LEMMA DecisionStep ==
    ASSUME TypeInv, NEW k \in Keys, NEW kind \in {"restore", "promote"},
           NEW source \in RevisionIds, NEW expected,
           CreateHeadFromExisting(k, kind, source, expected)
    PROVE  Decides
<1> DEFINE r == HeadCopy(kind, source)
<1>1. /\ r \in Revision /\ r.state = "head" /\ r.kind = kind
      /\ r.parent = current /\ r.content = revisions[source].content
  <2>1. source \in Nat
    BY DEF RevisionIds, TypeInv
  <2> QED
    BY <2>1, CopyTypes DEF HeadCopy
<1>2. /\ revisions' = WithHead(r) /\ current' = NextRevision /\ status' = "healthy"
      /\ conflicts' = {[c EXCEPT !.state = "resolved"] : c \in conflicts}
      /\ Asked(k)
      /\ Len(revisions) < MaxRevisions
  BY DEF CreateHeadFromExisting, IsUnused, Asked
<1> HIDE DEF r
<1>3. Adds(r)
  BY <1>1, <1>2, HeadAdds
<1> QED
  BY <1>1, <1>2, <1>3, Zenon DEF Decides

LEMMA SnapshotStep ==
    ASSUME TypeInv, NEW k \in Keys, NEW expected, CreateSnapshot(k, expected)
    PROVE  Marks
<1> DEFINE r == [parent |-> current, content |-> revisions[current].content,
                 source |-> "none", kind |-> "snapshot", from |-> NoRevision,
                 state |-> "head"]
<1>1. current \in RevisionIds /\ NoRevision \in Nat
  BY DEF CreateSnapshot, TypeInv, RevisionIds, NoRevision
<1>2. /\ r \in Revision /\ r.state = "head" /\ r.kind = "snapshot"
      /\ r.parent = current /\ r.content = revisions[current].content
  BY <1>1, CopyTypes
<1>3. /\ revisions' = WithHead(r) /\ current' = NextRevision
      /\ UNCHANGED <<status, conflicts>>
      /\ current # NoRevision
      /\ OpenConflicts = {}
      /\ Asked(k)
      /\ Len(revisions) < MaxRevisions
  BY DEF CreateSnapshot, IsUnused, Asked
<1> HIDE DEF r
<1>4. Adds(r)
  BY <1>2, <1>3, HeadAdds
<1> QED
  BY <1>2, <1>3, <1>4, Zenon DEF Marks

\* Every step of the store is one of the six.
LEMMA StepKinds ==
    ASSUME TypeInv, [Next]_vars
    PROVE  StepsNot \/ Reopens \/ Advances \/ SetsAside \/ Decides \/ Marks
<1>1. ASSUME NEW c \in captures, NEW file \in Payload, NEW force \in BOOLEAN,
             NEW confirm \in BOOLEAN, RecordIngest(c, file, force, confirm)
      PROVE  StepsNot \/ Reopens \/ Advances \/ SetsAside
  BY <1>1, IngestStep
<1>2. ASSUME NEW k \in Keys, NEW kind \in {"restore", "promote"}, NEW source \in RevisionIds,
             NEW expected \in 0 .. Len(revisions),
             CreateHeadFromExisting(k, kind, source, expected)
      PROVE  Decides
  BY <1>2, DecisionStep
<1>3. ASSUME NEW k \in Keys, NEW expected \in 0 .. Len(revisions),
             CreateSnapshot(k, expected)
      PROVE  Marks
  BY <1>3, SnapshotStep
<1>4. CASE \/ \E profile \in Profiles, path \in Paths : UpsertBinding(profile, path)
           \/ \E profile \in Profiles : ConfigureWindowsGBAProfile(profile)
           \/ \E w \in Workers, b \in bindings : FindBinding(w, b)
           \/ \E lost \in SUBSET captures : AbandonCaptures(lost)
           \/ \E r \in RevisionIds, e \in Endpoints, path \in Paths, profile \in Profiles :
                 CreateOperation(r, e, path, profile)
           \/ \E i \in OperationIds, s \in {"written", "failed"} : UpdateOperation(i, s)
           \/ \E e \in Endpoints : CompleteEndpointDeliveries(e)
           \/ UNCHANGED vars
  BY <1>4 DEF UpsertBinding, ConfigureWindowsGBAProfile, FindBinding, AbandonCaptures,
              CreateOperation, UpdateOperation, CompleteEndpointDeliveries, vars, StepsNot
<1> QED
  BY <1>1, <1>2, <1>3, <1>4 DEF Next

-----------------------------------------------------------------------------
(***************************************************************************)
(* Branches.                                                               *)
(***************************************************************************)
LEMMA DistinctStep ==
    ASSUME TypeInv, BranchesAreDistinct, [Next]_vars
    PROVE  BranchesAreDistinct'
<1>1. CASE UNCHANGED revisions
  BY <1>1 DEF BranchesAreDistinct, RevisionIds
<1>2. ASSUME NEW r \in Revision, Adds(r), r.state = "head"
      PROVE  BranchesAreDistinct'
  BY <1>2, NextIsNew DEF BranchesAreDistinct, Adds, Kept
<1>3. ASSUME NEW r \in Revision, Adds(r), BranchesWith(r.content) = {}
      PROVE  BranchesAreDistinct'
  BY <1>3, NextIsNew DEF BranchesAreDistinct, Adds, Kept, BranchesWith
<1> QED
  BY <1>1, <1>2, <1>3, StepKinds DEF StepsNot, Reopens, Advances, SetsAside, Decides, Marks

\* However often the bytes of a branch are scanned, before or after its review
\* was resolved and from whichever device, they are archived as one branch.
THEOREM EachBranchOnce == Spec => []BranchesAreDistinct
<1>1. Init => BranchesAreDistinct
  BY DEF Init, BranchesAreDistinct, RevisionIds
<1>2. TypeInv /\ BranchesAreDistinct /\ [Next]_vars => BranchesAreDistinct'
  BY DistinctStep
<1> QED
  BY <1>1, <1>2, RowsReferToRevisions, PTL DEF Spec

-----------------------------------------------------------------------------
(***************************************************************************)
(* Reviews.                                                                *)
(***************************************************************************)
ReviewInv == ConflictsNameBranches /\ StatusTellsConflict

\* Before the first head, nothing is on its line.
LEMMA NoHeadNoLine ==
    ASSUME TypeInv, HistoryInv, current = NoRevision
    PROVE  HeadLine = {}
BY NextIsNew DEF HistoryInv, NewestIsHead, HeadLine, RevisionIds, NoRevision, TypeInv

\* What a conflict names is still what it was.
LEMMA NamesStay ==
    ASSUME TypeInv, HistoryInv, [Next]_vars
    PROVE  /\ HeadLine \subseteq HeadLine'
           /\ current = NoRevision \/ current \in HeadLine
           /\ \A i : i \in RevisionIds /\ revisions[i].state = "branch"
                     => i \in RevisionIds' /\ revisions'[i].state = "branch"
<1>1. StepsRevisions
  BY RevisionStep DEF StepsRevisions
<1>2. HeadLine \subseteq HeadLine'
  BY <1>1, LineIsExtended
<1>3. current = NoRevision \/ current \in HeadLine
  BY NextIsNew DEF HistoryInv, HeadIsCurrent, HeadLine
<1>4. \/ revisions' = revisions
      \/ \E r \in Revision : Adds(r)
  BY StepKinds DEF StepsNot, Reopens, Advances, SetsAside, Decides, Marks
<1>5. \A i : i \in RevisionIds /\ revisions[i].state = "branch"
             => i \in RevisionIds' /\ revisions'[i].state = "branch"
  BY <1>4 DEF Adds, Kept, RevisionIds
<1> QED
  BY <1>2, <1>3, <1>5

\* A question about a branch that nobody is asked about yet.
LEMMA AskStep ==
    ASSUME TypeInv, HistoryInv, ReviewInv, [Next]_vars,
           NEW i \in RevisionIds', revisions'[i].state = "branch", ~UnderReview(i),
           AsksAbout(i)
    PROVE  ReviewInv'
<1> DEFINE new == [head |-> current, branch |-> i, state |-> "open"]
<1>1. conflicts' = conflicts \cup {new} /\ status' = "conflict"
  BY DEF AsksAbout
<1>2. new.head = current /\ new.branch = i /\ new.state = "open"
  OBVIOUS
<1> HIDE DEF new
<1>3. OpenConflicts' = OpenConflicts \cup {new}
  BY <1>1, <1>2 DEF OpenConflicts
<1>4. \A c \in conflicts' : /\ c.branch \in RevisionIds'
                            /\ revisions'[c.branch].state = "branch"
                            /\ IsBaseline(c.head)'
  BY <1>1, <1>2, NamesStay DEF ReviewInv, ConflictsNameBranches, IsBaseline
<1>5. \A c, d \in OpenConflicts' : c.branch = d.branch => c = d
  BY <1>2, <1>3 DEF ReviewInv, ConflictsNameBranches, UnderReview
<1> QED
  BY <1>1, <1>3, <1>4, <1>5 DEF ReviewInv, ConflictsNameBranches, StatusTellsConflict

LEMMA ReviewStep ==
    ASSUME TypeInv, HistoryInv, ReviewInv, [Next]_vars
    PROVE  ReviewInv'
<1>1. ASSUME UNCHANGED conflicts
      PROVE  ConflictsNameBranches' /\ OpenConflicts' = OpenConflicts
  BY <1>1, NamesStay DEF ReviewInv, ConflictsNameBranches, IsBaseline, OpenConflicts
<1>2. CASE StepsNot
  BY <1>1, <1>2 DEF StepsNot, ReviewInv, StatusTellsConflict
<1>3. CASE Reopens
  <2>1. PICK i \in RevisionIds : /\ revisions[i].state = "branch"
                                 /\ ~UnderReview(i)
                                 /\ AsksAbout(i)
    BY <1>3 DEF Reopens
  <2> QED
    BY <2>1, NamesStay, AskStep
<1>4. CASE Advances
  <2>1. \A c \in OpenConflicts : c.head = NoRevision
    BY <1>4, NoHeadNoLine DEF Advances, ReviewInv, ConflictsNameBranches, IsBaseline,
                              OpenConflicts
  <2> QED
    BY <1>1, <1>4, <2>1 DEF Advances, ReviewInv, StatusTellsConflict
<1>5. CASE SetsAside
  <2>1. /\ NextRevision \in RevisionIds'
        /\ revisions'[NextRevision].state = "branch"
        /\ AsksAbout(NextRevision)
    BY <1>5 DEF SetsAside, Adds
  <2>2. ~UnderReview(NextRevision)
    BY NextIsNew DEF UnderReview, ReviewInv, ConflictsNameBranches, OpenConflicts
  <2> QED
    BY <2>1, <2>2, AskStep
<1>6. CASE Decides
  <2>1. conflicts' = {[c EXCEPT !.state = "resolved"] : c \in conflicts} /\ status' = "healthy"
    BY <1>6 DEF Decides
  <2>2. conflicts \subseteq Conflict
    BY DEF TypeInv
  <2>3. OpenConflicts' = {}
    BY <2>1, <2>2 DEF OpenConflicts, Conflict
  <2>4. \A c \in conflicts' : \E d \in conflicts : c.head = d.head /\ c.branch = d.branch
    BY <2>1, <2>2 DEF Conflict
  <2> QED
    BY <2>1, <2>3, <2>4, NamesStay
    DEF ReviewInv, ConflictsNameBranches, StatusTellsConflict, IsBaseline
<1>7. CASE Marks
  BY <1>1, <1>7 DEF Marks, ReviewInv, StatusTellsConflict
<1> QED
  BY <1>2, <1>3, <1>4, <1>5, <1>6, <1>7, StepKinds

LEMMA ReviewInit == Init => ReviewInv
BY DEF Init, ReviewInv, ConflictsNameBranches, StatusTellsConflict, OpenConflicts

\* A conflict is about a branch that is archived and a head that was, also when
\* it was opened before the first head, and a branch has at most one open review
\* whichever captures found it.
THEOREM ConflictsAreAboutBranches == Spec => []ConflictsNameBranches
<1>1. TypeInv /\ HistoryInv /\ ReviewInv /\ [Next]_vars => ReviewInv'
  BY ReviewStep
<1>2. ReviewInv => ConflictsNameBranches
  BY DEF ReviewInv
<1> QED
  BY <1>1, <1>2, ReviewInit, RowsReferToRevisions, HistoryInvariant, PTL DEF Spec

\* games.status says "conflict" while a conflict opened against a head waits for
\* a decision, and at no time without an open conflict.
THEOREM StatusIsTrue == Spec => []StatusTellsConflict
<1>1. TypeInv /\ HistoryInv /\ ReviewInv /\ [Next]_vars => ReviewInv'
  BY ReviewStep
<1>2. ReviewInv => StatusTellsConflict
  BY DEF ReviewInv
<1> QED
  BY <1>1, <1>2, ReviewInit, RowsReferToRevisions, HistoryInvariant, PTL DEF Spec

-----------------------------------------------------------------------------
(***************************************************************************)
(* Keys.                                                                   *)
(***************************************************************************)
LEMMA KeysStep ==
    ASSUME TypeInv, MutationsAreKeyed, [Next]_vars
    PROVE  MutationsAreKeyed'
<1>1. requests \in [Keys -> 0 .. Len(revisions)] /\ Len(revisions) \in Nat
  BY DEF TypeInv
<1>2. \A k \in Keys : requests[k] # NoRevision => requests[k] \in RevisionIds
  BY <1>1 DEF RevisionIds, NoRevision
<1>3. ASSUME UNCHANGED requests, NEW r \in Revision, r.kind \notin Keyed, Adds(r)
      PROVE  MutationsAreKeyed'
  BY <1>2, <1>3, NextIsNew DEF MutationsAreKeyed, Adds, Kept
<1>4. ASSUME NEW k \in Keys, Asked(k), NEW r \in Revision, r.kind \in Keyed, Adds(r)
      PROVE  MutationsAreKeyed'
  <2>1. /\ requests'[k] = NextRevision
        /\ requests[k] = NoRevision
        /\ \A l \in Keys : l # k => requests'[l] = requests[l]
    BY <1>1, <1>4 DEF Asked
  <2>2. NextRevision # NoRevision /\ NextRevision \notin RevisionIds
    BY NextIsNew DEF NoRevision
  <2>3. /\ RevisionIds' = RevisionIds \cup {NextRevision}
        /\ revisions'[NextRevision].kind \in Keyed
        /\ \A i \in RevisionIds : revisions'[i].kind = revisions[i].kind
    BY <1>4 DEF Adds, Kept
  <2>4. \A l \in Keys : requests'[l] # NoRevision => revisions'[requests'[l]].kind \in Keyed
    <3> TAKE l \in Keys
    <3>1. CASE l = k
      BY <2>1, <2>3, <3>1
    <3>2. CASE l # k
      BY <1>2, <2>1, <2>3, <3>2 DEF MutationsAreKeyed
    <3> QED
      BY <3>1, <3>2
  <2>5. ASSUME NEW i \in RevisionIds', revisions'[i].kind \in Keyed
        PROVE  \E l \in Keys : requests'[l] = i
    <3>1. CASE i = NextRevision
      BY <2>1, <3>1
    <3>2. CASE i \in RevisionIds
      <4>1. PICK l \in Keys : requests[l] = i
        BY <2>3, <2>5, <3>2 DEF MutationsAreKeyed
      <4>2. l # k
        BY <2>1, <3>2, <4>1, NextIsNew DEF NoRevision, RevisionIds
      <4> QED
        BY <2>1, <4>1, <4>2
    <3> QED
      BY <2>3, <2>5, <3>1, <3>2
  <2>6. \A l, m \in Keys :
           requests'[l] = requests'[m] /\ requests'[l] # NoRevision => l = m
    BY <1>2, <2>1, <2>2 DEF MutationsAreKeyed
  <2> QED
    BY <2>4, <2>5, <2>6 DEF MutationsAreKeyed
<1>5. CASE UNCHANGED <<revisions, requests>>
  BY <1>5 DEF MutationsAreKeyed, RevisionIds
<1>6. CASE Advances \/ SetsAside
  BY <1>3, <1>6 DEF Advances, SetsAside, Keyed
<1>7. CASE Decides \/ Marks
  BY <1>4, <1>7 DEF Decides, Marks, Keyed
<1> QED
  BY <1>5, <1>6, <1>7, StepKinds DEF StepsNot, Reopens

\* However often a request is retried, before or after other heads came, its
\* key stands for one restore, promotion or snapshot, and each of those for one
\* key.
THEOREM OneHeadPerKey == Spec => []MutationsAreKeyed
<1>1. Init => MutationsAreKeyed
  BY DEF Init, MutationsAreKeyed, RevisionIds
<1>2. TypeInv /\ MutationsAreKeyed /\ [Next]_vars => MutationsAreKeyed'
  BY KeysStep
<1> QED
  BY <1>1, <1>2, RowsReferToRevisions, PTL DEF Spec

-----------------------------------------------------------------------------
(***************************************************************************)
(* Contents.  A capture works on a copy of its binding, so what the        *)
(* bindings table promises of profiles has to hold of the copies too.      *)
(***************************************************************************)
CopiesMatch == \A c \in captures : EndpointOf(c.binding.profile) = c.binding.endpoint

\* A capture is there already, or has just read its binding.
LEMMA NewCaptures ==
    ASSUME [Next]_vars
    PROVE  \A c \in captures' : c \in captures \/ c.binding \in bindings
<1>1. ASSUME NEW w \in Workers, NEW b \in bindings, FindBinding(w, b)
      PROVE  \A c \in captures' : c \in captures \/ c.binding \in bindings
  BY <1>1 DEF FindBinding
<1>2. \/ captures' \subseteq captures
      \/ \E w \in Workers, b \in bindings : FindBinding(w, b)
  BY DEF Next, vars, UpsertBinding, ConfigureWindowsGBAProfile, RecordIngest,
         AbandonCaptures, CreateOperation, UpdateOperation, CompleteEndpointDeliveries,
         CreateHeadFromExisting, CreateSnapshot
<1> QED
  BY <1>1, <1>2

LEMMA CopiesStep ==
    ASSUME TypeInv, CopiesMatch, [Next]_vars
    PROVE  CopiesMatch'
BY NewCaptures DEF CopiesMatch, TypeInv, IsBindingTable

\* The RTC of a capture of the Thor's is that of its parent, which exists.
Inherits(r) ==
    /\ r.parent \in 0 .. Len(revisions)
    /\ r.source = "thor" =>
          r.content.rtc = IF r.parent = NoRevision THEN NoRtc
                          ELSE revisions[r.parent].content.rtc

\* What a file of the Thor's is decoded to.
LEMMA ThorDecoded ==
    ASSUME TypeInv, CopiesMatch, NEW c \in captures, NEW file \in Payload,
           file.rtc # NoRtc => CarriesRtc(c.binding.profile),
           c.binding.endpoint = "thor"
    PROVE  Decoded(c.binding, file).rtc =
              IF c.binding.lastDeployed = NoRevision THEN NoRtc
              ELSE revisions[c.binding.lastDeployed].content.rtc
<1>1. c.binding.profile = "thor-mgba"
  BY DEF TypeInv, IsCaptureSet, Capture, Binding, Profiles, CopiesMatch, EndpointOf
<1>2. file.rtc = NoRtc
  BY <1>1 DEF CarriesRtc
<1> QED
  BY <1>1, <1>2 DEF Decoded, ProfileInheritsRTC, Payload

LEMMA InheritStep ==
    ASSUME TypeInv, HistoryInv, BaselineOnHeadLine, CopiesMatch, [Next]_vars
    PROVE  \/ UNCHANGED revisions
           \/ \E r \in Revision : Inherits(r) /\ Adds(r)
<1> DEFINE Goal == \/ UNCHANGED revisions
                   \/ \E r \in Revision : Inherits(r) /\ Adds(r)
<1>1. current \in 0 .. Len(revisions) /\ Len(revisions) \in Nat
  BY DEF TypeInv
<1>2. ASSUME NEW c \in captures, NEW file \in Payload, NEW force \in BOOLEAN,
             NEW confirm \in BOOLEAN, RecordIngest(c, file, force, confirm)
      PROVE  Goal
  <2> DEFINE b == c.binding
             content == Decoded(b, file)
  <2>1. b \in Binding /\ b.lastDeployed \in 0 .. Len(revisions) /\ IsBaseline(b.lastDeployed)
    BY DEF TypeInv, IsCaptureSet, Capture, BaselineOnHeadLine
  <2>2. b.endpoint = "thor" =>
           content.rtc = IF b.lastDeployed = NoRevision THEN NoRtc
                         ELSE revisions[b.lastDeployed].content.rtc
    BY <1>2, ThorDecoded DEF RecordIngest
  <2>3. CASE RecordLinear(b, file, force)
    <3> DEFINE r == [parent |-> current, content |-> content, source |-> b.endpoint,
                     kind |-> "captured", from |-> NoRevision, state |-> "head"]
    <3>1. r \in Revision /\ r.state = "head"
      BY <2>1, CapturedTypes
    <3>2. /\ revisions' = WithHead(r) /\ (current = NoRevision \/ b.lastDeployed = current)
          /\ Len(revisions) < MaxRevisions
      BY <2>3 DEF RecordLinear, IsLinear, IsNew
    <3>3. b.lastDeployed = current
      BY <2>1, <3>2, NoHeadNoLine DEF IsBaseline
    <3>4. Inherits(r)
      BY <1>1, <2>2, <3>3 DEF Inherits
    <3> HIDE DEF r
    <3> QED
      BY <3>1, <3>2, <3>4, HeadAdds
  <2>4. CASE RecordBranch(b, file, force)
    <3> DEFINE r == [parent |-> b.lastDeployed, content |-> content, source |-> b.endpoint,
                     kind |-> "conflict", from |-> NoRevision, state |-> "branch"]
    <3>1. r \in Revision
      BY <2>1, CapturedTypes
    <3>2. revisions' = Append(revisions, r) /\ Len(revisions) < MaxRevisions
      BY <2>4 DEF RecordBranch, IsNew
    <3>3. Inherits(r)
      BY <2>1, <2>2 DEF Inherits
    <3> HIDE DEF r
    <3> QED
      BY <3>1, <3>2, <3>3, BranchAdds
  <2>5. \/ UNCHANGED revisions
        \/ RecordLinear(b, file, force)
        \/ RecordBranch(b, file, force)
    BY <1>2 DEF RecordIngest, RecordEcho, RecordDuplicate, RecordKnownBranch
  <2> QED
    BY <2>3, <2>4, <2>5
<1>3. ASSUME NEW k \in Keys, NEW kind \in {"restore", "promote"}, NEW source \in RevisionIds,
             NEW expected \in 0 .. Len(revisions),
             CreateHeadFromExisting(k, kind, source, expected)
      PROVE  Goal
  <2> DEFINE r == HeadCopy(kind, source)
  <2>1. source \in Nat
    BY DEF RevisionIds, TypeInv
  <2>2. r \in Revision /\ r.state = "head" /\ Inherits(r)
    BY <1>1, <2>1, CopyTypes DEF HeadCopy, Inherits
  <2>3. revisions' = WithHead(r) /\ Len(revisions) < MaxRevisions
    BY <1>3 DEF CreateHeadFromExisting
  <2> HIDE DEF r
  <2> QED
    BY <2>2, <2>3, HeadAdds
<1>4. ASSUME NEW k \in Keys, NEW expected \in 0 .. Len(revisions),
             CreateSnapshot(k, expected)
      PROVE  Goal
  <2> DEFINE r == [parent |-> current, content |-> revisions[current].content,
                   source |-> "none", kind |-> "snapshot", from |-> NoRevision,
                   state |-> "head"]
  <2>1. current \in RevisionIds /\ NoRevision \in Nat
    BY <1>4, NextIsNew DEF CreateSnapshot, NoRevision
  <2>2. r \in Revision /\ r.state = "head" /\ Inherits(r)
    BY <1>1, <2>1, CopyTypes DEF Inherits
  <2>3. revisions' = WithHead(r) /\ Len(revisions) < MaxRevisions
    BY <1>4 DEF CreateSnapshot
  <2> HIDE DEF r
  <2> QED
    BY <2>2, <2>3, HeadAdds
<1>5. CASE \/ \E profile \in Profiles, path \in Paths : UpsertBinding(profile, path)
           \/ \E profile \in Profiles : ConfigureWindowsGBAProfile(profile)
           \/ \E w \in Workers, b \in bindings : FindBinding(w, b)
           \/ \E lost \in SUBSET captures : AbandonCaptures(lost)
           \/ \E r \in RevisionIds, e \in Endpoints, path \in Paths, profile \in Profiles :
                 CreateOperation(r, e, path, profile)
           \/ \E i \in OperationIds, s \in {"written", "failed"} : UpdateOperation(i, s)
           \/ \E e \in Endpoints : CompleteEndpointDeliveries(e)
           \/ UNCHANGED vars
  BY <1>5 DEF UpsertBinding, ConfigureWindowsGBAProfile, FindBinding, AbandonCaptures,
              CreateOperation, UpdateOperation, CompleteEndpointDeliveries, vars
<1> QED
  BY <1>2, <1>3, <1>4, <1>5 DEF Next

\* The parents of captures exist, and RtcIsInherited.
ContentInv == /\ \A i \in RevisionIds : revisions[i].parent \in 0 .. Len(revisions)
              /\ RtcIsInherited

LEMMA ContentStep ==
    ASSUME TypeInv, HistoryInv, BaselineOnHeadLine, CopiesMatch, ContentInv, [Next]_vars
    PROVE  ContentInv'
<1>1. Len(revisions) \in Nat
  BY DEF TypeInv
<1>2. CASE UNCHANGED revisions
  BY <1>2 DEF ContentInv, RtcIsInherited, RevisionIds
<1>3. ASSUME NEW r \in Revision, Inherits(r), Adds(r)
      PROVE  ContentInv'
  <2>1. Len(revisions) <= Len(revisions') /\ Len(revisions') \in Nat
    <3>1. TypeInv'
      BY RevisionStep
    <3>2. NextRevision \in RevisionIds'
      BY <1>3 DEF Adds
    <3> QED
      BY <1>1, <3>1, <3>2 DEF TypeInv, RevisionIds, NextRevision
  <2>2. \A i \in RevisionIds' : revisions'[i].parent \in 0 .. Len(revisions)
    BY <1>3 DEF Adds, Kept, ContentInv, Inherits
  <2>3. \A p \in 0 .. Len(revisions) :
           p # NoRevision => revisions'[p].content = revisions[p].content
    BY <1>1, <1>3 DEF Adds, Kept, RevisionIds, NoRevision
  <2>4. ASSUME NEW i \in RevisionIds', revisions'[i].source = "thor"
        PROVE  revisions'[i].content.rtc =
                  IF revisions'[i].parent = NoRevision THEN NoRtc
                  ELSE revisions'[revisions'[i].parent].content.rtc
    <3>1. CASE i = NextRevision
      BY <1>3, <2>3, <2>4, <3>1 DEF Adds, Inherits
    <3>2. CASE i \in RevisionIds
      BY <1>3, <2>3, <2>4, <3>2 DEF Adds, Kept, ContentInv, RtcIsInherited
    <3> QED
      BY <1>3, <3>1, <3>2 DEF Adds
  <2>5. RtcIsInherited'
    BY <2>4 DEF RtcIsInherited
  <2> QED
    BY <2>1, <2>2, <2>5 DEF ContentInv
<1> QED
  BY <1>2, <1>3, InheritStep

\* What the Thor captures keeps the RTC of the revision it descends from, also
\* when the copy of the binding it was decoded with is stale.
THEOREM RtcStays == Spec => []RtcIsInherited
<1>1. Init => CopiesMatch /\ ContentInv
  BY DEF Init, CopiesMatch, ContentInv, RtcIsInherited, RevisionIds
<1>2. TypeInv /\ CopiesMatch /\ [Next]_vars => CopiesMatch'
  BY CopiesStep
<1>3. /\ TypeInv /\ HistoryInv /\ BaselineOnHeadLine /\ CopiesMatch /\ ContentInv
      /\ [Next]_vars
      => ContentInv'
  BY ContentStep
<1>4. ContentInv => RtcIsInherited
  BY DEF ContentInv
<1> QED
  BY <1>1, <1>2, <1>3, <1>4, RowsReferToRevisions, HistoryInvariant, BaselinesOnLine, PTL
  DEF Spec

-----------------------------------------------------------------------------
(***************************************************************************)
(* Files.  What was decoded from a file encodes to that file again, and an *)
(* operation's file is the encoding of its revision for its profile.       *)
(***************************************************************************)
LEMMA RoundTrip ==
    ASSUME NEW b \in Binding, NEW file \in Payload,
           file.rtc # NoRtc => CarriesRtc(b.profile)
    PROVE  Encode(b.profile, Decoded(b, file)) = file
BY DEF Encode, Decoded, Payload, CarriesRtc, ProfileInheritsRTC

HoldsItsRevision(op) == op.file = Encode(op.profile, revisions[op.revision].content)

JournalInv == \A i \in OperationIds : HoldsItsRevision(operations[i])

SameOperation(op, old) == /\ op.revision = old.revision
                          /\ op.endpoint = old.endpoint
                          /\ op.path = old.path
                          /\ op.profile = old.profile
                          /\ op.file = old.file

JournalKept == /\ OperationIds \subseteq OperationIds'
               /\ \A i \in OperationIds : SameOperation(operations'[i], operations[i])

\* A new operation supersedes others, which keep all but their state.
LEMMA CreatedOperation ==
    ASSUME TypeInv, NEW r \in RevisionIds, NEW e \in Endpoints, NEW path \in Paths,
           NEW profile \in Profiles, CreateOperation(r, e, path, profile)
    PROVE  \E new : /\ SameKey(new, r, e, path, profile)
                    /\ new.revision = r /\ HoldsItsRevision(new)
                    /\ OperationIds' = OperationIds \cup {Len(operations) + 1}
                    /\ operations'[Len(operations) + 1] = new
                    /\ \A i \in OperationIds : SameOperation(operations'[i], operations[i])
<1> DEFINE kept == [i \in OperationIds |->
                      IF /\ operations[i].endpoint = e
                         /\ operations[i].path = path
                         /\ IsLive(operations[i])
                      THEN [operations[i] EXCEPT !.state = "superseded"]
                      ELSE operations[i]]
           new == [revision |-> r, endpoint |-> e, path |-> path, profile |-> profile,
                   file |-> Encode(profile, revisions[r].content), state |-> "pending"]
<1>1. /\ operations \in Seq(Operation)
      /\ OperationIds = 1 .. Len(operations)
      /\ Len(operations) \in Nat
      /\ \A i \in OperationIds : operations[i] \in Operation
  BY DEF TypeInv, IsJournal, OperationIds
<1>2. operations' = Append(kept, new)
  BY DEF CreateOperation
<1>3. \A i \in OperationIds : SameOperation(kept[i], operations[i])
  BY <1>1 DEF Operation, SameOperation
<1>4. kept \in [OperationIds -> Operation]
  BY <1>1 DEF Operation
<1>5. SameKey(new, r, e, path, profile) /\ new.revision = r /\ HoldsItsRevision(new)
  BY DEF HoldsItsRevision, SameKey
<1> HIDE DEF kept, new
<1>6. kept \in Seq(Operation) /\ Len(kept) = Len(operations)
  BY <1>1, <1>4
<1>7. /\ OperationIds' = OperationIds \cup {Len(operations) + 1}
      /\ \A i \in OperationIds : operations'[i] = kept[i]
      /\ operations'[Len(operations) + 1] = new
  BY <1>1, <1>2, <1>6 DEF OperationIds
<1> QED
  BY <1>3, <1>5, <1>7

\* A step changes no operation but its state, and a new one holds its revision.
LEMMA OperationSources ==
    ASSUME TypeInv, [Next]_vars
    PROVE  /\ JournalKept
           /\ \A i \in OperationIds' \ OperationIds :
                 operations'[i].revision \in RevisionIds /\ HoldsItsRevision(operations'[i])
<1> DEFINE Goal == /\ JournalKept
                   /\ \A i \in OperationIds' \ OperationIds :
                         /\ operations'[i].revision \in RevisionIds
                         /\ HoldsItsRevision(operations'[i])
<1>1. /\ operations \in Seq(Operation)
      /\ OperationIds = 1 .. Len(operations)
      /\ Len(operations) \in Nat
      /\ \A i \in OperationIds : operations[i] \in Operation
  BY DEF TypeInv, IsJournal, OperationIds
<1>2. ASSUME UNCHANGED operations
      PROVE  Goal
  BY <1>2 DEF OperationIds, JournalKept, SameOperation
<1>3. ASSUME NEW i, NEW s, operations' = [operations EXCEPT ![i].state = s]
      PROVE  Goal
  BY <1>1, <1>3 DEF OperationIds, JournalKept, SameOperation, Operation
<1>4. ASSUME NEW r \in RevisionIds, NEW e \in Endpoints, NEW path \in Paths,
             NEW profile \in Profiles, CreateOperation(r, e, path, profile)
      PROVE  Goal
  <2>1. PICK new : /\ new.revision = r /\ HoldsItsRevision(new)
                   /\ OperationIds' = OperationIds \cup {Len(operations) + 1}
                   /\ operations'[Len(operations) + 1] = new
                   /\ \A i \in OperationIds : SameOperation(operations'[i], operations[i])
    BY <1>1, <1>4, CreatedOperation
  <2> QED
    BY <1>1, <2>1 DEF JournalKept, OperationIds
<1>5. ASSUME NEW e \in Endpoints, CompleteEndpointDeliveries(e)
      PROVE  Goal
  BY <1>1, <1>5 DEF CompleteEndpointDeliveries, OperationIds, JournalKept, SameOperation, Operation
<1>6. ASSUME NEW c \in captures, NEW file \in Payload, NEW force \in BOOLEAN,
             NEW confirm \in BOOLEAN, RecordIngest(c, file, force, confirm)
      PROVE  Goal
  <2>1. CASE RecordEcho(c.binding, file, force, confirm)
    BY <1>3, <2>1 DEF RecordEcho
  <2>2. CASE ~RecordEcho(c.binding, file, force, confirm)
    BY <1>2, <1>6, <2>2
    DEF RecordIngest, RecordDuplicate, RecordKnownBranch, RecordLinear, RecordBranch
  <2> QED
    BY <2>1, <2>2
<1>7. ASSUME NEW i \in OperationIds, NEW s \in {"written", "failed"}, UpdateOperation(i, s)
      PROVE  Goal
  BY <1>3, <1>7 DEF UpdateOperation
<1>8. CASE \/ \E profile \in Profiles, path \in Paths : UpsertBinding(profile, path)
           \/ \E profile \in Profiles : ConfigureWindowsGBAProfile(profile)
           \/ \E w \in Workers, b \in bindings : FindBinding(w, b)
           \/ \E lost \in SUBSET captures : AbandonCaptures(lost)
           \/ \E k \in Keys, kind \in {"restore", "promote"},
                 source \in RevisionIds, expected \in 0 .. Len(revisions) :
                 CreateHeadFromExisting(k, kind, source, expected)
           \/ \E k \in Keys, expected \in 0 .. Len(revisions) : CreateSnapshot(k, expected)
           \/ UNCHANGED vars
  BY <1>2, <1>8 DEF UpsertBinding, ConfigureWindowsGBAProfile, FindBinding, AbandonCaptures,
                    CreateHeadFromExisting, CreateSnapshot, vars
<1> QED
  BY <1>4, <1>5, <1>6, <1>7, <1>8 DEF Next

\* The revisions that are there keep their content.
LEMMA ContentStays ==
    ASSUME TypeInv, [Next]_vars
    PROVE  \A i \in RevisionIds : /\ i \in 1 .. Len(revisions')
                                  /\ revisions'[i].content = revisions[i].content
<1>1. \/ revisions' = revisions
      \/ \E r \in Revision : Adds(r)
  BY StepKinds DEF StepsNot, Reopens, Advances, SetsAside, Decides, Marks
<1> QED
  BY <1>1 DEF Adds, Kept, RevisionIds

LEMMA JournalStep ==
    ASSUME TypeInv, JournalInv, [Next]_vars
    PROVE  JournalInv'
<1>1. \A i \in OperationIds : operations[i].revision \in RevisionIds
  BY DEF TypeInv, IsJournal, OperationIds, RevisionIds
<1> QED
  BY <1>1, OperationSources, ContentStays
  DEF JournalInv, HoldsItsRevision, SameOperation, JournalKept

LEMMA JournalInvariant == Spec => []JournalInv
<1>1. Init => JournalInv
  BY DEF Init, JournalInv, OperationIds
<1>2. TypeInv /\ JournalInv /\ [Next]_vars => JournalInv'
  BY JournalStep
<1> QED
  BY <1>1, <1>2, RowsReferToRevisions, PTL DEF Spec

LEMMA RecoverStep ==
    ASSUME TypeInv, JournalInv, [Next]_vars,
           NEW c \in captures, NEW file \in Payload, NEW force \in BOOLEAN,
           NEW confirm \in BOOLEAN, RecordIngest(c, file, force, confirm)
    PROVE  \E i \in 1 .. Len(revisions') : Encode(c.binding.profile, revisions'[i].content) = file
<1> DEFINE b == c.binding
           content == Decoded(b, file)
<1>1. /\ b \in Binding
      /\ b.lastDeployed \in 0 .. Len(revisions)
      /\ Len(revisions) \in Nat
      /\ revisions \in Seq(Revision)
  BY DEF TypeInv, IsCaptureSet, Capture
<1>2. Encode(b.profile, content) = file
  BY <1>1, RoundTrip DEF RecordIngest
<1>3. ASSUME NEW i \in RevisionIds, revisions[i].content = content
      PROVE  \E j \in 1 .. Len(revisions') : Encode(b.profile, revisions'[j].content) = file
  BY <1>2, <1>3, ContentStays
<1>4. CASE RecordEcho(b, file, force, confirm)
  <2> DEFINE i == Latest(Echoes(b, file))
  <2>1. i \in Echoes(b, file)
    <3>1. Len(operations) \in Nat
      BY DEF TypeInv, IsJournal
    <3>2. Echoes(b, file) \in SUBSET (1 .. Len(operations))
      BY DEF Echoes, OperationIds
    <3>3. Echoes(b, file) # {}
      BY <1>4 DEF RecordEcho, IsEcho
    <3> QED
      BY <3>1, <3>2, <3>3, LatestIsMax
  <2> HIDE DEF i
  <2>2. /\ operations[i].profile = b.profile
        /\ operations[i].file = file
        /\ operations[i].revision \in RevisionIds
        /\ HoldsItsRevision(operations[i])
    BY <2>1 DEF Echoes, JournalInv, TypeInv, IsJournal, OperationIds, RevisionIds
  <2> QED
    BY <2>2, ContentStays DEF HoldsItsRevision
<1>5. CASE RecordDuplicate(b, file, force)
  BY <1>3, <1>5, NextIsNew DEF RecordDuplicate, IsDuplicate
<1>6. CASE RecordKnownBranch(b, file, force)
  BY <1>3, <1>6 DEF RecordKnownBranch, BranchesWith
<1>7. CASE RecordLinear(b, file, force)
  <2> DEFINE r == [parent |-> current, content |-> content, source |-> b.endpoint,
                   kind |-> "captured", from |-> NoRevision, state |-> "head"]
  <2>1. r \in Revision /\ r.content = content
    BY <1>1, CapturedTypes
  <2>2. revisions' = WithHead(r)
    BY <1>7 DEF RecordLinear
  <2> HIDE DEF r
  <2>3. NextRevision \in 1 .. Len(revisions') /\ revisions'[NextRevision] = r
    BY <1>1, <2>1, <2>2, WithHeadRevision DEF NextRevision
  <2> QED
    BY <1>2, <2>1, <2>3
<1>8. CASE RecordBranch(b, file, force)
  <2> DEFINE r == [parent |-> b.lastDeployed, content |-> content, source |-> b.endpoint,
                   kind |-> "conflict", from |-> NoRevision, state |-> "branch"]
  <2>1. r \in Revision /\ r.content = content
    BY <1>1, CapturedTypes
  <2>2. revisions' = Append(revisions, r)
    BY <1>8 DEF RecordBranch
  <2> HIDE DEF r
  <2>3. NextRevision \in 1 .. Len(revisions') /\ revisions'[NextRevision] = r
    BY <1>1, <2>1, <2>2, AppendRevision DEF NextRevision
  <2> QED
    BY <1>2, <2>1, <2>3
<1> QED
  BY <1>4, <1>5, <1>6, <1>7, <1>8 DEF RecordIngest

\* Whatever a capture finds its file to be, and however stale its binding, some
\* revision gives that file back to the profile that wrote it.
THEOREM NothingSeenIsLost == Spec => IngestIsRecoverable
<1> DEFINE Recovers ==
             \A c \in captures \ captures', file \in Payload, force, confirm \in BOOLEAN :
                RecordIngest(c, file, force, confirm) =>
                   \E i \in 1 .. Len(revisions') :
                      Encode(c.binding.profile, revisions'[i].content) = file
<1>1. TypeInv /\ JournalInv /\ [Next]_vars => [Recovers]_vars
  BY RecoverStep
<1> QED
  BY <1>1, RowsReferToRevisions, JournalInvariant, PTL DEF Spec, IngestIsRecoverable

\* A forced capture, of a conflict artifact, leaves a branch that gives its file.
LEMMA ForcedIngest ==
    ASSUME TypeInv, NEW c \in captures, NEW file \in Payload, NEW confirm \in BOOLEAN,
           RecordIngest(c, file, TRUE, confirm)
    PROVE  \E i \in 1 .. Len(revisions') :
              /\ revisions'[i].state = "branch"
              /\ Encode(c.binding.profile, revisions'[i].content) = file
<1> DEFINE b == c.binding
           content == Decoded(b, file)
<1>1. /\ b \in Binding /\ b.lastDeployed \in 0 .. Len(revisions)
      /\ Len(revisions) \in Nat /\ revisions \in Seq(Revision)
  BY DEF TypeInv, IsCaptureSet, Capture
<1>2. Encode(b.profile, content) = file
  BY <1>1, RoundTrip DEF RecordIngest
<1>3. CASE RecordKnownBranch(b, file, TRUE)
  <2>1. PICK i \in RevisionIds : revisions[i].state = "branch" /\ revisions[i].content = content
    BY <1>3 DEF RecordKnownBranch, BranchesWith
  <2>2. revisions' = revisions
    BY <1>3 DEF RecordKnownBranch
  <2> QED
    BY <1>2, <2>1, <2>2 DEF RevisionIds
<1>4. CASE RecordBranch(b, file, TRUE)
  <2> DEFINE r == [parent |-> b.lastDeployed, content |-> content, source |-> b.endpoint,
                   kind |-> "conflict", from |-> NoRevision, state |-> "branch"]
  <2>1. r \in Revision /\ r.content = content /\ r.state = "branch"
    BY <1>1, CapturedTypes
  <2>2. revisions' = Append(revisions, r)
    BY <1>4 DEF RecordBranch
  <2> HIDE DEF r
  <2>3. NextRevision \in 1 .. Len(revisions') /\ revisions'[NextRevision] = r
    BY <1>1, <2>1, <2>2, AppendRevision DEF NextRevision
  <2> QED
    BY <1>2, <2>1, <2>3
<1>5. RecordKnownBranch(b, file, TRUE) \/ RecordBranch(b, file, TRUE)
  BY DEF RecordIngest, RecordEcho, IsEcho, RecordDuplicate, IsDuplicate, RecordLinear, IsLinear
<1> QED
  BY <1>3, <1>4, <1>5

-----------------------------------------------------------------------------
(***************************************************************************)
(* The history of SaveHistory.                                             *)
(***************************************************************************)
\* The variables of the history, by the mapping of History.
Line == [i \in HeadLine |-> [content |-> revisions[i].content, parent |-> revisions[i].parent]]
Aside == [i \in RevisionIds \ HeadLine |-> revisions[i].content]
Questions == {c.branch : c \in OpenConflicts}

\* The steps of the history, in these names.
LEMMA HistoryAdvances ==
    ASSUME NEW id \in 1 .. MaxRevisions, NEW content \in Payload,
           current = NoRevision \/ (Questions = {} /\ content # Line[current].content),
           ~History!IsAside(content),
           id \notin History!Versions, current' = id,
           Line' = [i \in DOMAIN Line \cup {id} |->
                       IF i = id THEN [content |-> content, parent |-> current] ELSE Line[i]],
           Aside' = Aside, Questions' = Questions, requests' = requests
    PROVE  History!Next
<1>1. History!Advance(id, content)
  BY Zenon DEF History!Advance, History!Follow, Questions, Line, Aside
<1> QED
  BY <1>1, Zenon DEF History!Next

LEMMA HistorySetsAside ==
    ASSUME NEW id \in 1 .. MaxRevisions, NEW content \in Payload,
           id \notin History!Versions,
           ~History!IsAside(content),
           Aside' = [i \in DOMAIN Aside \cup {id} |-> IF i = id THEN content ELSE Aside[i]],
           Questions' = Questions \cup {id},
           Line' = Line, current' = current, requests' = requests
    PROVE  History!Next
<1>1. History!SetAside(id, content)
  BY Zenon DEF History!SetAside, Questions, Line, Aside
<1> QED
  BY <1>1, Zenon DEF History!Next

LEMMA HistoryAsksAgain ==
    ASSUME NEW id \in DOMAIN Aside,
           Questions' = Questions \cup {id},
           Line' = Line, current' = current, Aside' = Aside, requests' = requests
    PROVE  History!Next
<1>1. History!AskAgain(id)
  BY Zenon DEF History!AskAgain, Questions, Line, Aside
<1> QED
  BY <1>1, Zenon DEF History!Next, Aside

LEMMA HistoryDecides ==
    ASSUME NEW id \in 1 .. MaxRevisions, NEW k \in Keys, NEW source \in History!Versions,
           requests[k] = NoRevision,
           id \notin History!Versions, current' = id,
           Line' = [i \in DOMAIN Line \cup {id} |->
                       IF i = id THEN [content |-> History!ContentOf(source), parent |-> current] ELSE Line[i]],
           Questions' = {}, Aside' = Aside,
           requests' = [requests EXCEPT ![k] = id]
    PROVE  History!Next
<1>1. History!Decide(k, id, source)
  BY Zenon DEF History!Decide, History!Follow, Questions, Line, Aside
<1> QED
  BY <1>1, Zenon DEF History!Next

LEMMA HistoryMarks ==
    ASSUME NEW id \in 1 .. MaxRevisions, NEW k \in Keys,
           requests[k] = NoRevision, current # NoRevision, Questions = {},
           id \notin History!Versions, current' = id,
           Line' = [i \in DOMAIN Line \cup {id} |->
                       IF i = id THEN [content |-> History!ContentOf(current), parent |-> current] ELSE Line[i]],
           Aside' = Aside, Questions' = Questions,
           requests' = [requests EXCEPT ![k] = id]
    PROVE  History!Next
<1>1. History!Mark(k, id)
  BY Zenon DEF History!Mark, History!Follow, Questions, Line, Aside
<1> QED
  BY <1>1, Zenon DEF History!Next

\* A conflict more is a question more.
LEMMA QuestionIsAsked ==
    ASSUME NEW i, conflicts' = conflicts \cup {[head |-> current, branch |-> i, state |-> "open"]}
    PROVE  Questions' = Questions \cup {i}
<1>1. OpenConflicts' = OpenConflicts \cup {[head |-> current, branch |-> i, state |-> "open"]}
  BY DEF OpenConflicts
<1>2. [head |-> current, branch |-> i, state |-> "open"].branch = i
  OBVIOUS
<1> QED
  BY <1>1, <1>2, Zenon DEF Questions

\* The versions of the history are the revisions.
LEMMA VersionsAreRevisions ==
    ASSUME TypeInv
    PROVE  /\ History!Versions = RevisionIds
           /\ \A i \in RevisionIds : History!ContentOf(i) = revisions[i].content
           /\ \A content : History!IsAside(content) <=> BranchesWith(content) # {}
<1>1. History!Versions = RevisionIds
  BY DEF History!Versions, HeadLine
<1>2. \A i \in RevisionIds : History!ContentOf(i) = revisions[i].content
  BY DEF History!ContentOf, HeadLine
<1>3. \A content : History!IsAside(content) <=> BranchesWith(content) # {}
  BY DEF History!IsAside, BranchesWith, HeadLine
<1> QED
  BY <1>1, <1>2, <1>3

\* A new head follows the old one in the line.
LEMMA HeadFollows ==
    ASSUME TypeInv, NEW r \in Revision, r.state = "head", r.parent = current, Adds(r)
    PROVE  /\ NextRevision \in 1 .. MaxRevisions /\ NextRevision \notin History!Versions
           /\ Line' = [i \in DOMAIN Line \cup {NextRevision} |->
                          IF i = NextRevision THEN [content |-> r.content, parent |-> current]
                          ELSE Line[i]]
           /\ Aside' = Aside
<1>1. HeadLine' = HeadLine \cup {NextRevision} /\ NextRevision \notin RevisionIds
  BY NextIsNew DEF Adds, Kept, HeadLine
<1>2. HeadLine \subseteq RevisionIds
  BY DEF HeadLine
<1>3. Aside' = Aside
  <2>1. (RevisionIds \ HeadLine)' = RevisionIds \ HeadLine
    BY <1>1, <1>2 DEF Adds
  <2> QED
    BY <2>1 DEF Aside, Adds, Kept
<1>4. Line' = [i \in HeadLine \cup {NextRevision} |->
                  IF i = NextRevision THEN [content |-> r.content, parent |-> current]
                  ELSE Line[i]]
  <2>1. \A i \in HeadLine : [content |-> revisions'[i].content, parent |-> revisions'[i].parent]
                            = Line[i] /\ i # NextRevision
    BY <1>1, <1>2 DEF Line, Adds, Kept
  <2> QED
    BY <1>1, <2>1 DEF Line, Adds
<1>5. DOMAIN Line = HeadLine
  BY DEF Line
<1>6. NextRevision \in 1 .. MaxRevisions
  BY BoundAssumption DEF NextRevision, TypeInv, Adds
<1> QED
  BY <1>1, <1>3, <1>4, <1>5, <1>6, VersionsAreRevisions

\* A new branch is set aside and leaves the line as it is.
LEMMA BranchIsAside ==
    ASSUME TypeInv, NEW r \in Revision, r.state = "branch", Adds(r)
    PROVE  /\ NextRevision \in 1 .. MaxRevisions /\ NextRevision \notin History!Versions
           /\ Line' = Line
           /\ Aside' = [i \in DOMAIN Aside \cup {NextRevision} |->
                           IF i = NextRevision THEN r.content ELSE Aside[i]]
<1>1. NextRevision \notin RevisionIds /\ HeadLine \subseteq RevisionIds
  BY NextIsNew DEF HeadLine
<1>2. HeadLine' = HeadLine
  BY <1>1 DEF HeadLine, Adds, Kept
<1>3. Line' = Line
  BY <1>1, <1>2 DEF Line, Adds, Kept
<1>4. (RevisionIds \ HeadLine)' = (RevisionIds \ HeadLine) \cup {NextRevision}
  BY <1>1, <1>2 DEF Adds
<1>5. NextRevision \in 1 .. MaxRevisions
  BY BoundAssumption DEF NextRevision, TypeInv, Adds
<1>6. Aside' = [i \in DOMAIN Aside \cup {NextRevision} |->
                   IF i = NextRevision THEN r.content ELSE Aside[i]]
  BY <1>1, <1>4 DEF Aside, Adds, Kept
<1> QED
  BY <1>1, <1>3, <1>5, <1>6, VersionsAreRevisions

\* Every kind of step of the store is a step of the history or none.
LEMMA StepMaps ==
    ASSUME TypeInv, HistoryInv, [Next]_vars
    PROVE  [History!Next]_History!vars
<1> USE DEF StepsNot, Reopens, Advances, SetsAside, Decides, Marks
<1>1. CASE StepsNot
  BY <1>1 DEF History!vars, HeadLine, RevisionIds, OpenConflicts
<1>2. CASE Reopens
  <2>1. PICK i \in RevisionIds : revisions[i].state = "branch" /\ AsksAbout(i)
    BY <1>2
  <2>2. Questions' = Questions \cup {i}
    BY <2>1, QuestionIsAsked DEF AsksAbout
  <2>3. Line' = Line /\ Aside' = Aside
    BY <1>2 DEF Line, Aside, HeadLine, RevisionIds
  <2>4. i \in DOMAIN Aside
    BY <2>1 DEF Aside, HeadLine
  <2> QED
    BY <1>2, <2>2, <2>3, <2>4, HistoryAsksAgain
<1>3. CASE Advances
  <2>1. PICK r \in Revision : /\ r.state = "head" /\ r.parent = current
                              /\ BranchesWith(r.content) = {}
                              /\ current # NoRevision => r.content # revisions[current].content
                              /\ Adds(r)
    BY <1>3
  <2>2. current = NoRevision \/ (Questions = {} /\ r.content # Line[current].content)
    <3>1. current # NoRevision => current \in HeadLine
      BY NextIsNew DEF HistoryInv, HeadIsCurrent, HeadLine
    <3> QED
      BY <1>3, <2>1, <3>1 DEF Questions, Line
  <2>3. ~History!IsAside(r.content) /\ r.content \in Payload
    BY <2>1, VersionsAreRevisions DEF Revision
  <2>4. UNCHANGED <<Questions, requests>>
    BY <1>3 DEF Questions, OpenConflicts
  <2> QED
    BY <1>3, <2>1, <2>2, <2>3, <2>4, HeadFollows, HistoryAdvances
<1>4. CASE SetsAside
  <2>1. PICK r \in Revision : r.state = "branch" /\ BranchesWith(r.content) = {} /\ Adds(r)
    BY <1>4
  <2>2. ~History!IsAside(r.content) /\ r.content \in Payload
    BY <2>1, VersionsAreRevisions DEF Revision
  <2>3. Questions' = Questions \cup {NextRevision}
    BY <1>4, QuestionIsAsked DEF AsksAbout
  <2> QED
    BY <1>4, <2>1, <2>2, <2>3, BranchIsAside, HistorySetsAside
<1>5. CASE Decides
  <2>1. PICK k \in Keys : Asked(k)
    BY <1>5
  <2>2. PICK r \in Revision : /\ r.state = "head" /\ r.parent = current
                              /\ \E i \in RevisionIds : r.content = revisions[i].content
                              /\ Adds(r)
    BY <1>5
  <2>3. PICK source \in History!Versions : r.content = History!ContentOf(source)
    BY <2>2, VersionsAreRevisions
  <2>4. Questions' = {}
    BY <1>5 DEF Questions, OpenConflicts, TypeInv, Conflict
  <2>5. /\ NextRevision \in 1 .. MaxRevisions /\ NextRevision \notin History!Versions
        /\ Line' = [i \in DOMAIN Line \cup {NextRevision} |->
                      IF i = NextRevision
                      THEN [content |-> History!ContentOf(source), parent |-> current]
                      ELSE Line[i]]
        /\ Aside' = Aside
    BY <2>2, <2>3, HeadFollows
  <2>6. /\ requests[k] = NoRevision /\ current' = NextRevision
        /\ requests' = [requests EXCEPT ![k] = NextRevision]
    BY <1>5, <2>1 DEF Asked
  <2> QED
    BY <2>3, <2>4, <2>5, <2>6, HistoryDecides
<1>6. CASE Marks
  <2>1. PICK k \in Keys : Asked(k)
    BY <1>6
  <2>2. PICK r \in Revision : /\ r.state = "head" /\ r.parent = current
                              /\ r.content = revisions[current].content
                              /\ Adds(r)
    BY <1>6
  <2>3. r.content = History!ContentOf(current)
    BY <1>6, <2>2, NextIsNew, VersionsAreRevisions
  <2>4. Questions = {} /\ Questions' = Questions
    BY <1>6 DEF Questions, OpenConflicts
  <2> QED
    BY <1>6, <2>1, <2>2, <2>3, <2>4, HeadFollows, HistoryMarks DEF Asked
<1> QED
  BY <1>1, <1>2, <1>3, <1>4, <1>5, <1>6, StepKinds

\* The tables, the journal and the captures with their stale copies of bindings
\* implement the history a player is promised: one line that only grows, what
\* does not descend from its head set aside once, and asked about until decided.
THEOREM StoreImplementsHistory == Spec => HistorySpec
<1>1. Init => History!Init
  BY DEF Init, History!Init, HeadLine, RevisionIds, OpenConflicts, NoRevision
<1>2. TypeInv /\ HistoryInv /\ [Next]_vars => [History!Next]_History!vars
  BY StepMaps
<1> QED
  BY <1>1, <1>2, RowsReferToRevisions, HistoryInvariant, PTL
  DEF Spec, HistorySpec, History!Spec
=============================================================================
