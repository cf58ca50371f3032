------------------------------- MODULE InboxProofs -------------------------------
(***************************************************************************)
(* The inbox of files that do not become revisions, for any file contents, *)
(* any number of captures, writes, mappings and faults: only saves that    *)
(* pass the checks are recorded, whatever changes between the steps of a   *)
(* capture, and a quarantine ends with the ingest of what it was about or  *)
(* of something newer, but for a capture that was under way before it.     *)
(***************************************************************************)
EXTENDS Inbox, TLAPS

\* A capture that has passed the checks has a save, whatever the file is now.
Checked ==
    \A w \in Workers :
        captures[w].step \in {"observed", "ingested"} => captures[w].file.content \in Saves

Types == InboxTypeOK /\ Checked

\* A capture that goes on with what it has read.
LEMMA StepOnly ==
    ASSUME Types, NEW w \in Workers, captures[w].step # "idle",
           NEW step \in {"idle", "stable", "archived", "observed", "ingested"}, Becomes(w, step),
           step \in {"observed", "ingested"} => captures[w].file.content \in Saves
    PROVE  /\ captures' \in [Workers -> CaptureState]
           /\ Checked'
           /\ \A x \in Workers : captures'[x].step # "idle" => captures'[x].file.content \in Contents
<1>1. captures \in [Workers -> CaptureState]
  BY DEF Types, InboxTypeOK
<1>2. captures' = [captures EXCEPT ![w].step = step]
  BY DEF Becomes
<1>3. \A x \in Workers : /\ captures'[x] \in CaptureState
                         /\ captures'[x].file = captures[x].file
                         /\ captures'[x].step = IF x = w THEN step ELSE captures[x].step
  BY <1>1, <1>2 DEF CaptureState
<1>4. captures' \in [Workers -> CaptureState]
  BY <1>1, <1>2, <1>3
<1> QED
  BY <1>3, <1>4 DEF Types, InboxTypeOK, Checked

\* A capture that starts or reads its file.
LEMMA NewState ==
    ASSUME Types, NEW w \in Workers, NEW state \in CaptureState,
           state.step \notin {"idle", "observed", "ingested"}, state.file.content \in Contents,
           captures' = [captures EXCEPT ![w] = state]
    PROVE  /\ captures' \in [Workers -> CaptureState]
           /\ Checked'
           /\ \A x \in Workers : captures'[x].step # "idle" => captures'[x].file.content \in Contents
<1>1. captures \in [Workers -> CaptureState]
  BY DEF Types, InboxTypeOK
<1>2. \A x \in Workers : captures'[x] = IF x = w THEN state ELSE captures[x]
  BY <1>1
<1>3. captures' \in [Workers -> CaptureState]
  BY <1>1
<1> QED
  BY <1>2, <1>3 DEF Types, InboxTypeOK, Checked

\* A capture that ends with the row.
LEMMA UnassignedTypes ==
    ASSUME Types, NEW w \in Workers, NEW blob \in Contents \cup {NoFile}, NEW version \in Versions,
           EndsUnassigned(w, blob, version)
    PROVE  /\ captures' \in [Workers -> CaptureState]
           /\ Checked'
           /\ \A x \in Workers : captures'[x].step # "idle" => captures'[x].file.content \in Contents
           /\ row' \in Row
<1>1. captures \in [Workers -> CaptureState]
  BY DEF Types, InboxTypeOK
<1>2. \A x \in Workers : /\ captures'[x] \in CaptureState
                         /\ captures'[x].file = captures[x].file
                         /\ captures'[x].step = IF x = w THEN "idle" ELSE captures[x].step
  BY <1>1 DEF EndsUnassigned, CaptureState
<1>3. captures' \in [Workers -> CaptureState]
  BY <1>2 DEF EndsUnassigned
<1>4. row' \in Row
  BY DEF EndsUnassigned, Row
<1> QED
  BY <1>2, <1>3, <1>4 DEF Types, InboxTypeOK, Checked

LEMMA RowMarked ==
    ASSUME row \in Row, NEW state \in {"mapped", "resolved"}
    PROVE  [row EXCEPT !.state = state] \in Row
BY DEF Row

LEMMA QuarantineTypes ==
    ASSUME Types, NEW w \in Workers, RecordQuarantine(w)
    PROVE  /\ captures' \in [Workers -> CaptureState]
           /\ Checked'
           /\ \A x \in Workers : captures'[x].step # "idle" => captures'[x].file.content \in Contents
           /\ row' \in Row
           /\ UNCHANGED <<seen, recorded, ingested>>
<1>1. live.version \in Versions
  BY DEF Types, InboxTypeOK, File
<1> QED
  BY <1>1, UnassignedTypes DEF RecordQuarantine

LEMMA CaptureTypes ==
    ASSUME Types, NEW w \in Workers, BeginCapture(w) \/ Capture(w) \/ FailArchive(w) \/ Fail(w)
    PROVE  Types'
<1> DEFINE file == captures[w].file
           Good == /\ captures' \in [Workers -> CaptureState]
                   /\ Checked'
                   /\ \A x \in Workers :
                         captures'[x].step # "idle" => captures'[x].file.content \in Contents
<1>1. /\ captures[w] \in CaptureState /\ file \in File
      /\ captures[w].step # "idle" => file.content \in Contents /\ file.version \in Versions
  BY DEF Types, InboxTypeOK, CaptureState, File
<1>2. live \in File /\ row \in Row
  BY DEF Types, InboxTypeOK
<1>3. live.content \notin {NoFile, Empty} => live.content \in Contents
  BY <1>2 DEF File
<1>4. CASE BeginCapture(w)
  <2>1. CASE live.content \in {NoFile, Empty}
    <3>1. RecordQuarantine(w)
      BY <1>4, <2>1 DEF BeginCapture
    <3> QED
      BY <1>4, <3>1, QuarantineTypes DEF BeginCapture, Types, InboxTypeOK
  <2>2. CASE live.content \notin {NoFile, Empty}
    <3> DEFINE state == [step |-> "settling", file |-> live, refused |-> live.content \in Rejects,
                         bound |-> FALSE, late |-> FALSE, crossed |-> FALSE]
    <3>1. (live.content \in Rejects) \in BOOLEAN
      OBVIOUS
    <3>2. state \in CaptureState /\ state.step = "settling" /\ state.file = live
      BY <1>2, <3>1 DEF CaptureState
    <3>3. captures' = [captures EXCEPT ![w] = state] /\ UNCHANGED rows
      BY <1>4, <2>2 DEF BeginCapture
    <3> HIDE DEF state
    <3>4. Good
      BY <1>3, <2>2, <3>2, <3>3, NewState
    <3> QED
      BY <1>4, <3>3, <3>4 DEF BeginCapture, Types, InboxTypeOK, rows
  <2> QED
    BY <2>1, <2>2
<1>5. CASE Settle(w)
  <2>1. CASE Becomes(w, "stable") /\ UNCHANGED rows
    <3>1. Good
      BY <1>5, <2>1, StepOnly DEF Settle
    <3> QED
      BY <1>5, <2>1, <3>1 DEF Settle, Types, InboxTypeOK, rows
  <2>2. CASE RecordQuarantine(w)
    BY <1>5, <2>2, QuarantineTypes DEF Settle, Types, InboxTypeOK
  <2> QED
    BY <1>5, <2>1, <2>2 DEF Settle
<1>6. CASE FindBinding(w)
  <2> DEFINE state == [captures[w] EXCEPT !.step = "bound", !.bound = mapped]
  <2>1. captures' = [captures EXCEPT ![w] = state]
    BY <1>6 DEF FindBinding
  <2>2. mapped \in BOOLEAN
    BY DEF Types, InboxTypeOK
  <2>3. state \in CaptureState /\ state.step = "bound" /\ state.file = file
    BY <1>1, <2>2 DEF CaptureState
  <2> HIDE DEF state
  <2>4. Good
    BY <1>1, <1>6, <2>1, <2>3, NewState DEF FindBinding
  <2> QED
    BY <1>6, <2>4 DEF FindBinding, Types, InboxTypeOK, rows
<1>7. CASE PutFile(w)
  <2>1. CASE live.content \in {NoFile, Empty}
    <3>1. RecordQuarantine(w)
      BY <1>7, <2>1 DEF PutFile
    <3> QED
      BY <1>7, <3>1, QuarantineTypes DEF PutFile, Types, InboxTypeOK
  <2>2. CASE live.content \notin {NoFile, Empty}
    <3> DEFINE state == [captures[w] EXCEPT !.step = "archived", !.file = live]
    <3>1. captures' = [captures EXCEPT ![w] = state] /\ UNCHANGED rows
      BY <1>7, <2>2 DEF PutFile
    <3>2. state \in CaptureState /\ state.step = "archived" /\ state.file = live
      BY <1>1, <1>2 DEF CaptureState
    <3> HIDE DEF state
    <3>3. Good
      BY <1>3, <2>2, <3>1, <3>2, NewState
    <3> QED
      BY <1>7, <3>1, <3>3 DEF PutFile, Types, InboxTypeOK, rows
  <2> QED
    BY <2>1, <2>2
<1>8. CASE RecordUnassigned(w) \/ Reject(w)
  <2>1. /\ captures[w].step = "archived"
        /\ EndsUnassigned(w, file.content, file.version)
        /\ UNCHANGED <<live, mapped, marking, timer, gone, recorded, ingested, mappings, faults>>
        /\ seen' \in {seen, "quarantined"}
    BY <1>8 DEF RecordUnassigned, Reject
  <2>2. Good /\ row' \in Row
    BY <1>1, <2>1, UnassignedTypes
  <2> QED
    BY <2>1, <2>2 DEF Types, InboxTypeOK
<1>9. CASE Observe(w)
  <2>1. Good
    BY <1>9, StepOnly DEF Observe
  <2> QED
    BY <1>9, <2>1 DEF Observe, Types, InboxTypeOK, rows
<1>10. CASE RecordIngest(w)
  <2>1. file.content \in Saves /\ file.version \in Versions
    BY <1>1, <1>10 DEF RecordIngest, Types, Checked
  <2>2. Good
    BY <1>10, <2>1, StepOnly DEF RecordIngest
  <2> QED
    BY <1>10, <2>1, <2>2 DEF RecordIngest, Types, InboxTypeOK
<1>11. CASE ResolveUnassigned(w)
  <2>1. Good
    BY <1>11, StepOnly DEF ResolveUnassigned
  <2>2. row' \in Row
    BY <1>2, <1>11, RowMarked DEF ResolveUnassigned
  <2> QED
    BY <1>11, <2>1, <2>2 DEF ResolveUnassigned, Types, InboxTypeOK
<1>12. CASE FailArchive(w)
  <2>1. faults' \in 0 .. MaxFaults
    BY <1>12, InboxBoundsAssumption DEF FailArchive, Types, InboxTypeOK
  <2>2. CASE RecordQuarantine(w)
    BY <1>12, <2>1, <2>2, QuarantineTypes DEF FailArchive, Types, InboxTypeOK
  <2>3. CASE /\ captures[w].step = "archived"
             /\ EndsUnassigned(w, file.content, file.version)
             /\ UNCHANGED <<seen, recorded, ingested>>
    <3>1. Good /\ row' \in Row
      BY <1>1, <2>3, UnassignedTypes
    <3> QED
      BY <1>12, <2>1, <2>3, <3>1 DEF FailArchive, Types, InboxTypeOK
  <2> QED
    BY <1>12, <2>2, <2>3 DEF FailArchive
<1>13. CASE Fail(w)
  <2>1. faults' \in 0 .. MaxFaults
    BY <1>13, InboxBoundsAssumption DEF Fail, Types, InboxTypeOK
  <2>2. Good
    BY <1>13, StepOnly DEF Fail
  <2> QED
    BY <1>13, <2>1, <2>2 DEF Fail, Types, InboxTypeOK, rows
<1> QED
  BY <1>4, <1>5, <1>6, <1>7, <1>8, <1>9, <1>10, <1>11, <1>12, <1>13 DEF Capture

LEMMA TypesStep ==
    ASSUME Types, [Next]_vars
    PROVE  Types'
<1>1. ASSUME NEW content \in Contents \cup {Empty, NoFile}, Write(content)
      PROVE  Types'
  <2>1. live' \in File
    BY <1>1, InboxBoundsAssumption DEF Write, Types, InboxTypeOK, File, Versions
  <2> QED
    BY <1>1, <2>1 DEF Write, Types, InboxTypeOK, Checked
<1>2. CASE MapSave \/ MapElsewhere \/ Reconcile
  <2>1. mappings' \in 0 .. MaxMappings
    BY <1>2, InboxBoundsAssumption DEF MapSave, MapElsewhere, Reconcile, Types, InboxTypeOK
  <2>2. CASE MapSave
    BY <2>1, <2>2 DEF MapSave, Types, InboxTypeOK, Checked
  <2>3. CASE MapElsewhere
    BY <2>1, <2>3 DEF MapElsewhere, Types, InboxTypeOK, Checked
  <2>4. CASE Reconcile
    <3>1. timer' \in BOOLEAN /\ gone' \in BOOLEAN
      BY <2>4 DEF Reconcile, Types, InboxTypeOK
    <3> QED
      BY <2>1, <2>4, <3>1 DEF Reconcile, Types, InboxTypeOK, Checked
  <2> QED
    BY <1>2, <2>2, <2>3, <2>4
<1>3. CASE MarkMapped
  <2>1. row' \in Row
    BY <1>3, RowMarked DEF MarkMapped, Types, InboxTypeOK
  <2> QED
    BY <1>3, <2>1 DEF MarkMapped, Types, InboxTypeOK, Checked
<1>4. CASE DeleteObserved
  <2>1. CASE UNCHANGED <<seen, captures>>
    BY <1>4, <2>1 DEF DeleteObserved, Types, InboxTypeOK, Checked
  <2>2. CASE /\ seen' = "missing"
             /\ captures' = [w \in Workers |->
                                [captures[w] EXCEPT !.late = (captures[w].step = "observed")]]
    <3>1. \A w \in Workers : /\ captures'[w] \in CaptureState
                             /\ captures'[w].step = captures[w].step
                             /\ captures'[w].file = captures[w].file
      BY <2>2 DEF Types, InboxTypeOK, CaptureState
    <3>2. captures' \in [Workers -> CaptureState]
      BY <2>2, <3>1
    <3> QED
      BY <1>4, <2>2, <3>1, <3>2 DEF DeleteObserved, Types, InboxTypeOK, Checked
  <2> QED
    BY <1>4, <2>1, <2>2 DEF DeleteObserved
<1>5. CASE Crash
  <2>1. faults' \in 0 .. MaxFaults
    BY <1>5, InboxBoundsAssumption DEF Crash, Types, InboxTypeOK
  <2>2. \A w \in Workers : captures'[w] \in CaptureState /\ captures'[w].step = "idle"
    BY <1>5 DEF Crash, Types, InboxTypeOK, CaptureState
  <2>3. captures' \in [Workers -> CaptureState]
    BY <1>5, <2>2 DEF Crash
  <2> QED
    BY <1>5, <2>1, <2>2, <2>3 DEF Crash, Types, InboxTypeOK, Checked, rows
<1>6. CASE UNCHANGED vars
  BY <1>6 DEF vars, Types, InboxTypeOK, Checked
<1> QED
  BY <1>1, <1>2, <1>3, <1>4, <1>5, <1>6, CaptureTypes DEF Next

LEMMA TypesHold == Spec => []Types
<1>1. Init => Types
  <2> SUFFICES ASSUME Init PROVE Types
    OBVIOUS
  <2>1. 0 \in Versions /\ mappings \in 0 .. MaxMappings /\ faults \in 0 .. MaxFaults
    BY InboxBoundsAssumption DEF Init, Versions
  <2>2. live \in File /\ row \in Row
    BY <2>1 DEF Init, File, Row
  <2>3. captures \in [Workers -> CaptureState] /\ \A w \in Workers : captures[w].step = "idle"
    BY <2>2 DEF Init, CaptureState
  <2> QED
    BY <2>1, <2>2, <2>3 DEF Init, Types, InboxTypeOK, Checked
<1> QED
  BY <1>1, TypesStep, PTL DEF Spec

\* Only saves that pass the checks are recorded and no capture goes on without a
\* file, whatever the file and the mapping become between its steps.
THEOREM InboxTypes == Spec => []InboxTypeOK
<1>1. Types => InboxTypeOK
  BY DEF Types
<1> QED
  BY <1>1, TypesHold, PTL

-----------------------------------------------------------------------------
(***************************************************************************)
(* The end of a quarantine.                                                *)
(***************************************************************************)
\* The row is about nothing newer than the file.  What a capture has read or
\* ingested is no older than the row is about, unless another capture has written
\* the row since.
RowIsOlder ==
    /\ row.since <= live.version
    /\ \A w \in Workers :
          /\ captures[w].file.version <= live.version
          /\ captures[w].step \in {"archived", "observed"} =>
                captures[w].crossed \/ row.since <= captures[w].file.version
          /\ captures[w].step = "ingested" => captures[w].crossed \/ row.since <= ingested

LEMMA VersionTypes ==
    ASSUME Types
    PROVE  /\ live.version \in Nat /\ row.since \in Nat /\ ingested \in Nat
           /\ \A w \in Workers : captures[w].file.version \in Nat
           /\ row \in Row /\ live \in File /\ captures \in [Workers -> CaptureState]
BY InboxBoundsAssumption DEF Types, InboxTypeOK, File, Row, CaptureState, Versions

\* A capture that ends with the row crosses all that have archived a file.
LEMMA OlderUnassigned ==
    ASSUME Types, RowIsOlder, NEW w \in Workers,
           NEW blob \in Contents \cup {NoFile}, NEW version \in Nat, EndsUnassigned(w, blob, version),
           version <= live.version, live' = live
    PROVE  RowIsOlder'
<1>1. row'.since = version
  BY DEF EndsUnassigned
<1>2. \A x \in Workers :
         /\ captures'[x].file = captures[x].file
         /\ captures'[x].step \in {"archived", "observed", "ingested"} => captures'[x].crossed
  BY VersionTypes DEF EndsUnassigned, CaptureState
<1> QED
  BY <1>1, <1>2 DEF RowIsOlder

LEMMA OlderQuarantine ==
    ASSUME Types, RowIsOlder, NEW w \in Workers, RecordQuarantine(w), live' = live
    PROVE  RowIsOlder'
<1>1. EndsUnassigned(w, NoFile, live.version)
  BY DEF RecordQuarantine
<1>2. live.version \in Nat /\ NoFile \in Contents \cup {NoFile} /\ live.version <= live.version
  BY VersionTypes
<1> QED
  BY <1>1, <1>2, OlderUnassigned

LEMMA OlderCapture ==
    ASSUME Types, RowIsOlder, NEW w \in Workers,
           BeginCapture(w) \/ Capture(w) \/ FailArchive(w) \/ Fail(w)
    PROVE  RowIsOlder'
<1> DEFINE file == captures[w].file
<1>1. live' = live
  BY DEF BeginCapture, Capture, FailArchive, Fail, Settle, FindBinding, PutFile, RecordUnassigned,
         Reject, Observe, RecordIngest, ResolveUnassigned
<1>2. /\ captures \in [Workers -> CaptureState] /\ captures[w] \in CaptureState
      /\ live.version \in Nat /\ row.since \in Nat /\ ingested \in Nat /\ file.version \in Nat
      /\ row \in Row /\ file.content \in Contents \cup {Empty, NoFile}
  BY VersionTypes DEF CaptureState, File
<1>3. captures[w].step # "idle" => file.content \in Contents
  BY DEF Types, InboxTypeOK
<1>4. ASSUME RecordQuarantine(w)
      PROVE  RowIsOlder'
  BY <1>1, <1>4, OlderQuarantine
<1>5. ASSUME NEW step \in {"idle", "stable", "observed"}, Becomes(w, step), UNCHANGED rows,
             step = "observed" => captures[w].step = "archived"
      PROVE  RowIsOlder'
  <2>1. \A x \in Workers : /\ captures'[x].file = captures[x].file
                           /\ captures'[x].crossed = captures[x].crossed
                           /\ captures'[x].step = IF x = w THEN step ELSE captures[x].step
    BY <1>2, <1>5 DEF Becomes, CaptureState
  <2> QED
    BY <1>1, <1>5, <2>1 DEF RowIsOlder, rows
<1>6. ASSUME NEW state \in CaptureState, captures' = [captures EXCEPT ![w] = state], UNCHANGED rows,
             state.step \in {"settling", "bound", "archived"},
             state.file = file \/ state.file = live,
             state.step = "archived" => state.file = live
      PROVE  RowIsOlder'
  <2>1. \A x \in Workers : captures'[x] = IF x = w THEN state ELSE captures[x]
    BY <1>2, <1>6
  <2>2. state.file.version <= live.version
    BY <1>2, <1>6 DEF RowIsOlder
  <2> QED
    BY <1>1, <1>6, <2>1, <2>2 DEF RowIsOlder, rows
<1>7. CASE BeginCapture(w)
  <2> DEFINE state == [step |-> "settling", file |-> live, refused |-> live.content \in Rejects,
                       bound |-> FALSE, late |-> FALSE, crossed |-> FALSE]
  <2>1. (live.content \in Rejects) \in BOOLEAN
    OBVIOUS
  <2>2. state \in CaptureState /\ state.step = "settling" /\ state.file = live
    BY <2>1, VersionTypes DEF CaptureState
  <2>3. RecordQuarantine(w) \/ (captures' = [captures EXCEPT ![w] = state] /\ UNCHANGED rows)
    BY <1>7 DEF BeginCapture
  <2> HIDE DEF state
  <2> QED
    BY <1>4, <1>6, <2>2, <2>3
<1>8. CASE Settle(w)
  BY <1>4, <1>5, <1>8 DEF Settle
<1>9. CASE FindBinding(w)
  <2> DEFINE state == [captures[w] EXCEPT !.step = "bound", !.bound = mapped]
  <2>1. mapped \in BOOLEAN
    BY DEF Types, InboxTypeOK
  <2>2. state \in CaptureState /\ state.step = "bound" /\ state.file = file
    BY <1>2, <2>1 DEF CaptureState
  <2>3. captures' = [captures EXCEPT ![w] = state] /\ UNCHANGED rows
    BY <1>9 DEF FindBinding
  <2> HIDE DEF state
  <2> QED
    BY <1>6, <2>2, <2>3
<1>10. CASE PutFile(w)
  <2> DEFINE state == [captures[w] EXCEPT !.step = "archived", !.file = live]
  <2>1. state \in CaptureState /\ state.step = "archived" /\ state.file = live
    BY <1>2, VersionTypes DEF CaptureState
  <2>2. RecordQuarantine(w) \/ (captures' = [captures EXCEPT ![w] = state] /\ UNCHANGED rows)
    BY <1>10 DEF PutFile
  <2> HIDE DEF state
  <2> QED
    BY <1>4, <1>6, <2>1, <2>2
<1>11. ASSUME captures[w].step = "archived", EndsUnassigned(w, file.content, file.version)
       PROVE  RowIsOlder'
  <2>1. file.version <= live.version
    BY DEF RowIsOlder
  <2> QED
    BY <1>1, <1>2, <1>3, <1>11, <2>1, OlderUnassigned
<1>12. CASE RecordUnassigned(w) \/ Reject(w)
  BY <1>11, <1>12 DEF RecordUnassigned, Reject
<1>13. CASE Observe(w)
  BY <1>5, <1>13 DEF Observe
<1>14. CASE RecordIngest(w)
  <2>1. \A x \in Workers : /\ captures'[x].file = captures[x].file
                           /\ captures'[x].crossed = captures[x].crossed
                           /\ captures'[x].step = IF x = w THEN "ingested" ELSE captures[x].step
    BY <1>2, <1>14 DEF RecordIngest, Becomes, CaptureState
  <2>2. captures[w].crossed \/ row.since <= file.version
    BY <1>14 DEF RecordIngest, RowIsOlder
  <2>3. row' = row /\ ingested <= ingested' /\ file.version <= ingested' /\ ingested' \in Nat
    BY <1>2, <1>14 DEF RecordIngest
  <2> QED
    BY <1>1, <1>2, <2>1, <2>2, <2>3 DEF RowIsOlder
<1>15. CASE ResolveUnassigned(w)
  <2>1. \A x \in Workers : /\ captures'[x].file = captures[x].file
                           /\ captures'[x].crossed = captures[x].crossed
                           /\ captures'[x].step = IF x = w THEN "idle" ELSE captures[x].step
    BY <1>2, <1>15 DEF ResolveUnassigned, Becomes, CaptureState
  <2>2. row'.since = row.since /\ ingested' = ingested
    BY <1>2, <1>15 DEF ResolveUnassigned, Row
  <2> QED
    BY <1>1, <2>1, <2>2 DEF RowIsOlder
<1>16. CASE FailArchive(w)
  BY <1>4, <1>11, <1>16 DEF FailArchive
<1>17. CASE Fail(w)
  BY <1>5, <1>17 DEF Fail
<1> QED
  BY <1>7, <1>8, <1>9, <1>10, <1>12, <1>13, <1>14, <1>15, <1>16, <1>17 DEF Capture

LEMMA OlderStep ==
    ASSUME Types, RowIsOlder, [Next]_vars
    PROVE  RowIsOlder'
<1>1. ASSUME NEW content \in Contents \cup {Empty, NoFile}, Write(content)
      PROVE  RowIsOlder'
  <2>1. live'.version = live.version + 1
    BY <1>1 DEF Write
  <2> QED
    BY <1>1, <2>1, VersionTypes DEF Write, RowIsOlder
<1>2. CASE MapSave \/ MapElsewhere \/ Reconcile
  BY <1>2 DEF MapSave, MapElsewhere, Reconcile, RowIsOlder
<1>3. CASE MarkMapped
  <2>1. row'.since = row.since
    BY <1>3, VersionTypes DEF MarkMapped, Row
  <2> QED
    BY <1>3, <2>1 DEF MarkMapped, RowIsOlder
<1>4. CASE DeleteObserved
  <2>1. \A w \in Workers : /\ captures'[w].step = captures[w].step
                           /\ captures'[w].file = captures[w].file
                           /\ captures'[w].crossed = captures[w].crossed
    BY <1>4, VersionTypes DEF DeleteObserved, CaptureState
  <2> QED
    BY <1>4, <2>1 DEF DeleteObserved, RowIsOlder
<1>5. CASE Crash
  <2>1. \A w \in Workers : captures'[w].step = "idle" /\ captures'[w].file = captures[w].file
    BY <1>5, VersionTypes DEF Crash, CaptureState
  <2> QED
    BY <1>5, <2>1 DEF Crash, RowIsOlder, rows
<1>6. CASE UNCHANGED vars
  BY <1>6 DEF vars, RowIsOlder
<1> QED
  BY <1>1, <1>2, <1>3, <1>4, <1>5, <1>6, OlderCapture DEF Next

\* Only the end of a capture that ingested its file resolves the row.
LEMMA OnlyIngestsResolve ==
    ASSUME Types, [Next]_vars, row.state # "resolved", row'.state = "resolved"
    PROVE  \E w \in Workers : ResolveUnassigned(w)
<1>1. ASSUME NEW w \in Workers, NEW blob, NEW version, EndsUnassigned(w, blob, version)
      PROVE  FALSE
  BY <1>1 DEF EndsUnassigned
<1>2. ASSUME NEW w \in Workers, RecordQuarantine(w)
      PROVE  FALSE
  BY <1>1, <1>2 DEF RecordQuarantine
<1>3. ASSUME NEW w \in Workers, BeginCapture(w) \/ Capture(w) \/ FailArchive(w) \/ Fail(w)
      PROVE  ResolveUnassigned(w)
  BY <1>1, <1>2, <1>3 DEF BeginCapture, Capture, FailArchive, Fail, Settle, FindBinding, PutFile,
                          RecordUnassigned, Reject, Observe, RecordIngest, rows
<1>4. ~MarkMapped
  BY VersionTypes DEF MarkMapped, Row
<1>5. row' # row
  OBVIOUS
<1> QED
  BY <1>3, <1>4, <1>5 DEF Next, Write, MapSave, MapElsewhere, Reconcile, DeleteObserved, Crash, rows, vars

\* For any number of captures that overlap, and whatever is written, mapped, fails
\* or crashes in between: a quarantine ends with the ingest of the file it is about
\* or of a newer one, but for a capture that had archived its file before the
\* quarantine was recorded.
THEOREM QuarantineEnds == Spec => QuarantineEndsWithIngest
<1> DEFINE Ends == row.state # "resolved" /\ row'.state = "resolved"
                   => \/ row.since <= ingested
                      \/ \E w \in Workers : ResolveUnassigned(w) /\ captures[w].crossed
<1>1. Init => RowIsOlder
  BY DEF Init, RowIsOlder
<1>2. Types /\ RowIsOlder /\ [Next]_vars => RowIsOlder'
  BY OlderStep
<1>3. Types /\ RowIsOlder /\ [Next]_vars => [Ends]_vars
  <2> SUFFICES ASSUME Types, RowIsOlder, [Next]_vars, row.state # "resolved", row'.state = "resolved"
               PROVE  \/ row.since <= ingested
                      \/ \E w \in Workers : ResolveUnassigned(w) /\ captures[w].crossed
    OBVIOUS
  <2>1. PICK w \in Workers : ResolveUnassigned(w)
    BY OnlyIngestsResolve
  <2>2. captures[w].step = "ingested"
    BY <2>1 DEF ResolveUnassigned
  <2> QED
    BY <2>1, <2>2 DEF RowIsOlder
<1> QED
  BY <1>1, <1>2, <1>3, TypesHold, PTL DEF Spec, QuarantineEndsWithIngest
=============================================================================
