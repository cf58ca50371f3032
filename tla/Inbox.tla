---------------------------------- MODULE Inbox ----------------------------------
(***************************************************************************)
(* The captures that do not become revisions: files without a mapping,     *)
(* files that vanish, are empty or keep changing, saves that fail the      *)
(* checks, and deletions.  They live in the tables unassigned_files (what  *)
(* the page "Unassigned and quarantined files" shows) and observations.    *)
(*                                                                         *)
(* The module follows one save path of one endpoint, of a Game Boy Advance *)
(* game when it is mapped.  What RecordIngest does with an accepted save   *)
(* is the matter of RevisionStore; here it is recorded.  The file and the  *)
(* mapping may change between any two steps of a capture.                  *)
(***************************************************************************)
EXTENDS Integers, FiniteSets

CONSTANTS Saves,        \* contents that pass the checks
          Rejects,      \* contents that fail Validate, Decode or ValidatePayload
          Empty,        \* a file of zero bytes
          NoFile,       \* no file, or no blob in a row
          Workers,      \* goroutines that capture this path
          MaxWrites,    \* bound on the changes of the file
          MaxMappings,  \* bound on the changes of the mapping
          MaxFaults     \* bound on failing calls and crashes

ASSUME ContentsAssumption ==
    /\ Saves \cap Rejects = {}
    /\ {Empty, NoFile} \cap (Saves \cup Rejects) = {}
    /\ Empty # NoFile

ASSUME InboxBoundsAssumption == MaxWrites \in Nat /\ MaxMappings \in Nat /\ MaxFaults \in Nat

VARIABLES live,      \* the file: content, and its version as modification time
          mapped,    \* save_bindings has a row with this path
          marking,   \* UpsertBinding has not yet marked the inbox row
          timer,     \* a capture of this path is scheduled
          gone,      \* a deletion event, or a walk that missed the file, to record
          captures,  \* Capture calls in progress
          row,       \* the row of unassigned_files
          seen,      \* action of the path's latest observation by observed_at
          recorded,  \* contents some revision records
          ingested,  \* version of the newest file that was ingested
          mappings, faults

vars == <<live, mapped, marking, timer, gone, captures, row, seen, recorded,
          ingested, mappings, faults>>

-----------------------------------------------------------------------------
Contents == Saves \cup Rejects
Versions == 0 .. MaxWrites
File == [content : Contents \cup {Empty, NoFile}, version : Versions]

\* "refused": stableFile saw a file that fails the checks, perhaps by its size.
\* "late": a deletion was recorded after this capture took its ObservedAt.
\* "crossed": another capture wrote the row after this one archived its file; it is
\* not in the code.
CaptureState ==
    [step : {"idle", "settling", "stable", "bound", "archived", "observed", "ingested"},
     file : File, refused : BOOLEAN, bound : BOOLEAN, late : BOOLEAN, crossed : BOOLEAN]

\* "since" is the version the row is about; the code does not keep it.
Row == [state : {"none", "unassigned", "mapped", "resolved"},
        blob : Contents \cup {NoFile}, since : Versions]

Init ==
    /\ live = [content |-> NoFile, version |-> 0]
    /\ mapped = FALSE
    /\ marking = FALSE
    /\ timer = FALSE
    /\ gone = FALSE
    /\ captures = [w \in Workers |-> [step |-> "idle", file |-> live,
                                      refused |-> FALSE, bound |-> FALSE, late |-> FALSE,
                                      crossed |-> FALSE]]
    /\ row = [state |-> "none", blob |-> NoFile, since |-> 0]
    /\ seen = "none"
    /\ recorded = {}
    /\ ingested = 0
    /\ mappings = 0
    /\ faults = 0

(***************************************************************************)
(* The file and the mapping.                                               *)
(***************************************************************************)
\* A device, Syncthing or a delivery writes the file; an event schedules it.
Write(content) ==
    /\ live.version < MaxWrites
    /\ content # live.content
    /\ live' = [content |-> content, version |-> live.version + 1]
    /\ IF content = NoFile
       THEN gone' = TRUE /\ UNCHANGED timer
       ELSE timer' = TRUE /\ UNCHANGED gone
    /\ UNCHANGED <<mapped, marking, captures, row, seen, recorded, ingested, mappings, faults>>

\* UpsertBinding inserts the binding and then, in a statement of its own, marks
\* the inbox row; the save is captured at once or scheduled.
MapSave ==
    /\ ~mapped
    /\ mappings < MaxMappings
    /\ mapped' = TRUE
    /\ marking' = TRUE
    /\ mappings' = mappings + 1
    /\ UNCHANGED <<live, timer, gone, captures, row, seen, recorded, ingested, faults>>

MarkMapped ==
    /\ marking
    /\ marking' = FALSE
    /\ timer' = TRUE
    /\ row' = IF row.state = "none" THEN row ELSE [row EXCEPT !.state = "mapped"]
    /\ UNCHANGED <<live, mapped, gone, captures, seen, recorded, ingested, mappings, faults>>

\* The game's mapping moves to another path.
MapElsewhere ==
    /\ mapped
    /\ ~marking
    /\ mapped' = FALSE
    /\ UNCHANGED <<live, marking, timer, gone, captures, row, seen, recorded, ingested,
                   mappings, faults>>

\* The walk schedules a file, or finds the file of a mapping missing.
Reconcile ==
    /\ IF live.content = NoFile
       THEN mapped /\ gone' = TRUE /\ UNCHANGED timer
       ELSE timer' = TRUE /\ UNCHANGED gone
    /\ UNCHANGED <<live, mapped, marking, captures, row, seen, recorded, ingested,
                   mappings, faults>>

\* RecordDeletion: one observation for a row of deletions, and nothing else.
DeleteObserved ==
    /\ gone
    /\ gone' = FALSE
    /\ IF seen = "missing" THEN UNCHANGED <<seen, captures>>
       ELSE /\ seen' = "missing"
            /\ captures' = [w \in Workers |->
                               [captures[w] EXCEPT !.late = (captures[w].step = "observed")]]
    /\ UNCHANGED <<live, mapped, marking, timer, row, recorded, ingested, mappings, faults>>

(***************************************************************************)
(* Capture.                                                                *)
(***************************************************************************)
rows == <<row, seen, recorded, ingested>>

Becomes(w, step) == captures' = [captures EXCEPT ![w].step = step]

\* The capture ends with the row, which those that have archived a file will meet.
EndsUnassigned(w, blob, version) ==
    /\ row' = [state |-> "unassigned", blob |-> blob, since |-> version]
    /\ captures' = [x \in Workers |->
                       IF x = w THEN [captures[x] EXCEPT !.step = "idle"]
                       ELSE IF captures[x].step \in {"archived", "observed", "ingested"}
                            THEN [captures[x] EXCEPT !.crossed = TRUE]
                            ELSE captures[x]]

\* RecordQuarantine keeps the condition when there is no blob.
RecordQuarantine(w) ==
    /\ EndsUnassigned(w, NoFile, live.version)
    /\ UNCHANGED <<seen, recorded, ingested>>

\* The timer fires; a missing or empty file is not waited for.
BeginCapture(w) ==
    /\ timer
    /\ captures[w].step = "idle"
    /\ timer' = FALSE
    /\ IF live.content \in {NoFile, Empty}
       THEN RecordQuarantine(w)
       ELSE /\ captures' = [captures EXCEPT ![w] =
                               [step |-> "settling", file |-> live,
                                refused |-> live.content \in Rejects,
                                bound |-> FALSE, late |-> FALSE, crossed |-> FALSE]]
            /\ UNCHANGED rows
    /\ UNCHANGED <<live, mapped, marking, gone, mappings, faults>>

\* stableFile looks again after a second.
Settle(w) ==
    /\ captures[w].step = "settling"
    /\ IF live = captures[w].file THEN Becomes(w, "stable") /\ UNCHANGED rows
       ELSE RecordQuarantine(w)
    /\ UNCHANGED <<live, mapped, marking, timer, gone, mappings, faults>>

FindBinding(w) ==
    /\ captures[w].step = "stable"
    /\ captures' = [captures EXCEPT ![w].step = "bound", ![w].bound = mapped]
    /\ UNCHANGED <<live, mapped, marking, timer, gone, rows, mappings, faults>>

\* Mutant: a file of zero bytes is archived.
PutFileOfAnySize(w) ==
    /\ captures[w].step = "bound"
    /\ IF live.content = NoFile
       THEN RecordQuarantine(w)
       ELSE /\ captures' = [captures EXCEPT ![w].step = "archived", ![w].file = live]
            /\ UNCHANGED rows
    /\ UNCHANGED <<live, mapped, marking, timer, gone, mappings, faults>>

\* PutFile archives what the file is now, or finds none or an empty one.
PutFile(w) ==
    /\ captures[w].step = "bound"
    /\ IF live.content \in {NoFile, Empty}
       THEN RecordQuarantine(w)
       ELSE /\ captures' = [captures EXCEPT ![w].step = "archived", ![w].file = live]
            /\ UNCHANGED rows
    /\ UNCHANGED <<live, mapped, marking, timer, gone, mappings, faults>>

\* Mutant: a row that is there is left as it is.
RecordFirstUnassigned(w) ==
    LET file == captures[w].file IN
    /\ captures[w].step = "archived"
    /\ ~captures[w].bound
    /\ IF row.state = "none" THEN EndsUnassigned(w, file.content, file.version)
       ELSE Becomes(w, "idle") /\ UNCHANGED row
    /\ UNCHANGED <<live, mapped, marking, timer, gone, seen, recorded, ingested, mappings, faults>>

\* A file without a mapping, with its blob.
RecordUnassigned(w) ==
    LET file == captures[w].file IN
    /\ captures[w].step = "archived"
    /\ ~captures[w].bound
    /\ EndsUnassigned(w, file.content, file.version)
    /\ UNCHANGED <<live, mapped, marking, timer, gone, seen, recorded, ingested, mappings, faults>>

\* A mapped file that fails the checks, or failed Validate with the size it had
\* before; an incomplete save has an observation too (RecordRejectedIngest).
Reject(w) ==
    LET file == captures[w].file IN
    /\ captures[w].step = "archived"
    /\ captures[w].bound
    /\ file.content \in Rejects \/ captures[w].refused
    /\ EndsUnassigned(w, file.content, file.version)
    /\ seen' \in {seen, "quarantined"}
    /\ UNCHANGED <<live, mapped, marking, timer, gone, recorded, ingested, mappings, faults>>

\* Mutant: the inbox is cleared before the transaction commits.
ObserveAndResolve(w) ==
    /\ captures[w].step = "archived"
    /\ captures[w].bound
    /\ captures[w].file.content \in Saves
    /\ Becomes(w, "observed")
    /\ row' = IF row.state = "none" THEN row ELSE [row EXCEPT !.state = "resolved"]
    /\ UNCHANGED <<live, mapped, marking, timer, gone, seen, recorded, ingested, mappings, faults>>

\* ObservedAt is taken before the transaction gets the database's connection.
Observe(w) ==
    /\ captures[w].step = "archived"
    /\ captures[w].bound
    /\ captures[w].file.content \in Saves
    /\ Becomes(w, "observed")
    /\ UNCHANGED <<live, mapped, marking, timer, gone, rows, mappings, faults>>

RecordIngest(w) ==
    LET file == captures[w].file IN
    /\ captures[w].step = "observed"
    /\ recorded' = recorded \cup {file.content}
    /\ ingested' = IF file.version > ingested THEN file.version ELSE ingested
    /\ seen' = IF captures[w].late THEN seen ELSE "changed"
    /\ Becomes(w, "ingested")
    /\ UNCHANGED <<live, mapped, marking, timer, gone, row, mappings, faults>>

ResolveUnassigned(w) ==
    /\ captures[w].step = "ingested"
    /\ row' = IF row.state = "none" THEN row ELSE [row EXCEPT !.state = "resolved"]
    /\ Becomes(w, "idle")
    /\ UNCHANGED <<live, mapped, marking, timer, gone, seen, recorded, ingested, mappings, faults>>

\* The archive or one of its objects cannot be written or read.
FailArchive(w) ==
    LET file == captures[w].file IN
    /\ faults < MaxFaults
    /\ faults' = faults + 1
    /\ \/ captures[w].step = "bound" /\ RecordQuarantine(w)
       \/ /\ captures[w].step = "archived"
          /\ captures[w].bound
          /\ EndsUnassigned(w, file.content, file.version)
          /\ UNCHANGED <<seen, recorded, ingested>>
    /\ UNCHANGED <<live, mapped, marking, timer, gone, mappings>>

\* A call fails or the 30 seconds are over, and the row it would have written,
\* whose errors are ignored, is not written either.
Fail(w) ==
    /\ captures[w].step # "idle"
    /\ faults < MaxFaults
    /\ faults' = faults + 1
    /\ Becomes(w, "idle")
    /\ UNCHANGED <<live, mapped, marking, timer, gone, rows, mappings>>

Crash ==
    /\ faults < MaxFaults
    /\ faults' = faults + 1
    /\ marking' = FALSE
    /\ timer' = FALSE
    /\ gone' = FALSE
    /\ captures' = [w \in Workers |-> [captures[w] EXCEPT !.step = "idle"]]
    /\ UNCHANGED <<live, mapped, rows, mappings>>

-----------------------------------------------------------------------------
Capture(w) ==
    \/ Settle(w) \/ FindBinding(w) \/ PutFile(w)
    \/ RecordUnassigned(w) \/ Reject(w) \/ Observe(w)
    \/ RecordIngest(w) \/ ResolveUnassigned(w)

Next ==
    \/ \E content \in Contents \cup {Empty, NoFile} : Write(content)
    \/ MapSave \/ MarkMapped \/ MapElsewhere
    \/ Reconcile \/ DeleteObserved
    \/ \E w \in Workers : BeginCapture(w) \/ Capture(w) \/ FailArchive(w) \/ Fail(w)
    \/ Crash

\* Reconciliation is periodic, a handler or capture that has begun goes on, and
\* a timer fires: it is armed anew far less often than every five seconds.
Fairness ==
    /\ WF_vars(Reconcile)
    /\ WF_vars(MarkMapped)
    /\ WF_vars(DeleteObserved)
    /\ \A w \in Workers : WF_vars(Capture(w)) /\ WF_vars(BeginCapture(w))

Spec == Init /\ [][Next]_vars /\ Fairness

-----------------------------------------------------------------------------
(***************************************************************************)
(* Properties.                                                             *)
(***************************************************************************)
\* Types; a capture past the archive has a file with contents, and only saves
\* that pass the checks are recorded.
InboxTypeOK ==
    /\ live \in File
    /\ mapped \in BOOLEAN /\ marking \in BOOLEAN /\ timer \in BOOLEAN /\ gone \in BOOLEAN
    /\ captures \in [Workers -> CaptureState]
    /\ row \in Row
    /\ seen \in {"none", "changed", "quarantined", "missing"}
    /\ recorded \subseteq Saves
    /\ ingested \in Versions
    /\ mappings \in 0 .. MaxMappings
    /\ faults \in 0 .. MaxFaults
    /\ marking => mapped
    /\ \A w \in Workers : captures[w].step # "idle" => captures[w].file.content \in Contents

\* broker.go:208: a quarantine is resolved only by the ingest of the file it is
\* about or of a newer one.  The captures of a path may overlap, which the debounce
\* makes unlikely: the one exception is a capture that had archived its file before
\* the quarantine was recorded and that ends after it.
QuarantineEndsWithIngest ==
    [][row.state # "resolved" /\ row'.state = "resolved"
          => \/ row.since <= ingested
             \/ \E w \in Workers : ResolveUnassigned(w) /\ captures[w].crossed]_vars

\* The inbox, the observations and the revisions agree with the file.
Accounted ==
    CASE live.content = NoFile -> mapped => seen = "missing"
      [] live.content \in Saves /\ mapped ->
            live.content \in recorded /\ row.state # "unassigned" /\ seen = "changed"
      [] live.content = Empty -> row.state = "unassigned" /\ row.blob = NoFile
      [] OTHER -> row.state = "unassigned" /\ row.blob = live.content

\* Once the file and the mapping stay as they are, whatever failed and in which
\* order the captures, the mapping, the deletion and the walk met before: a
\* mapped save ends in a revision and out of the inbox, anything else in the
\* inbox with the bytes it now has, and a missing save is seen to be missing.
FileIsAccountedFor == <>[]Accounted
=============================================================================
