-------------------------------- MODULE Archive --------------------------------
(***************************************************************************)
(* internal/archive: the content-addressed store every capture writes to   *)
(* before it touches the database, and every delivery before it touches a  *)
(* folder.  PutFile reads a file that others may be writing, puts a        *)
(* temporary file under its hash and syncs the directories; PutBytes does  *)
(* the same with bytes in memory.  One mutex serialises them.              *)
(*                                                                         *)
(* A file is two halves, because a read is not atomic; its hash is the     *)
(* pair itself, and every file takes Size units of the disk.  A process    *)
(* that dies loses nothing the kernel has; a power loss may lose any name  *)
(* that was not synced.  A file's data is synced before it gets its name,  *)
(* so only names are at risk.                                              *)
(***************************************************************************)
EXTENDS Integers, FiniteSets

CONSTANTS Halves,      \* values of one half of a save file
          Writers,     \* goroutines that archive
          Nobody,      \* the mutex is free
          Size,        \* units a save file takes
          Disk,        \* units of disk space
          Reserve,     \* units the archive must leave free
          MaxEdits,    \* bound on writes to the source file
          MaxFaults    \* bound on errors, process deaths and power losses

ASSUME WriterAssumption == Nobody \notin Writers

ASSUME SpaceAssumption == Size \in Nat \ {0} /\ Disk \in Nat /\ Reserve \in 0 .. Disk

ASSUME ArchiveBoundsAssumption == MaxEdits \in Nat /\ MaxFaults \in Nat

VARIABLES source,      \* the file that is captured: contents and modification time
          mu,          \* Archive.mu
          puts,        \* what each writer is doing
          objects,     \* names a reader of the archive finds
          durable,     \* names that would survive a power loss
          acked,       \* blobs a caller was told are archived, and recorded
          cut,         \* names whose put was cut off before it synced them, and that
                       \* nothing has synced since; it is not in the code
          leaked,      \* temporary files that outlived their process
          edits, faults

vars == <<source, mu, puts, objects, durable, acked, cut, leaked, edits, faults>>

-----------------------------------------------------------------------------
Content == [{1, 2} -> Halves]

\* "was" is the file at the time of the first Stat; it is not in the code.
Put == [step : {"idle", "opened", "half", "copied", "synced", "renamed"},
        fromFile : BOOLEAN, time : Nat, data : Content, was : Content]

HasTemp(w) == puts[w].step \in {"half", "copied", "synced"}

Temps == Cardinality({w \in Writers : HasTemp(w)})

Free == Disk - Size * (Cardinality(objects) + Temps + leaked)

ReserveAllows(free, required) == free > Reserve /\ required <= free - Reserve

\* Mutant: the check is done without the mutex.
MayWriteUnlocked(w) == ReserveAllows(Free, Size)

MayWrite(w) == mu = Nobody /\ ReserveAllows(Free, Size)

Returns(w) ==
    /\ puts' = [puts EXCEPT ![w].step = "idle"]
    /\ mu' = Nobody

Init ==
    /\ \E c \in Content : /\ source = [data |-> c, time |-> 0]
                          /\ puts = [w \in Writers |-> [step |-> "idle", fromFile |-> FALSE,
                                                        time |-> 0, data |-> c, was |-> c]]
    /\ mu = Nobody
    /\ objects = {}
    /\ durable = {}
    /\ acked = {}
    /\ cut = {}
    /\ leaked = 0
    /\ edits = 0
    /\ faults = 0

\* An emulator or Syncthing writes half of the file (external).
Edit(h, value) ==
    /\ edits < MaxEdits
    /\ source' = [data |-> [source.data EXCEPT ![h] = value], time |-> source.time + 1]
    /\ edits' = edits + 1
    /\ UNCHANGED <<mu, puts, objects, durable, acked, cut, leaked, faults>>

(***************************************************************************)
(* PutFile and PutBytes.                                                   *)
(***************************************************************************)
OpenSource(w) ==
    /\ puts[w].step = "idle"
    /\ MayWrite(w)
    /\ mu' = w
    /\ puts' = [puts EXCEPT ![w] = [step |-> "opened", fromFile |-> TRUE, time |-> source.time,
                                    data |-> source.data, was |-> source.data]]
    /\ UNCHANGED <<source, objects, durable, acked, cut, leaked, edits, faults>>

ReadFirstHalf(w) ==
    /\ puts[w].step = "opened"
    /\ puts' = [puts EXCEPT ![w].step = "half", ![w].data[1] = source.data[1]]
    /\ UNCHANGED <<source, mu, objects, durable, acked, cut, leaked, edits, faults>>

ReadSecondHalf(w) ==
    /\ puts[w].step = "half"
    /\ puts' = [puts EXCEPT ![w].step = "copied", ![w].data[2] = source.data[2]]
    /\ UNCHANGED <<source, mu, objects, durable, acked, cut, leaked, edits, faults>>

\* Bytes in memory go to the temporary file at once.
PutBytes(w, data) ==
    /\ puts[w].step = "idle"
    /\ MayWrite(w)
    /\ mu' = w
    /\ puts' = [puts EXCEPT ![w] = [step |-> "copied", fromFile |-> FALSE, time |-> 0,
                                    data |-> data, was |-> data]]
    /\ UNCHANGED <<source, objects, durable, acked, cut, leaked, edits, faults>>

\* Mutant: the source is not looked at again.
SyncUnvalidated(w) ==
    /\ puts[w].step = "copied"
    /\ puts' = [puts EXCEPT ![w].step = "synced"]
    /\ UNCHANGED <<source, mu, objects, durable, acked, cut, leaked, edits, faults>>

\* The source must still have the size and modification time of the first Stat.
Sync(w) ==
    /\ puts[w].step = "copied"
    /\ puts[w].fromFile => source.time = puts[w].time
    /\ puts' = [puts EXCEPT ![w].step = "synced"]
    /\ UNCHANGED <<source, mu, objects, durable, acked, cut, leaked, edits, faults>>

\* The object is there already and its hash is verified.
Deduplicate(w) ==
    /\ puts[w].step = "synced"
    /\ puts[w].data \in objects
    /\ acked' = acked \cup {puts[w].data}
    /\ Returns(w)
    /\ UNCHANGED <<source, objects, durable, cut, leaked, edits, faults>>

\* Mutant: the blob is reported before the directories are synced.
RenameAndReturn(w) ==
    /\ puts[w].step = "synced"
    /\ puts[w].data \notin objects
    /\ objects' = objects \cup {puts[w].data}
    /\ acked' = acked \cup {puts[w].data}
    /\ Returns(w)
    /\ UNCHANGED <<source, durable, cut, leaked, edits, faults>>

Rename(w) ==
    /\ puts[w].step = "synced"
    /\ puts[w].data \notin objects
    /\ objects' = objects \cup {puts[w].data}
    /\ puts' = [puts EXCEPT ![w].step = "renamed"]
    /\ UNCHANGED <<source, mu, durable, acked, cut, leaked, edits, faults>>

SyncDirTree(w) ==
    /\ puts[w].step = "renamed"
    /\ durable' = durable \cup {puts[w].data}
    /\ acked' = acked \cup {puts[w].data}
    /\ cut' = cut \ {puts[w].data}
    /\ Returns(w)
    /\ UNCHANGED <<source, objects, leaked, edits, faults>>

(***************************************************************************)
(* Errors, process deaths and power losses.                                *)
(***************************************************************************)
Fault ==
    /\ faults < MaxFaults
    /\ faults' = faults + 1

\* Names of the writers ws that are not synced yet.
Unsynced(ws) == {puts[w].data : w \in {v \in ws : puts[v].step = "renamed"}}

\* Any call can fail; the temporary file is removed.  A changed source fails
\* without a fault.
Fail(w) ==
    /\ puts[w].step # "idle"
    /\ \/ /\ puts[w].step = "copied" /\ puts[w].fromFile /\ source.time # puts[w].time
          /\ UNCHANGED faults
       \/ Fault
    /\ Returns(w)
    /\ cut' = cut \cup Unsynced({w})
    /\ UNCHANGED <<source, objects, durable, acked, leaked, edits>>

Stopped == [w \in Writers |-> [puts[w] EXCEPT !.step = "idle"]]

Kill ==
    /\ Fault
    /\ mu' = Nobody
    /\ puts' = Stopped
    /\ cut' = cut \cup Unsynced(Writers)
    /\ leaked' = leaked + Temps
    /\ UNCHANGED <<source, objects, durable, acked, edits>>

\* Names that were not synced may or may not be there afterwards.
PowerLoss ==
    /\ Fault
    /\ mu' = Nobody
    /\ puts' = Stopped
    /\ \E kept \in SUBSET (objects \ durable) : objects' = durable \cup kept
    /\ durable' = objects'
    /\ cut' = (cut \cup Unsynced(Writers)) \ durable'
    /\ leaked' \in {leaked, leaked + Temps}
    /\ UNCHANGED <<source, acked, edits>>

Next ==
    \/ \E h \in {1, 2}, value \in Halves : Edit(h, value)
    \/ \E w \in Writers :
          \/ OpenSource(w) \/ ReadFirstHalf(w) \/ ReadSecondHalf(w)
          \/ \E data \in Content : PutBytes(w, data)
          \/ Sync(w) \/ Deduplicate(w) \/ Rename(w) \/ SyncDirTree(w)
          \/ Fail(w)
    \/ Kill
    \/ PowerLoss

Spec == Init /\ [][Next]_vars

-----------------------------------------------------------------------------
(***************************************************************************)
(* Properties.                                                             *)
(***************************************************************************)
\* Types; what survives a power loss is there, and whoever works holds the mutex.
TypeOK ==
    /\ source \in [data : Content, time : 0 .. MaxEdits]
    /\ mu \in Writers \cup {Nobody}
    /\ puts \in [Writers -> Put]
    /\ objects \subseteq Content
    /\ durable \subseteq objects
    /\ acked \subseteq Content
    /\ cut \subseteq Content \ durable
    /\ leaked \in 0 .. MaxFaults
    /\ edits \in 0 .. MaxEdits
    /\ faults \in 0 .. MaxFaults
    /\ \A w \in Writers : puts[w].step # "idle" <=> mu = w

\* prepareWriteLocked: writers cannot each pass the reserve check and together
\* consume the protected space, also after crashes that leak temporary files.
ReserveIsKept == Free >= Reserve

\* A file that is being written while it is read is never archived as a mix of
\* two states: what gets a name is what the file was at the first Stat.
ReadsAreSnapshots ==
    \A w \in Writers : puts[w].step \in {"synced", "renamed"} => puts[w].data = puts[w].was

\* A blob a caller was told is archived, and whose revision the database has
\* recorded, survives a power loss.
AcknowledgedIsDurable == acked \subseteq durable

\* What a power loss can take of it are only names whose put failed or died between
\* the rename and the directory sync and that no later put has synced, however the
\* puts, the deduplications of such names and the failures follow one another
\* (archive.go:189-205).
OnlyCutNamesAreLost == acked \subseteq durable \cup cut
=============================================================================
