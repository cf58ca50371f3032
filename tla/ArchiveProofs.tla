------------------------------ MODULE ArchiveProofs ------------------------------
(***************************************************************************)
(* The archive's promises for any number of writers, any disk and any      *)
(* number of edits and faults: one writer works at a time, no torn read    *)
(* gets a name, the reserve is kept, and of what was acknowledged a power  *)
(* loss can take only names that a put left unsynced.                      *)
(***************************************************************************)
EXTENDS Archive, TLAPS, FiniteSetTheorems

(***************************************************************************)
(* Types and the mutex.                                                    *)
(***************************************************************************)
\* Every variable has its type, whoever works holds the mutex, and what is named
\* is there.
Mutex ==
    /\ source \in [data : Content, time : Nat]
    /\ mu \in Writers \cup {Nobody}
    /\ puts \in [Writers -> Put]
    /\ objects \subseteq Content
    /\ durable \subseteq objects
    /\ acked \subseteq Content
    /\ cut \subseteq Content \ durable
    /\ leaked \in Nat
    /\ \A w \in Writers : /\ puts[w].step # "idle" <=> mu = w
                          /\ puts[w].step = "renamed" => puts[w].data \in objects \ durable

\* What a put in progress has read is the file at its first Stat, as long as the
\* file still has that modification time.
Reading ==
    \A w \in Writers :
        LET p == puts[w] IN
        /\ p.time <= source.time
        /\ p.step \in {"opened", "half", "copied"} /\ p.fromFile /\ source.time = p.time
              => p.data = source.data /\ p.was = source.data
        /\ p.step \in {"opened", "half"} => p.fromFile
        /\ p.step = "copied" /\ ~p.fromFile => p.data = p.was
        /\ p.step \in {"synced", "renamed"} => p.data = p.was

LEMMA TempsAreFew ==
    ASSUME Mutex
    PROVE  /\ Temps \in {0, 1}
           /\ mu = Nobody => Temps = 0
           /\ (\A w \in Writers : ~HasTemp(w)) => Temps = 0
<1> DEFINE Having == {w \in Writers : HasTemp(w)}
<1>1. Having \subseteq {mu}
  BY DEF Mutex, HasTemp
<1>2. Having = {} \/ Having = {mu}
  BY <1>1
<1>3. Cardinality({}) = 0 /\ Cardinality({mu}) = 1
  BY FS_EmptySet, FS_Singleton
<1>4. mu = Nobody => Having = {}
  BY <1>1, WriterAssumption
<1>5. (\A w \in Writers : ~HasTemp(w)) => Having = {}
  OBVIOUS
<1>6. Temps = Cardinality(Having)
  BY DEF Temps
<1> HIDE DEF Having
<1> QED
  BY <1>2, <1>3, <1>4, <1>5, <1>6

LEMMA UnsyncedTypes ==
    ASSUME Mutex, NEW ws \in SUBSET Writers
    PROVE  Unsynced(ws) \subseteq Content \ durable
BY DEF Unsynced, Mutex, Put

\* Only Kill and PowerLoss change more than one put, and they stop them all.
LEMMA MutexStep ==
    ASSUME Mutex, [Next]_vars
    PROVE  Mutex'
<1> USE DEF Mutex
<1>1. ASSUME NEW h \in {1, 2}, NEW value \in Halves, Edit(h, value)
      PROVE  Mutex'
  <2>1. [source.data EXCEPT ![h] = value] \in Content
    BY DEF Content
  <2> QED
    BY <1>1, <2>1 DEF Edit
<1>2. ASSUME NEW w \in Writers, OpenSource(w)
      PROVE  Mutex'
  BY <1>2, WriterAssumption DEF OpenSource, MayWrite, Put
<1>3. ASSUME NEW w \in Writers, ReadFirstHalf(w)
      PROVE  Mutex'
  <2>1. puts[w] \in Put /\ source.data[1] \in Halves
    BY DEF Content
  <2>2. [puts[w].data EXCEPT ![1] = source.data[1]] \in Content
    BY <2>1 DEF Content, Put
  <2> QED
    BY <1>3, <2>1, <2>2 DEF ReadFirstHalf, Put
<1>4. ASSUME NEW w \in Writers, ReadSecondHalf(w)
      PROVE  Mutex'
  <2>1. puts[w] \in Put /\ source.data[2] \in Halves
    BY DEF Content
  <2>2. [puts[w].data EXCEPT ![2] = source.data[2]] \in Content
    BY <2>1 DEF Content, Put
  <2> QED
    BY <1>4, <2>1, <2>2 DEF ReadSecondHalf, Put
<1>5. ASSUME NEW w \in Writers, NEW data \in Content, PutBytes(w, data)
      PROVE  Mutex'
  BY <1>5, WriterAssumption DEF PutBytes, MayWrite, Put
<1>6. ASSUME NEW w \in Writers, Sync(w)
      PROVE  Mutex'
  BY <1>6 DEF Sync, Put
<1>7. ASSUME NEW w \in Writers, Deduplicate(w)
      PROVE  Mutex'
  BY <1>7, WriterAssumption DEF Deduplicate, Returns, Put
<1>8. ASSUME NEW w \in Writers, Rename(w)
      PROVE  Mutex'
  BY <1>8 DEF Rename, Put
<1>9. ASSUME NEW w \in Writers, SyncDirTree(w)
      PROVE  Mutex'
  BY <1>9, WriterAssumption DEF SyncDirTree, Returns, Put
<1>10. ASSUME NEW w \in Writers, Fail(w)
       PROVE  Mutex'
  <2>1. cut' \subseteq Content \ durable
    BY <1>10, UnsyncedTypes DEF Fail
  <2> QED
    BY <1>10, <2>1, WriterAssumption DEF Fail, Returns, Put
<1>11. CASE Kill
  <2>1. leaked' \in Nat
    BY <1>11, TempsAreFew DEF Kill
  <2>2. cut' \subseteq Content \ durable
    BY <1>11, UnsyncedTypes DEF Kill
  <2> QED
    BY <1>11, <2>1, <2>2, WriterAssumption DEF Kill, Stopped, Put
<1>12. CASE PowerLoss
  <2>1. leaked' \in Nat
    BY <1>12, TempsAreFew DEF PowerLoss
  <2>2. objects' \subseteq Content /\ durable' \subseteq objects'
    BY <1>12 DEF PowerLoss
  <2>3. UNCHANGED <<source, acked>> /\ mu' = Nobody /\ puts' = Stopped
    BY <1>12 DEF PowerLoss
  <2>4. cut' \subseteq Content \ durable'
    BY <1>12, UnsyncedTypes DEF PowerLoss
  <2> QED
    BY <2>1, <2>2, <2>3, <2>4, WriterAssumption DEF Stopped, Put
<1>13. CASE UNCHANGED vars
  BY <1>13 DEF vars
<1> QED
  BY <1>1, <1>2, <1>3, <1>4, <1>5, <1>6, <1>7, <1>8, <1>9, <1>10, <1>11, <1>12, <1>13 DEF Next

LEMMA MutexHolds == Spec => []Mutex
<1>1. Init => Mutex
  BY WriterAssumption DEF Init, Mutex, Put
<1> QED
  BY <1>1, MutexStep, PTL DEF Spec

\* No process leaves more than one temporary file behind, and none without a
\* fault.
Counts ==
    /\ edits \in 0 .. MaxEdits
    /\ faults \in 0 .. MaxFaults
    /\ source.time = edits
    /\ leaked <= faults

LEMMA CountsStep ==
    ASSUME Mutex, Counts, [Next]_vars
    PROVE  Counts'
<1>1. edits \in Nat /\ faults \in Nat /\ leaked \in Nat
  BY ArchiveBoundsAssumption DEF Mutex, Counts
<1>2. ASSUME NEW h \in {1, 2}, NEW value \in Halves, Edit(h, value)
      PROVE  Counts'
  BY <1>1, <1>2, ArchiveBoundsAssumption DEF Edit, Counts
<1>3. ASSUME NEW w \in Writers,
             \/ OpenSource(w) \/ ReadFirstHalf(w) \/ ReadSecondHalf(w)
             \/ \E data \in Content : PutBytes(w, data)
             \/ Sync(w) \/ Deduplicate(w) \/ Rename(w) \/ SyncDirTree(w)
      PROVE  Counts'
  BY <1>3 DEF OpenSource, ReadFirstHalf, ReadSecondHalf, PutBytes, Sync, Deduplicate, Rename,
              SyncDirTree, Counts
<1>4. ASSUME NEW w \in Writers, Fail(w)
      PROVE  Counts'
  BY <1>1, <1>4, ArchiveBoundsAssumption DEF Fail, Fault, Counts
<1>5. CASE Kill \/ PowerLoss
  <2>1. leaked' \in {leaked, leaked + Temps} /\ faults' = faults + 1 /\ faults < MaxFaults
    BY <1>5 DEF Kill, PowerLoss, Fault
  <2>2. leaked' <= faults'
    BY <1>1, <2>1, TempsAreFew DEF Counts
  <2>3. UNCHANGED <<edits, source>>
    BY <1>5 DEF Kill, PowerLoss
  <2> QED
    BY <1>1, <2>1, <2>2, <2>3, ArchiveBoundsAssumption DEF Counts
<1>6. CASE UNCHANGED vars
  BY <1>6 DEF vars, Counts
<1> QED
  BY <1>2, <1>3, <1>4, <1>5, <1>6 DEF Next

\* One writer works at a time, what would survive a power loss is there, and the
\* temporary files that pile up are no more than the faults.
THEOREM ArchiveTypes == Spec => []TypeOK
<1>1. Init => Counts
  BY ArchiveBoundsAssumption DEF Init, Counts
<1>2. Mutex /\ Counts /\ [Next]_vars => Counts'
  BY CountsStep
<1>3. Mutex /\ Counts => TypeOK
  BY ArchiveBoundsAssumption DEF Mutex, Counts, TypeOK
<1> QED
  BY <1>1, <1>2, <1>3, MutexHolds, PTL DEF Spec

(***************************************************************************)
(* Reads.                                                                  *)
(***************************************************************************)
LEMMA ReadingStep ==
    ASSUME Mutex, Reading, [Next]_vars
    PROVE  Reading'
<1> USE DEF Reading
<1>1. /\ source.time \in Nat /\ source.data \in Content
      /\ \A w \in Writers : puts[w] \in Put
  BY DEF Mutex
<1>2. ASSUME NEW h \in {1, 2}, NEW value \in Halves, Edit(h, value)
      PROVE  Reading'
  BY <1>1, <1>2 DEF Edit, Put
<1>3. ASSUME NEW w \in Writers, OpenSource(w)
      PROVE  Reading'
  BY <1>1, <1>3 DEF OpenSource, Mutex
<1>4. ASSUME NEW w \in Writers, ReadFirstHalf(w)
      PROVE  Reading'
  <2>1. puts[w].data = source.data
        => [puts[w].data EXCEPT ![1] = source.data[1]] = source.data
    BY <1>1 DEF Content
  <2> QED
    BY <1>1, <1>4, <2>1 DEF ReadFirstHalf, Mutex, Put
<1>5. ASSUME NEW w \in Writers, ReadSecondHalf(w)
      PROVE  Reading'
  <2>1. puts[w].data = source.data
        => [puts[w].data EXCEPT ![2] = source.data[2]] = source.data
    BY <1>1 DEF Content
  <2> QED
    BY <1>1, <1>5, <2>1 DEF ReadSecondHalf, Mutex, Put
<1>6. ASSUME NEW w \in Writers, NEW data \in Content, PutBytes(w, data)
      PROVE  Reading'
  BY <1>1, <1>6 DEF PutBytes, Mutex
<1>7. ASSUME NEW w \in Writers, Sync(w)
      PROVE  Reading'
  BY <1>1, <1>7 DEF Sync, Mutex, Put
<1>8. ASSUME NEW w \in Writers,
             \/ Deduplicate(w) \/ Rename(w) \/ SyncDirTree(w) \/ Fail(w)
      PROVE  Reading'
  <2>1. /\ UNCHANGED source
        /\ \/ puts' = [puts EXCEPT ![w].step = "idle"]
           \/ puts[w].step = "synced" /\ puts' = [puts EXCEPT ![w].step = "renamed"]
    BY <1>8 DEF Deduplicate, Rename, SyncDirTree, Fail, Returns
  <2> QED
    BY <1>1, <2>1 DEF Mutex, Put
<1>9. CASE Kill \/ PowerLoss
  BY <1>9 DEF Kill, PowerLoss, Stopped, Mutex, Put
<1>10. CASE UNCHANGED vars
  BY <1>10 DEF vars
<1> QED
  BY <1>2, <1>3, <1>4, <1>5, <1>6, <1>7, <1>8, <1>9, <1>10 DEF Next

\* A torn read never gets a name, however the reads and the edits of the file
\* interleave and however many writers, edits and faults there are.
THEOREM NoTornReads == Spec => []ReadsAreSnapshots
<1>1. Init => Reading
  BY DEF Init, Reading
<1>2. Mutex /\ Reading => ReadsAreSnapshots
  BY DEF Reading, ReadsAreSnapshots
<1> QED
  BY <1>1, <1>2, MutexHolds, ReadingStep, PTL DEF Spec

(***************************************************************************)
(* The reserve.                                                            *)
(***************************************************************************)
\* A put that is not renamed yet will need a place of its own.
Coming == IF \E w \in Writers : puts[w].step \notin {"idle", "renamed"} THEN 1 ELSE 0

Committed == Cardinality(objects) + leaked + Coming

\* The reserve is kept also when what has begun is finished.
Space == IsFiniteSet(objects) /\ Disk - Size * Committed >= Reserve

LEMMA SizeIsMonotone ==
    ASSUME NEW a \in Nat, NEW b \in Nat, a <= b
    PROVE  Size * a <= Size * b /\ Size * a \in Nat /\ Size * b \in Nat
<1>1. Size \in Nat
  BY SpaceAssumption
<1> QED
  BY <1>1

LEMMA CommittedIsNat ==
    ASSUME Mutex, IsFiniteSet(objects)
    PROVE  Cardinality(objects) \in Nat /\ leaked \in Nat /\ Committed \in Nat
BY FS_CardinalityType DEF Mutex, Committed, Coming

\* A put that is in progress holds the mutex, so it is the only one.
LEMMA ComingAndTemps ==
    ASSUME Mutex
    PROVE  /\ mu = Nobody => Coming = 0
           /\ Temps <= Coming
<1>1. mu = Nobody => Coming = 0
  BY WriterAssumption DEF Mutex, Coming
<1>2. ASSUME NEW w \in Writers, HasTemp(w)
      PROVE  Temps <= Coming
  <2>1. Coming = 1
    BY <1>2 DEF Coming, HasTemp
  <2> QED
    BY <2>1, TempsAreFew
<1>3. ASSUME \A w \in Writers : ~HasTemp(w)
      PROVE  Temps <= Coming
  BY <1>3, TempsAreFew DEF Coming
<1> QED
  BY <1>1, <1>2, <1>3

\* A step that commits no more space keeps what is committed within the limit.
LEMMA SpaceIsKept ==
    ASSUME Mutex, Mutex', Space, IsFiniteSet(objects'), Committed' <= Committed
    PROVE  Space'
<1>1. Committed \in Nat /\ (Committed \in Nat)'
  <2>1. (Cardinality(objects) \in Nat)'
    BY FS_CardinalityType
  <2> QED
    BY <2>1, CommittedIsNat DEF Space, Mutex, Committed, Coming
<1>2. Size * Committed' <= Size * Committed /\ Size * Committed' \in Nat
      /\ Size * Committed \in Nat
  BY <1>1, SizeIsMonotone
<1> QED
  BY <1>2, SpaceAssumption DEF Space

LEMMA SpaceStep ==
    ASSUME Mutex, Space, [Next]_vars
    PROVE  Space'
<1>1. Mutex'
  BY MutexStep
<1>2. Cardinality(objects) \in Nat /\ leaked \in Nat /\ Committed \in Nat
  BY CommittedIsNat DEF Space
<1>3. Coming \in {0, 1} /\ Coming' \in {0, 1}
  BY DEF Coming
<1>4. ASSUME NEW w \in Writers, MayWrite(w), UNCHANGED <<objects, leaked>>
      PROVE  Space'
  <2>1. Committed = Cardinality(objects) + leaked
    BY <1>2, <1>4, ComingAndTemps DEF MayWrite, Committed
  <2>2. Temps = 0
    BY <1>4, TempsAreFew DEF MayWrite
  <2>3. Disk - Size * Committed - Reserve >= Size
    <3>1. Cardinality(objects) + Temps + leaked = Committed
      BY <1>2, <2>1, <2>2
    <3>2. Size * Committed \in Nat
      BY <1>2, SizeIsMonotone
    <3> QED
      BY <1>4, <3>1, <3>2, SpaceAssumption DEF MayWrite, ReserveAllows, Free
  <2>4. Committed' \in Nat /\ Committed' <= Committed + 1
    BY <1>2, <1>3, <1>4, <2>1 DEF Committed
  <2>5. Size * Committed' <= Size * (Committed + 1) /\ Size * Committed' \in Nat
    BY <1>2, <2>4, SizeIsMonotone
  <2>6. Size * (Committed + 1) = Size * Committed + Size /\ Size * Committed \in Nat
    BY <1>2, SizeIsMonotone, SpaceAssumption
  <2>7. IsFiniteSet(objects')
    BY <1>4 DEF Space
  <2> QED
    BY <2>3, <2>5, <2>6, <2>7, SpaceAssumption DEF Space
<1>5. ASSUME UNCHANGED <<objects, leaked>>, Coming' <= Coming
      PROVE  Space'
  <2>1. Committed' <= Committed
    BY <1>2, <1>3, <1>5 DEF Committed
  <2> QED
    BY <1>1, <1>5, <2>1, SpaceIsKept DEF Space
<1>6. ASSUME NEW w \in Writers, Rename(w)
      PROVE  Space'
  <2>1. /\ IsFiniteSet(objects')
        /\ Cardinality(objects') = Cardinality(objects) + 1
    BY <1>6, FS_AddElement DEF Rename, Space
  <2>2. mu = w /\ Coming = 1
    BY <1>6 DEF Rename, Mutex, Coming
  <2>3. Coming' = 0
    BY <1>1, <1>6, <2>2 DEF Rename, Mutex, Coming
  <2>4. Committed' <= Committed
    BY <1>2, <1>6, <2>1, <2>2, <2>3 DEF Rename, Committed
  <2> QED
    BY <1>1, <2>1, <2>4, SpaceIsKept
<1>7. ASSUME mu' = Nobody, objects' \subseteq objects, leaked' <= leaked + Temps
      PROVE  Space'
  <2>1. IsFiniteSet(objects') /\ Cardinality(objects') <= Cardinality(objects)
    BY <1>7, FS_Subset DEF Space
  <2>2. Cardinality(objects') \in Nat
    BY <2>1, FS_CardinalityType
  <2>3. (mu = Nobody => Coming = 0)'
    BY <1>1, WriterAssumption DEF Mutex, Coming
  <2>4. leaked' \in Nat /\ Temps \in {0, 1} /\ Temps <= Coming
    BY <1>1, TempsAreFew, ComingAndTemps DEF Mutex
  <2>5. Committed' <= Committed
    BY <1>2, <1>3, <1>7, <2>1, <2>2, <2>3, <2>4 DEF Committed
  <2> QED
    BY <1>1, <2>1, <2>5, SpaceIsKept
<1>8. ASSUME NEW w \in Writers, OpenSource(w) \/ \E data \in Content : PutBytes(w, data)
      PROVE  Space'
  BY <1>4, <1>8 DEF OpenSource, PutBytes
<1>9. ASSUME NEW w \in Writers, ReadFirstHalf(w) \/ ReadSecondHalf(w) \/ Sync(w)
      PROVE  Space'
  <2>1. UNCHANGED <<objects, leaked>> /\ Coming = 1
    BY <1>9 DEF ReadFirstHalf, ReadSecondHalf, Sync, Coming
  <2> QED
    BY <1>3, <1>5, <2>1
<1>10. ASSUME NEW w \in Writers, Deduplicate(w) \/ SyncDirTree(w) \/ Fail(w)
       PROVE  Space'
  <2>1. mu' = Nobody /\ UNCHANGED <<objects, leaked>>
    BY <1>10 DEF Deduplicate, SyncDirTree, Fail, Returns
  <2>2. leaked' <= leaked + Temps
    BY <1>2, <2>1, TempsAreFew
  <2> QED
    BY <1>7, <2>1, <2>2
<1>11. CASE Kill
  <2>1. mu' = Nobody /\ objects' = objects /\ leaked' = leaked + Temps
    BY <1>11 DEF Kill
  <2> QED
    BY <1>2, <1>7, <2>1, TempsAreFew
<1>12. CASE PowerLoss
  <2>1. mu' = Nobody /\ objects' \subseteq objects /\ leaked' <= leaked + Temps
    BY <1>2, <1>12, TempsAreFew DEF PowerLoss, Mutex
  <2> QED
    BY <1>7, <2>1
<1>13. ASSUME NEW h \in {1, 2}, NEW value \in Halves, Edit(h, value)
       PROVE  Space'
  <2>1. UNCHANGED <<objects, leaked>> /\ Coming' = Coming
    BY <1>13 DEF Edit, Coming
  <2> QED
    BY <1>3, <1>5, <2>1
<1>14. CASE UNCHANGED vars
  <2>1. UNCHANGED <<objects, leaked>> /\ Coming' = Coming
    BY <1>14 DEF vars, Coming
  <2> QED
    BY <1>3, <1>5, <2>1
<1> QED
  BY <1>6, <1>8, <1>9, <1>10, <1>11, <1>12, <1>13, <1>14 DEF Next

\* Writers that archive at the same time, and processes that die and leave their
\* temporary files, never take the space the archive must leave free.
THEOREM ReserveHolds == Spec => []ReserveIsKept
<1>1. Init => Space
  <2> SUFFICES ASSUME Init PROVE Space
    OBVIOUS
  <2>1. Committed = 0 /\ IsFiniteSet(objects)
    BY FS_EmptySet DEF Init, Committed, Coming
  <2> QED
    BY <2>1, SpaceAssumption DEF Space
<1>2. Mutex /\ Space => ReserveIsKept
  <2> SUFFICES ASSUME Mutex, Space PROVE ReserveIsKept
    OBVIOUS
  <2> DEFINE used == Cardinality(objects) + Temps + leaked
  <2>1. used \in Nat /\ Committed \in Nat /\ used <= Committed
    BY CommittedIsNat, TempsAreFew, ComingAndTemps DEF Space, Committed, Coming
  <2>2. Size * used <= Size * Committed /\ Size * used \in Nat /\ Size * Committed \in Nat
    BY <2>1, SizeIsMonotone
  <2>3. Free = Disk - Size * used
    BY DEF Free
  <2> HIDE DEF used
  <2> QED
    BY <2>2, <2>3, SpaceAssumption DEF Space, ReserveIsKept
<1> QED
  BY <1>1, <1>2, MutexHolds, SpaceStep, PTL DEF Spec

(***************************************************************************)
(* Durability.                                                             *)
(***************************************************************************)
\* The names a power loss could take are those of puts that are still to sync them
\* or were cut off before.
Durability ==
    /\ objects \subseteq durable \cup cut \cup Unsynced(Writers)
    /\ acked \subseteq durable \cup cut

\* One writer works at a time, so there is at most one such put.
LEMMA UnsyncedIsOfWriter ==
    ASSUME Mutex, NEW w \in Writers, mu = w
    PROVE  Unsynced(Writers) = IF puts[w].step = "renamed" THEN {puts[w].data} ELSE {}
<1>1. \A v \in Writers : puts[v].step = "renamed" => v = w
  BY DEF Mutex
<1> QED
  BY <1>1 DEF Unsynced

LEMMA DurabilityStep ==
    ASSUME Mutex, Durability, [Next]_vars
    PROVE  Durability'
<1> USE DEF Durability
<1>1. Mutex'
  BY MutexStep
<1>2. ASSUME UNCHANGED <<objects, durable, acked, cut>>, Unsynced(Writers) = {}
      PROVE  Durability'
  BY <1>2
<1>3. ASSUME NEW w \in Writers,
             \/ OpenSource(w) \/ ReadFirstHalf(w) \/ ReadSecondHalf(w) \/ Sync(w)
             \/ \E data \in Content : PutBytes(w, data)
      PROVE  Durability'
  <2>1. \A v \in Writers : puts[v].step # "renamed"
    BY <1>3, WriterAssumption DEF OpenSource, ReadFirstHalf, ReadSecondHalf, Sync, PutBytes, MayWrite, Mutex
  <2>2. Unsynced(Writers) = {}
    BY <2>1 DEF Unsynced
  <2> QED
    BY <1>2, <1>3, <2>2 DEF OpenSource, ReadFirstHalf, ReadSecondHalf, Sync, PutBytes
<1>4. ASSUME NEW w \in Writers, Fail(w)
      PROVE  Durability'
  <2>1. mu = w
    BY <1>4 DEF Fail, Mutex
  <2>2. Unsynced({w}) = Unsynced(Writers)
    BY <2>1, UnsyncedIsOfWriter DEF Unsynced
  <2> QED
    BY <1>4, <2>2 DEF Fail
<1>5. ASSUME NEW w \in Writers, Deduplicate(w)
      PROVE  Durability'
  <2>1. mu = w /\ Unsynced(Writers) = {}
    <3>1. mu = w
      BY <1>5 DEF Deduplicate, Mutex
    <3> QED
      BY <1>5, <3>1, UnsyncedIsOfWriter DEF Deduplicate
  <2> QED
    BY <1>5, <2>1 DEF Deduplicate
<1>6. ASSUME NEW w \in Writers, Rename(w)
      PROVE  Durability'
  <2>1. mu = w /\ mu' = w
    BY <1>6 DEF Rename, Mutex
  <2>2. Unsynced(Writers) = {}
    BY <1>6, <2>1, UnsyncedIsOfWriter DEF Rename
  <2>3. puts'[w].step = "renamed" /\ puts'[w].data = puts[w].data
    BY <1>6 DEF Rename, Mutex, Put
  <2>4. puts[w].data \in Unsynced(Writers)'
    BY <2>3 DEF Unsynced
  <2> QED
    BY <1>6, <2>2, <2>4 DEF Rename
<1>7. ASSUME NEW w \in Writers, SyncDirTree(w)
      PROVE  Durability'
  <2>1. Unsynced(Writers) = {puts[w].data}
    BY <1>7, UnsyncedIsOfWriter DEF SyncDirTree, Mutex
  <2> QED
    BY <1>7, <2>1 DEF SyncDirTree
<1>8. CASE Kill
  BY <1>8 DEF Kill
<1>9. CASE PowerLoss
  BY <1>9 DEF PowerLoss, Mutex
<1>10. ASSUME NEW h \in {1, 2}, NEW value \in Halves, Edit(h, value)
       PROVE  Durability'
  BY <1>10 DEF Edit, Unsynced
<1>11. CASE UNCHANGED vars
  BY <1>11 DEF vars, Unsynced
<1> QED
  BY <1>3, <1>4, <1>5, <1>6, <1>7, <1>8, <1>9, <1>10, <1>11 DEF Next

\* Whenever a put fails, dies or loses power, also between its rename and its
\* directory sync: what a caller was told is archived survives, but for names that
\* such a put left behind and nothing has synced since.
THEOREM OnlyCutNames == Spec => []OnlyCutNamesAreLost
<1>1. Init => Durability
  BY DEF Init, Durability
<1>2. Mutex /\ Durability /\ [Next]_vars => Durability'
  BY DurabilityStep
<1>3. Durability => OnlyCutNamesAreLost
  BY DEF Durability, OnlyCutNamesAreLost
<1> QED
  BY <1>1, <1>2, <1>3, MutexHolds, PTL DEF Spec
=============================================================================
