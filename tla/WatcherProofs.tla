----------------------------- MODULE WatcherProofs -----------------------------
(***************************************************************************)
(* Theorems of Watcher for any number of saves, timers, changes and faults.*)
(*                                                                         *)
(* A step does one of a few things to the timers: it leaves them alone,    *)
(* schedules a path, moves one of them on, ends one, or stops them all.    *)
(* The invariant says which timers an entry may name: without it, to stop  *)
(* the entry of one path could stop the only timer of another.             *)
(***************************************************************************)
EXTENDS Watcher, SequenceTheorems, TLAPS

Event == [id : Nat, path : Paths, deleted : BOOLEAN]

TimerRecord == [id : 1 .. MaxTimers,
                path : Paths,
                step : {"armed", "fired", "capturing", "read"},
                got : 0 .. MaxChanges]

Pass == [step : {"idle", "due", "walk"}, todo : SUBSET Paths, seen : SUBSET Paths]

FilesInv ==
    /\ disk \in [Paths -> 0 .. MaxChanges]
    /\ recorded \in [Paths -> 0 .. MaxChanges]
    /\ changes \in 0 .. MaxChanges
    /\ feed \in Seq(Event)
    /\ batch \in Seq(Event)
    /\ cursor \in Nat
    /\ saved \in Nat
    /\ pass \in Pass

TimersInv ==
    /\ phase \in {"down", "up", "stopping", "closing"}
    /\ closed \in BOOLEAN
    /\ timers \subseteq TimerRecord
    /\ entry \in [Paths -> 0 .. MaxTimers]
    /\ owed \in [Paths -> BOOLEAN]
    /\ \A t, u \in timers : t.id = u.id => t = u
    /\ \A p \in Paths : entry[p] # NoTimer =>
          \E t \in timers : t.id = entry[p] /\ t.path = p /\ t.step \in {"armed", "fired"}
    /\ phase = "down" => timers = {} /\ \A p \in Paths : ~owed[p]

WatcherInv == FilesInv /\ TimersInv /\ ScheduledIsRead

-----------------------------------------------------------------------------
LEMMA WatcherInit == Init => WatcherInv
<1> SUFFICES ASSUME Init PROVE WatcherInv
  OBVIOUS
<1>1. FilesInv
  BY BoundAssumption DEF Init, FilesInv, NoPass, Pass, Absent
<1>2. owed \in [Paths -> BOOLEAN] /\ \A p \in Paths : ~owed[p]
  BY DEF Init
<1>3. entry \in [Paths -> 0 .. MaxTimers]
  BY BoundAssumption DEF Init, NoTimer
<1> QED
  BY <1>1, <1>2, <1>3 DEF Init, WatcherInv, TimersInv, ScheduledIsRead

\* A timer for a path, instead of the one its entry names if that can be stopped.
LEMMA ScheduleTimers ==
    ASSUME WatcherInv, NEW p \in Paths, Schedule(p), UNCHANGED <<phase, closed>>,
           phase # "down"
    PROVE  TimersInv' /\ ScheduledIsRead'
<1> USE DEF WatcherInv
<1>1. CASE closed
  BY <1>1 DEF Schedule, TimersInv, ScheduledIsRead
<1>2. CASE ~closed
  <2> DEFINE id == CHOOSE i \in FreeIds : TRUE
             left == timers \ (IF entry[p] = NoTimer THEN {} ELSE Stopped({entry[p]}))
  <2>1. /\ FreeIds # {}
        /\ timers' = left \cup {Timer(id, p)}
        /\ entry' = [entry EXCEPT ![p] = id]
        /\ owed' = [owed EXCEPT ![p] = TRUE]
    BY <1>2 DEF Schedule
  <2>2. id \in 1 .. MaxTimers /\ \A t \in timers : t.id # id
    BY <2>1 DEF FreeIds
  <2>3. left \subseteq timers
    OBVIOUS
  <2>4. \A t \in timers : t.path # p => t \in left
    BY DEF Stopped, TimersInv
  <2> HIDE DEF id, left
  <2>5. /\ Timer(id, p) \in TimerRecord
        /\ Timer(id, p).id = id /\ Timer(id, p).path = p /\ Timer(id, p).step = "armed"
    BY <2>2, BoundAssumption DEF Timer, TimerRecord, Absent
  <2>6. TimersInv'
    <3>1. timers' \subseteq TimerRecord /\ \A t, u \in timers' : t.id = u.id => t = u
      BY <2>1, <2>2, <2>3, <2>5 DEF TimersInv
    <3>2. entry' \in [Paths -> 0 .. MaxTimers] /\ owed' \in [Paths -> BOOLEAN]
      BY <2>1, <2>2 DEF TimersInv
    <3>3. ASSUME NEW q \in Paths, entry'[q] # NoTimer
          PROVE  \E t \in timers' : /\ t.id = entry'[q]
                                    /\ t.path = q
                                    /\ t.step \in {"armed", "fired"}
      <4>1. CASE q = p
        BY <2>1, <2>5, <4>1 DEF TimersInv
      <4>2. CASE q # p
        BY <2>1, <2>4, <3>3, <4>2 DEF TimersInv
      <4> QED
        BY <4>1, <4>2
    <3> QED
      BY <3>1, <3>2, <3>3 DEF TimersInv
  <2>7. ASSUME NEW q \in Paths, owed'[q]
        PROVE  \E t \in timers' : t.path = q /\ t.step \in {"armed", "fired", "capturing"}
    <3>1. CASE q = p
      BY <2>1, <2>5, <3>1
    <3>2. CASE q # p
      <4>1. owed[q]
        BY <2>1, <2>7, <3>2 DEF TimersInv
      <4> QED
        BY <1>2, <2>1, <2>4, <3>2, <4>1 DEF ScheduledIsRead
    <3> QED
      BY <3>1, <3>2
  <2> QED
    BY <2>6, <2>7 DEF ScheduledIsRead
<1> QED
  BY <1>1, <1>2 DEF TimersInv

\* A timer goes on, and stays the one its entry names unless its entry is cleared.
LEMMA MoveTimers ==
    ASSUME WatcherInv, UNCHANGED <<phase, closed>>,
           NEW t \in timers, NEW u \in TimerRecord, Moves(t, u),
           u.id = t.id, u.path = t.path,
           \/ UNCHANGED entry /\ (t.step \in {"armed", "fired"} => u.step \in {"armed", "fired"})
           \/ entry' = [entry EXCEPT ![t.path] = NoTimer],
           \/ UNCHANGED owed /\ u.step \in {"armed", "fired", "capturing"}
           \/ owed' = [owed EXCEPT ![t.path] = FALSE]
    PROVE  TimersInv' /\ ScheduledIsRead'
<1> USE DEF WatcherInv
<1>1. timers' = (timers \ {t}) \cup {u} /\ t.path \in Paths
  BY DEF Moves, TimersInv, TimerRecord
<1>2. timers' \subseteq TimerRecord /\ \A v, w \in timers' : v.id = w.id => v = w
  BY <1>1 DEF TimersInv
<1>3. entry' \in [Paths -> 0 .. MaxTimers] /\ owed' \in [Paths -> BOOLEAN]
  <2>1. entry' \in [Paths -> 0 .. MaxTimers]
    BY BoundAssumption DEF TimersInv, NoTimer
  <2>2. owed' \in [Paths -> BOOLEAN]
    BY Zenon DEF TimersInv
  <2> QED
    BY <2>1, <2>2
<1>4. ASSUME NEW q \in Paths, entry'[q] # NoTimer
      PROVE  \E v \in timers' : /\ v.id = entry'[q]
                                /\ v.path = q
                                /\ v.step \in {"armed", "fired"}
  <2>1. entry'[q] = entry[q]
    BY <1>4 DEF TimersInv
  <2>2. PICK v \in timers : v.id = entry[q] /\ v.path = q /\ v.step \in {"armed", "fired"}
    BY <1>4, <2>1 DEF TimersInv
  <2>3. CASE v = t
    BY <1>1, <1>4, <2>1, <2>2, <2>3 DEF TimersInv
  <2>4. CASE v # t
    BY <1>1, <2>1, <2>2, <2>4
  <2> QED
    BY <2>3, <2>4
<1>5. ASSUME NEW q \in Paths, owed'[q], ~closed
      PROVE  \E v \in timers' : v.path = q /\ v.step \in {"armed", "fired", "capturing"}
  <2>1. owed[q]
    BY <1>5 DEF TimersInv
  <2>2. PICK v \in timers : v.path = q /\ v.step \in {"armed", "fired", "capturing"}
    BY <1>5, <2>1 DEF ScheduledIsRead
  <2>3. CASE v = t
    BY <1>1, <1>5, <2>2, <2>3 DEF TimersInv
  <2>4. CASE v # t
    BY <1>1, <2>2, <2>4
  <2> QED
    BY <2>3, <2>4
<1>6. phase # "down"
  BY DEF TimersInv
<1> QED
  BY <1>2, <1>3, <1>4, <1>5, <1>6 DEF TimersInv, ScheduledIsRead

\* A function ends.
LEMMA EndTimer ==
    ASSUME WatcherInv, UNCHANGED <<phase, closed>>,
           NEW t \in timers, timers' = timers \ {t},
           \/ UNCHANGED entry /\ t.step \notin {"armed", "fired"}
           \/ entry' = [entry EXCEPT ![t.path] = NoTimer],
           \/ UNCHANGED owed /\ (t.step = "read" \/ closed)
           \/ owed' = [owed EXCEPT ![t.path] = FALSE]
    PROVE  TimersInv' /\ ScheduledIsRead'
<1> USE DEF WatcherInv
<1>1. t.path \in Paths /\ phase # "down"
  BY DEF TimersInv, TimerRecord
<1>2. timers' \subseteq TimerRecord /\ \A v, w \in timers' : v.id = w.id => v = w
  BY DEF TimersInv
<1>3. entry' \in [Paths -> 0 .. MaxTimers] /\ owed' \in [Paths -> BOOLEAN]
  <2>1. entry' \in [Paths -> 0 .. MaxTimers]
    BY BoundAssumption DEF TimersInv, NoTimer
  <2>2. owed' \in [Paths -> BOOLEAN]
    BY Zenon DEF TimersInv
  <2> QED
    BY <2>1, <2>2
<1>4. ASSUME NEW q \in Paths, entry'[q] # NoTimer
      PROVE  \E v \in timers' : /\ v.id = entry'[q]
                                /\ v.path = q
                                /\ v.step \in {"armed", "fired"}
  <2>1. entry'[q] = entry[q]
    BY <1>4 DEF TimersInv
  <2>2. PICK v \in timers : v.id = entry[q] /\ v.path = q /\ v.step \in {"armed", "fired"}
    BY <1>4, <2>1 DEF TimersInv
  <2>3. v # t
    BY <1>4, <2>2 DEF TimersInv
  <2> QED
    BY <2>1, <2>2, <2>3
<1>5. ASSUME NEW q \in Paths, owed'[q], ~closed
      PROVE  \E v \in timers' : v.path = q /\ v.step \in {"armed", "fired", "capturing"}
  <2>1. owed[q]
    BY <1>5 DEF TimersInv
  <2>2. PICK v \in timers : v.path = q /\ v.step \in {"armed", "fired", "capturing"}
    BY <1>5, <2>1 DEF ScheduledIsRead
  <2>3. v # t
    BY <1>5, <2>2 DEF TimersInv
  <2> QED
    BY <2>2, <2>3
<1> QED
  BY <1>1, <1>2, <1>3, <1>4, <1>5 DEF TimersInv, ScheduledIsRead

-----------------------------------------------------------------------------
LEMMA FilesStep ==
    ASSUME WatcherInv, [Next]_vars
    PROVE  FilesInv'
<1> USE DEF FilesInv
<1>0. FilesInv /\ timers \subseteq TimerRecord
  BY DEF WatcherInv, TimersInv
<1>1. ASSUME NEW p \in Paths, NEW deleted \in BOOLEAN, Change(p, deleted)
      PROVE  FilesInv'
  <2>1. /\ changes < MaxChanges
        /\ disk' = [disk EXCEPT ![p] = IF deleted THEN Absent ELSE changes + 1]
        /\ changes' = changes + 1
        /\ UNCHANGED <<memory, saved, recorded>>
    BY <1>1 DEF Change
  <2>2. disk' \in [Paths -> 0 .. MaxChanges] /\ changes' \in 0 .. MaxChanges
    BY <1>0, <2>1, BoundAssumption DEF Absent
  <2>3. feed' \in Seq(Event)
    <3>1. feed' = Append(feed, [id |-> Len(feed) + 1, path |-> p, deleted |-> deleted])
      BY <1>1 DEF Change
    <3>2. [id |-> Len(feed) + 1, path |-> p, deleted |-> deleted] \in Event
      BY <1>0 DEF Event
    <3> QED
      BY <1>0, <3>1, <3>2
  <2> QED
    BY <1>0, <2>1, <2>2, <2>3 DEF memory
<1>2. CASE RestartSyncthing
  BY <1>0, <1>2 DEF RestartSyncthing, Fault, memory
<1>3. CASE Fetch
  <2>1. batch' = SubSeq(feed, cursor + 1, Len(feed))
    BY <1>3 DEF Fetch
  <2>2. batch' \in Seq(Event)
    <3>1. /\ Len(feed) \in Nat
          /\ cursor + 1 \in 1 .. Len(feed) + 1
      BY <1>0, <1>3 DEF Fetch
    <3>2. \A i \in cursor + 1 .. Len(feed) : feed[i] \in Event
      BY <1>0, <3>1
    <3> QED
      BY <1>0, <2>1, <3>1, <3>2, SubSeqProperties
  <2> QED
    BY <1>0, <1>3, <2>2 DEF Fetch
<1>4. CASE HandleEvent
  <2> DEFINE event == Head(batch)
  <2>1. event \in Event /\ Tail(batch) \in Seq(Event)
    BY <1>0, <1>4 DEF HandleEvent
  <2>2. /\ batch' = Tail(batch)
        /\ cursor' = event.id
        /\ saved' = event.id \/ saved' = saved
        /\ recorded' = [recorded EXCEPT ![event.path] = Absent] \/ UNCHANGED recorded
        /\ UNCHANGED <<disk, feed, pass, changes>>
    BY <1>4 DEF HandleEvent
  <2> HIDE DEF event
  <2>3. recorded' \in [Paths -> 0 .. MaxChanges]
    <3>1. recorded \in [Paths -> 0 .. MaxChanges] /\ Absent \in 0 .. MaxChanges
      BY <1>0, BoundAssumption DEF Absent
    <3>2. CASE recorded' = [recorded EXCEPT ![event.path] = Absent]
      BY <3>1, <3>2
    <3>3. CASE recorded' = recorded
      BY <3>1, <3>3
    <3> QED
      BY <2>2, <3>2, <3>3
  <2>4. cursor' \in Nat /\ saved' \in Nat
    BY <1>0, <2>1, <2>2 DEF Event
  <2>5. batch' \in Seq(Event)
    BY <2>1, <2>2
  <2> QED
    BY <1>0, <2>2, <2>3, <2>4, <2>5
<1>5. ASSUME NEW p \in Paths, Fire(p) \/ Run(p) \/ Retry(p)
      PROVE  FilesInv'
  BY <1>0, <1>5 DEF Fire, Run, Retry
<1>6. ASSUME NEW p \in Paths, Walk(p)
      PROVE  FilesInv'
  <2>1. pass' \in Pass
    BY <1>0, <1>6 DEF Walk, Pass
  <2> QED
    BY <1>0, <1>6, <2>1 DEF Walk
<1>7. ASSUME NEW t \in timers, Read(t) \/ Record(t) \/ GiveUp(t)
      PROVE  FilesInv'
  BY <1>0, <1>7 DEF Read, Record, GiveUp, TimerRecord
<1>8. /\ NoPass \in Pass
      /\ [NoPass EXCEPT !.step = "due"] \in Pass
      /\ [step |-> "walk", todo |-> Paths, seen |-> {}] \in Pass
      /\ <<>> \in Seq(Event)
  BY DEF NoPass, Pass
<1>9. CASE EndPass
  <2>1. recorded' \in [Paths -> 0 .. MaxChanges]
    BY <1>0, <1>9, BoundAssumption DEF EndPass, Absent
  <2> QED
    BY <1>0, <1>8, <1>9, <2>1 DEF EndPass
<1>10. CASE BeginPass \/ FailPass \/ Start \/ Terminate \/ Close \/ Exit \/ Crash
  BY <1>0, <1>8, <1>10 DEF BeginPass, FailPass, Start, Terminate, Close, Exit, Crash, Ends, memory
<1>11. CASE UNCHANGED vars
  BY <1>0, <1>11 DEF vars, memory
<1> QED
  BY <1>1, <1>2, <1>3, <1>4, <1>5, <1>6, <1>7, <1>8, <1>9, <1>10, <1>11 DEF Next

LEMMA TimersStep ==
    ASSUME WatcherInv, [Next]_vars
    PROVE  TimersInv' /\ ScheduledIsRead'
<1> DEFINE Goal == TimersInv' /\ ScheduledIsRead'
<1>0. TimersInv /\ ScheduledIsRead /\ FilesInv
  BY DEF WatcherInv
<1>1. ASSUME UNCHANGED <<phase, timers, entry, closed, owed>>
      PROVE  Goal
  BY <1>0, <1>1 DEF TimersInv, ScheduledIsRead
<1>2. CASE \/ \E p \in Paths, deleted \in BOOLEAN : Change(p, deleted)
           \/ RestartSyncthing \/ Fetch \/ BeginPass \/ EndPass \/ FailPass
           \/ UNCHANGED vars
  BY <1>1, <1>2 DEF Change, RestartSyncthing, Fetch, BeginPass, EndPass, FailPass, vars, memory
<1>3. ASSUME NEW p \in Paths, Walk(p) \/ Retry(p)
      PROVE  Goal
  <2>1. /\ \/ Schedule(p)
           \/ UNCHANGED <<timers, entry, owed>>
        /\ UNCHANGED <<phase, closed>>
        /\ phase # "down"
    BY <1>3 DEF Walk, Retry
  <2> QED
    BY <1>1, <2>1, ScheduleTimers
<1>4. CASE HandleEvent
  <2>1. Head(batch).path \in Paths
    <3>1. Head(batch) \in Event
      BY <1>0, <1>4 DEF HandleEvent, FilesInv
    <3> QED
      BY <3>1 DEF Event
  <2>2. /\ \/ Schedule(Head(batch).path)
           \/ UNCHANGED <<timers, entry, owed>>
        /\ UNCHANGED <<phase, closed>>
        /\ phase # "down"
    BY <1>4 DEF HandleEvent
  <2> QED
    BY <1>1, <2>1, <2>2, ScheduleTimers
<1>5. ASSUME NEW p \in Paths, Fire(p)
      PROVE  Goal
  <2>1. PICK t \in timers : /\ t.path = p
                            /\ t.step = "armed"
                            /\ Moves(t, [t EXCEPT !.step = "fired"])
    BY <1>5 DEF Fire
  <2> DEFINE u == [t EXCEPT !.step = "fired"]
  <2>2. u \in TimerRecord /\ u.id = t.id /\ u.path = t.path /\ u.step = "fired"
    BY <1>0 DEF TimersInv, TimerRecord
  <2>3. UNCHANGED <<phase, closed, entry, owed>>
    BY <1>5 DEF Fire
  <2> HIDE DEF u
  <2> QED
    BY <2>1, <2>2, <2>3, MoveTimers DEF u
<1>6. ASSUME NEW p \in Paths, Run(p)
      PROVE  Goal
  <2>1. PICK t \in timers : /\ t.path = p
                            /\ t.step = "fired"
                            /\ IF closed THEN timers' = timers \ {t}
                               ELSE Moves(t, [t EXCEPT !.step = "capturing"])
    BY <1>6 DEF Run
  <2> DEFINE u == [t EXCEPT !.step = "capturing"]
  <2>2. u \in TimerRecord /\ u.id = t.id /\ u.path = t.path /\ u.step = "capturing"
    BY <1>0 DEF TimersInv, TimerRecord
  <2>3. UNCHANGED <<phase, closed, owed>> /\ entry' = [entry EXCEPT ![t.path] = NoTimer]
    BY <1>6, <2>1 DEF Run
  <2>4. CASE closed
    <3>1. timers' = timers \ {t}
      BY <2>1, <2>4
    <3> QED
      BY <2>3, <2>4, <3>1, EndTimer
  <2>5. CASE ~closed
    <3>1. Moves(t, u)
      BY <2>1, <2>5
    <3> HIDE DEF u
    <3> QED
      BY <2>2, <2>3, <3>1, MoveTimers
  <2> QED
    BY <2>4, <2>5
<1>7. ASSUME NEW t \in timers, Read(t)
      PROVE  Goal
  <2> DEFINE u == [t EXCEPT !.step = "read", !.got = disk[t.path]]
  <2>1. u \in TimerRecord /\ u.id = t.id /\ u.path = t.path
    <3>1. t \in TimerRecord
      BY <1>0 DEF TimersInv
    <3>2. disk[t.path] \in 0 .. MaxChanges
      BY <1>0, <3>1 DEF FilesInv, TimerRecord
    <3> QED
      BY <3>1, <3>2 DEF TimerRecord
  <2>2. /\ Moves(t, u)
        /\ t.step = "capturing"
        /\ UNCHANGED <<phase, closed, entry>>
        /\ owed' = [owed EXCEPT ![t.path] = FALSE]
    BY <1>7 DEF Read, Capturing
  <2> HIDE DEF u
  <2> QED
    BY <2>1, <2>2, MoveTimers
<1>8. ASSUME NEW t \in timers, Record(t) \/ GiveUp(t)
      PROVE  Goal
  <2>1. /\ timers' = timers \ {t}
        /\ t.step \in {"capturing", "read"}
        /\ UNCHANGED <<phase, closed, entry>>
        /\ \/ UNCHANGED owed /\ t.step = "read"
           \/ owed' = [owed EXCEPT ![t.path] = FALSE]
    BY <1>8 DEF Record, GiveUp
  <2> QED
    BY <2>1, EndTimer
<1>9. CASE Start
  BY <1>0, <1>9 DEF Start, TimersInv, ScheduledIsRead
<1>10. CASE Terminate
  BY <1>0, <1>10 DEF Terminate, memory, TimersInv, ScheduledIsRead
<1>11. CASE Close
  <2>1. /\ timers' \subseteq timers
        /\ entry' = [p \in Paths |-> NoTimer]
        /\ closed' = TRUE
        /\ phase' = "closing"
        /\ UNCHANGED owed
    BY <1>11 DEF Close
  <2> QED
    BY <1>0, <2>1, BoundAssumption DEF TimersInv, ScheduledIsRead, NoTimer
<1>12. CASE Exit \/ Crash
  <2>1. /\ phase' = "down"
        /\ timers' = {}
        /\ entry' = [p \in Paths |-> NoTimer]
        /\ owed' = [p \in Paths |-> FALSE]
        /\ UNCHANGED closed
    BY <1>12 DEF Exit, Crash, Ends
  <2>2. owed' \in [Paths -> BOOLEAN] /\ \A p \in Paths : ~owed'[p]
    BY <2>1
  <2>3. entry' \in [Paths -> 0 .. MaxTimers] /\ \A p \in Paths : entry'[p] = NoTimer
    BY <2>1, BoundAssumption DEF NoTimer
  <2> QED
    BY <1>0, <2>1, <2>2, <2>3 DEF TimersInv, ScheduledIsRead
<1> QED
  BY <1>2, <1>3, <1>4, <1>5, <1>6, <1>7, <1>8, <1>9, <1>10, <1>11, <1>12 DEF Next

LEMMA WatcherInvariant == Spec => []WatcherInv
<1>1. WatcherInv /\ [Next]_vars => WatcherInv'
  BY FilesStep, TimersStep DEF WatcherInv
<1> QED
  BY <1>1, WatcherInit, PTL DEF Spec

\* An entry names a timer of its path that has not yet run, and no two timers
\* are taken for each other.
THEOREM WatcherTypes == Spec => []WatcherTypeOK
<1>1. WatcherInv => WatcherTypeOK
  BY DEF WatcherInv, FilesInv, TimersInv, WatcherTypeOK, TimerRecord
<1> QED
  BY <1>1, WatcherInvariant, PTL

\* However timers are replaced, stopped too late or fire together, some timer
\* or function is still to read a save whose change was scheduled.
THEOREM NoChangeIsDropped == Spec => []ScheduledIsRead
<1>1. WatcherInv => ScheduledIsRead
  BY DEF WatcherInv
<1> QED
  BY <1>1, WatcherInvariant, PTL

-----------------------------------------------------------------------------
\* What Close leaves behind, functions that wait for the mutex, starts nothing.
LEMMA QuietStep ==
    ASSUME WatcherInv, [Next]_vars, closed,
           NEW t \in timers', t.step \in {"armed", "capturing"}
    PROVE  \E u \in timers : u.id = t.id /\ u.step = t.step
<1>0. timers \subseteq TimerRecord
  BY DEF WatcherInv, TimersInv
<1>1. CASE t \in timers
  BY <1>1
<1>2. CASE timers' \subseteq timers
  BY <1>2
<1>3. ASSUME NEW p \in Paths, Fire(p)
      PROVE  \E u \in timers : u.id = t.id /\ u.step = t.step
  <2>1. PICK u \in timers : Moves(u, [u EXCEPT !.step = "fired"])
    BY <1>3 DEF Fire
  <2>2. [u EXCEPT !.step = "fired"].step = "fired"
    BY <1>0 DEF TimerRecord
  <2>3. t \in timers
    BY <2>1, <2>2 DEF Moves
  <2> QED
    BY <2>3
<1>4. ASSUME NEW v \in timers, Read(v)
      PROVE  \E u \in timers : u.id = t.id /\ u.step = t.step
  <2>1. [v EXCEPT !.step = "read", !.got = disk[v.path]].step = "read"
    BY <1>0 DEF TimerRecord
  <2>2. t \in timers
    BY <1>4, <2>1 DEF Read, Moves
  <2> QED
    BY <2>2
<1>5. ASSUME NEW p \in Paths, Run(p)
      PROVE  timers' \subseteq timers
  BY <1>5 DEF Run
<1>6. ASSUME NEW p \in Paths, Walk(p) \/ Retry(p)
      PROVE  timers' \subseteq timers
  BY <1>6 DEF Walk, Retry, Schedule
<1>7. CASE HandleEvent
  <2>1. timers' = timers
    BY <1>7 DEF HandleEvent, Schedule
  <2> QED
    BY <1>2, <2>1
<1>8. ASSUME NEW v \in timers, Record(v) \/ GiveUp(v)
      PROVE  timers' \subseteq timers
  BY <1>8 DEF Record, GiveUp
<1>9. CASE \/ \E p \in Paths, deleted \in BOOLEAN : Change(p, deleted)
           \/ RestartSyncthing \/ Fetch \/ BeginPass \/ EndPass \/ FailPass
           \/ Start \/ Terminate \/ Close \/ Exit \/ Crash
           \/ UNCHANGED vars
  <2>1. timers' \subseteq timers
    BY <1>9 DEF Change, RestartSyncthing, Fetch, BeginPass, EndPass, FailPass, Start,
                Terminate, Close, Exit, Crash, Ends, vars, memory
  <2> QED
    BY <1>2, <2>1
<1> QED
  BY <1>2, <1>3, <1>4, <1>5, <1>6, <1>7, <1>8, <1>9 DEF Next

\* After Close no timer is armed and no capture begins, whichever function was
\* waiting for the mutex and whoever still calls Schedule: the event loop over its
\* batch, a walk, or a handler that Shutdown gave up waiting for.
THEOREM CloseIsQuiet == Spec => ClosedIsQuiet
<1> DEFINE Quiet == closed => \A t \in timers' : t.step \in {"armed", "capturing"} =>
                      \E u \in timers : u.id = t.id /\ u.step = t.step
<1>1. WatcherInv /\ [Next]_vars => [Quiet]_vars
  BY QuietStep
<1> QED
  BY <1>1, WatcherInvariant, PTL DEF Spec, ClosedIsQuiet
=============================================================================
