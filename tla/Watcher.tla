-------------------------------- MODULE Watcher --------------------------------
(***************************************************************************)
(* How a change of a save file comes to be captured: Syncthing's event     *)
(* feed and the runner's cursor into it, the reconciliation passes that    *)
(* make up for what the feed has lost, the debounce timers of              *)
(* broker.Schedule with the functions they start, and the shutdown that    *)
(* closes the broker and then the database.  One endpoint, with a mapped   *)
(* save at each path.                                                      *)
(*                                                                         *)
(* A capture is here what it reads and, later, records; Inbox and          *)
(* RevisionStore say what it makes of it.                                  *)
(***************************************************************************)
EXTENDS Naturals, Sequences

CONSTANTS Paths,        \* save files of the endpoint's folder
          MaxChanges,   \* bound on changes of files
          MaxTimers,    \* bound on timers and running functions together
          MaxFaults     \* bound on crashes, failing calls and Syncthing restarts

ASSUME BoundAssumption == MaxTimers \in Nat /\ MaxChanges \in Nat

VARIABLES disk,       \* version of the file at each path, or Absent
          feed,       \* Syncthing's events since it started; the index is the ID
          phase,      \* of the process
          cursor,     \* eventLoop's cursor
          batch,      \* fetched events it has not handled
          saved,      \* settings.syncthing_event_cursor
          pass,       \* the reconciliation pass
          timers,     \* timers that can still fire, and functions they started
          entry,      \* Service.timers: the timer of a path, or NoTimer
          closed,     \* Service.closed
          recorded,   \* the latest observation of each path
          owed,       \* a change was scheduled and not read since (not in the code)
          changes, faults

memory == <<cursor, batch, pass, timers, entry, closed>>
vars == <<disk, feed, phase, memory, saved, recorded, owed, changes, faults>>

Absent == 0
NoTimer == 0

NoPass == [step |-> "idle", todo |-> {}, seen |-> {}]

Fault == faults < MaxFaults /\ faults' = faults + 1

Init ==
    /\ disk = [p \in Paths |-> Absent]
    /\ feed = <<>>
    /\ phase = "down"
    /\ cursor = 0
    /\ batch = <<>>
    /\ saved = 0
    /\ pass = NoPass
    /\ timers = {}
    /\ entry = [p \in Paths |-> NoTimer]
    /\ closed = FALSE
    /\ recorded = [p \in Paths |-> Absent]
    /\ owed = [p \in Paths |-> FALSE]
    /\ changes = 0
    /\ faults = 0

-----------------------------------------------------------------------------
(***************************************************************************)
(* Syncthing and the devices (external).                                   *)
(***************************************************************************)
\* Syncthing writes or removes a file, or finds it changed, and says so.
Change(p, deleted) ==
    /\ changes < MaxChanges
    /\ deleted => disk[p] # Absent
    /\ disk' = [disk EXCEPT ![p] = IF deleted THEN Absent ELSE changes + 1]
    /\ feed' = Append(feed, [id |-> Len(feed) + 1, path |-> p, deleted |-> deleted])
    /\ changes' = changes + 1
    /\ UNCHANGED <<phase, memory, saved, recorded, owed, faults>>

\* Its event IDs start at one again.
RestartSyncthing ==
    /\ feed # <<>>
    /\ Fault
    /\ feed' = <<>>
    /\ UNCHANGED <<disk, phase, memory, saved, recorded, owed, changes>>

-----------------------------------------------------------------------------
(***************************************************************************)
(* Schedule, the function a timer starts, and Close.                       *)
(***************************************************************************)
Timer(id, p) == [id |-> id, path |-> p, step |-> "armed", got |-> Absent]

Moves(t, u) == timers' = (timers \ {t}) \cup {u}

\* Stop prevents a timer from firing only if it has not fired.
Stopped(ids) == {t \in timers : t.step = "armed" /\ t.id \in ids}

FreeIds == (1 .. MaxTimers) \ {t.id : t \in timers}

\* Mutant: a closed broker still takes a change.
ScheduleWhenClosed(p) ==
    /\ FreeIds # {}
    /\ LET id == CHOOSE i \in FreeIds : TRUE
           left == timers \ (IF entry[p] = NoTimer THEN {} ELSE Stopped({entry[p]}))
       IN  /\ timers' = left \cup {Timer(id, p)}
           /\ entry' = [entry EXCEPT ![p] = id]
    /\ owed' = [owed EXCEPT ![p] = TRUE]

\* Under the mutex: the timer of the path is replaced by one with this input.
Schedule(p) ==
    IF closed THEN UNCHANGED <<timers, entry, owed>>
    ELSE /\ FreeIds # {}
         /\ LET id == CHOOSE i \in FreeIds : TRUE
                left == timers \ (IF entry[p] = NoTimer THEN {} ELSE Stopped({entry[p]}))
            IN  /\ timers' = left \cup {Timer(id, p)}
                /\ entry' = [entry EXCEPT ![p] = id]
         /\ owed' = [owed EXCEPT ![p] = TRUE]

\* Five seconds are over; the function waits for the mutex.
Fire(p) ==
    /\ \E t \in timers : /\ t.path = p
                         /\ t.step = "armed"
                         /\ Moves(t, [t EXCEPT !.step = "fired"])
    /\ UNCHANGED <<disk, feed, phase, cursor, batch, pass, entry, closed, saved, recorded,
                   owed, changes, faults>>

\* Mutant: the entry stays.
RunAndKeep(p) ==
    /\ \E t \in timers : /\ t.path = p
                         /\ t.step = "fired"
                         /\ IF closed THEN timers' = timers \ {t}
                            ELSE Moves(t, [t EXCEPT !.step = "capturing"])
    /\ UNCHANGED <<disk, feed, phase, cursor, batch, pass, entry, closed, saved, recorded,
                   owed, changes, faults>>

\* It clears the entry of its path, whichever timer that is, and looks at closed.
Run(p) ==
    /\ \E t \in timers : /\ t.path = p
                         /\ t.step = "fired"
                         /\ IF closed THEN timers' = timers \ {t}
                            ELSE Moves(t, [t EXCEPT !.step = "capturing"])
    /\ entry' = [entry EXCEPT ![p] = NoTimer]
    /\ UNCHANGED <<disk, feed, phase, cursor, batch, pass, closed, saved, recorded, owed,
                   changes, faults>>

\* Timers that lost their entry are not stopped.
Close ==
    /\ phase = "stopping"
    /\ phase' = "closing"
    /\ closed' = TRUE
    /\ timers' = timers \ Stopped({entry[p] : p \in Paths})
    /\ entry' = [p \in Paths |-> NoTimer]
    /\ UNCHANGED <<disk, feed, cursor, batch, pass, saved, recorded, owed, changes, faults>>

-----------------------------------------------------------------------------
(***************************************************************************)
(* A capture.                                                              *)
(***************************************************************************)
Capturing(t) == t \in timers /\ t.step = "capturing"

\* The file is stable and is archived.
Read(t) ==
    /\ Capturing(t)
    /\ disk[t.path] # Absent
    /\ Moves(t, [t EXCEPT !.step = "read", !.got = disk[t.path]])
    /\ owed' = [owed EXCEPT ![t.path] = FALSE]
    /\ UNCHANGED <<disk, feed, phase, cursor, batch, pass, entry, closed, saved, recorded,
                   changes, faults>>

\* Mutant: the function clears its entry when it is done, and stops what it finds.
RecordAndStop(t) ==
    /\ t \in timers
    /\ t.step = "read"
    /\ timers' = (timers \ {t}) \ Stopped({entry[t.path]})
    /\ entry' = [entry EXCEPT ![t.path] = NoTimer]
    /\ recorded' = [recorded EXCEPT ![t.path] = t.got]
    /\ UNCHANGED <<disk, feed, phase, cursor, batch, pass, closed, saved, owed, changes, faults>>

Record(t) ==
    /\ t \in timers
    /\ t.step = "read"
    /\ timers' = timers \ {t}
    /\ recorded' = [recorded EXCEPT ![t.path] = t.got]
    /\ UNCHANGED <<disk, feed, phase, cursor, batch, pass, entry, closed, saved, owed,
                   changes, faults>>

\* The file is gone or still changing, the context was cancelled, the database
\* is closed, or a call fails: the capture ends and nothing schedules another.
GiveUp(t) ==
    /\ t \in timers
    /\ t.step \in {"capturing", "read"}
    /\ IF (t.step = "capturing" /\ disk[t.path] = Absent) \/ phase # "up"
       THEN UNCHANGED faults
       ELSE Fault
    /\ timers' = timers \ {t}
    /\ owed' = [owed EXCEPT ![t.path] = FALSE]
    /\ UNCHANGED <<disk, feed, phase, cursor, batch, pass, entry, closed, saved, recorded, changes>>

-----------------------------------------------------------------------------
(***************************************************************************)
(* eventLoop.                                                              *)
(***************************************************************************)
\* Events answers with the IDs above the cursor, and waits when there are none.
Fetch ==
    /\ phase = "up"
    /\ batch = <<>>
    /\ cursor < Len(feed)
    /\ batch' = SubSeq(feed, cursor + 1, Len(feed))
    /\ UNCHANGED <<disk, feed, phase, cursor, pass, timers, entry, closed, saved, recorded,
                   owed, changes, faults>>

\* The loop over a batch does not look at the context: it handles what is left
\* of it after SIGTERM, too, and until the process is gone.  With the context
\* cancelled the database refuses DeleteObserved and SetSetting, which follows
\* the last event of a batch, but Schedule does not ask it.
HandleEvent ==
    LET event == Head(batch)
        p == event.path
    IN  /\ phase # "down"
        /\ batch # <<>>
        /\ batch' = Tail(batch)
        /\ cursor' = event.id
        /\ saved' = IF Len(batch) = 1 /\ phase = "up" THEN event.id ELSE saved
        /\ IF event.deleted
           THEN /\ recorded' = IF phase = "up" THEN [recorded EXCEPT ![p] = Absent] ELSE recorded
                /\ UNCHANGED <<timers, entry, owed>>
           ELSE /\ Schedule(p)
                /\ UNCHANGED recorded
        /\ UNCHANGED <<disk, feed, phase, pass, closed, changes, faults>>

-----------------------------------------------------------------------------
(***************************************************************************)
(* reconcileLoop: a pass at startup and then one at every tick.            *)
(***************************************************************************)
\* Mutant: the loop ends after its first pass.
FirstTick == phase # "down" /\ pass.step = "due"

\* The first pass does not ask the context, and a select that finds it cancelled
\* and a tick ready takes either.
Tick == phase # "down" /\ pass.step \in {"due", "idle"}

BeginPass ==
    /\ Tick
    /\ pass' = [step |-> "walk", todo |-> Paths, seen |-> {}]
    /\ UNCHANGED <<disk, feed, phase, cursor, batch, timers, entry, closed, saved, recorded,
                   owed, changes, faults>>

\* WalkDir goes on through the folder whatever becomes of the context.
Walk(p) ==
    /\ phase # "down"
    /\ pass.step = "walk"
    /\ p \in pass.todo
    /\ pass' = [pass EXCEPT !.todo = @ \ {p},
                            !.seen = IF disk[p] = Absent THEN @ ELSE @ \cup {p}]
    /\ IF disk[p] = Absent THEN UNCHANGED <<timers, entry, owed>> ELSE Schedule(p)
    /\ UNCHANGED <<disk, feed, phase, cursor, batch, closed, saved, recorded, changes, faults>>

\* Saves that were mapped and not seen are missing; with the context cancelled
\* the bindings cannot be listed and the pass ends without them.
EndPass ==
    /\ phase # "down"
    /\ pass.step = "walk"
    /\ pass.todo = {}
    /\ recorded' = [p \in Paths |-> IF p \in pass.seen \/ phase # "up" THEN recorded[p] ELSE Absent]
    /\ pass' = NoPass
    /\ UNCHANGED <<disk, feed, phase, cursor, batch, timers, entry, closed, saved, owed,
                   changes, faults>>

\* The walk or the database fails: the pass ends without the missing files.
FailPass ==
    /\ phase # "down"
    /\ pass.step = "walk"
    /\ Fault
    /\ pass' = NoPass
    /\ UNCHANGED <<disk, feed, phase, cursor, batch, timers, entry, closed, saved, recorded,
                   owed, changes>>

-----------------------------------------------------------------------------
(***************************************************************************)
(* The process: main, and the API's Schedule after a failed capture.       *)
(***************************************************************************)
Start ==
    /\ phase = "down"
    /\ phase' = "up"
    /\ cursor' = saved
    /\ pass' = [NoPass EXCEPT !.step = "due"]
    /\ closed' = FALSE
    /\ UNCHANGED <<disk, feed, batch, timers, entry, saved, recorded, owed, changes, faults>>

\* A handler schedules with no context to cancel.  Shutdown waits for handlers,
\* but gives up after 30 seconds, so one may still run when the broker is closed.
Retry(p) ==
    /\ phase # "down"
    /\ disk[p] # Absent
    /\ Fault
    /\ Schedule(p)
    /\ UNCHANGED <<disk, feed, phase, cursor, batch, pass, closed, saved, recorded, changes>>

\* SIGTERM cancels the context.  The loops end where they look at it and nobody
\* waits for them: the batch and the walk in hand go on until the process ends.
Terminate ==
    /\ phase = "up"
    /\ phase' = "stopping"
    /\ UNCHANGED <<disk, feed, memory, saved, recorded, owed, changes, faults>>

Ends ==
    /\ phase' = "down"
    /\ batch' = <<>>
    /\ pass' = NoPass
    /\ timers' = {}
    /\ entry' = [p \in Paths |-> NoTimer]
    /\ owed' = [p \in Paths |-> FALSE]
    /\ UNCHANGED <<disk, feed, cursor, closed, saved, recorded, changes>>

Exit == phase = "closing" /\ Ends /\ UNCHANGED faults

Crash == phase # "down" /\ Fault /\ Ends

-----------------------------------------------------------------------------
Next ==
    \/ \E p \in Paths, deleted \in BOOLEAN : Change(p, deleted)
    \/ RestartSyncthing
    \/ \E p \in Paths : Fire(p) \/ Run(p) \/ Walk(p) \/ Retry(p)
    \/ \E t \in timers : Read(t) \/ Record(t) \/ GiveUp(t)
    \/ Fetch \/ HandleEvent \/ BeginPass \/ EndPass \/ FailPass
    \/ Start \/ Terminate \/ Close \/ Exit \/ Crash

(***************************************************************************)
(* Fairness: the loops and goroutines that run go on, a timer fires even   *)
(* if passes keep replacing it (they are further apart than its five       *)
(* seconds).  Nothing is assumed of the shutdown.                          *)
(***************************************************************************)
Fairness ==
    /\ WF_vars(Fetch) /\ WF_vars(HandleEvent)
    /\ WF_vars(phase = "up" /\ BeginPass) /\ WF_vars(EndPass)
    /\ \A p \in Paths : WF_vars(Fire(p)) /\ WF_vars(Run(p)) /\ WF_vars(Walk(p))
    /\ WF_vars(\E t \in timers : Read(t) \/ Record(t) \/ GiveUp(t))

Spec == Init /\ [][Next]_vars /\ Fairness

-----------------------------------------------------------------------------
WatcherTypeOK ==
    /\ disk \in [Paths -> 0 .. MaxChanges]
    /\ recorded \in [Paths -> 0 .. MaxChanges]
    /\ phase \in {"down", "up", "stopping", "closing"}
    /\ \A t \in timers : /\ t.id \in 1 .. MaxTimers
                         /\ t.path \in Paths
                         /\ t.step \in {"armed", "fired", "capturing", "read"}
    /\ \A t, u \in timers : t.id = u.id => t = u
    /\ \A p \in Paths : entry[p] # NoTimer =>
          \E t \in timers : t.id = entry[p] /\ t.path = p /\ t.step \in {"armed", "fired"}
    /\ cursor \in Nat /\ saved \in Nat /\ closed \in BOOLEAN

\* Close means closed: no capture starts after it and no timer is armed, not even
\* by a timer that a function already running made it lose sight of, or by the
\* batch, the walk and the request that still call Schedule because nobody waits
\* for them (broker.go:49-57, :64, :75-79, runner.go:65-70, :131-165, main.go:104-108).
ClosedIsQuiet ==
    [][closed => \A t \in timers' : t.step \in {"armed", "capturing"} =>
          \E u \in timers : u.id = t.id /\ u.step = t.step]_vars

\* A scheduled change is not lost among the timers: until the file is read, some
\* timer or function will read it, however Stop, firing and replacement interleave
\* (broker.go:67-74).
ScheduledIsRead ==
    \A p \in Paths : owed[p] /\ ~closed =>
        \E t \in timers : t.path = p /\ t.step \in {"armed", "fired", "capturing"}

\* While the process stays up, what was observed last of each save becomes what is
\* there: whatever was lost with timers, events, Syncthing's restarts or the cursor,
\* and whichever of two overlapping captures recorded last (runner.go:112-175).
ChangesAreRecorded == <>[](phase = "up") => <>[](recorded = disk)
=============================================================================
