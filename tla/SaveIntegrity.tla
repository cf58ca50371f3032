----------------------------- MODULE SaveIntegrity -----------------------------
(***************************************************************************)
(* internal/adapter/pokemon_gen3.go: ValidatePayload, which decides if a   *)
(* Generation III save is complete enough to become a revision.  A save    *)
(* has two slots of sectors; a sector carries its section number, the      *)
(* counter of the save cycle that wrote it and a checksum.  The sectors of *)
(* one slot and one counter are a cycle, and the newest cycle must have    *)
(* every section.                                                          *)
(*                                                                         *)
(* The code gathers the cycles in a map and looks for the newest in one    *)
(* pass over it.  The order of that pass is undefined in Go, so it is a    *)
(* nondeterministic choice here, one cycle per step.  Counters are         *)
(* unsigned 32 bit numbers; Modulus stands for 2^32.                       *)
(***************************************************************************)
EXTENDS Integers, FiniteSets

CONSTANTS Sections,   \* section numbers
          Modulus,    \* counters are below it and wrap around
          Blank       \* a sector without the signature, or with no valid section

ASSUME ModulusAssumption == Modulus \in Nat /\ Modulus >= 2 /\ Modulus % 2 = 0

ASSUME SectionsAssumption == IsFiniteSet(Sections)

VARIABLES sectors,    \* the file: one entry for each physical sector
          pending,    \* cycles the loop has still to visit
          latest      \* the cycle it holds, or Blank

vars == <<sectors, pending, latest>>

-----------------------------------------------------------------------------
Slots == {0, 1}
Counters == 0 .. Modulus - 1
Sector == [section : Sections, counter : Counters, good : BOOLEAN]

\* A blank sector has no content, and the loop starts with no cycle.
ASSUME BlankAssumption == Blank \notin Sector \cup [slot : Slots, counter : Counters]

\* Each slot has as many physical sectors as there are sections.
Places == Slots \X Sections

Recognized == {p \in Places : sectors[p] # Blank}

\* A cycle is named by its slot and counter.
Cycles == {[slot |-> p[1], counter |-> sectors[p].counter] : p \in Recognized}

SectorsOf(cycle) ==
    {p \in Recognized : p[1] = cycle.slot /\ sectors[p].counter = cycle.counter}

\* Mutant: a section counts as soon as it is there.
SectionsFound(cycle) == {sectors[p].section : p \in SectorsOf(cycle)}

ValidSections(cycle) == {sectors[p].section : p \in {q \in SectorsOf(cycle) : sectors[q].good}}

IsComplete(cycle) == ValidSections(cycle) = Sections

\* Mutant: counters do not wrap.
PlainlyAfter(candidate, counter) == candidate > counter

\* Serial number order: the unsigned difference is less than half the range.
CounterAfter(candidate, counter) ==
    /\ candidate # counter
    /\ (candidate - counter) % Modulus < Modulus \div 2

Replaces(cycle) ==
    \/ latest = Blank
    \/ CounterAfter(cycle.counter, latest.counter)
    \/ /\ cycle.counter = latest.counter
       /\ Cardinality(ValidSections(cycle)) > Cardinality(ValidSections(latest))

\* All counters are within half the range, as those of a save that is written
\* again and again are.
InWindow(counters) ==
    \E base \in Counters : \A c \in counters : (c - base) % Modulus < Modulus \div 2

Init ==
    /\ sectors \in [Places -> Sector \cup {Blank}]
    /\ InWindow({sectors[p].counter : p \in Recognized})
    /\ pending = Cycles
    /\ latest = Blank

Visit(cycle) ==
    /\ cycle \in pending
    /\ pending' = pending \ {cycle}
    /\ latest' = IF Replaces(cycle) THEN cycle ELSE latest
    /\ UNCHANGED sectors

Next == \E cycle \in pending : Visit(cycle)

Spec == Init /\ [][Next]_vars

Accepted == latest = Blank \/ IsComplete(latest)

-----------------------------------------------------------------------------
(***************************************************************************)
(* Properties.                                                             *)
(***************************************************************************)
Visited == Cycles \ pending

\* No counter of the file is ahead of this one, by less than half the range.
IsNewest(counter, cycles) ==
    \A d \in cycles : (counter - d.counter) % Modulus < Modulus \div 2

\* At every point of the loop and whatever its order, what it holds is a newest
\* cycle of those it has seen, and the one with most sections if both slots
\* have that counter.
HoldsNewest ==
    /\ sectors \in [Places -> Sector \cup {Blank}]
    /\ latest = Blank <=> Visited = {}
    /\ latest # Blank =>
          /\ latest \in Visited
          /\ IsNewest(latest.counter, Visited)
          /\ \A c \in Visited : c.counter = latest.counter =>
                Cardinality(ValidSections(c)) <= Cardinality(ValidSections(latest))

\* README.md:27-31: a save whose newest cycle is incomplete is not accepted, and
\* any other is, also when the counter wraps around.  The reference looks at
\* the sectors: some slot has every section, good, with the newest counter.
VerdictIsRight ==
    pending = {} =>
        (Accepted <=>
           \/ Recognized = {}
           \/ \E slot \in Slots, counter \in Counters :
                 /\ IsNewest(counter, Cycles)
                 /\ \A s \in Sections : \E p \in Recognized :
                       /\ p[1] = slot
                       /\ sectors[p] = [section |-> s, counter |-> counter, good |-> TRUE])
=============================================================================
