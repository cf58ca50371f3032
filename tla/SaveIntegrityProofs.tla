--------------------------- MODULE SaveIntegrityProofs ---------------------------
(***************************************************************************)
(* Theorems of SaveIntegrity for every number of sections, every even      *)
(* modulus, so also 14 and 2^32, every file whose counters are within half *)
(* the range, and every order in which Go visits the cycles.               *)
(*                                                                         *)
(* Serial number order is no order: three counters around the circle are   *)
(* each after the next.  Within a window of half the range it is the order *)
(* of the distances from the window's base (SerialOrder), and then one     *)
(* pass finds the greatest.                                                *)
(***************************************************************************)
EXTENDS SaveIntegrity, FiniteSetTheorems, TLAPS

Half == Modulus \div 2

\* How far a counter is ahead of another, going up and around.
Ahead(counter, base) == (counter - base) % Modulus

FileCounters == {sectors[p].counter : p \in Recognized}

\* The cycles still to be visited are of the file, which is in a window.
LoopInv ==
    /\ HoldsNewest
    /\ pending \subseteq Cycles
    /\ InWindow(FileCounters)

-----------------------------------------------------------------------------
(***************************************************************************)
(* Counters.                                                               *)
(***************************************************************************)
LEMMA HalfIsHalf == Half \in Nat /\ Half >= 1 /\ Modulus = 2 * Half /\ Modulus \in Nat
BY ModulusAssumption DEF Half

LEMMA ModOfSmall ==
    ASSUME NEW a \in 0 .. Modulus - 1
    PROVE  a % Modulus = a
BY ModulusAssumption

LEMMA ModOfNegative ==
    ASSUME NEW a \in 1 - Modulus .. -1
    PROVE  a % Modulus = a + Modulus
BY ModulusAssumption

LEMMA Distance ==
    ASSUME NEW c \in Counters, NEW d \in Counters
    PROVE  Ahead(c, d) = IF d <= c THEN c - d ELSE c - d + Modulus
<1>1. c \in Int /\ d \in Int /\ Modulus \in Nat
  BY HalfIsHalf DEF Counters
<1>2. CASE d <= c
  <2>1. c - d \in 0 .. Modulus - 1
    BY <1>1, <1>2 DEF Counters
  <2> QED
    BY <1>2, <2>1, ModOfSmall DEF Ahead
<1>3. CASE ~(d <= c)
  <2>1. c - d \in 1 - Modulus .. -1
    BY <1>1, <1>3 DEF Counters
  <2> QED
    BY <1>3, <2>1, ModOfNegative DEF Ahead
<1> QED
  BY <1>2, <1>3

\* In a window, to be ahead by less than half the range is to be further from
\* the base.
LEMMA SerialOrder ==
    ASSUME NEW base \in Counters, NEW c \in Counters, NEW d \in Counters,
           Ahead(c, base) < Half, Ahead(d, base) < Half
    PROVE  /\ Ahead(c, base) \in Nat /\ Ahead(d, base) \in Nat
           /\ Ahead(c, d) < Half <=> Ahead(d, base) <= Ahead(c, base)
           /\ CounterAfter(c, d) <=> Ahead(d, base) < Ahead(c, base)
           /\ c = d <=> Ahead(c, base) = Ahead(d, base)
<1>1. c \in Int /\ d \in Int /\ base \in Int
  BY HalfIsHalf DEF Counters
<1>2. CounterAfter(c, d) <=> c # d /\ Ahead(c, d) < Half
  BY DEF CounterAfter, Ahead, Half
<1>3. /\ c \in 0 .. Modulus - 1 /\ d \in 0 .. Modulus - 1 /\ base \in 0 .. Modulus - 1
      /\ Half \in Nat /\ Modulus = 2 * Half
  BY HalfIsHalf DEF Counters
<1>4. /\ Ahead(c, base) = IF base <= c THEN c - base ELSE c - base + Modulus
      /\ Ahead(d, base) = IF base <= d THEN d - base ELSE d - base + Modulus
      /\ Ahead(c, d) = IF d <= c THEN c - d ELSE c - d + Modulus
  BY Distance
<1> HIDE DEF Half, Ahead, CounterAfter
<1>5. Ahead(c, base) \in Nat /\ Ahead(d, base) \in Nat
  BY <1>1, <1>3, <1>4
<1>6. Ahead(c, d) < Half <=> Ahead(d, base) <= Ahead(c, base)
  BY <1>1, <1>3, <1>4
<1>7. c = d <=> Ahead(c, base) = Ahead(d, base)
  BY <1>1, <1>3, <1>4
<1> QED
  BY <1>2, <1>5, <1>6, <1>7

\* Two counters neither of which is ahead of the other are one.
LEMMA NewestIsUnique ==
    ASSUME NEW c \in Counters, NEW d \in Counters, Ahead(c, d) < Half, Ahead(d, c) < Half
    PROVE  c = d
<1>1. c \in Int /\ d \in Int
  BY HalfIsHalf DEF Counters
<1> QED
  BY <1>1, Distance, HalfIsHalf

-----------------------------------------------------------------------------
(***************************************************************************)
(* Cycles.                                                                 *)
(***************************************************************************)
CycleName == [slot : Slots, counter : Counters]

LEMMA CycleTypes ==
    ASSUME sectors \in [Places -> Sector \cup {Blank}]
    PROVE  /\ \A p \in Recognized : p[1] \in Slots /\ sectors[p] \in Sector
           /\ Cycles \subseteq CycleName
           /\ \A c \in Cycles : c # Blank /\ c.counter \in FileCounters
           /\ FileCounters \subseteq Counters
<1>1. \A p \in Recognized : p[1] \in Slots /\ sectors[p] \in Sector
  BY DEF Recognized, Places
<1>2. FileCounters \subseteq Counters
  BY <1>1 DEF FileCounters, Sector
<1>3. \A c \in Cycles : c \in CycleName /\ c.counter \in FileCounters
  BY <1>1 DEF Cycles, CycleName, FileCounters, Sector
<1>4. Blank \notin CycleName
  BY BlankAssumption DEF CycleName
<1> QED
  BY <1>1, <1>2, <1>3, <1>4

LEMMA SectionsAreFinite ==
    ASSUME sectors \in [Places -> Sector \cup {Blank}], NEW c
    PROVE  /\ ValidSections(c) \subseteq Sections
           /\ IsFiniteSet(ValidSections(c))
           /\ Cardinality(ValidSections(c)) \in Nat
           /\ Cardinality(ValidSections(c)) <= Cardinality(Sections)
           /\ Cardinality(ValidSections(c)) = Cardinality(Sections) => IsComplete(c)
<1>1. ValidSections(c) \subseteq Sections
  BY CycleTypes DEF ValidSections, SectorsOf, Sector
<1>2. IsFiniteSet(ValidSections(c))
  BY <1>1, SectionsAssumption, FS_Subset
<1>3. Cardinality(ValidSections(c)) \in Nat
  BY <1>2, FS_CardinalityType
<1> QED
  BY <1>1, <1>2, <1>3, SectionsAssumption, FS_Subset DEF IsComplete

-----------------------------------------------------------------------------
(***************************************************************************)
(* The loop.                                                               *)
(***************************************************************************)
LEMMA LoopInit == Init => LoopInv
<1> SUFFICES ASSUME Init PROVE LoopInv
  OBVIOUS
<1>1. Visited = {}
  BY DEF Init, Visited
<1>2. InWindow(FileCounters)
  BY DEF Init, FileCounters
<1> QED
  BY <1>1, <1>2 DEF Init, LoopInv, HoldsNewest

\* What is visited is compared with what is held; of two cycles of one counter,
\* one in each slot, the one with more sections is held.
LEMMA VisitKeepsNewest ==
    ASSUME LoopInv, NEW cycle \in pending, Visit(cycle)
    PROVE  HoldsNewest'
<1>1. /\ sectors \in [Places -> Sector \cup {Blank}]
      /\ UNCHANGED <<sectors, Cycles>>
      /\ cycle \in Cycles
  BY DEF LoopInv, HoldsNewest, Visit, Cycles, Recognized
<1>2. Visited' = Visited \cup {cycle} /\ Visited \subseteq Cycles
  BY <1>1 DEF Visit, Visited
<1>3. \A c : UNCHANGED ValidSections(c)
  BY <1>1 DEF ValidSections, SectorsOf, Recognized
<1>4. PICK base \in Counters : \A c \in FileCounters : Ahead(c, base) < Half
  BY DEF LoopInv, InWindow, Ahead, Half
<1>5. \A c \in Cycles : c # Blank /\ c.counter \in Counters /\ Ahead(c.counter, base) < Half
  BY <1>1, <1>4, CycleTypes
<1>6. \A c, d \in Cycles :
         /\ Ahead(c.counter, base) \in Nat
         /\ Ahead(c.counter, d.counter) < Half
               <=> Ahead(d.counter, base) <= Ahead(c.counter, base)
         /\ CounterAfter(c.counter, d.counter)
               <=> Ahead(d.counter, base) < Ahead(c.counter, base)
         /\ c.counter = d.counter <=> Ahead(c.counter, base) = Ahead(d.counter, base)
  BY <1>5, SerialOrder
<1>7. \A c : Cardinality(ValidSections(c)) \in Nat
  BY <1>1, SectionsAreFinite
<1> DEFINE Size(c) == Cardinality(ValidSections(c))
           Distant(c) == Ahead(c.counter, base)
           Best(l, cycles) == /\ l \in cycles
                              /\ \A d \in cycles : Distant(d) <= Distant(l)
                              /\ \A d \in cycles : d.counter = l.counter => Size(d) <= Size(l)
<1>8. \A l : latest # Blank => latest \in Cycles /\ Best(latest, Visited)
  BY <1>2, <1>6 DEF LoopInv, HoldsNewest, IsNewest, Ahead, Half
<1>9. Best(latest', Visited')
  <2>1. CASE latest = Blank
    <3>1. Visited' = {cycle} /\ latest' = cycle
      BY <1>2, <2>1 DEF LoopInv, HoldsNewest, Visit, Replaces
    <3> QED
      BY <1>1, <1>6, <1>7, <3>1
  <2>2. CASE latest # Blank
    <3>1. latest \in Cycles /\ Best(latest, Visited)
      BY <1>8, <2>2
    <3>2. Replaces(cycle) <=> \/ Distant(latest) < Distant(cycle)
                              \/ cycle.counter = latest.counter /\ Size(latest) < Size(cycle)
      BY <1>1, <1>6, <1>7, <2>2, <3>1 DEF Replaces
    <3>3. \A c \in Cycles : Distant(c) \in Nat /\ Size(c) \in Nat
      BY <1>6, <1>7
    <3>4. \A c, d \in Cycles : c.counter = d.counter <=> Distant(c) = Distant(d)
      BY <1>6
    <3>5. latest' = IF Replaces(cycle) THEN cycle ELSE latest
      BY DEF Visit
    <3> HIDE DEF Size, Distant
    <3> QED
      BY <1>1, <1>2, <3>1, <3>2, <3>3, <3>4, <3>5
  <2> QED
    BY <2>1, <2>2
<1>10. latest' \in Cycles /\ latest' # Blank /\ Visited' # {}
  BY <1>1, <1>2, <1>5, <1>9
<1>11. IsNewest(latest'.counter, Visited')
  BY <1>1, <1>2, <1>6, <1>9, <1>10 DEF IsNewest, Ahead, Half
<1>12. \A c \in Visited' : c.counter = latest'.counter =>
          Cardinality(ValidSections(c)) <= Cardinality(ValidSections(latest'))
  BY <1>9
<1>13. sectors' = sectors
  BY <1>1
<1>14. (\A c \in Visited : c.counter = latest.counter =>
           Cardinality(ValidSections(c)) <= Cardinality(ValidSections(latest)))'
  BY <1>12, <1>13 DEF ValidSections, SectorsOf, Recognized
<1> QED
  BY <1>1, <1>9, <1>10, <1>11, <1>14 DEF HoldsNewest, IsNewest

LEMMA LoopStep ==
    ASSUME LoopInv, [Next]_vars
    PROVE  LoopInv'
<1>1. ASSUME NEW cycle \in pending, Visit(cycle)
      PROVE  LoopInv'
  <2>1. pending' \subseteq pending /\ UNCHANGED <<sectors, Cycles, FileCounters>>
    BY <1>1 DEF Visit, Cycles, FileCounters, Recognized
  <2> QED
    BY <1>1, <2>1, VisitKeepsNewest DEF LoopInv, InWindow
<1>2. CASE UNCHANGED vars
  BY <1>2 DEF vars, LoopInv, HoldsNewest, InWindow, FileCounters, IsNewest, Visited, Cycles,
              Recognized, ValidSections, SectorsOf
<1> QED
  BY <1>1, <1>2 DEF Next

LEMMA LoopInvariant == Spec => []LoopInv
BY LoopInit, LoopStep, PTL DEF Spec

\* In whatever order Go visits the cycles, what the loop holds is a newest cycle
\* of those it has seen, and the fuller one if both slots have that counter.
THEOREM NewestIsHeld == Spec => []HoldsNewest
<1>1. LoopInv => HoldsNewest
  BY DEF LoopInv
<1> QED
  BY <1>1, LoopInvariant, PTL

-----------------------------------------------------------------------------
(***************************************************************************)
(* The verdict, when every cycle has been visited.                         *)
(***************************************************************************)
HasEverySection(slot, counter) ==
    \A s \in Sections : \E p \in Recognized :
        /\ p[1] = slot
        /\ sectors[p] = [section |-> s, counter |-> counter, good |-> TRUE]

LEMMA CompleteCycles ==
    ASSUME sectors \in [Places -> Sector \cup {Blank}],
           NEW slot \in Slots, NEW counter \in Counters
    PROVE  HasEverySection(slot, counter) <=>
              IsComplete([slot |-> slot, counter |-> counter])
<1> DEFINE cycle == [slot |-> slot, counter |-> counter]
<1>1. ValidSections(cycle) = {sectors[p].section :
          p \in {q \in Recognized : /\ q[1] = slot
                                    /\ sectors[q].counter = counter
                                    /\ sectors[q].good}}
  BY DEF ValidSections, SectorsOf
<1>2. \A p \in Recognized, s \in Sections :
         sectors[p] = [section |-> s, counter |-> counter, good |-> TRUE]
            <=> sectors[p].section = s /\ sectors[p].counter = counter /\ sectors[p].good
  <2>1. ASSUME NEW r \in Sector, NEW s \in Sections
        PROVE  r = [section |-> s, counter |-> counter, good |-> TRUE]
                  <=> r.section = s /\ r.counter = counter /\ r.good = TRUE
    BY DEF Sector
  <2>2. ASSUME NEW r \in Sector
        PROVE  r.good = TRUE <=> r.good
    BY DEF Sector
  <2>3. \A p \in Recognized : sectors[p] \in Sector
    BY CycleTypes
  <2> QED
    BY <2>1, <2>2, <2>3
<1>3. ValidSections(cycle) \subseteq Sections
  BY SectionsAreFinite
<1>4. ASSUME HasEverySection(slot, counter)
      PROVE  IsComplete(cycle)
  <2>1. ASSUME NEW s \in Sections
        PROVE  s \in ValidSections(cycle)
    <3>1. PICK p \in Recognized :
             /\ p[1] = slot
             /\ sectors[p] = [section |-> s, counter |-> counter, good |-> TRUE]
      BY <1>4 DEF HasEverySection
    <3>2. sectors[p].section = s /\ sectors[p].counter = counter /\ sectors[p].good
      BY <3>1
    <3> QED
      BY <1>1, <3>1, <3>2
  <2> QED
    BY <1>3, <2>1 DEF IsComplete
<1>5. ASSUME IsComplete(cycle)
      PROVE  HasEverySection(slot, counter)
  <2>1. ASSUME NEW s \in Sections
        PROVE  \E p \in Recognized :
                   /\ p[1] = slot
                   /\ sectors[p] = [section |-> s, counter |-> counter, good |-> TRUE]
    <3>1. s \in ValidSections(cycle)
      BY <1>5, <2>1 DEF IsComplete
    <3>2. PICK p \in Recognized : /\ p[1] = slot /\ sectors[p].counter = counter
                                  /\ sectors[p].good /\ sectors[p].section = s
      BY <1>1, <3>1
    <3> QED
      BY <1>2, <3>2
  <2> QED
    BY <2>1 DEF HasEverySection
<1> QED
  BY <1>4, <1>5

LEMMA VerdictFromInvariant == LoopInv => VerdictIsRight
<1> SUFFICES ASSUME LoopInv, pending = {}
             PROVE  Accepted <=>
                       \/ Recognized = {}
                       \/ \E slot \in Slots, counter \in Counters :
                             IsNewest(counter, Cycles) /\ HasEverySection(slot, counter)
  BY DEF VerdictIsRight, HasEverySection
<1>1. sectors \in [Places -> Sector \cup {Blank}] /\ Visited = Cycles
  BY DEF LoopInv, HoldsNewest, Visited
<1>2. CASE Recognized = {}
  BY <1>1, <1>2 DEF LoopInv, HoldsNewest, Accepted, Cycles
<1>3. CASE Recognized # {}
  <2>1. Cycles # {}
    BY <1>3 DEF Cycles
  <2>2. /\ latest # Blank /\ latest \in Cycles /\ IsNewest(latest.counter, Cycles)
        /\ \A c \in Cycles : c.counter = latest.counter =>
              Cardinality(ValidSections(c)) <= Cardinality(ValidSections(latest))
    BY <1>1, <2>1 DEF LoopInv, HoldsNewest
  <2>3. latest \in CycleName
    BY <1>1, <2>2, CycleTypes
  <2>4. /\ latest.slot \in Slots /\ latest.counter \in Counters
        /\ latest = [slot |-> latest.slot, counter |-> latest.counter]
    BY <2>3 DEF CycleName
  <2>5. ASSUME Accepted
        PROVE  \E slot \in Slots, counter \in Counters :
                   IsNewest(counter, Cycles) /\ HasEverySection(slot, counter)
    <3>1. IsComplete([slot |-> latest.slot, counter |-> latest.counter])
      BY <2>2, <2>4, <2>5 DEF Accepted
    <3>2. HasEverySection(latest.slot, latest.counter)
      BY <1>1, <2>4, <3>1, CompleteCycles
    <3> QED
      BY <2>2, <2>4, <3>2
  <2>6. ASSUME NEW slot \in Slots, NEW counter \in Counters,
               IsNewest(counter, Cycles), HasEverySection(slot, counter)
        PROVE  Accepted
    <3> DEFINE cycle == [slot |-> slot, counter |-> counter]
    <3>1. IsComplete(cycle)
      BY <1>1, <2>6, CompleteCycles
    <3>2. PICK s \in Sections : TRUE
      BY <1>3 DEF Recognized, Places
    <3>3. PICK p \in Recognized :
             /\ p[1] = slot
             /\ sectors[p] = [section |-> s, counter |-> counter, good |-> TRUE]
      BY <2>6 DEF HasEverySection
    <3>4. cycle \in Cycles
      <4>1. sectors[p].counter = counter
        BY <3>3
      <4> QED
        BY <3>3, <4>1 DEF Cycles
    <3>5. Ahead(counter, latest.counter) < Half /\ Ahead(latest.counter, counter) < Half
      BY <2>2, <2>6, <3>4 DEF IsNewest, Ahead, Half
    <3>6. counter = latest.counter
      BY <2>4, <3>5, NewestIsUnique
    <3>7. Cardinality(ValidSections(cycle)) <= Cardinality(ValidSections(latest))
      BY <2>2, <3>4, <3>6
    <3>8. Cardinality(ValidSections(cycle)) = Cardinality(Sections)
      BY <3>1 DEF IsComplete
    <3>9. /\ Cardinality(ValidSections(latest)) <= Cardinality(Sections)
          /\ Cardinality(ValidSections(latest)) \in Nat /\ Cardinality(Sections) \in Nat
          /\ Cardinality(ValidSections(latest)) = Cardinality(Sections) => IsComplete(latest)
      BY <1>1, SectionsAreFinite, SectionsAssumption, FS_CardinalityType
    <3> QED
      BY <3>7, <3>8, <3>9 DEF Accepted
  <2> QED
    BY <1>3, <2>5, <2>6
<1> QED
  BY <1>2, <1>3

\* A save is accepted exactly if one slot has every section, good, with the
\* newest counter of the file: also when the counter has wrapped around, when
\* both slots have that counter, and in whatever order the cycles are visited.
THEOREM CompleteSavesAreAccepted == Spec => []VerdictIsRight
BY VerdictFromInvariant, LoopInvariant, PTL
=============================================================================
