----------------------------- MODULE SaveHistory -----------------------------
(***************************************************************************)
(* What ThorSync promises the owner of one game's saves, without tables,   *)
(* bindings or deliveries: one line of versions that only grows, versions  *)
(* set aside because they did not descend from its head, each set aside    *)
(* once, and questions about them that hold the line until the owner       *)
(* decides, where a decision is made once however often it is asked for.   *)
(* RevisionStore implements this specification.                            *)
(***************************************************************************)
CONSTANTS Ids,        \* names of versions
          NoId,       \* no version
          Contents,   \* what a save can hold
          Keys        \* names of the owner's decisions

VARIABLES line,       \* the versions of the line, each with its predecessor
          head,       \* the newest version of the line
          aside,      \* the versions set aside
          questions,  \* the versions set aside that await a decision
          decisions   \* the version each decision made

vars == <<line, head, aside, questions, decisions>>

Versions == DOMAIN line \cup DOMAIN aside

ContentOf(id) == IF id \in DOMAIN line THEN line[id].content ELSE aside[id]

IsAside(content) == \E id \in DOMAIN aside : aside[id] = content

\* A version of a new name follows the head.
Follow(id, content) ==
    /\ id \notin Versions
    /\ line' = [i \in DOMAIN line \cup {id} |->
                   IF i = id THEN [content |-> content, parent |-> head] ELSE line[i]]
    /\ head' = id

Init ==
    /\ line = [i \in {} |-> NoId]
    /\ head = NoId
    /\ aside = [i \in {} |-> NoId]
    /\ questions = {}
    /\ decisions = [k \in Keys |-> NoId]

-----------------------------------------------------------------------------
\* Progress of a device that had the head; it is new and nothing is in doubt.
Advance(id, content) ==
    /\ head = NoId \/ (questions = {} /\ content # line[head].content)
    /\ ~IsAside(content)
    /\ Follow(id, content)
    /\ UNCHANGED <<aside, questions, decisions>>

\* Progress that does not descend from the head is kept, and asked about.
SetAside(id, content) ==
    /\ id \notin Versions
    /\ ~IsAside(content)
    /\ aside' = [i \in DOMAIN aside \cup {id} |-> IF i = id THEN content ELSE aside[i]]
    /\ questions' = questions \cup {id}
    /\ UNCHANGED <<line, head, decisions>>

\* It turned up again: the question is asked again, the version kept once.
AskAgain(id) ==
    /\ questions' = questions \cup {id}
    /\ UNCHANGED <<line, head, aside, decisions>>

\* The owner makes any version the head, which answers every question.
Decide(k, id, source) ==
    /\ decisions[k] = NoId
    /\ Follow(id, ContentOf(source))
    /\ questions' = {}
    /\ decisions' = [decisions EXCEPT ![k] = id]
    /\ UNCHANGED aside

\* The owner marks the head, when nothing is in doubt.
Mark(k, id) ==
    /\ decisions[k] = NoId
    /\ head # NoId
    /\ questions = {}
    /\ Follow(id, ContentOf(head))
    /\ decisions' = [decisions EXCEPT ![k] = id]
    /\ UNCHANGED <<aside, questions>>

Next ==
    \/ \E id \in Ids, content \in Contents : Advance(id, content) \/ SetAside(id, content)
    \/ \E id \in DOMAIN aside : AskAgain(id)
    \/ \E k \in Keys, id \in Ids : Mark(k, id) \/ \E source \in Versions : Decide(k, id, source)

Spec == Init /\ [][Next]_vars
=============================================================================
