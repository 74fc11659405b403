---------------------------- MODULE DecisionLog ----------------------------
(***************************************************************************)
(* What the decision log promises a program that stores decisions and      *)
(* reads lessons, with no files, no runs and no steps in between: a        *)
(* journal in which a decision is recorded once, gets its result once, and *)
(* is forgotten only to make room.  All decisions of a topic that results  *)
(* have come for get them in one instant.  MemoryLog is shown to implement *)
(* this module when one process has the log to itself.                     *)
(***************************************************************************)
EXTENDS Integers, FiniteSets

CONSTANTS
    Topics,     \* what decisions are about
    Dates,      \* the days they are for
    Results,    \* what a decision can come to
    Unsettled,  \* no result yet
    Cap         \* results remembered, 0 for all

VARIABLES
    journal,    \* the decisions remembered, by their numbers
    last        \* the number of the last decision

journalVars == <<journal, last>>

Decision == [topic: Topics, date: Dates, result: Results \cup {Unsettled}]

UnsettledIn(j) == {i \in DOMAIN j : j[i].result = Unsettled}
SettledIn(j) == DOMAIN j \ UnsettledIn(j)

Init ==
    /\ journal = [i \in {} |-> Unsettled]
    /\ last = 0

\* A decision is recorded, unless one for its topic and date waits for a result.
Record(topic, date) ==
    /\ \A i \in UnsettledIn(journal) : journal[i].topic # topic \/ journal[i].date # date
    /\ last' = last + 1
    /\ journal' = [i \in DOMAIN journal \cup {last + 1} |->
                     IF i = last + 1
                     THEN [topic |-> topic, date |-> date, result |-> Unsettled]
                     ELSE journal[i]]

\* A decision of the topic gets its result, or nothing happens to it.
Settles(i, topic) ==
    \/ journal'[i] = journal[i]
    \/ /\ i \in UnsettledIn(journal)
       /\ journal[i].topic = topic
       /\ \E r \in Results : journal'[i] = [journal[i] EXCEPT !.result = r]

\* Results are remembered up to the cap, the newest: a decision that is forgotten has a
\* result, or its topic is being settled.
Forgets(i, topic) ==
    /\ i \in SettledIn(journal) \/ journal[i].topic = topic
    /\ Cap # 0
    /\ Cardinality(SettledIn(journal')) = Cap
    /\ \A j \in SettledIn(journal') : i < j

\* Results have come for decisions of a topic.
Settle(topic) ==
    /\ \E kept \in SUBSET DOMAIN journal : journal' \in [kept -> Decision]
    /\ \A i \in DOMAIN journal' : Settles(i, topic)
    /\ \A i \in DOMAIN journal \ DOMAIN journal' : Forgets(i, topic)
    /\ UNCHANGED last

Next == \E topic \in Topics : Settle(topic) \/ \E date \in Dates : Record(topic, date)

Spec == Init /\ [][Next]_journalVars
=============================================================================
