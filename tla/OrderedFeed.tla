---------------------------- MODULE OrderedFeed -----------------------------
(***************************************************************************)
(* What a subscription promises its handler, whatever storage is below:    *)
(* events that were published, each at most once per subscription, in the  *)
(* order of their ids.  Nothing is said about events that are missed.      *)
(***************************************************************************)
EXTENDS Integers

CONSTANTS
  Ids,           \* the ids of events
  Subscriptions

VARIABLES
  published,     \* ids of the events a subscription may be given
  cursor         \* cursor[s]: the last event given to s, 0 before the first

Init ==
  /\ published = {}
  /\ cursor = [s \in Subscriptions |-> 0]

Publish ==
  /\ \E i \in Ids : published' = published \cup {i}
  /\ UNCHANGED cursor

\* A batch of events, all of them new to this subscription.
Deliver(s) ==
  /\ \E batch \in SUBSET published :
       /\ \A i \in batch : i > cursor[s]
       /\ \E last \in batch :
            /\ \A i \in batch : i =< last
            /\ cursor' = [cursor EXCEPT ![s] = last]
  /\ UNCHANGED published

\* A subscription ends; a later one in its place starts from the beginning.
Restart(s) ==
  /\ cursor' = [cursor EXCEPT ![s] = 0]
  /\ UNCHANGED published

Next ==
  \/ Publish
  \/ \E s \in Subscriptions : Deliver(s) \/ Restart(s)

Spec == Init /\ [][Next]_<<published, cursor>>
=============================================================================
