------------------------------- MODULE Lookups -------------------------------
(***************************************************************************)
(* What the server relies on when it asks the resolver process: a question *)
(* is answered once, in any order and in the end.  Auth models the side    *)
(* that asks, Resolver the process that answers.                           *)
(***************************************************************************)
CONSTANTS Queries, Answers, NULL

VARIABLES
    asked,    \* the questions sent to the process
    reply     \* the answer it gave to each

vars == <<asked, reply>>

Init == asked = {} /\ reply = [q \in Queries |-> NULL]

Ask(q) ==
    /\ q \notin asked
    /\ asked' = asked \cup {q}
    /\ UNCHANGED reply

Answer(q) ==
    /\ q \in asked /\ reply[q] = NULL
    /\ \E a \in Answers : reply' = [reply EXCEPT ![q] = a]
    /\ UNCHANGED asked

Next == \E q \in Queries : Ask(q) \/ Answer(q)

Spec == Init /\ [][Next]_vars /\ \A q \in Queries : WF_vars(Answer(q))

=============================================================================
