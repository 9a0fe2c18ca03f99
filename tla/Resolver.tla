------------------------------ MODULE Resolver ------------------------------
(***************************************************************************)
(* The resolver process (resolver/resolver.c, resolver/res.c).  It turns a *)
(* question of the server into requests to nameservers over UDP: packets   *)
(* are lost, late and repeated, every send takes a new random id, and an   *)
(* address is believed only when its name leads back to it.                *)
(*                                                                         *)
(* A request r = <<q, type>> works for the question q: "PTR" asks for the  *)
(* name of an address, "A" for the address of a name.  A question about an *)
(* address needs one after the other.                                      *)
(*                                                                         *)
(* Abstracted: the format of packets (an answer is what proc_answer()      *)
(* makes of it), address families, packets from strangers, which           *)
(* res_ourserver() drops, and which of the nameservers are asked.  The     *)
(* clock: a request may expire at any time, and the walk of                *)
(* timeout_query_list() is one step per expired request.                   *)
(***************************************************************************)
EXTENDS Integers, Sequences, FiniteSets, Lists

CONSTANTS
    Queries,     \* the questions, struct dns_request
    Subject,     \* the address or the name each is about
    Addrs,       \* addresses
    Names,       \* host names, the empty one of an answer without data included
    Long,        \* those that do not fit into an answer to the server
    Unaskable,   \* those that irc_res_mkquery() cannot encode
    NIds,        \* how many ids there are (2^16)
    Retries,     \* sends of a request before it is given up (3)
    NULL

ASSUME ResolverAssumption ==
    /\ Subject \in [Queries -> Addrs \cup Names] /\ Addrs \cap Names = {}
    /\ NULL \notin Addrs \cup Names
    /\ {"error", "garbage", "failed"} \cap (Addrs \cup Names \cup {NULL}) = {}
    /\ NULL \notin Queries \X {"PTR", "A"}
    /\ NIds \in Nat \ {0} /\ Retries \in Nat \ {0}

Ids == 0..(NIds - 1)
Keys == Queries \X {"PTR", "A"}

\* Questions about addresses; the others are about names.
ByAddress == {q \in Queries : Subject[q] \in Addrs}

VARIABLES
    queries,       \* the questions read so far
    req,           \* struct reslist of each request
    request_list,  \* the requests, newest first
    net,           \* what was sent to nameservers and may still be answered
    ans,           \* the answers written to the server, per question
    said           \* history: what nameservers said to questions under way

resolverVars == <<queries, req, request_list, net, ans, said>>

NoRequest == [name |-> NULL, id |-> 0, retries |-> 0, open |-> FALSE, armed |-> FALSE]

Request == [name: Addrs \cup Names \cup {NULL}, id: Ids, retries: 0..Retries,
            open: BOOLEAN,      \* it has a socket
            armed: BOOLEAN]     \* which is being read

\* What a nameserver may say: the data asked for, an error, something that
\* cannot be decoded, or nothing about an address (NULL).
Content(name) == {"error", "garbage"} \cup IF name \in Addrs THEN Names ELSE Addrs \cup {NULL}

Here == [req |-> req, list |-> request_list, net |-> net, ans |-> ans]

Apply(S) == \E e \in S : /\ req' = e.req /\ request_list' = e.list
                          /\ net' = e.net /\ ans' = e.ans

-----------------------------------------------------------------------------
(* Requests.                                                               *)

\* Request r becomes x.
Put(e, r, x) == [req |-> [e.req EXCEPT ![r] = x], list |-> e.list, net |-> e.net, ans |-> e.ans]

make_request(e, r, name) ==
    [req |-> [e.req EXCEPT ![r] = [name |-> name, id |-> 0, retries |-> Retries,
                                   open |-> FALSE, armed |-> FALSE]],
     list |-> <<r>> \o e.list, net |-> e.net, ans |-> e.ans]

rem_request(e, r) ==
    [req |-> [e.req EXCEPT ![r] = NoRequest], list |-> Without(e.list, {r}),
     net |-> {p \in e.net : p.to # r}, ans |-> e.ans]

With(e, id) == {i \in DOMAIN e.list : e.req[e.list[i]].id = id}

find_id(e, id) ==
    IF With(e, id) = {} THEN NULL
    ELSE e.list[CHOOSE i \in With(e, id) : \A j \in With(e, id) : i <= j]

generate_random_id(e) == {id \in Ids : find_id(e, id) = NULL}

\* The outcomes of sending: no socket can be had, no nameserver can be
\* reached, or the question is under way.
send_res_msg(e, r) ==
    LET x == e.req[r]
        heard == Put(e, r, [name |-> x.name, id |-> x.id, retries |-> x.retries,
                            open |-> TRUE, armed |-> TRUE])
        asked == [req |-> heard.req, list |-> e.list, ans |-> e.ans,
                  net |-> e.net \cup {[to |-> r, id |-> x.id, name |-> x.name]}]
    IN {heard, asked} \cup IF x.open THEN {} ELSE {e}

query_name(e, r) ==
    LET x == e.req[r]
        Numbered(id) == Put(e, r, [name |-> x.name, id |-> id, retries |-> x.retries,
                                   open |-> x.open, armed |-> x.armed])
    IN IF x.name \in Unaskable THEN {e}
       ELSE UNION {send_res_msg(Numbered(id), r) : id \in generate_random_id(e)}

-----------------------------------------------------------------------------
(* Answers.                                                                *)

\* An address is confirmed when the name's address is the one asked about.
send_answer(e, q, name, c) ==
    LET a == IF q \in ByAddress
             THEN IF c = Subject[q] /\ name \notin Long THEN name ELSE "failed"
             ELSE IF c \in Addrs THEN c ELSE "failed"
    IN [req |-> e.req, list |-> e.list, net |-> e.net,
        ans |-> [e.ans EXCEPT ![q] = Append(@, a)]]

check_question_Always(e, t, p) == TRUE

check_question(e, t, p) == e.req[t].name = p.name

proc_answer_Kept(e, t, c) == {send_answer(e, t[1], e.req[t].name, c)}

\* What the process makes of content c for request t.
proc_answer(e, t, c) ==
    LET q == t[1]
        name == e.req[t].name
    IN IF c \in {"error", "garbage"} THEN {rem_request(send_answer(e, q, name, NULL), t)}
       ELSE IF t[2] = "PTR"
       THEN {rem_request(f, t) : f \in query_name(make_request(e, <<q, "A">>, c), <<q, "A">>)}
       ELSE {rem_request(send_answer(e, q, name, c), t)}

Deaf(e, r) ==
    LET x == e.req[r]
    IN Put(e, r, [name |-> x.name, id |-> x.id, retries |-> x.retries,
                  open |-> x.open, armed |-> FALSE])

\* Packet p is read at the socket of p.to, and is about the request that has
\* its id now.  Having dealt with one the process does not listen again, even
\* when the socket was another request's.
res_readreply(p, c) ==
    LET r == p.to
        t == find_id(Here, p.id)
    IN /\ req[r].armed
       /\ t # NULL
       /\ check_question(Here, t, p)
       /\ Apply({IF t = r THEN e ELSE Deaf(e, r) : e \in proc_answer(Here, t, c)})
       /\ said' = said \cup {<<p.name, c>>}
       /\ UNCHANGED queries

-----------------------------------------------------------------------------

resolve(q) ==
    /\ q \notin queries
    /\ queries' = queries \cup {q}
    /\ LET r == <<q, IF q \in ByAddress THEN "PTR" ELSE "A">>
       IN Apply(query_name(make_request(Here, r, Subject[q]), r))
    /\ UNCHANGED said

timeout_query_Forever(r) ==
    /\ req[r].retries > 0
    /\ Apply(query_name(Here, r))
    /\ UNCHANGED <<queries, said>>

\* timeout_query_list() finds that r has waited too long.
timeout_query(r) ==
    /\ req[r].retries > 0
    /\ LET x == req[r]
           left == x.retries - 1
           e == Put(Here, r, [name |-> x.name, id |-> x.id, retries |-> left,
                              open |-> x.open, armed |-> x.armed])
       IN Apply(IF left <= 0
                 THEN {rem_request(send_answer(Here, r[1], req[r].name, NULL), r)}
                 ELSE query_name(e, r))
    /\ UNCHANGED <<queries, said>>

ResolverInit ==
    /\ queries = {}
    /\ req = [r \in Keys |-> NoRequest]
    /\ request_list = <<>> /\ net = {}
    /\ ans = [q \in Queries |-> <<>>]
    /\ said = {}

ResolverNext ==
    \/ \E q \in Queries : resolve(q)
    \/ \E r \in Keys : timeout_query(r)
    \/ \E p \in net : \E c \in Content(p.name) : res_readreply(p, c)

\* timeout_query_list() runs every second, for all that has waited too long.
ResolverFairness == WF_resolverVars(\E r \in Keys : timeout_query(r))

ResolverSpec == ResolverInit /\ [][ResolverNext]_resolverVars /\ ResolverFairness

-----------------------------------------------------------------------------
(* Properties.                                                             *)

\* Every variable has its type, and a question has one request as long as it
\* waits for its answer and none after it: the callback of a request never
\* runs for a dns_request that is freed, and none is forgotten.
OneRequest ==
    /\ queries \subseteq Queries
    /\ req \in [Keys -> Request]
    /\ \A p \in net : p.to \in Keys /\ p.id \in Ids
    /\ \A q \in queries :
          Cardinality({i \in DOMAIN request_list : request_list[i][1] = q})
             = IF ans[q] = <<>> THEN 1 ELSE 0
    /\ \A r \in Keys : (req[r].retries > 0) <=> (\E i \in DOMAIN request_list : request_list[i] = r)

\* However late a packet comes and whoever has its id by then, a name is
\* reported for an address only when nameservers gave the name for the
\* address and the address for the name, and an address for a name only when
\* they said so: check_question() and the comparison in send_answer().
AnswersConfirmed ==
    \A q \in Queries : \A i \in DOMAIN ans[q] :
       \/ ans[q][i] = "failed"
       \/ q \in ByAddress /\ {<<Subject[q], ans[q][i]>>, <<ans[q][i], Subject[q]>>} \subseteq said
       \/ q \notin ByAddress /\ <<Subject[q], ans[q][i]>> \in said

L == INSTANCE Lookups
        WITH Answers <- Names \cup Addrs \cup {"failed"}, asked <- queries,
             reply <- [q \in Queries |-> IF ans[q] = <<>> THEN NULL ELSE ans[q][1]]

\* The process keeps the promise of Lookups: whatever is lost, late or sent
\* again, every question is answered, and its answer does not change.
ResolverAnswers == L!Spec

=============================================================================
