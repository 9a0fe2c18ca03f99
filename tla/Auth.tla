-------------------------------- MODULE Auth --------------------------------
(***************************************************************************)
(* What an ircd-ratbox server does with a connection before it reads from  *)
(* it: the ident query, the reverse DNS lookup and the lookups in the      *)
(* configured DNS blacklists (s_auth.c), the table of lookups in flight    *)
(* (dns.c) and the resolver helper process that answers them.              *)
(*                                                                         *)
(* The three queries of a client run at the same time and their callbacks  *)
(* come in any order.  Meanwhile the client may disappear, the queries may *)
(* time out, the helper may die with every question it was asked, and a    *)
(* REHASH may replace the blacklists that lookups still point to.  What an *)
(* answer carries back is only the number of a slot in the table.          *)
(*                                                                         *)
(* The blacklists are structures with a reference count on a doubly linked *)
(* list, modelled with its pointers.  A structure is never used again once *)
(* it is freed.  Abstracted: the host and the username found, whether a    *)
(* blacklist's answer bans, address families, lookups of connect{} hosts.  *)
(***************************************************************************)
EXTENDS Integers, Sequences, FiniteSets, Functions, SequencesExt, Lists

CONSTANTS
    Clients,      \* the connections
    Rbls,         \* the memory for blacklist structures
    NULL,         \* the null pointer
    MaxId,        \* DNS_IDTABLE_SIZE - 1, the last slot of querytable
    DisableAuth,  \* general::disable_auth
    MaxRestarts,  \* bound: how often the helper dies
    MaxRehashes   \* bound: how often the configuration is read

ASSUME ConstAssumption ==
    /\ IsFiniteSet(Clients) /\ IsFiniteSet(Rbls)
    /\ NULL \notin Clients \cup Rbls
    /\ MaxId \in Nat \ {0}
    /\ DisableAuth \in BOOLEAN
    /\ MaxRestarts \in Nat /\ MaxRehashes \in Nat

VARIABLES
    client,      \* client[c]: where the connection is
    auth,        \* auth[c]: its AuthRequest
    querytable,  \* querytable[id]: the lookup in slot id, or NoRequest
    id,          \* the static variable of assign_dns_id()
    asked,       \* the questions the helper has not answered
    rbl,         \* rbl[r]: a blacklist structure
    rbl_lists,   \* the list of blacklists
    cancelled,   \* history: the slots freed while their question was open
    restarts,    \* helpers lost so far
    rehashes     \* configurations read so far

vars == <<client, auth, querytable, id, asked, rbl, rbl_lists, cancelled, restarts, rehashes>>

-----------------------------------------------------------------------------
(* Data.                                                                   *)

Ids == 1..MaxId
Pointers == Rbls \cup {NULL}

\* A lookup, by what its callback will get: the client's host name (r = NULL,
\* auth_dns_callback) or blacklist r's answer (rbl_dns_callback).
Request   == [c: Clients, r: Pointers]
NoRequest == [c |-> NULL, r |-> NULL]
Question  == [id: Ids, req: Request]

\* struct AuthRequest: what is pending, the slot of the DNS lookup, whether the
\* ident socket is open, and the blacklists asked with their slots, last first.
AuthRequest ==
    [live: BOOLEAN, pending: SUBSET {"DNS", "Auth", "RBL"}, dns_query: 0..MaxId,
     authF: BOOLEAN, rbl_queries: Seq([r: Rbls, queryid: 0..MaxId])]

NoAuth == [live |-> FALSE, pending |-> {}, dns_query |-> 0, authF |-> FALSE,
           rbl_queries |-> <<>>]

\* struct _rbl: its place in memory is unused, in use or freed.
Rbl == [st: {"unused", "used", "freed"}, refcount: Int, freeing: BOOLEAN,
        next: Pointers, prev: Pointers]

NewRbl == [st |-> "unused", refcount |-> 0, freeing |-> FALSE, next |-> NULL, prev |-> NULL]

\* rb_dlink_list; a length below 0 stands for the wrapped unsigned long.
List == [head: Pointers, tail: Pointers, length: Int]

\* The blacklists and their list as one record, which the list operations change.
Mem == [node |-> rbl, list |-> rbl_lists]

\* The nodes that RB_DLINK_FOREACH visits.
Walk(m) ==
    LET walk[n \in 0..Cardinality(Rbls)] ==
          IF n = 0 THEN <<>>
          ELSE LET before == walk[n - 1]
                   next == IF before = <<>> THEN m.list.head ELSE m.node[before[Len(before)]].next
               IN  IF next = NULL THEN before ELSE Append(before, next)
    IN  walk[Cardinality(Rbls)]

rb_dlinkAdd(m, r) ==
    LET h == m.list.head
        node == [m.node EXCEPT ![r] = [[@ EXCEPT !.next = h] EXCEPT !.prev = NULL]]
    IN  [node |-> IF h = NULL THEN node ELSE [node EXCEPT ![h] = [@ EXCEPT !.prev = r]],
         list |-> [head |-> r,
                   tail |-> IF h = NULL /\ m.list.tail = NULL THEN r ELSE m.list.tail,
                   length |-> m.list.length + 1]]

\* Also of a node that is not on the list: then its null pointers become the
\* head and the tail, and the length is one too small.
rb_dlinkDelete(m, r) ==
    LET n == m.node[r].next
        p == m.node[r].prev
        after == IF n = NULL THEN m.node ELSE [m.node EXCEPT ![n] = [@ EXCEPT !.prev = p]]
        both  == IF p = NULL THEN after ELSE [after EXCEPT ![p] = [@ EXCEPT !.next = n]]
    IN  [node |-> [both EXCEPT ![r] = [[@ EXCEPT !.next = NULL] EXCEPT !.prev = NULL]],
         list |-> [head |-> IF p = NULL THEN n ELSE m.list.head,
                   tail |-> IF n = NULL THEN p ELSE m.list.tail,
                   length |-> m.list.length - 1]]

-----------------------------------------------------------------------------
(* Blacklists.                                                             *)

\* Changes of one of the blacklists.
Freed(node, r)   == [node EXCEPT ![r] = [@ EXCEPT !.st = "freed"]]
Freeing(node, r) == [node EXCEPT ![r] = [@ EXCEPT !.freeing = TRUE]]
Dropped(node, r) == [node EXCEPT ![r] = [@ EXCEPT !.refcount = node[r].refcount - 1]]
Created(node, r) == [node EXCEPT ![r] = [NewRbl EXCEPT !.st = "used"]]

\* The memory after rbl_destroy() of r, which waits for the last lookup.
rbl_destroy(m, r) ==
    IF m.node[r].refcount > 0 THEN m
    ELSE [rb_dlinkDelete(m, r) EXCEPT !.node = Freed(@, r)]

rbl_clear_one(m, r) ==
    LET off == IF r \in ToSet(Walk(m)) THEN rb_dlinkDelete(m, r) ELSE m
    IN  rbl_destroy([off EXCEPT !.node = Freeing(@, r)], r)

rbl_clear_rbllists(m) ==
    LET w == Walk(m)
        cleared[i \in 0..Len(w)] == IF i = 0 THEN m ELSE rbl_clear_one(cleared[i - 1], w[i])
    IN  cleared[Len(w)]

rbl_attach(m, rs) ==
    [node |-> [x \in Rbls |-> [m.node[x] EXCEPT
                                 !.refcount = @ + Cardinality({i \in DOMAIN rs : rs[i] = x})]],
     list |-> m.list]

\* Mutant: a blacklist that is no longer configured is freed with the first of
\* its lookups that ends.
rbl_detach_Early(m, r) ==
    LET less == [m EXCEPT !.node = Dropped(@, r)]
    IN  IF m.node[r].freeing
        THEN [rb_dlinkDelete(less, r) EXCEPT !.node = Freed(@, r)] ELSE less

rbl_detach(m, r) ==
    LET less == [m EXCEPT !.node = Dropped(@, r)]
    IN  IF m.node[r].freeing /\ less.node[r].refcount = 0 THEN rbl_destroy(less, r) ELSE less

\* A blacklist {} block: rbl_create(), then onto the list.
blacklist_block(m, r) == rb_dlinkAdd([m EXCEPT !.node = Created(@, r)], r)

blacklist_blocks(m, rs) ==
    LET added[i \in 0..Len(rs)] == IF i = 0 THEN m ELSE blacklist_block(added[i - 1], rs[i])
    IN  added[Len(rs)]

-----------------------------------------------------------------------------
(* Lookups.  d is dns.c's state: the table, the last slot given and the    *)
(* questions in the helper.                                                *)

Dns == [table |-> querytable, id |-> id, asked |-> asked]

\* Mutant: the last slot is one past the table.
NextId_Past(i) == IF i <= MaxId THEN i + 1 ELSE 1

NextId(i) == IF i < MaxId THEN i + 1 ELSE 1

\* Mutant: the slot is taken whether it is free or not.
assign_dns_id_Blind(d) == NextId(d.id)

\* The first free slot after the last one given, 0 if the table is full.
assign_dns_id(d) ==
    LET free == {i \in Ids : d.table[i] = NoRequest}
        steps(i) == IF i > d.id THEN i - d.id ELSE i - d.id + MaxId
    IN IF free = {} THEN 0 ELSE CHOOSE i \in free : \A j \in free : steps(i) <= steps(j)

\* lookup_ip() and lookup_hostname(), for one question and for several.
lookup(d, req) ==
    LET i == assign_dns_id(d)
    IN  IF i = 0 THEN [d EXCEPT !.id = NextId(d.id)]
        ELSE [table |-> [d.table EXCEPT ![i] = req], id |-> i,
              asked |-> d.asked \cup {[id |-> i, req |-> req]}]

lookups(d, reqs) ==
    LET done[i \in 0..Len(reqs)] == IF i = 0 THEN d ELSE lookup(done[i - 1], reqs[i])
    IN  done[Len(reqs)]

\* The slot lookup() gave a request.
SlotOf(d, req) ==
    IF \E i \in Ids : d.table[i] = req THEN CHOOSE i \in Ids : d.table[i] = req ELSE 0

\* Slots is given as a set: 0 is a slot that is never in use.
cancel_lookups(d, slots) ==
    [d EXCEPT !.table = [i \in Ids |-> IF i \in slots THEN NoRequest ELSE d.table[i]]]

-----------------------------------------------------------------------------
(* The end of an AuthRequest.                                              *)

\* An AuthRequest that lives.
Waiting(pending, dns_query, authF, rbl_queries) ==
    [live |-> TRUE, pending |-> pending, dns_query |-> dns_query, authF |-> authF,
     rbl_queries |-> rbl_queries]

\* When nothing is pending the client goes to the rest of the server.
Released(a) == a.pending = {}

release_auth_client(c, a) ==
    /\ auth' = [auth EXCEPT ![c] = IF Released(a) THEN NoAuth ELSE a]
    /\ client' = [client EXCEPT ![c] = IF Released(a) THEN "read" ELSE @]

SetDns(d) == querytable' = d.table /\ id' = d.id /\ asked' = d.asked
SetMem(m) == rbl' = m.node /\ rbl_lists' = m.list

Slots(a) == {a.dns_query} \cup {q.queryid : q \in ToSet(a.rbl_queries)}

Cancels(a) ==
    /\ SetDns(cancel_lookups(Dns, Slots(a)))
    /\ cancelled' = cancelled \cup {q.id : q \in {p \in asked : p.id \in Slots(a)}}

DetachAll(m, qs) ==
    LET detached[i \in 0..Len(qs)] == IF i = 0 THEN m ELSE rbl_detach(detached[i - 1], qs[i].r)
    IN  detached[Len(qs)]

-----------------------------------------------------------------------------
(* Actions.                                                                *)

Init ==
    /\ client = [c \in Clients |-> "none"]
    /\ auth = [c \in Clients |-> NoAuth]
    /\ querytable = [i \in Ids |-> NoRequest] /\ id = 1 /\ asked = {}
    /\ rbl = [r \in Rbls |-> NewRbl]
    /\ rbl_lists = [head |-> NULL, tail |-> NULL, length |-> 0]
    /\ cancelled = {} /\ restarts = 0 /\ rehashes = 0

\* rbl_check_rbls(): nothing is asked when the length says the list is empty.
rbls_to_ask == IF rbl_lists.length = 0 THEN <<>> ELSE Walk(Mem)

\* start_auth_query(): the socket is open, an error ended the query at once, or
\* the client was dead already and nothing will end it but the timeout.
IdentStart == IF DisableAuth THEN {"off"} ELSE {"open", "error", "dead"}

\* start_auth() of a new connection.  A write to the helper that fails, after
\* some of the questions, starts another one that knows none of them.
start_auth(c) ==
    LET rbls == rbls_to_ask
        n    == Len(rbls)
        reqs == [i \in 1..(n + 1) |-> [c |-> c, r |-> IF i <= n THEN rbls[i] ELSE NULL]]
        d    == lookups(Dns, reqs)
        \* The last blacklist asked comes first.
        queries == [i \in 1..n |->
                      [r |-> rbls[n + 1 - i], queryid |-> SlotOf(d, [c |-> c, r |-> rbls[n + 1 - i]])]]
    IN  /\ client[c] = "none"
        /\ \E ident \in IdentStart, lost \in 0..(n + 1) :
             /\ lost > 0 => restarts < MaxRestarts
             /\ restarts' = restarts + (IF lost > 0 THEN 1 ELSE 0)
             /\ querytable' = d.table /\ id' = d.id
             /\ asked' = IF lost = 0 THEN d.asked
                         ELSE {q \in d.asked : \E i \in (lost + 1)..(n + 1) : q.req = reqs[i]}
             /\ auth' = [auth EXCEPT ![c] =
                   Waiting({"DNS"} \cup (IF ident \in {"open", "dead"} THEN {"Auth"} ELSE {})
                             \cup (IF rbls = <<>> THEN {} ELSE {"RBL"}),
                           SlotOf(d, [c |-> c, r |-> NULL]), ident = "open", queries)]
        /\ client' = [client EXCEPT ![c] = "auth"]
        /\ SetMem(rbl_attach(Mem, rbls))
        /\ UNCHANGED <<cancelled, rehashes>>

\* auth_error() or read_auth(): the ident query is over.
read_auth(c) ==
    LET a == auth[c]
    IN  /\ a.authF
        /\ release_auth_client(c, Waiting(a.pending \ {"Auth"}, a.dns_query, FALSE, a.rbl_queries))
        /\ UNCHANGED <<querytable, id, asked, rbl, rbl_lists, cancelled, restarts, rehashes>>

auth_dns_callback(c) ==
    LET a == auth[c]
    IN  /\ release_auth_client(c, Waiting(a.pending \ {"DNS"}, 0, a.authF, a.rbl_queries))
        /\ UNCHANGED <<rbl, rbl_lists>>

rbl_dns_callback(c, r) ==
    LET a == auth[c]
        left == Without(a.rbl_queries, {q \in ToSet(a.rbl_queries) : q.r = r})
    IN  /\ release_auth_client(c, Waiting(IF left = <<>> THEN a.pending \ {"RBL"} ELSE a.pending,
                                          a.dns_query, a.authF, left))
        /\ SetMem(rbl_detach(Mem, r))

\* The helper answers question q, and results_callback() looks into the slot.
results_callback(q) ==
    LET req == querytable[q.id]
    IN /\ q \in asked
       /\ asked' = asked \ {q}
       /\ querytable' = [querytable EXCEPT ![q.id] = NoRequest]
       /\ \/ req = NoRequest /\ UNCHANGED <<client, auth, rbl, rbl_lists>>
          \/ req # NoRequest /\ req.r = NULL /\ auth_dns_callback(req.c)
          \/ req # NoRequest /\ req.r # NULL /\ rbl_dns_callback(req.c, req.r)
       /\ UNCHANGED <<id, cancelled, restarts, rehashes>>

\* Mutant: the blacklists keep the client waiting.
timeout_auth_queries_NoRbl(c) ==
    /\ auth[c].live
    /\ release_auth_client(c, Waiting(auth[c].pending \ {"DNS", "Auth"}, 0, FALSE,
                                      auth[c].rbl_queries))
    /\ SetDns(cancel_lookups(Dns, {auth[c].dns_query}))
    /\ cancelled' = cancelled \cup {q.id : q \in {p \in asked : p.id = auth[c].dns_query}}
    /\ UNCHANGED <<rbl, rbl_lists, restarts, rehashes>>

\* timeout_auth_queries_event() finds c's request too old.
timeout_auth_queries(c) ==
    /\ auth[c].live
    /\ release_auth_client(c, NoAuth)
    /\ Cancels(auth[c])
    /\ SetMem(DetachAll(Mem, auth[c].rbl_queries))
    /\ UNCHANGED <<restarts, rehashes>>

\* Mutant: the blacklist lookups of a client that exits are left in the table.
delete_auth_queries_DnsOnly(c) ==
    /\ auth' = [auth EXCEPT ![c] = NoAuth]
    /\ SetDns(cancel_lookups(Dns, {auth[c].dns_query}))
    /\ cancelled' = cancelled \cup {q.id : q \in {p \in asked : p.id = auth[c].dns_query}}
    /\ SetMem(DetachAll(Mem, auth[c].rbl_queries))

delete_auth_queries(c) ==
    /\ auth' = [auth EXCEPT ![c] = NoAuth]
    /\ Cancels(auth[c])
    /\ SetMem(DetachAll(Mem, auth[c].rbl_queries))

\* The connection closes, is timed out, banned or closed by an oper.
exit_unknown_client(c) ==
    /\ client[c] \in {"auth", "read"}
    /\ client' = [client EXCEPT ![c] = "exited"]
    /\ delete_auth_queries(c)
    /\ UNCHANGED <<restarts, rehashes>>

\* The helper dies, or REHASH DNS finds that it has; another one is started.
restart_resolver_cb ==
    /\ restarts < MaxRestarts
    /\ restarts' = restarts + 1
    /\ asked' = {}
    /\ UNCHANGED <<client, auth, querytable, id, rbl, rbl_lists, cancelled, rehashes>>

\* The configuration is read: clear_out_old_conf(), then the new blocks.
read_conf ==
    LET unused == {r \in Rbls : rbl[r].st = "unused"}
    IN /\ rehashes < MaxRehashes
       /\ rehashes' = rehashes + 1
       /\ \E new \in SUBSET unused :
            SetMem(blacklist_blocks(rbl_clear_rbllists(Mem), SetToSeq(new)))
       /\ UNCHANGED <<client, auth, querytable, id, asked, cancelled, restarts>>

Next ==
    \/ \E c \in Clients : \/ start_auth(c) \/ read_auth(c)
                          \/ timeout_auth_queries(c) \/ exit_unknown_client(c)
    \/ \E q \in asked : results_callback(q)
    \/ restart_resolver_cb
    \/ read_conf

Spec == Init /\ [][Next]_vars

\* The timeout event runs every three seconds, whatever the helper does.
FairSpec == Spec /\ \A c \in Clients : WF_vars(timeout_auth_queries(c))

-----------------------------------------------------------------------------
(* Properties.                                                             *)

\* Every piece of state has its type.
TypeOK ==
    /\ client \in [Clients -> {"none", "auth", "read", "exited"}]
    /\ auth \in [Clients -> AuthRequest]
    /\ querytable \in [Ids -> Request \cup {NoRequest}] /\ id \in Ids
    /\ asked \subseteq Question /\ cancelled \subseteq Ids
    /\ rbl \in [Rbls -> Rbl] /\ rbl_lists \in List
    /\ restarts \in Nat /\ rehashes \in Nat

\* No callback into freed memory, and no lookup forgotten: a slot of the table
\* is in use exactly if a live AuthRequest waits for that slot (the data pointer
\* of struct dnsreq; delete_auth_queries(), rbl_cancel_lookups()).
CallbacksLive ==
    \A i \in Ids, c \in Clients, r \in Pointers :
        querytable[i] = [c |-> c, r |-> r] <=>
            /\ auth[c].live
            /\ IF r = NULL THEN "DNS" \in auth[c].pending /\ auth[c].dns_query = i
               ELSE "RBL" \in auth[c].pending /\ [r |-> r, queryid |-> i] \in ToSet(auth[c].rbl_queries)

\* A blacklist lives as long as a lookup points to it: the reference count is
\* the number of lookups, and neither a lookup nor the list leads to a freed
\* structure (rbl_destroy(), rbl_detach_rbl_from_query()).
RblsHeld ==
    /\ \A r \in Rbls :
         LET users == {c \in Clients : \E q \in ToSet(auth[c].rbl_queries) : q.r = r}
         IN /\ rbl[r].refcount = Cardinality(users)
            /\ users # {} => rbl[r].st = "used"
    /\ \A r \in {rbl_lists.head, rbl_lists.tail} \ {NULL} : rbl[r].st = "used"

\* The answer to a question goes to the callback that asked it, but for slots
\* that were freed by cancel_lookup() with the question still open: the next
\* lookup that gets such a slot, DNS_IDTABLE_SIZE lookups later, may get the old
\* answer.  No other way leads to another client's answer, not even when the
\* helper dies (assign_dns_id(), results_callback()).
AnswersRight ==
    \A q \in asked : querytable[q.id] = q.req \/ q.id \in cancelled

\* A client is not kept waiting: whatever becomes of its queries and of the
\* helper, it is released or gone in the end.
AuthEnds == \A c \in Clients : client[c] = "auth" ~> client[c] \in {"read", "exited"}

\* The blacklists asked for a new client are those of the configuration.
RblsConsulted ==
    ToSet(rbls_to_ask) = {r \in Rbls : rbl[r].st = "used" /\ ~rbl[r].freeing}

=============================================================================
