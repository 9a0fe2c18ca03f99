------------------------------ MODULE SSLProc ------------------------------
(***************************************************************************)
(* The SSL and compression helpers of one server (sslproc.c, ssld/ssld.c)  *)
(* and the local connections they carry: listeners that accept, connect{}  *)
(* blocks that connect, the exit of a client and the event that frees it,  *)
(* helpers that die, are killed and are started again, and REHASH.         *)
(*                                                                         *)
(* The server gives a helper one end of a socket pair and keeps the other. *)
(* Who holds the far end decides whether the client can ever read again:   *)
(* it may be in a command the server has not sent yet (writeq), in the     *)
(* socket to the helper (inq), or in a connection of the helper (conn).    *)
(*                                                                         *)
(* A handler works on an effect record e, the server's state.  Handlers    *)
(* that write to a helper return the set of their outcomes: the helper may *)
(* be found dead, and starting another may fail.                           *)
(*                                                                         *)
(* Undefined behaviour stops the model (up): a node of unknown_list that   *)
(* points to freed memory, a descriptor closed twice, a session without a  *)
(* helper that is asked for its statistics.                                *)
(*                                                                         *)
(* Abstracted: what the connections carry, ciphers, fingerprints and       *)
(* statistics; abort_list and dead links (NickTS) and delayed exits;       *)
(* connect{} blocks without ssl; a REHASH that changes what a port speaks; *)
(* helpers built without SSL or zlib.                                      *)
(***************************************************************************)
EXTENDS Integers, Sequences, FiniteSets, SequencesExt, Lists

CONSTANTS
    NClients,        \* bound: local connections, each a new struct Client
    NCtls,           \* bound: helpers started, each a new ssl_ctl_t
    Zips,            \* bound: the clients whose link may be compressed
    Ports,           \* the addresses a listen{} block may name
    SSLPorts,        \* those of them with sslport
    NULL,
    SsldCount,       \* serverinfo::ssld_count
    MaxSpin,         \* starts of helpers in a row that are allowed (20)
    MaxRehashes      \* bound: REHASHes

Clients == 1..NClients    \* in the order of their connids
Ctls == 1..NCtls          \* in the order of their start

ASSUME ConstAssumption ==
    /\ NClients \in Nat /\ NCtls \in Nat
    /\ Zips \subseteq Clients
    /\ NULL \notin Ctls \cup Ports
    /\ SSLPorts \subseteq Ports
    /\ SsldCount \in Nat \ {0} /\ MaxSpin \in Nat /\ MaxRehashes \in Nat

VARIABLES
    cl,           \* the local clients
    unknown_list, \* the clients on unknown_list
    ctl,          \* the helpers, and what is in the sockets to them
    ssl_daemons,  \* the list of helpers, newest first
    ssld_count,   \* helpers believed alive
    spin,         \* ssld_spin_count, up to the limit that matters
    ssld_wait,    \* no helper is started before restart_ssld_event
    restart_ev,   \* the event has been added (it recurs from then on)
    ircd_ssl_ok,  \* SSL is set up
    lis,          \* the listeners
    lost,         \* clients whose first descriptor nobody will ever close
    up,           \* the server runs
    rehashes      \* REHASHes so far

vars == <<cl, unknown_list, ctl, ssl_daemons, ssld_count, spin, ssld_wait, restart_ev,
          ircd_ssl_ok, lis, lost, up, rehashes>>

-----------------------------------------------------------------------------
(* State.                                                                  *)

\* A connection a helper carries, by what it was asked: to accept or to
\* connect SSL for a client (connid), or to compress for it (zconnid).
Ids == Clients \X {"A", "C", "Z"}

\* A local client: the helpers it is counted at, ssl for SSL and z for
\* compression (link: whether a session was started), and where it came in.
Client == [st: {"unused", "unknown", "connecting", "handshake", "client", "server",
                "dead", "freed"},
           ssl: Ctls \cup {NULL}, link: {"plain", "zip"}, z: Ctls \cup {NULL},
           listener: Ports \cup {NULL}]

NewClient == [st |-> "unused", ssl |-> NULL, link |-> "plain", z |-> NULL, listener |-> NULL]

Unregistered == {"unknown", "connecting", "handshake"}
Open == Unregistered \cup {"client", "server"}

\* What the server may ask: for new keys, or to take a connection; what a
\* helper may answer: that a connection is dead, or that the keys are bad.
Cmd == [cmd: {"K"}] \cup [cmd: {"open"}, id: Ids]
Reply == [cmd: {"D"}, id: Ids] \cup [cmd: {"I"}]

Keys      == [cmd |-> "K"]
Take(id)  == [cmd |-> "open", id |-> id]
Dead(id)  == [cmd |-> "D", id |-> id]
BadKeys   == [cmd |-> "I"]

Stages == {"none", "shaking", "open", "shut"}

Ctl == [st: {"unused", "live", "dead", "freed"}, cli_count: Int,
        writeq: Seq(Cmd),                              \* not sent yet
        proc: {"up", "gone"}, inq: Seq(Cmd), outq: Seq(Reply),
        conn: [Ids -> Stages]]

NoConns == [id \in Ids |-> "none"]

NewCtl == [st |-> "unused", cli_count |-> 0, writeq |-> <<>>,
           proc |-> "up", inq |-> <<>>, outq |-> <<>>, conn |-> NoConns]

Listener == [st: {"none", "open", "closed"}, ref_count: Int]

NoListener == [st |-> "none", ref_count |-> 0]

\* The state of the server, and its parts replaced.
Server(cs, unk, cts, list, count, sp, wait, ev, ok, ls) ==
    [cl |-> cs, unk |-> unk, ctl |-> cts, list |-> list, count |-> count,
     spin |-> sp, wait |-> wait, ev |-> ev, ok |-> ok, lis |-> ls]

Locals(e, cs, unk, ls) ==
    Server(cs, unk, e.ctl, e.list, e.count, e.spin, e.wait, e.ev, e.ok, ls)
Daemons(e, cts, list, count) ==
    Server(e.cl, e.unk, cts, list, count, e.spin, e.wait, e.ev, e.ok, e.lis)
Timers(e, sp, wait, ev) ==
    Server(e.cl, e.unk, e.ctl, e.list, e.count, sp, wait, ev, e.ok, e.lis)
Secured(e, ok) ==
    Server(e.cl, e.unk, e.ctl, e.list, e.count, e.spin, e.wait, e.ev, ok, e.lis)

Here == Server(cl, unknown_list, ctl, ssl_daemons, ssld_count, spin, ssld_wait, restart_ev,
               ircd_ssl_ok, lis)

Commit(e) ==
    /\ cl' = e.cl /\ unknown_list' = e.unk /\ ctl' = e.ctl /\ ssl_daemons' = e.list
    /\ ssld_count' = e.count /\ spin' = e.spin /\ ssld_wait' = e.wait
    /\ restart_ev' = e.ev /\ ircd_ssl_ok' = e.ok /\ lis' = e.lis

\* A handler ends in one of its outcomes.
Do(S) == \E e \in S : Commit(e)

\* A helper with another number of clients or other commands to send; only
\* helper k changes.
Serving(h, n) == [h EXCEPT !.cli_count = n]
Writing(h, q) == [h EXCEPT !.writeq = q]
Only(e, k, h) == Daemons(e, [e.ctl EXCEPT ![k] = h], e.list, e.count)

\* A listener with another number of clients.
Referred(l, n) == [l EXCEPT !.ref_count = n]

\* A client in another state, and only client c changes.
Being(x, st) == [x EXCEPT !.st = st]
Changed(e, c, x) == Locals(e, [e.cl EXCEPT ![c] = x], e.unk, e.lis)

-----------------------------------------------------------------------------
(* Helpers: start, death, removal.                                         *)

\* The process is gone, with all it held and all that was under way to it.
Gone(h) == [st |-> h.st, cli_count |-> h.cli_count, writeq |-> h.writeq,
            proc |-> "gone", inq |-> <<>>, outq |-> h.outq, conn |-> NoConns]

\* The server takes it for dead; what it said last is not read any more.
Killed(h) == [st |-> "dead", cli_count |-> h.cli_count, writeq |-> h.writeq,
              proc |-> "gone", inq |-> <<>>, outq |-> <<>>, conn |-> NoConns]

Started(ok) == [st |-> "live", cli_count |-> 0, writeq |-> <<>>, proc |-> "up",
                inq |-> IF ok THEN <<Keys>> ELSE <<>>, outq |-> <<>>, conn |-> NoConns]

LiveOnes(e) == {k \in Ctls : e.ctl[k].st = "live"}

\* The helpers that were started so far are 1..n.
Begun(e) == Cardinality({k \in Ctls : e.ctl[k].st # "unused"})

\* m new helpers; each goes to the head of the list.
allocate_ssl_daemon(e, m) ==
    LET n == Begun(e)
    IN Daemons(e, [k \in Ctls |-> IF k \in (n + 1)..(n + m) THEN Started(e.ok) ELSE e.ctl[k]],
               [i \in 1..m |-> ((n + m) + 1) - i] \o e.list, e.count + m)

\* Too many starts within five seconds are put off for a minute.  Of n helpers
\* those are started that come before fork or socketpair fails.
start_ssldaemon(e, n) ==
    LET left == NCtls - Begun(e)
        more == IF e.spin > MaxSpin THEN e.spin ELSE e.spin + 1
    IN IF e.wait THEN {e}
       ELSE {allocate_ssl_daemon(f, m) : f \in {Timers(e, more, e.wait, e.ev)},
                                         m \in 0..(IF n < left THEN n ELSE left)}
              \cup IF e.spin > MaxSpin THEN {Timers(e, e.spin, TRUE, TRUE)} ELSE {}

ssl_dead(e, k) ==
    IF e.ctl[k].st # "live" THEN {e}
    ELSE UNION {start_ssldaemon(f, 1) :
                   f \in {Daemons(e, [e.ctl EXCEPT ![k] = Killed(@)], e.list, e.count - 1)}}

ssl_killall_Again(e) ==
    LET all == {k \in Ctls : e.ctl[k].st \in {"live", "dead"}}
    IN Daemons(e, [k \in Ctls |-> IF k \in all THEN Killed(e.ctl[k]) ELSE e.ctl[k]],
               e.list, e.count - Cardinality(all))

ssl_killall(e) ==
    Daemons(e, [k \in Ctls |-> IF k \in LiveOnes(e) THEN Killed(e.ctl[k]) ELSE e.ctl[k]],
            e.list, e.count - Cardinality(LiveOnes(e)))

\* free_ssl_daemon() of all ks: what is left in writeq is closed.
Freed(h) == [st |-> "freed", cli_count |-> h.cli_count, writeq |-> <<>>,
             proc |-> h.proc, inq |-> h.inq, outq |-> h.outq, conn |-> h.conn]

free_ssl_daemon(e, ks) ==
    Daemons(e, [k \in Ctls |-> IF k \in ks THEN Freed(e.ctl[k]) ELSE e.ctl[k]],
            Without(e.list, ks), e.count)

Spare_Counted(e) == {k \in Ctls : e.ctl[k].st = "dead"}

\* The helpers nobody needs any more.
Spare(e) == {k \in Ctls : e.ctl[k].st = "dead" /\ e.ctl[k].cli_count = 0}

-----------------------------------------------------------------------------
(* Commands to a helper.                                                   *)

\* The commands of q at the places in S.
At(q, S) == LET places == Without([i \in DOMAIN q |-> i], DOMAIN q \ S)
            IN [n \in DOMAIN places |-> q[places[n]]]

ssl_write_ctl_Kept(e, k) ==
    LET h == e.ctl[k] IN
    IF h.st # "live" \/ h.writeq = <<>> \/ Len(h.inq) > 3 THEN {e}
    ELSE IF h.proc = "gone" THEN ssl_dead(e, k)
    ELSE {Only(e, k, [h EXCEPT !.inq = @ \o h.writeq])}

\* Every command is tried in turn; each is sent or would block.
Sent(h, S) ==
    [st |-> h.st, cli_count |-> h.cli_count, writeq |-> At(h.writeq, DOMAIN h.writeq \ S),
     proc |-> h.proc, inq |-> h.inq \o At(h.writeq, S), outq |-> h.outq, conn |-> h.conn]

ssl_write_ctl(e, k) ==
    LET h == e.ctl[k] IN
    IF h.st # "live" \/ h.writeq = <<>> THEN {e}
    ELSE IF h.proc = "gone" THEN ssl_dead(e, k)
    ELSE {Only(e, k, Sent(h, S)) : S \in SUBSET DOMAIN h.writeq}

ssl_cmd_write_queue(e, k, m) ==
    LET h == e.ctl[k] IN
    IF h.st # "live" THEN {e}
    ELSE ssl_write_ctl(Only(e, k, Writing(h, Append(h.writeq, m))), k)

\* A command to helper k: new keys, or for statistics ("S", which leaves
\* nothing behind but makes the server write what waits).
Told(e, k, cmd) ==
    IF cmd = "K" THEN ssl_cmd_write_queue(e, k, Keys)
    ELSE IF e.ctl[k].proc = "gone" THEN ssl_dead(e, k) ELSE ssl_write_ctl(e, k)

\* The outcomes of a command to each of ks in turn.
EachTold(e, ks, cmd) ==
    LET after[i \in 0..Len(ks)] ==
          IF i = 0 THEN {e} ELSE UNION {Told(f, ks[i], cmd) : f \in after[i - 1]}
    IN  after[Len(ks)]

send_new_ssl_certs(e) == EachTold(e, e.list, "K")

\* The first of the live helpers with the fewest clients.
which_ssld(e) ==
    LET alive == {i \in DOMAIN e.list : e.ctl[e.list[i]].st = "live"}
        least == {i \in alive : \A j \in alive :
                     e.ctl[e.list[i]].cli_count <= e.ctl[e.list[j]].cli_count}
    IN IF alive = {} THEN NULL
       ELSE e.list[CHOOSE i \in least : \A j \in least : i <= j]

\* The client is counted at helper k and the helper is asked to take it.
start_ssld(e, k, id) ==
    ssl_cmd_write_queue(Only(e, k, Serving(e.ctl[k], e.ctl[k].cli_count + 1)), k, Take(id))

-----------------------------------------------------------------------------
(* Local clients.                                                          *)

make_client(e, c, st) ==
    Locals(e, [e.cl EXCEPT ![c] = Being(NewClient, st)], e.unk \cup {c}, e.lis)

\* close_connection() and the move to dead_list, of all clients in gone.
Exited(x) == IF x.st \in Open THEN Being(x, "dead") ELSE x

exit_clients(e, gone) ==
    Locals(e, [c \in Clients |-> IF c \in gone THEN Exited(e.cl[c]) ELSE e.cl[c]],
           {c \in e.unk : c \in gone => e.cl[c].st \notin Open}, e.lis)

exit_client(e, c) == exit_clients(e, {c})

decremented_SSLOnly(e, gone, k) == Cardinality({c \in gone : e.cl[c].ssl = k})

\* What the clients in gone give back to helper k.
decremented(e, gone, k) ==
    Cardinality({c \in gone : e.cl[c].ssl = k})
      + Cardinality({c \in gone : e.cl[c].link = "zip" /\ e.cl[c].z = k})

\* n clients of a listener leave it; a closed one does not outlive the last.
Left(l, n) ==
    IF n > 0 /\ l.ref_count = n /\ l.st # "open" THEN NoListener
    ELSE Referred(l, l.ref_count - n)

\* free_local_client() of all clients in gone, up to the helpers that they were
\* the last to use.
free_clients(e, gone) ==
    Server([c \in Clients |-> IF c \in gone THEN Being(NewClient, "freed") ELSE e.cl[c]], e.unk,
           [k \in Ctls |-> Serving(e.ctl[k], e.ctl[k].cli_count - decremented(e, gone, k))],
           e.list, e.count, e.spin, e.wait, e.ev, e.ok,
           [l \in Ports |-> Left(e.lis[l], Cardinality({c \in gone : e.cl[c].listener = l}))])

\* What free_client() does when the connection never came about: it leaves
\* the node in unknown_list behind.
free_client(e, c) == Changed(e, c, Being(NewClient, "freed"))

-----------------------------------------------------------------------------
(* The server: connections come, register and go.                          *)

Unused == {c \in Clients : cl[c].st = "unused"}

\* The next client: connids are given in order.
Next_connid == CHOOSE c \in Unused : \A d \in Unused : c <= d

\* A new client knows its helper and its listener, which counts it.
Accepted(e, c, k, l) ==
    Locals(e, [e.cl EXCEPT ![c] = [st |-> "unknown", ssl |-> k, link |-> "plain", z |-> NULL,
                                   listener |-> l]],
           e.unk, [e.lis EXCEPT ![l] = Referred(@, @.ref_count + 1)])

\* accept_precallback() refuses an SSL connection that nobody can serve.
accept_callback(l) ==
    /\ Unused # {}
    /\ lis[l].st = "open"
    /\ l \in SSLPorts => ircd_ssl_ok /\ ssld_count > 0
    /\ LET c == Next_connid
           e == make_client(Here, c, "unknown")
           k == which_ssld(e)
       IN IF l \in SSLPorts
          THEN \/ Do({free_client(e, c)})            \* socketpair failed
               \/ k # NULL /\ Do({Accepted(f, c, k, l) : f \in start_ssld(e, k, <<c, "A">>)})
          ELSE Do({Accepted(e, c, NULL, l)})
    /\ UNCHANGED <<lost, up, rehashes>>

\* try_connections() or CONNECT, for a connect{} block with ssl.
serv_connect ==
    /\ Unused # {}
    /\ ircd_ssl_ok /\ ssld_count > 0
    /\ Do({make_client(Here, Next_connid, "connecting")})
    /\ UNCHANGED <<lost, up, rehashes>>

Greeting(x, k) == [st |-> "handshake", ssl |-> k, link |-> x.link, z |-> x.z,
                   listener |-> x.listener]

\* The connection came about; nothing is asked about the helpers again.  If
\* all are dead, both ends of the pair are closed and then the client is
\* exited, which closes one of them again.  serv_connect_callback() may also
\* find the server linked in, or its connect{} block gone.
serv_connect_ssl_callback(c) ==
    /\ cl[c].st = "connecting"
    /\ LET k == which_ssld(Here) IN
       IF k = NULL
       THEN /\ Do({exit_client(Here, c)})
            /\ up' \in BOOLEAN
       ELSE /\ LET S == {Changed(f, c, Greeting(f.cl[c], k)) :
                             f \in start_ssld(Here, k, <<c, "C">>)}
               IN Do(S \cup {exit_client(f, c) : f \in S})
            /\ UNCHANGED up
    /\ UNCHANGED <<lost, rehashes>>

Registered(e, c, st) ==
    Locals(e, [e.cl EXCEPT ![c] = Being(e.cl[c], st)], e.unk \ {c}, e.lis)

\* register_local_user().
register(c) ==
    /\ cl[c].st = "unknown"
    /\ Do({Registered(Here, c, "client")})
    /\ UNCHANGED <<lost, up, rehashes>>

Zipped(x, k) == [st |-> x.st, ssl |-> x.ssl, link |-> "zip", z |-> k, listener |-> x.listener]

\* The state of server_estab() of c that has started a session: the helper
\* gets the client's descriptor, the server keeps one end of a new pair.
\* Without a helper both descriptors stay open and nobody knows them.
start_zlib_session(e, c) ==
    LET k == which_ssld(e)
        f == Changed(e, c, Zipped(e.cl[c], k))
    IN IF k = NULL THEN {f} ELSE start_ssld(f, k, <<c, "Z">>)

server_estab(c, zip) ==
    /\ cl[c].st \in {"unknown", "handshake"}
    /\ zip => c \in Zips
    /\ Do({Registered(f, c, "server") :
              f \in IF zip THEN start_zlib_session(Here, c) ELSE {Here}})
    /\ lost' = IF zip /\ which_ssld(Here) = NULL THEN lost \cup {c} ELSE lost
    /\ UNCHANGED <<up, rehashes>>

\* Whatever ends an open connection: QUIT, KILL, SQUIT, an error or the end
\* of its descriptor, a connection that fails, a session that cannot be set
\* up, a timeout of check_pings() or check_unknowns_list().
Exit(c) ==
    /\ cl[c].st \in Open
    /\ Do({exit_client(Here, c)})
    /\ UNCHANGED <<lost, up, rehashes>>

\* check_unknowns_list() looks at every node, freed memory included.
check_unknowns_list ==
    /\ \E c \in unknown_list : cl[c].st = "freed"
    /\ up' = FALSE
    /\ UNCHANGED <<cl, unknown_list, ctl, ssl_daemons, ssld_count, spin, ssld_wait,
                   restart_ev, ircd_ssl_ok, lis, lost, rehashes>>

free_exited_clients ==
    LET gone == {c \in Clients : cl[c].st = "dead"} IN
    /\ gone # {}
    /\ Do({free_ssl_daemon(e, {k \in Spare(e) : decremented(Here, gone, k) > 0}) :
              e \in {free_clients(Here, gone)}})
    /\ UNCHANGED <<lost, up, rehashes>>

-----------------------------------------------------------------------------
(* The server: helpers.                                                    *)

\* What the replies q of a helper do, in their order: connections that are
\* dead are exited, and bad keys kill all helpers, this one too, so that
\* nothing more is read.
ssl_process_cmd_recv(e, q) ==
    LET bad == {i \in DOMAIN q : q[i].cmd = "I"}
        read == {i \in DOMAIN q : \A j \in bad : i < j}
        f == exit_clients(e, {q[i].id[1] : i \in read})
    IN IF bad = {} THEN f ELSE ssl_killall(Secured(f, FALSE))

Heard(h) == [h EXCEPT !.outq = <<>>]

ssl_read_ctl(k) ==
    /\ ctl[k].st = "live" /\ ctl[k].outq # <<>>
    /\ Do({ssl_process_cmd_recv(Only(Here, k, Heard(ctl[k])), ctl[k].outq)})
    /\ UNCHANGED <<lost, up, rehashes>>

\* The pipe tells that the process is gone.
ssl_do_pipe(k) ==
    /\ ctl[k].st = "live" /\ ctl[k].proc = "gone"
    /\ Do(ssl_dead(Here, k))
    /\ UNCHANGED <<lost, up, rehashes>>

flush(k) ==
    /\ ctl[k].st = "live" /\ ctl[k].writeq # <<>>
    /\ Do(ssl_write_ctl(Here, k))
    /\ UNCHANGED <<lost, up, rehashes>>

\* Every server with a session has its helper asked; a helper that is gone
\* is found out.  A session without a helper is a NULL dereference.
collect_zipstats ==
    LET zips == {c \in Clients : cl[c].st = "server" /\ cl[c].link = "zip"}
        asked == {cl[c].z : c \in zips}
    IN /\ zips # {}
       /\ Do(EachTold(Here, Without([k \in Ctls |-> k], Ctls \ asked), "S"))
       /\ up' = \A c \in zips : cl[c].z # NULL
       /\ UNCHANGED <<lost, rehashes>>

cleanup_dead_ssl ==
    /\ Spare(Here) # {}
    /\ Do({free_ssl_daemon(Here, Spare(Here))})
    /\ UNCHANGED <<lost, up, rehashes>>

\* Missing helpers are started.
top_up(e) == IF SsldCount > e.count THEN start_ssldaemon(e, SsldCount - e.count) ELSE {e}

restart_ssld_event ==
    /\ restart_ev
    /\ Do(top_up(Timers(Here, 0, FALSE, restart_ev)))
    /\ UNCHANGED <<lost, up, rehashes>>

-----------------------------------------------------------------------------
(* The server: REHASH.                                                     *)

close_listener(l) == IF l.ref_count = 0 THEN NoListener ELSE [l EXCEPT !.st = "closed"]

\* The listen{} blocks of the new configuration: S are those that could be
\* bound, the others are closed again.
listeners(e, S) ==
    Locals(e, e.cl, e.unk,
           [l \in Ports |-> IF l \in S THEN [st |-> "open", ref_count |-> e.lis[l].ref_count]
                            ELSE close_listener(e.lis[l])])

\* load_conf_settings(): the keys are tried here first and then sent.
load_conf_settings(e, good) ==
    LET f == Secured(e, good)
    IN UNION {top_up(g) : g \in IF good THEN send_new_ssl_certs(f) ELSE {f}}

rehash(S, good) ==
    /\ rehashes < MaxRehashes
    /\ rehashes' = rehashes + 1
    /\ Do(load_conf_settings(listeners(Here, S), good))
    /\ UNCHANGED <<lost, up>>

-----------------------------------------------------------------------------
(* A helper: ssld.c.                                                       *)

\* Only helper k's process moves: its own state becomes h.
Helper(k, h) ==
    /\ \E x \in {h} : ctl' = [ctl EXCEPT ![k] = x]
    /\ UNCHANGED <<cl, unknown_list, ssl_daemons, ssld_count, spin, ssld_wait, restart_ev,
                   ircd_ssl_ok, lis, lost, up, rehashes>>

Running(k) == ctl[k].st = "live" /\ ctl[k].proc = "up"

Carrying(h, id, s) == [h EXCEPT !.conn = [h.conn EXCEPT ![id] = s]]
Reading(h) == [h EXCEPT !.inq = Tail(h.inq)]
Saying(h, m) == [h EXCEPT !.outq = Append(h.outq, m)]

\* close_conn(): the far side is closed; with wait_plain the server is told,
\* and the near side stays until the server closes it.
close_conn(h, id, wait_plain) ==
    IF wait_plain THEN Saying(Carrying(h, id, "shut"), Dead(id)) ELSE Carrying(h, id, "none")

ssl_new_keys(h) == {h, Saying(h, BadKeys)}

\* ssl_process_accept(), ssl_process_connect(), zlib_process().
take(h, id) == Carrying(h, id, IF id[2] = "Z" THEN "open" ELSE "shaking")

\* One command: keys, which may be bad, or a connection.
mod_process_cmd_recv(k) ==
    /\ Running(k) /\ ctl[k].inq # <<>>
    /\ LET m == Head(ctl[k].inq)
           h == Reading(ctl[k])
       IN \E x \in IF m.cmd = "K" THEN ssl_new_keys(h) ELSE {take(h, m.id)} : Helper(k, x)

\* ssl_process_accept_cb() and ssl_process_connect_cb().
ssl_process_cb(k, id, ok) ==
    /\ Running(k) /\ ctl[k].conn[id] = "shaking"
    /\ Helper(k, IF ok THEN Carrying(ctl[k], id, "open")
                 ELSE close_conn(ctl[k], id, id[2] = "C"))

\* The other end is closed or fails: conn_mod_read_cb(), conn_mod_write_sendq()
\* and the errors of compression.
conn_mod_closed(k, id) ==
    /\ Running(k) /\ ctl[k].conn[id] = "open"
    /\ Helper(k, close_conn(ctl[k], id, TRUE))

\* The places where a connection may be held.
Queued(k, id) == Contains(ctl[k].writeq, Take(id)) \/ Contains(ctl[k].inq, Take(id))
Holds(k, id) == Queued(k, id) \/ ctl[k].conn[id] # "none"

\* The end that the server had of id's plain pair is closed: its own, or
\* (once a session was started) the one it gave away with it.
PlainClosed(id) ==
    LET c == id[1] IN
    /\ id[2] = "Z" \/ cl[c].link = "plain" => cl[c].st \notin Open
    /\ id[2] # "Z" => /\ c \notin lost
                      /\ \A k \in Ctls : /\ ~Queued(k, <<c, "Z">>)
                                         /\ ctl[k].conn[<<c, "Z">>] # "open"

conn_plain_closed_Open(k, id) ==
    /\ Running(k) /\ ctl[k].conn[id] = "open"
    /\ PlainClosed(id)
    /\ Helper(k, close_conn(ctl[k], id, FALSE))

\* conn_plain_read_cb() and conn_plain_read_shutdown_cb().
conn_plain_closed(k, id) ==
    /\ Running(k) /\ ctl[k].conn[id] \in {"open", "shut"}
    /\ PlainClosed(id)
    /\ Helper(k, close_conn(ctl[k], id, FALSE))

crash(k) == Running(k) /\ Helper(k, Gone(ctl[k]))

-----------------------------------------------------------------------------

Blank == Server([c \in Clients |-> NewClient], {}, [k \in Ctls |-> NewCtl], <<>>, 0, 0,
                FALSE, FALSE, FALSE, [l \in Ports |-> NoListener])

\* The server has read its configuration and SSL is set up.
Init ==
    /\ \E e \in load_conf_settings(listeners(Blank, Ports), TRUE) :
          /\ cl = e.cl /\ unknown_list = e.unk /\ ctl = e.ctl /\ ssl_daemons = e.list
          /\ ssld_count = e.count /\ spin = e.spin /\ ssld_wait = e.wait
          /\ restart_ev = e.ev /\ ircd_ssl_ok = e.ok /\ lis = e.lis
    /\ lost = {} /\ up = TRUE /\ rehashes = 0

ServerNext ==
    \/ \E l \in Ports : accept_callback(l)
    \/ serv_connect
    \/ \E c \in Clients : \/ serv_connect_ssl_callback(c)
                          \/ register(c)
                          \/ \E zip \in BOOLEAN : server_estab(c, zip)
                          \/ Exit(c)
    \/ check_unknowns_list
    \/ free_exited_clients
    \/ \E k \in Ctls : ssl_read_ctl(k) \/ ssl_do_pipe(k) \/ flush(k)
    \/ collect_zipstats
    \/ cleanup_dead_ssl
    \/ restart_ssld_event
    \/ \E S \in SUBSET Ports, good \in BOOLEAN : rehash(S, good)

HelperNext ==
    \E k \in Ctls :
       \/ mod_process_cmd_recv(k)
       \/ \E id \in Ids : \/ \E ok \in BOOLEAN : ssl_process_cb(k, id, ok)
                          \/ conn_mod_closed(k, id)
                          \/ conn_plain_closed(k, id)
       \/ crash(k)

Next == up /\ (ServerNext \/ HelperNext)

Spec == Init /\ [][Next]_vars

-----------------------------------------------------------------------------
(* Properties.                                                             *)

\* Every variable has its type; the counters of connections, helpers and
\* listeners' clients never go below 0 nor beyond what there is to count.
TypeOK ==
    /\ cl \in [Clients -> Client]
    /\ unknown_list \subseteq Clients
    /\ ctl \in [Ctls -> Ctl]
    /\ \A k \in Ctls : ctl[k].cli_count \in 0..(2 * NClients)
    /\ ssl_daemons \in Seq(Ctls)
    /\ ssld_count \in 0..NCtls /\ spin \in 0..(MaxSpin + 1)
    /\ ssld_wait \in BOOLEAN /\ restart_ev \in BOOLEAN /\ ircd_ssl_ok \in BOOLEAN
    /\ lis \in [Ports -> Listener]
    /\ \A l \in Ports : lis[l].ref_count \in 0..NClients
    /\ lost \subseteq Clients /\ up \in BOOLEAN /\ rehashes \in 0..MaxRehashes

\* The clients whose struct exists.
Existing == {c \in Clients : cl[c].st \in Open \cup {"dead"}}

\* ssld_decrement_clicount() and get_ssld_count(): however deaths, kills,
\* restarts and exits cross, a helper's cli_count is the number of clients
\* that will give it back, and ssld_count that of the helpers not dead.
CountsRight ==
    /\ \A k \in Ctls : ctl[k].st \in {"live", "dead"} =>
          ctl[k].cli_count = Cardinality({c \in Existing : cl[c].ssl = k})
                               + Cardinality({c \in Existing : cl[c].link = "zip" /\ cl[c].z = k})
    /\ ssld_count = Cardinality({k \in Ctls : ctl[k].st = "live"})

\* free_ssl_daemon(): no client that exists points to a helper that is freed,
\* and the list holds each helper that is not freed once.
CtlHeld ==
    /\ \A c \in Existing : \A k \in {cl[c].ssl, cl[c].z} \ {NULL} : ctl[k].st \in {"live", "dead"}
    /\ IsInjective(ssl_daemons)
    /\ ToSet(ssl_daemons) = {k \in Ctls : ctl[k].st \in {"live", "dead"}}

\* free_listener(): a listener is freed only when no client refers to it, and
\* a closed one does not outlive its last client, whatever REHASHes close and
\* open it again meanwhile.
ListenerHeld ==
    \A l \in Ports :
       LET users == {c \in Existing : cl[c].listener = l} IN
       /\ lis[l].ref_count = Cardinality(users)
       /\ (lis[l].st # "none") <=> (users # {} \/ lis[l].st = "open")

\* Nothing that clients refer to is freed under them, and nothing outlives its
\* last one: helpers (free_ssl_daemon()) and listeners (free_listener()), while
\* helpers die, clients exit and REHASHes close listeners in any order.
NothingFreedInUse == CtlHeld /\ ListenerHeld

\* How often helper h has the connection id.
Times(q, id) == Cardinality({i \in DOMAIN q : q[i] = Take(id)})
Copies(h, id) ==
    (Times(h.writeq, id) + Times(h.inq, id)) + IF h.conn[id] = "none" THEN 0 ELSE 1

\* A descriptor given to a helper is in one place only, a command not sent,
\* a command under way or a connection, and it is at the helper the client is
\* counted at as long as the client exists.
OneHolder ==
    \A id \in Ids :
       LET c == id[1]
           holders == {k \in Ctls : Copies(ctl[k], id) > 0}
       IN /\ Cardinality(holders) <= 1
          /\ \A k \in holders :
                /\ Copies(ctl[k], id) = 1
                /\ c \in Existing => k = IF id[2] = "Z" THEN cl[c].z ELSE cl[c].ssl

-----------------------------------------------------------------------------
(* Progress.  Assumed fair: the server's main loop (descriptors that are   *)
(* ready, events that recur, timeouts of clients that cannot be heard) and *)
(* the main loop of a helper with its handshake timeout of ten seconds.    *)

\* Nothing will be read from c any more: one of its helpers is dead, or has
\* let go of the far end.
Unheard(c) ==
    LET id == IF cl[c].link = "zip" THEN <<c, "Z">>
              ELSE IF cl[c].listener = NULL THEN <<c, "C">> ELSE <<c, "A">>
        k == IF cl[c].link = "zip" THEN cl[c].z ELSE cl[c].ssl
    IN \/ c \in lost
       \/ \E h \in {cl[c].ssl, cl[c].z} \ {NULL} : ctl[h].st = "dead"
       \/ k # NULL /\ ~Holds(k, id)

\* What the main loop of the server and that of helper k cannot put off.
ServerDuty ==
    /\ up
    /\ \/ \E c \in Clients : Unheard(c) /\ Exit(c)
       \/ free_exited_clients
       \/ cleanup_dead_ssl
       \/ \E k \in Ctls : \/ ssl_do_pipe(k)
                          \/ flush(k) /\ ctl'[k].writeq = <<>>

HelperDuty(k) ==
    /\ up
    /\ \/ mod_process_cmd_recv(k)
       \/ \E id \in Ids : \/ \E ok \in BOOLEAN : ssl_process_cb(k, id, ok)
                          \/ conn_plain_closed(k, id)

Fairness == WF_vars(ServerDuty) /\ \A k \in Ctls : WF_vars(HelperDuty(k))

FairSpec == Spec /\ Fairness

\* The helpers found dead are all freed in the end: their clients cannot be
\* heard, so they time out, and the last of them, or cleanup_dead_ssl(), frees
\* the helper.
DeadFreed ==
    (\E k \in Ctls : ctl[k].st = "dead") ~> ((\A k \in Ctls : ctl[k].st # "dead") \/ ~up)

\* Helper k has something of a client that is gone.
Stray(k, id) == ctl[k].st \in {"live", "dead"} /\ Holds(k, id) /\ cl[id[1]].st = "freed" /\ id[1] \notin lost

\* No helper keeps a connection whose client is gone, whatever crossed its
\* exit: the command not sent yet, the handshake, the notice that the other
\* end closed.  The exception is a compressed link started when no helper was
\* left: start_zlib_session() drops the descriptor it had.
HelperReleases ==
    (\E k \in Ctls, id \in Ids : Stray(k, id))
       ~> ((\A k \in Ctls, id \in Ids : ~Stray(k, id)) \/ ~up)

=============================================================================
