------------------------------- MODULE NickTS -------------------------------
(***************************************************************************)
(* Nicknames and users across a network of ircd-ratbox servers (TS6).      *)
(*                                                                         *)
(* Every server keeps its own client table and exchanges, over FIFO server *)
(* links, the commands UID, NICK, QUIT, KILL, SAVE, SID and SQUIT.  Two    *)
(* users may take one nickname at the same time on two servers; the nick   *)
(* timestamps decide who loses, and the loser is killed or, where the      *)
(* server that notices has collision_fnc set, renamed to its UID.  Links   *)
(* come and go, and a new link starts with a burst of everything known.    *)
(*                                                                         *)
(* A handler is an operator on an effect record e, what the server s that  *)
(* runs it owns: e.row (its client table), e.srv (the servers it knows),   *)
(* e.q (its send queues), e.nd (its nick delay entries), e.abt (the local  *)
(* clients on abort_list), e.kld (those of them with FLAGS_KILLED) and     *)
(* e.cut (the link it closes).  Commit makes the record the next state.    *)
(*                                                                         *)
(* A local client whose socket fails on a write is put on abort_list and   *)
(* exits up to five seconds later; until then it keeps its place in every  *)
(* table and exit_client() does nothing to it.                             *)
(*                                                                         *)
(* Abstracted: user modes, idents and hosts other than whether two users   *)
(* have the same user@host, whether a nickname is well formed or resv'd,   *)
(* the flood limit on nick changes, TS5 links, fake (service) clients.     *)
(***************************************************************************)
EXTENDS Naturals, Sequences, FiniteSets, Functions

CONSTANTS
    Servers,      \* the servers
    Uids,         \* the users, named by the UID generate_uid() will give
    Nicks,        \* the nicknames users ask for
    Home,         \* Home[u]: the server user u connects to
    UserHost,     \* UserHost[u]: u's user@host
    Links,        \* the pairs {s, t} configured with a connect{} block
    Fnc,          \* the servers with general::collision_fnc = yes
    NickDelay,    \* whether general::nick_delay > 0
    Opers,        \* the users who are IRC operators
    Faulty,       \* the users whose sockets may fail on a write
    Skew,         \* Skew[s]: how far the clock of s is ahead
    SAVE_NICKTS,  \* the TS of a saved user, older than any clock
    MaxTime,      \* bound: the last clock tick
    MaxOps,       \* bound: user commands that create work
    MaxUps,       \* bound: links established
    MaxDowns      \* bound: links lost by error or by SQUIT

ASSUME ConstAssumption ==
    /\ IsFiniteSet(Servers) /\ IsFiniteSet(Uids)
    /\ Servers \cap Uids = {} /\ Nicks \cap Uids = {}
    /\ Home \in [Uids -> Servers]
    /\ Opers \subseteq Uids /\ Faulty \subseteq Uids
    /\ Links \subseteq SUBSET Servers
    /\ Skew \in [Servers -> Nat]
    /\ SAVE_NICKTS \in Nat \ {0}
    /\ MaxTime \in Nat /\ MaxOps \in Nat /\ MaxUps \in Nat /\ MaxDowns \in Nat

VARIABLES
    tab,      \* tab[s][u]: the client u in the tables of server s
    srv,      \* srv[s][t]: the servptr chain from s to t, <<>> if unknown
    chan,     \* chan[s][t]: what s has sent to t and t has not read
    nd,       \* nd[s]: the names with a nick delay entry
    abort_list, \* abort_list[s]: local clients waiting for their exit
    killed,   \* killed[s]: those of them with FLAGS_KILLED
    spent,    \* the UIDs generate_uid() has handed out
    claims,   \* history: every <<user, nickname, TS>> a local user took
    now,      \* the time, counted from just after SAVE_NICKTS
    ops,      \* user commands so far
    ups,      \* links established so far
    downs     \* links lost so far

vars == <<tab, srv, chan, nd, abort_list, killed, spent, claims, now, ops, ups, downs>>

-----------------------------------------------------------------------------
(* Messages and the state of one server.                                   *)

Names == Nicks \cup Uids

Msg ==
    [cmd: {"UID"}, pre: Servers, u: Uids, nick: Names, ts: Nat]
      \cup [cmd: {"NICK"}, pre: Uids, nick: Names, ts: Nat]
      \cup [cmd: {"QUIT"}, pre: Uids]
      \cup [cmd: {"KILL"}, pre: Servers \cup Uids, u: Uids]
      \cup [cmd: {"SAVE"}, pre: Servers, u: Uids, ts: Nat]
      \cup [cmd: {"SID"}, pre: Servers, sid: Servers]
      \cup [cmd: {"SQUIT"}, pre: Servers \cup Uids, sid: Servers]
      \cup [cmd: {"SERVER"}]
      \cup [cmd: {"EOF"}]

UID(s, u, c)    == [cmd |-> "UID", pre |-> s, u |-> u, nick |-> c.nick, ts |-> c.ts]
NICK(u, n, ts)  == [cmd |-> "NICK", pre |-> u, nick |-> n, ts |-> ts]
QUIT(u)         == [cmd |-> "QUIT", pre |-> u]
KILL(p, u)      == [cmd |-> "KILL", pre |-> p, u |-> u]
SAVE(s, u, ts)  == [cmd |-> "SAVE", pre |-> s, u |-> u, ts |-> ts]
SID(s, x)       == [cmd |-> "SID", pre |-> s, sid |-> x]
SQUIT(p, x)     == [cmd |-> "SQUIT", pre |-> p, sid |-> x]
SERVER          == [cmd |-> "SERVER"]
EOF             == [cmd |-> "EOF"]

\* A slot of the client table: no such client, a connection that has sent
\* NICK but is not registered (IsUnknown), or a user (IsClient).
Client == [st: {"none", "unknown", "client"}, nick: Names, ts: Nat]

Gone(u)        == [st |-> "none", nick |-> u, ts |-> 0]
User(n, ts)    == [st |-> "client", nick |-> n, ts |-> ts]
Unknown(n, ts) == [st |-> "unknown", nick |-> n, ts |-> ts]

Here(s) == [row |-> tab[s], srv |-> srv[s], q |-> chan[s], nd |-> nd[s],
            abt |-> abort_list[s], kld |-> killed[s], cut |-> {}]

IsClient(e, u) == e.row[u].st = "client"
MyClient(s, u) == Home[u] = s

\* rb_current_time() on s.
Clock(s) == SAVE_NICKTS + 1 + now + Skew[s]

\* The links in serv_list, and the link (the "from" field) that a known
\* server or user of another server is reached through.
serv_list(e)   == {t \in Servers : e.srv[t] = <<t>>}
FromOf(e, p)   == Head(e.srv[IF p \in Uids THEN Home[p] ELSE p])

\* The clients of the hash table HASH_CLIENT that hold a nickname.  Where a
\* client on abort_list shares one, the other was added later and is found.
Holders(e, n) == {u \in Uids : e.row[u].st # "none" /\ e.row[u].nick = n}

find_client(e, n) ==
    CHOOSE v \in Holders(e, n) : v \notin e.abt \/ Holders(e, n) \subseteq e.abt

-----------------------------------------------------------------------------
(* Sending.                                                                *)

Send(e, to, m) ==
    [e EXCEPT !.q = [t \in Servers |->
                        IF t \in to THEN Append(e.q[t], m) ELSE e.q[t]]]

\* To every link but one.
sendto_server(e, one, m) == Send(e, serv_list(e) \ {one}, m)

\* With UIDs on both sides the KILL also goes back to the link it is about.
kill_client_serv_butone(s, e, u) == Send(e, serv_list(e), KILL(s, u))

-----------------------------------------------------------------------------
(* Clients entering, leaving and changing name.                            *)

Put(e, u, c) == [e EXCEPT !.row[u] = c]

free_nd(e, n) == [e EXCEPT !.nd = @ \ {n}]

\* A client leaves, unless it is on abort_list (IsClosing).  FLAGS_KILLED, set
\* when a KILL announced it, stops the QUIT.
exit_quietly(e, u) == IF u \in e.abt THEN e ELSE Put(e, u, Gone(u))

exit_killed(e, u) ==
    exit_quietly(IF u \in e.abt THEN [e EXCEPT !.kld = @ \cup {u}] ELSE e, u)

exit_user(e, one, u) ==
    exit_quietly(IF u \in e.abt THEN e ELSE sendto_server(e, one, QUIT(u)), u)

\* Killed by this server everywhere.
kill_user(s, e, u) == exit_killed(kill_client_serv_butone(s, e, u), u)

introduce_client(e, one, u) ==
    sendto_server(e, one, UID(Home[u], u, e.row[u]))

register_client(e, t, u, n, ts) ==
    introduce_client(free_nd(Put(e, u, User(n, ts)), n), t, u)

\* Mutant: the TS of the old nickname is kept.
change_remote_nick_OldTS(e, t, u, ts, n) ==
    LET c == User(n, e.row[u].ts)
    IN  free_nd(Put(sendto_server(e, t, NICK(u, n, c.ts)), u, c), n)

\* A change to the name it has (irccmp) keeps the TS.
change_remote_nick(e, t, u, ts, n) ==
    LET c == User(n, IF e.row[u].nick = n THEN e.row[u].ts ELSE ts)
    IN  free_nd(Put(sendto_server(e, t, NICK(u, n, c.ts)), u, c), n)

\* Mutant: the SAVE carries the TS the user gets.
save_user_NewTS(s, e, one, by, u) ==
    Put(sendto_server(e, one, SAVE(by, u, SAVE_NICKTS)), u, User(u, SAVE_NICKTS))

\* The SAVE carries the TS the user had; the rename itself is not sent.
save_user(s, e, one, by, u) ==
    LET e1 == Put(sendto_server(e, one, SAVE(by, u, e.row[u].ts)),
                  u, User(u, SAVE_NICKTS))
    IN  IF MyClient(s, u) THEN e1 ELSE free_nd(e1, u)

\* A server and everything behind it disappear.  Links that did not report
\* the split (one) and are not its direction get a SQUIT; a remote server's
\* own direction gets one too unless the split came from there.
Behind(e, x) == {y \in Servers : x \in Range(e.srv[y])}

\* Mutant: the servers are removed and their users are left.
recurse_remove_clients_KeepUsers(e, x) ==
    [e EXCEPT !.srv = [y \in Servers |-> IF y \in Behind(e, x) THEN <<>> ELSE e.srv[y]]]

recurse_remove_clients(e, x) ==
    LET lost == {u \in Uids : IsClient(e, u) /\ Home[u] \in Behind(e, x)}
    IN  [e EXCEPT !.row = [u \in Uids |-> IF u \in lost THEN Gone(u) ELSE e.row[u]],
                  !.srv = [y \in Servers |-> IF y \in Behind(e, x) THEN <<>> ELSE e.srv[y]],
                  !.nd  = IF NickDelay THEN @ \cup {e.row[u].nick : u \in lost} ELSE @]

\* Mutant: the other links are not told.
exit_server_Silent(s, e, one, by, x) ==
    LET e2 == recurse_remove_clients(e, x)
    IN  IF e.srv[x] = <<x>> THEN [e2 EXCEPT !.cut = {x}] ELSE e2

exit_server(s, e, one, by, x) ==
    LET e1 == Send(e, serv_list(e) \ {FromOf(e, x), one}, SQUIT(s, x))
        e2 == recurse_remove_clients(e1, x)
    IN  CASE e.srv[x] = <<x>> -> [e2 EXCEPT !.cut = {x}]
          [] e.srv[x] # <<x>> /\ FromOf(e, x) # one -> Send(e2, {FromOf(e, x)}, SQUIT(by, x))
          [] OTHER -> e2

-----------------------------------------------------------------------------
(* Nick collisions.  use_save is collision_fnc: every server here offers   *)
(* the SAVE capability, so can_save() holds along every path.              *)

use_save(s) == s \in Fnc

sameuser(u, v) == UserHost[u] = UserHost[v]

\* With different user@hosts the younger TS loses, with the same the older.
NewerLoses(u, ts, v, vts) == IF sameuser(u, v) THEN ts < vts ELSE ts > vts

\* Mutant: both users lose whatever their timestamps say.
perform_nick_collides_BothDie(s, e, t, m, v) ==
    kill_user(s, Send(e, {t}, KILL(s, m.u)), v)

\* Mutant: the newcomer is saved under the UID of the user it collides with.
perform_nick_collides_Mixed(s, e, t, m, v) ==
    IF use_save(s) THEN register_client(save_user(s, e, s, s, v), t, m.u, v, SAVE_NICKTS)
    ELSE kill_user(s, Send(e, {t}, KILL(s, m.u)), v)

\* Server t introduces u (message m) with the nickname of v.
perform_nick_collides(s, e, t, m, v) ==
    LET vts == e.row[v].ts
        save_new(f) == register_client(Send(f, {t}, SAVE(s, m.u, m.ts)),
                                       t, m.u, m.u, SAVE_NICKTS)
        kill_new(f) == Send(f, {t}, KILL(s, m.u))
    IN  CASE m.ts = vts ->
               IF use_save(s) THEN save_new(save_user(s, e, s, s, v))
                              ELSE kill_user(s, kill_new(e), v)
          [] m.ts # vts /\ NewerLoses(m.u, m.ts, v, vts) ->
               IF use_save(s) THEN save_new(e) ELSE kill_new(e)
          [] OTHER ->
               register_client(IF use_save(s) THEN save_user(s, e, s, s, v)
                                              ELSE kill_user(s, e, v),
                               t, m.u, m.nick, m.ts)

\* User u of server t's side changes to the nickname of v (message m).
perform_nickchange_collides(s, e, t, m, v) ==
    LET u   == m.pre
        vts == e.row[v].ts
        save_changer(f) ==
            LET g == Send(f, {t}, SAVE(s, u, m.ts))
            IN  IF f.row[u].nick \in Uids THEN g
                ELSE change_remote_nick(g, t, u, SAVE_NICKTS, u)
    IN  CASE m.ts = vts ->
               IF use_save(s) THEN save_changer(save_user(s, e, s, s, v))
               ELSE exit_killed(kill_user(s, kill_client_serv_butone(s, e, u), v), u)
          [] m.ts # vts /\ NewerLoses(u, m.ts, v, vts) ->
               IF use_save(s) THEN save_changer(e) ELSE kill_user(s, e, u)
          [] OTHER ->
               change_remote_nick(IF use_save(s) THEN save_user(s, e, s, s, v)
                                                 ELSE kill_user(s, e, v),
                                  t, u, m.ts, m.nick)

-----------------------------------------------------------------------------
(* Receiving.  parse() finds the client the prefix p names: a KILL or a    *)
(* SQUIT goes back for one that is not known, and a message that comes     *)
(* from the wrong direction is dropped.                                    *)

remove_unknown(s, e, t, p) ==
    Send(e, {t}, IF p \in Uids THEN KILL(s, p) ELSE SQUIT(s, p))

PrefixKnown(s, e, p) ==
    IF p \in Uids THEN IsClient(e, p) ELSE p = s \/ e.srv[p] # <<>>

PrefixLocal(s, p) == IF p \in Uids THEN MyClient(s, p) ELSE p = s

parse(s, e, t, p, handled) ==
    CASE ~PrefixKnown(s, e, p) -> remove_unknown(s, e, t, p)
      [] PrefixKnown(s, e, p) /\ ~PrefixLocal(s, p) /\ FromOf(e, p) = t -> handled
      [] OTHER -> e

\* Mutant: an unregistered holder of the nickname is overlooked.
Overridden_Overlooked(e, v) == e

\* A connection that holds the nickname without being registered gives way.
Overridden(e, v) == exit_quietly(e, v)

ms_uid(s, e, t, m) ==
    LET v == find_client(e, m.nick)
    IN  CASE Holders(e, m.nick) = {} -> register_client(e, t, m.u, m.nick, m.ts)
          [] Holders(e, m.nick) # {} /\ ~IsClient(e, v) ->
               register_client(Overridden(e, v), t, m.u, m.nick, m.ts)
          [] OTHER -> perform_nick_collides(s, e, t, m, v)

mc_nick(s, e, t, m) ==
    LET v == find_client(e, m.nick)
    IN  CASE Holders(e, m.nick) = {} -> change_remote_nick(e, t, m.pre, m.ts, m.nick)
          [] Holders(e, m.nick) # {} /\ ~IsClient(e, v) ->
               change_remote_nick(Overridden(e, v), t, m.pre, m.ts, m.nick)
          [] OTHER -> IF v = m.pre THEN e ELSE perform_nickchange_collides(s, e, t, m, v)

\* Mutant: a SAVE that changes nothing is passed on, and to every link.
ms_save_Echo(s, e, t, m) ==
    IF IsClient(e, m.u) THEN save_user(s, e, s, s, m.u) ELSE e

\* A SAVE is for the nickname that had this TS; later ones are left alone.
ms_save(s, e, t, m) ==
    IF IsClient(e, m.u) /\ e.row[m.u].nick \notin Uids /\ e.row[m.u].ts = m.ts
      THEN save_user(s, e, t, m.pre, m.u)
      ELSE e

ms_kill(e, t, m) ==
    IF IsClient(e, m.u)
      THEN exit_killed(sendto_server(e, t, KILL(m.pre, m.u)), m.u)
      ELSE e

ms_quit(e, t, m) == exit_user(e, t, m.pre)

\* Mutant: the introduction of a server that is known already is ignored.
ms_sid_Ignored(s, e, t, m) ==
    IF m.sid = s \/ e.srv[m.sid] # <<>>
      THEN e
      ELSE sendto_server([e EXCEPT !.srv[m.sid] = Append(e.srv[m.pre], m.sid)],
                         t, SID(m.pre, m.sid))

\* A server that is known already ends the link that introduces it.
ms_sid(s, e, t, m) ==
    IF m.sid = s \/ e.srv[m.sid] # <<>>
      THEN exit_server(s, e, s, s, t)
      ELSE sendto_server([e EXCEPT !.srv[m.sid] = Append(e.srv[m.pre], m.sid)],
                         t, SID(m.pre, m.sid))

\* A SQUIT for the receiver closes the link it came over.
ms_squit(s, e, t, m) ==
    LET x == IF m.sid = s THEN t ELSE m.sid
    IN  IF e.srv[x] = <<>> THEN e ELSE exit_server(s, e, t, m.pre, x)

\* The sequences that list a set once: global_serv_list and global_client_list
\* come in any order that has a server after the one it is behind.
Listings(S) == {b \in [1..Cardinality(S) -> S] : IsInjective(b)}

KnownServers(e) == {x \in Servers : e.srv[x] # <<>>}

UplinkFirst(e, b) ==
    \A i, j \in DOMAIN b : i < j => Len(e.srv[b[i]]) <= Len(e.srv[b[j]])

servptr(s, e, x) == LET p == e.srv[x] IN IF Len(p) = 1 THEN s ELSE p[Len(p) - 1]

\* Mutant: the burst has no users.
server_estab_NoUsers(s, e, t, sids, uids) ==
    LET e1 == sendto_server([e EXCEPT !.srv[t] = <<t>>], t, SID(s, t))
    IN  [e1 EXCEPT !.q[t] =
            @ \o [i \in DOMAIN sids |-> SID(servptr(s, e, sids[i]), sids[i])]]

\* The link becomes a server: announced to the others, then the burst.
server_estab(s, e, t, sids, uids) ==
    LET e1 == sendto_server([e EXCEPT !.srv[t] = <<t>>], t, SID(s, t))
    IN  [e1 EXCEPT !.q[t] =
            @ \o [i \in DOMAIN sids |-> SID(servptr(s, e, sids[i]), sids[i])]
              \o [i \in DOMAIN uids |-> UID(Home[uids[i]], uids[i], e.row[uids[i]])]]

-----------------------------------------------------------------------------
(* Actions.                                                                *)

Init ==
    /\ tab = [s \in Servers |-> [u \in Uids |-> Gone(u)]]
    /\ srv = [s \in Servers |-> [t \in Servers |-> <<>>]]
    /\ chan = [s \in Servers |-> [t \in Servers |-> <<>>]]
    /\ nd = [s \in Servers |-> {}]
    /\ abort_list = [s \in Servers |-> {}] /\ killed = [s \in Servers |-> {}]
    /\ spent = {} /\ claims = {}
    /\ now = 0 /\ ops = 0 /\ ups = 0 /\ downs = 0

\* A closed link: what s had not read is lost, its peer reads what the
\* kernel had taken of the queue and then end of file.  When the peer closed
\* first nothing is left of the link.
ClosedQueue(s, e, t, k) ==
    IF EOF \in Range(chan[t][s]) THEN <<>> ELSE Append(SubSeq(e.q[t], 1, k), EOF)

\* The handler of s that read a message from the links in rd did e.
Commit(s, rd, e) ==
    /\ tab' = [tab EXCEPT ![s] = e.row]
    /\ srv' = [srv EXCEPT ![s] = e.srv]
    /\ nd' = [nd EXCEPT ![s] = e.nd]
    /\ abort_list' = [abort_list EXCEPT ![s] = e.abt]
    /\ killed' = [killed EXCEPT ![s] = e.kld]
    /\ \E k \in IF e.cut = {} THEN {0} ELSE 0..Len(e.q[CHOOSE t \in e.cut : TRUE]) :
         chan' = [a \in Servers |-> [b \in Servers |->
             CASE a = s -> IF b \in e.cut THEN ClosedQueue(s, e, b, k) ELSE e.q[b]
               [] a # s /\ b = s /\ a \in e.cut -> <<>>
               [] a # s /\ b = s /\ a \in rd \ e.cut -> Tail(chan[a][b])
               [] OTHER -> chan[a][b]]]

Unchanged == UNCHANGED <<spent, claims, now, ops, ups, downs>>

\* s reads the message m of command c from its link t.
Reads(s, t, c) == /\ srv[s][t] = <<t>>
                  /\ chan[t][s] # <<>>
                  /\ Head(chan[t][s]).cmd = c

RecvUID(s, t) ==
    /\ Reads(s, t, "UID")
    /\ LET e == Here(s)  m == Head(chan[t][s])
       IN  Commit(s, {t}, parse(s, e, t, m.pre, ms_uid(s, e, t, m)))
    /\ Unchanged

RecvNICK(s, t) ==
    /\ Reads(s, t, "NICK")
    /\ LET e == Here(s)  m == Head(chan[t][s])
       IN  Commit(s, {t}, parse(s, e, t, m.pre, mc_nick(s, e, t, m)))
    /\ Unchanged

RecvSAVE(s, t) ==
    /\ Reads(s, t, "SAVE")
    /\ LET e == Here(s)  m == Head(chan[t][s])
       IN  Commit(s, {t}, parse(s, e, t, m.pre, ms_save(s, e, t, m)))
    /\ Unchanged

RecvKILL(s, t) ==
    /\ Reads(s, t, "KILL")
    /\ LET e == Here(s)  m == Head(chan[t][s])
       IN  Commit(s, {t}, parse(s, e, t, m.pre, ms_kill(e, t, m)))
    /\ Unchanged

RecvQUIT(s, t) ==
    /\ Reads(s, t, "QUIT")
    /\ LET e == Here(s)  m == Head(chan[t][s])
       IN  Commit(s, {t}, parse(s, e, t, m.pre, ms_quit(e, t, m)))
    /\ Unchanged

RecvSID(s, t) ==
    /\ Reads(s, t, "SID")
    /\ LET e == Here(s)  m == Head(chan[t][s])
       IN  Commit(s, {t}, parse(s, e, t, m.pre, ms_sid(s, e, t, m)))
    /\ Unchanged

RecvSQUIT(s, t) ==
    /\ Reads(s, t, "SQUIT")
    /\ LET e == Here(s)  m == Head(chan[t][s])
       IN  Commit(s, {t}, parse(s, e, t, m.pre, ms_squit(s, e, t, m)))
    /\ Unchanged

\* The peer closed the link, or gave up a handshake.
RecvEOF(s, t) ==
    /\ chan[t][s] # <<>> /\ Head(chan[t][s]) = EOF
    /\ LET e == Here(s)
       IN  Commit(s, {t}, IF e.srv[t] = <<t>> THEN exit_server(s, e, t, s, t)
                                              ELSE [e EXCEPT !.cut = {t}])
    /\ Unchanged

\* The peer's SERVER ends the handshake, unless the peer is known already.
RecvSERVER(s, t) ==
    /\ chan[t][s] # <<>> /\ Head(chan[t][s]) = SERVER
    /\ LET e == Here(s)
       IN  IF e.srv[t] # <<>>
             THEN Commit(s, {t}, [e EXCEPT !.cut = {t}])
             ELSE \E sids \in Listings(KnownServers(e)),
                     uids \in Listings({u \in Uids : IsClient(e, u)}) :
                    /\ UplinkFirst(e, sids)
                    /\ Commit(s, {t}, server_estab(s, e, t, sids, uids))
    /\ Unchanged

\* A connection between two servers that do not know each other, with the
\* PASS, CAPAB and SERVER lines on the way in both directions.
Connect(s, t) ==
    /\ {s, t} \in Links /\ s # t /\ ups < MaxUps
    /\ srv[s][t] = <<>> /\ srv[t][s] = <<>>
    /\ chan[s][t] = <<>> /\ chan[t][s] = <<>>
    /\ chan' = [chan EXCEPT ![s][t] = <<SERVER>>, ![t][s] = <<SERVER>>]
    /\ ups' = ups + 1
    /\ UNCHANGED <<tab, srv, nd, abort_list, killed, spent, claims, now, ops, downs>>

\* The link of s to t fails at s: a read or write error, the send queue
\* limit or a ping timeout.
Drop(s, t) ==
    /\ srv[s][t] = <<t>> /\ downs < MaxDowns
    /\ Commit(s, {}, exit_server(s, Here(s), s, s, t))
    /\ downs' = downs + 1
    /\ UNCHANGED <<spent, claims, now, ops, ups>>

\* A local connection of the given state that is still read from.
Active(s, u, st) == MyClient(s, u) /\ tab[s][u].st = st /\ u \notin abort_list[s]

mo_squit(s, o, x) ==
    /\ o \in Opers /\ Active(s, o, "client")
    /\ srv[s][x] # <<>> /\ downs < MaxDowns
    /\ Commit(s, {}, exit_server(s, Here(s), s, o, x))
    /\ downs' = downs + 1
    /\ UNCHANGED <<spent, claims, now, ops, ups>>

\* NICK before registration; a delayed or held nickname is refused.
mr_nick(s, u, n) ==
    /\ Active(s, u, "none") \/ Active(s, u, "unknown")
    /\ u \notin spent
    /\ ops < MaxOps
    /\ n \notin nd[s] /\ Holders(Here(s), n) = {}
    /\ Commit(s, {}, Put(Here(s), u, Unknown(n, Clock(s))))
    /\ claims' = claims \cup {<<u, n, Clock(s)>>}
    /\ ops' = ops + 1
    /\ UNCHANGED <<spent, now, ups, downs>>

\* USER (or the end of the auth queries) completes the registration.
register_local_user(s, u) ==
    /\ Active(s, u, "unknown")
    /\ LET c == tab[s][u]
       IN  Commit(s, {}, introduce_client(Put(Here(s), u, User(c.nick, c.ts)), s, u))
    /\ spent' = spent \cup {u}
    /\ UNCHANGED <<claims, now, ops, ups, downs>>

\* NICK of a registered local user.  The TS is forced to increase.
NewTS(s, u) == IF tab[s][u].ts >= Clock(s) THEN tab[s][u].ts + 1 ELSE Clock(s)

change_local_nick(s, u, n) ==
    Put(sendto_server(Here(s), s, NICK(u, n, NewTS(s, u))), u, User(n, NewTS(s, u)))

m_nick(s, u, n) ==
    /\ Active(s, u, "client") /\ ops < MaxOps
    /\ Holders(Here(s), n) = {}
    /\ Commit(s, {}, change_local_nick(s, u, n))
    /\ claims' = claims \cup {<<u, n, NewTS(s, u)>>}
    /\ ops' = ops + 1
    /\ UNCHANGED <<spent, now, ups, downs>>

\* A local connection goes, by QUIT, end of file or a read error.
m_quit(s, u) ==
    /\ \/ Active(s, u, "client") /\ Commit(s, {}, exit_user(Here(s), s, u))
       \/ Active(s, u, "unknown") /\ Commit(s, {}, exit_quietly(Here(s), u))
    /\ Unchanged

\* A write to a local client fails, or its send queue is over its limit.
dead_link(s, u) ==
    /\ u \in Faulty /\ (Active(s, u, "unknown") \/ Active(s, u, "client"))
    /\ Commit(s, {}, [Here(s) EXCEPT !.abt = @ \cup {u}])
    /\ Unchanged

\* Every client on abort_list exits, with a QUIT unless it was killed.
aborted(e, quits) ==
    [e EXCEPT !.row = [u \in Uids |-> IF u \in e.abt THEN Gone(u) ELSE e.row[u]],
              !.q = [t \in Servers |->
                        IF t \in serv_list(e) THEN e.q[t] \o [i \in DOMAIN quits |-> QUIT(quits[i])]
                                              ELSE e.q[t]],
              !.abt = {}, !.kld = {}]

exit_aborted_clients(s) ==
    /\ abort_list[s] # {}
    /\ LET e == Here(s)
       IN  \E quits \in Listings({u \in e.abt \ e.kld : IsClient(e, u)}) :
             Commit(s, {}, aborted(e, quits))
    /\ Unchanged

mo_kill(s, o, u) ==
    /\ o \in Opers /\ Active(s, o, "client")
    /\ tab[s][u].st = "client" /\ ops < MaxOps
    /\ Commit(s, {}, IF MyClient(s, u) THEN exit_user(Here(s), s, u)
                     ELSE exit_killed(sendto_server(Here(s), s, KILL(o, u)), u))
    /\ ops' = ops + 1
    /\ UNCHANGED <<spent, claims, now, ups, downs>>

expire_nd_entries(s, n) ==
    /\ n \in nd[s]
    /\ nd' = [nd EXCEPT ![s] = @ \ {n}]
    /\ UNCHANGED <<tab, srv, chan, abort_list, killed, spent, claims, now, ops, ups, downs>>

Tick ==
    /\ now < MaxTime
    /\ now' = now + 1
    /\ UNCHANGED <<tab, srv, chan, nd, abort_list, killed, spent, claims, ops, ups, downs>>

Receive(s, t) ==
    \/ RecvUID(s, t)  \/ RecvNICK(s, t)  \/ RecvSAVE(s, t)
    \/ RecvKILL(s, t) \/ RecvQUIT(s, t)  \/ RecvSID(s, t)
    \/ RecvSQUIT(s, t) \/ RecvEOF(s, t)  \/ RecvSERVER(s, t)

Local(s) ==
    \/ \E u \in Uids, n \in Nicks : mr_nick(s, u, n) \/ m_nick(s, u, n)
    \/ \E u \in Uids : register_local_user(s, u) \/ m_quit(s, u) \/ dead_link(s, u)
    \/ exit_aborted_clients(s)
    \/ \E o, u \in Uids : mo_kill(s, o, u)
    \/ \E o \in Uids, x \in Servers : mo_squit(s, o, x)
    \/ \E n \in Names : expire_nd_entries(s, n)

Next ==
    \/ \E s, t \in Servers : Receive(s, t) \/ Connect(s, t) \/ Drop(s, t)
    \/ \E s \in Servers : Local(s)
    \/ Tick

Spec == Init /\ [][Next]_vars

-----------------------------------------------------------------------------
(* Properties.                                                             *)

\* Every table, queue and counter holds what its declaration says; a client
\* that bears a UID as nickname bears its own, whichever of the two users of a
\* collision was saved (save_user(), perform_nick_collides(), m_nick.c).
TypeOK ==
    /\ tab \in [Servers -> [Uids -> Client]]
    /\ \A s \in Servers, u \in Uids : tab[s][u].nick \in Nicks \cup {u}
    /\ srv \in [Servers -> [Servers -> Seq(Servers)]]
    /\ chan \in [Servers -> [Servers -> Seq(Msg)]]
    /\ nd \in [Servers -> SUBSET Names]
    /\ abort_list \in [Servers -> SUBSET Uids] /\ killed \in [Servers -> SUBSET Uids]
    /\ spent \subseteq Uids
    /\ claims \subseteq Uids \X Nicks \X Nat
    /\ now \in Nat /\ ops \in Nat /\ ups \in Nat /\ downs \in Nat

\* On one server a nickname never belongs to two clients at a time, whatever
\* mixture of NICK, UID, SAVE, KILL and splits led there: every path that adds
\* a name to HASH_CLIENT first removed or renamed its holder.  Only a client
\* that waits on abort_list may share its nickname with one that won it.
NickUnique ==
    \A s \in Servers : \A u, v \in Uids \ abort_list[s] :
        /\ tab[s][u].st # "none" /\ tab[s][v].st # "none"
        /\ tab[s][u].nick = tab[s][v].nick
        => u = v

\* No UID is introduced to a server that already has it: register_client()
\* adds to HASH_ID without looking, so a second introduction would leave two
\* clients under one UID.
NoDuplicateUID ==
    \A s, t \in Servers :
        Reads(s, t, "UID") =>
            LET m == Head(chan[t][s])
            IN  PrefixKnown(s, Here(s), m.pre) /\ FromOf(Here(s), m.pre) = t
                  => tab[s][m.u].st # "client"

\* Nothing in flight and nobody waiting for its exit.
Quiet == \A s \in Servers : /\ \A t \in Servers : chan[s][t] = <<>>
                            /\ abort_list[s] = {}

Users(s) == {u \in Uids : tab[s][u].st = "client"}

Known(s) == {x \in Servers : srv[s][x] # <<>>} \cup {s}

\* When nothing is in flight, servers that reach each other know the same
\* servers and the same users: no ghost survives a split, a KILL or a QUIT.
UsersAgree ==
    Quiet => \A s, t \in Servers :
        srv[s][t] # <<>> => Known(s) = Known(t) /\ Users(s) = Users(t)

\* When nothing is in flight, each server's picture of the network is the one
\* spanning tree: a link of a known server is seen from everywhere, in the place
\* where it is, and no two links close a loop, whichever links came up at once
\* (ms_sid and ms_server refuse the introduction that would close one).
OneTree ==
    Quiet => \A s, t, x \in Servers :
        /\ srv[t][x] = <<x>> => srv[x][t] = <<t>>
        /\ srv[s][t] # <<>> /\ srv[t][x] = <<x>> /\ x # s
           => \/ srv[s][x] = Append(srv[s][t], x)
              \/ srv[s][t] = Append(srv[s][x], t)

\* When nothing is in flight, servers that reach each other know each user under
\* the same nickname with the same TS, which the comment on SAVE_NICKTS (m_nick.c)
\* promises.
NicksAgree ==
    Quiet => \A s, t \in Servers :
        srv[s][t] # <<>> => \A u \in Users(s) \cap Users(t) : tab[s][u] = tab[t][u]

\* Both over any number of hops: what a server in the middle relays, kills or
\* saves by itself, and the loss of a link under way, leave all that reach each
\* other with one picture of the network.
ServersAgree == UsersAgree /\ NicksAgree

\* c, a claim of one user to a nickname, loses or ties against claim d.
Beaten(c, d) ==
    /\ c[1] # d[1] /\ c[2] = d[2]
    /\ c[3] = d[3] \/ NewerLoses(c[1], c[3], d[1], d[3])

KilledByOper(s, u) ==
    \E o \in Opers :
        \/ mo_kill(s, o, u)
        \/ \E t \in Servers : Reads(s, t, "KILL") /\ Head(chan[t][s]) = KILL(o, u)

\* A user is taken off its own server, or loses its nickname there, only because
\* it quits, because its socket failed, because an oper kills it, or because some
\* other user made a claim to a nickname it has claimed that beats or ties it
\* (perform_nick_collides(), perform_nickchange_collides()).  This is about networks
\* without opers and splits: an oper's KILL that meets a server which has just
\* killed the oper is dropped by parse(), and its victim loses later without cause.
LossJustified ==
    [][\A u \in Uids : LET s == Home[u] IN
         /\ tab[s][u].st = "client"
         /\ tab'[s][u].st = "none" \/ (tab[s][u].nick # u /\ tab'[s][u].nick = u)
         => \/ m_quit(s, u)
            \/ u \in abort_list[s]
            \/ KilledByOper(s, u)
            \/ \E c, d \in claims : c[1] = u /\ Beaten(c, d)]_vars

\* Every storm of KILLs, SAVEs and SQUITs ends: once users and links are left
\* alone, every message sent is consumed and no answer starts another round.
StormsEnd == <>[]Quiet

FairSpec ==
    /\ Spec
    /\ \A s, t \in Servers : WF_vars(Receive(s, t))
    /\ \A s \in Servers : WF_vars(exit_aborted_clients(s))

=============================================================================
