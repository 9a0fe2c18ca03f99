---------------------------- MODULE NickTSProofs ----------------------------
(***************************************************************************)
(* For every network (any servers, users, nicknames, links, clocks and     *)
(* bounds): the types of NickTS, and that no server ever has two clients   *)
(* under one nickname, but for clients that wait on abort_list.            *)
(*                                                                         *)
(* The argument is about effect records.  EOK says that a record is well   *)
(* typed and its table has no two holders of a name; each handler of       *)
(* NickTS maps EOK records to EOK records (one lemma per operator, the     *)
(* proof of Put carrying the weight: the name must be free), and Commit    *)
(* turns an EOK record into a next state that satisfies the invariant.     *)
(* NickUnique alone is not inductive: a UID used as a nickname must be the *)
(* client's own, in the tables and in the messages on the way; and a       *)
(* client that waits on abort_list may keep the name a winner also has, so *)
(* find_client() must prefer the other one.                                *)
(***************************************************************************)
EXTENDS NickTS, SequenceTheorems, FiniteSetTheorems, TLAPS

-----------------------------------------------------------------------------
(* The inductive invariant.                                                *)

GoodMsg == {m \in Msg :
              /\ m.cmd = "UID" => m.nick \in Nicks \cup {m.u}
              /\ m.cmd = "NICK" => m.nick \in Nicks \cup {m.pre}}

RowOK(r, abt) ==
    /\ r \in [Uids -> Client]
    /\ \A u \in Uids : r[u].nick \in Nicks \cup {u}
    /\ \A u, v \in Uids \ abt :
                          /\ r[u].st # "none" /\ r[v].st # "none"
                          /\ r[u].nick = r[v].nick
                          => u = v

Effect == [row: [Uids -> Client], srv: [Servers -> Seq(Servers)],
           q: [Servers -> Seq(GoodMsg)], nd: SUBSET Names,
           abt: SUBSET Uids, kld: SUBSET Uids,
           cut: {{}} \cup {{x} : x \in Servers}]

EOK(e) == e \in Effect /\ RowOK(e.row, e.abt)

TablesOK ==
    /\ tab \in [Servers -> [Uids -> Client]]
    /\ \A s \in Servers : RowOK(tab[s], abort_list[s])
    /\ srv \in [Servers -> [Servers -> Seq(Servers)]]
    /\ chan \in [Servers -> [Servers -> Seq(GoodMsg)]]
    /\ nd \in [Servers -> SUBSET Names]
    /\ abort_list \in [Servers -> SUBSET Uids] /\ killed \in [Servers -> SUBSET Uids]

CountersOK ==
    /\ spent \subseteq Uids
    /\ claims \subseteq Uids \X Nicks \X Nat
    /\ now \in Nat /\ ops \in Nat /\ ups \in Nat /\ downs \in Nat

IInv == TablesOK /\ CountersOK

\* No client but u has the name n, unless it is on abort_list.
FreeFor(e, u, n) ==
    \A v \in Uids \ {u} : v \in e.abt \/ e.row[v].st = "none" \/ e.row[v].nick # n

\* v is a holder of n that find_client() may return.
Found(e, n, v) == /\ v \in Holders(e, n)
                  /\ v \notin e.abt \/ Holders(e, n) \subseteq e.abt

\* From e to f the client v left, was renamed to its UID or is on abort_list.
Yields(e, f, v) ==
    /\ f.abt = e.abt
    /\ \/ v \in e.abt /\ f.row = e.row
       \/ \E c \in Client : /\ f.row = [e.row EXCEPT ![v] = c]
                            /\ c.st = "none" \/ c.nick = v

-----------------------------------------------------------------------------
(* Messages.                                                               *)

\* The fields of a message of each command.
LEMMA MsgFields ==
    ASSUME NEW m \in GoodMsg
    PROVE  /\ m.cmd = "UID" => m.pre \in Servers /\ m.u \in Uids
                               /\ m.nick \in Nicks \cup {m.u} /\ m.ts \in Nat
           /\ m.cmd = "NICK" => m.pre \in Uids /\ m.nick \in Nicks \cup {m.pre}
                                /\ m.ts \in Nat
           /\ m.cmd = "QUIT" => m.pre \in Uids
           /\ m.cmd = "KILL" => m.pre \in Servers \cup Uids /\ m.u \in Uids
           /\ m.cmd = "SAVE" => m.pre \in Servers /\ m.u \in Uids /\ m.ts \in Nat
           /\ m.cmd = "SID" => m.pre \in Servers /\ m.sid \in Servers
           /\ m.cmd = "SQUIT" => m.pre \in Servers \cup Uids /\ m.sid \in Servers
  BY DEF GoodMsg, Msg

\* What the message constructors build is well formed.
LEMMA MsgTypes ==
    /\ \A s \in Servers, u \in Uids, c \in Client :
         c.nick \in Nicks \cup {u} => UID(s, u, c) \in GoodMsg
    /\ \A u \in Uids, ts \in Nat, n \in Names :
         n \in Nicks \cup {u} => NICK(u, n, ts) \in GoodMsg
    /\ \A u \in Uids : QUIT(u) \in GoodMsg
    /\ \A p \in Servers \cup Uids, u \in Uids : KILL(p, u) \in GoodMsg
    /\ \A s \in Servers, u \in Uids, ts \in Nat : SAVE(s, u, ts) \in GoodMsg
    /\ \A s, x \in Servers : SID(s, x) \in GoodMsg
    /\ \A p \in Servers \cup Uids, x \in Servers : SQUIT(p, x) \in GoodMsg
    /\ SERVER \in GoodMsg /\ EOF \in GoodMsg
  <1>1. \A s \in Servers, u \in Uids, c \in Client :
          c.nick \in Nicks \cup {u} => UID(s, u, c) \in GoodMsg
    BY DEF GoodMsg, Msg, UID, Client, Names
  <1>2. \A u \in Uids, ts \in Nat, n \in Names :
         n \in Nicks \cup {u} => NICK(u, n, ts) \in GoodMsg
    BY DEF GoodMsg, Msg, NICK, Names
  <1>3. /\ \A u \in Uids : QUIT(u) \in GoodMsg
        /\ \A p \in Servers \cup Uids, u \in Uids : KILL(p, u) \in GoodMsg
        /\ \A s \in Servers, u \in Uids, ts \in Nat : SAVE(s, u, ts) \in GoodMsg
    BY DEF GoodMsg, Msg, QUIT, KILL, SAVE
  <1>4. /\ \A s, x \in Servers : SID(s, x) \in GoodMsg
        /\ \A p \in Servers \cup Uids, x \in Servers : SQUIT(p, x) \in GoodMsg
        /\ SERVER \in GoodMsg /\ EOF \in GoodMsg
    BY DEF GoodMsg, Msg, SID, SQUIT, SERVER, EOF
  <1> QED BY <1>1, <1>2, <1>3, <1>4

\* A well formed message is a message.
LEMMA GoodMsgSeq == ASSUME NEW b \in Seq(GoodMsg) PROVE b \in Seq(Msg)
  <1>1. GoodMsg \subseteq Msg BY DEF GoodMsg
  <1> QED BY <1>1, SeqMonotonic

-----------------------------------------------------------------------------
(* The helpers keep an effect record sound.                                *)

\* Send appends to some queues and leaves the rest of the record alone.
LEMMA SendOK ==
    ASSUME NEW e, EOK(e), NEW to, NEW m \in GoodMsg
    PROVE  /\ EOK(Send(e, to, m))
           /\ Send(e, to, m).row = e.row /\ Send(e, to, m).srv = e.srv
           /\ Send(e, to, m).abt = e.abt
  <1>1. \A t \in Servers : Append(e.q[t], m) \in Seq(GoodMsg)
    BY AppendProperties DEF EOK, Effect
  <1>2. [t \in Servers |-> IF t \in to THEN Append(e.q[t], m) ELSE e.q[t]]
          \in [Servers -> Seq(GoodMsg)]
    BY <1>1 DEF EOK, Effect
  <1> QED BY <1>2 DEF Send, EOK, Effect

\* A client may be entered under a name no other client has.
LEMMA PutOK ==
    ASSUME NEW e, EOK(e), NEW u \in Uids, NEW c \in Client,
           c.nick \in Nicks \cup {u},
           c.st = "none" \/ FreeFor(e, u, c.nick)
    PROVE  /\ EOK(Put(e, u, c))
           /\ Put(e, u, c).row = [e.row EXCEPT ![u] = c]
           /\ Put(e, u, c).srv = e.srv /\ Put(e, u, c).abt = e.abt
  <1>1. Put(e, u, c) \in Effect /\ Put(e, u, c).row = [e.row EXCEPT ![u] = c]
        /\ Put(e, u, c).srv = e.srv /\ Put(e, u, c).abt = e.abt
    BY DEF Put, EOK, Effect
  <1>2. RowOK([e.row EXCEPT ![u] = c], e.abt)
    BY DEF EOK, Effect, RowOK, FreeFor
  <1> QED BY <1>1, <1>2 DEF EOK

\* Dropping a nick delay entry (free_nd_entry) keeps the record sound.
LEMMA FreeNdOK ==
    ASSUME NEW e, EOK(e), NEW n
    PROVE  /\ EOK(free_nd(e, n)) /\ free_nd(e, n).row = e.row
           /\ free_nd(e, n).srv = e.srv /\ free_nd(e, n).abt = e.abt
  BY DEF free_nd, EOK, Effect

\* The shape of the three client values the handlers write.
LEMMA ClientTypes ==
    ASSUME NEW u \in Uids
    PROVE  /\ Gone(u) \in Client /\ Gone(u).nick = u /\ Gone(u).st = "none"
           /\ \A n \in Names, ts \in Nat :
                /\ User(n, ts) \in Client /\ User(n, ts).nick = n /\ User(n, ts).ts = ts
                /\ Unknown(n, ts) \in Client /\ Unknown(n, ts).nick = n
  BY DEF Gone, User, Unknown, Client, Names

\* Only u may bear the name u.
LEMMA OwnName ==
    ASSUME NEW e, EOK(e), NEW u \in Uids
    PROVE  FreeFor(e, u, u)
  BY ConstAssumption DEF EOK, Effect, RowOK, FreeFor

\* Once the holder v that is found is removed, renamed to its UID or waiting on
\* abort_list, the name n is free.
LEMMA Vacated ==
    ASSUME NEW e, EOK(e), NEW u \in Uids, NEW n \in Nicks \cup {u},
           NEW v \in Uids, Found(e, n, v),
           NEW f, Yields(e, f, v)
    PROVE  FreeFor(f, u, n)
  <1>1. \A w \in Uids \ {v} : w \in e.abt \/ e.row[w].st = "none" \/ e.row[w].nick # n
    BY DEF Found, Holders, EOK, RowOK
  <1>2. CASE v \in e.abt /\ f.row = e.row
    BY <1>1, <1>2 DEF FreeFor, Yields
  <1>3. ASSUME NEW c \in Client, f.row = [e.row EXCEPT ![v] = c],
               c.st = "none" \/ c.nick = v
        PROVE  FreeFor(f, u, n)
    <2>1. \A w \in Uids : f.row[w] = IF w = v THEN c ELSE e.row[w]
      BY <1>3 DEF EOK, Effect
    <2>2. v # u => c.st = "none" \/ c.nick # n
      BY <1>3, ConstAssumption
    <2> QED BY <1>1, <1>3, <2>1, <2>2 DEF FreeFor, Yields
  <1> QED BY <1>2, <1>3 DEF Yields

\* A client that leaves without a message frees its name or is on abort_list.
LEMMA ExitQuietlyOK ==
    ASSUME NEW e, EOK(e), NEW u \in Uids
    PROVE  /\ EOK(exit_quietly(e, u))
           /\ Yields(e, exit_quietly(e, u), u)
  <1> DEFINE c == Gone(u)
  <1>1. c \in Client /\ c.nick = u /\ c.st = "none" BY ClientTypes
  <1>2. exit_quietly(e, u) = IF u \in e.abt THEN e ELSE Put(e, u, c)
    BY DEF exit_quietly
  <1> HIDE DEF c
  <1>3. EOK(Put(e, u, c)) /\ Put(e, u, c).row = [e.row EXCEPT ![u] = c]
        /\ Put(e, u, c).abt = e.abt
    BY <1>1, PutOK
  <1> QED BY <1>1, <1>2, <1>3 DEF Yields

\* The same for a client whose KILL is already sent.
LEMMA ExitKilledOK ==
    ASSUME NEW e, EOK(e), NEW u \in Uids
    PROVE  /\ EOK(exit_killed(e, u))
           /\ Yields(e, exit_killed(e, u), u)
  <1> DEFINE f == IF u \in e.abt THEN [e EXCEPT !.kld = @ \cup {u}] ELSE e
  <1>1. EOK(f) /\ f.row = e.row /\ f.abt = e.abt BY DEF EOK, Effect
  <1>2. exit_killed(e, u) = exit_quietly(f, u) BY DEF exit_killed
  <1> HIDE DEF f
  <1>3. EOK(exit_quietly(f, u)) /\ Yields(f, exit_quietly(f, u), u) BY <1>1, ExitQuietlyOK
  <1> QED BY <1>1, <1>2, <1>3 DEF Yields

\* A client that leaves with a QUIT (exit_client) keeps the record sound.
LEMMA ExitUserOK ==
    ASSUME NEW e, EOK(e), NEW one, NEW u \in Uids
    PROVE  EOK(exit_user(e, one, u))
  <1> DEFINE f == IF u \in e.abt THEN e ELSE sendto_server(e, one, QUIT(u))
  <1>1. EOK(f)
    BY SendOK, MsgTypes DEF sendto_server
  <1>2. exit_user(e, one, u) = exit_quietly(f, u) BY DEF exit_user
  <1> HIDE DEF f
  <1> QED BY <1>1, <1>2, ExitQuietlyOK

\* A client this server kills frees its name or is on abort_list.
LEMMA KillUserOK ==
    ASSUME NEW s \in Servers, NEW e, EOK(e), NEW u \in Uids
    PROVE  /\ EOK(kill_client_serv_butone(s, e, u))
           /\ EOK(kill_user(s, e, u))
           /\ Yields(e, kill_user(s, e, u), u)
  <1> DEFINE f == kill_client_serv_butone(s, e, u)
  <1>1. EOK(f) /\ f.row = e.row /\ f.abt = e.abt
    BY SendOK, MsgTypes DEF kill_client_serv_butone
  <1>2. kill_user(s, e, u) = exit_killed(f, u) BY DEF kill_user
  <1> HIDE DEF f
  <1>3. EOK(exit_killed(f, u)) /\ Yields(f, exit_killed(f, u), u) BY <1>1, ExitKilledOK
  <1>4. Yields(e, exit_killed(f, u), u) BY <1>1, <1>3 DEF Yields
  <1> QED BY <1>1, <1>2, <1>3, <1>4 DEF f

\* introduce_client() only adds a well formed UID to the queues.
LEMMA IntroduceOK ==
    ASSUME NEW e, EOK(e), NEW one, NEW u \in Uids
    PROVE  EOK(introduce_client(e, one, u))
  <1>1. UID(Home[u], u, e.row[u]) \in GoodMsg
    BY MsgTypes, ConstAssumption DEF EOK, Effect, RowOK
  <1> QED BY <1>1, SendOK DEF introduce_client, sendto_server

\* register_client() is sound when no other client has the name.
LEMMA RegisterClientOK ==
    ASSUME NEW e, EOK(e), NEW t, NEW u \in Uids, NEW n \in Nicks \cup {u},
           NEW ts \in Nat, FreeFor(e, u, n)
    PROVE  EOK(register_client(e, t, u, n, ts))
  <1> DEFINE f == Put(e, u, User(n, ts))
  <1>0. User(n, ts) \in Client /\ User(n, ts).nick = n BY ClientTypes DEF Names
  <1>1. EOK(f) BY <1>0, PutOK
  <1> HIDE DEF f
  <1>2. EOK(free_nd(f, n)) BY <1>1, FreeNdOK
  <1> QED BY <1>2, IntroduceOK DEF register_client, f

\* change_remote_nick() is sound when no other client has the name.
LEMMA ChangeRemoteNickOK ==
    ASSUME NEW e, EOK(e), NEW t, NEW u \in Uids, NEW n \in Nicks \cup {u},
           NEW ts \in Nat, FreeFor(e, u, n)
    PROVE  EOK(change_remote_nick(e, t, u, ts, n))
  <1> DEFINE x == IF e.row[u].nick = n THEN e.row[u].ts ELSE ts
             c == User(n, x)
             f == sendto_server(e, t, NICK(u, n, c.ts))
  <1>1. c \in Client /\ c.nick = n /\ c.ts \in Nat
    <2>1. x \in Nat BY DEF EOK, Effect, Client
    <2> HIDE DEF x
    <2> QED BY <2>1, ClientTypes DEF Names
  <1>2. EOK(f) /\ f.row = e.row /\ f.abt = e.abt
    <2>1. NICK(u, n, c.ts) \in GoodMsg
      <3> HIDE DEF c
      <3> QED BY <1>1, MsgTypes DEF Names
    <2> QED BY <2>1, SendOK DEF sendto_server
  <1>3. FreeFor(f, u, n) BY <1>2 DEF FreeFor
  <1>4. EOK(free_nd(Put(f, u, c), n))
    <2> HIDE DEF f, c
    <2>1. EOK(Put(f, u, c)) BY <1>1, <1>2, <1>3, PutOK
    <2> QED BY <2>1, FreeNdOK
  <1> QED BY <1>4 DEF change_remote_nick

\* save_user() moves a client to its own UID, which no other client bears.
LEMMA SaveUserOK ==
    ASSUME NEW s \in Servers, NEW e, EOK(e), NEW one, NEW by \in Servers, NEW u \in Uids
    PROVE  /\ EOK(save_user(s, e, one, by, u))
           /\ Yields(e, save_user(s, e, one, by, u), u)
  <1> DEFINE f == sendto_server(e, one, SAVE(by, u, e.row[u].ts))
             g == Put(f, u, User(u, SAVE_NICKTS))
  <1>1. EOK(f) /\ f.row = e.row /\ f.abt = e.abt
    <2>1. e.row[u].ts \in Nat BY DEF EOK, Effect, Client
    <2>2. SAVE(by, u, e.row[u].ts) \in GoodMsg BY <2>1, MsgTypes
    <2> QED BY <2>2, SendOK DEF sendto_server
  <1>2. EOK(g) /\ Yields(e, g, u)
    <2> HIDE DEF f
    <2> DEFINE c == User(u, SAVE_NICKTS)
    <2>1. c \in Client /\ c.nick = u
      BY ConstAssumption, ClientTypes DEF Names
    <2>2. FreeFor(f, u, u) BY <1>1, OwnName
    <2> HIDE DEF c
    <2>3. /\ EOK(Put(f, u, c)) /\ Put(f, u, c).row = [f.row EXCEPT ![u] = c]
          /\ Put(f, u, c).abt = f.abt
      BY <1>1, <2>1, <2>2, PutOK
    <2> QED BY <1>1, <2>1, <2>3 DEF c, Yields
  <1> HIDE DEF g
  <1>3. EOK(free_nd(g, u)) /\ free_nd(g, u).row = g.row /\ free_nd(g, u).abt = g.abt
    BY <1>2, FreeNdOK
  <1>4. save_user(s, e, one, by, u) = IF MyClient(s, u) THEN g ELSE free_nd(g, u)
    BY DEF save_user, g
  <1> QED BY <1>2, <1>3, <1>4 DEF Yields

\* A split removes users and servers and closes at most its own link.
LEMMA RemoveClientsOK ==
    ASSUME NEW e, EOK(e), NEW x \in Servers
    PROVE  EOK(recurse_remove_clients(e, x))
  <1> DEFINE lost == {u \in Uids : IsClient(e, u) /\ Home[u] \in Behind(e, x)}
             r == [u \in Uids |-> IF u \in lost THEN Gone(u) ELSE e.row[u]]
             p == [y \in Servers |-> IF y \in Behind(e, x) THEN <<>> ELSE e.srv[y]]
             d == IF NickDelay THEN e.nd \cup {e.row[u].nick : u \in lost} ELSE e.nd
  <1>1. RowOK(r, e.abt)
    <2>1. \A u \in Uids : r[u] = e.row[u] \/ r[u] = Gone(u)
      OBVIOUS
    <2> HIDE DEF r
    <2>2. r \in [Uids -> Client]
      BY ClientTypes DEF r, EOK, Effect
    <2> QED BY <2>1, <2>2, ClientTypes DEF EOK, RowOK
  <1>2. p \in [Servers -> Seq(Servers)] BY DEF EOK, Effect
  <1>3. d \subseteq Names BY DEF EOK, Effect, Client
  <1>4. recurse_remove_clients(e, x) = [e EXCEPT !.row = r, !.srv = p, !.nd = d]
    BY DEF recurse_remove_clients
  <1> HIDE DEF r, p, d
  <1>5. [e EXCEPT !.row = r, !.srv = p, !.nd = d] \in Effect
    BY <1>1, <1>2, <1>3 DEF EOK, Effect, RowOK
  <1>6. /\ [e EXCEPT !.row = r, !.srv = p, !.nd = d].row = r
        /\ [e EXCEPT !.row = r, !.srv = p, !.nd = d].abt = e.abt
    BY DEF EOK, Effect
  <1> QED BY <1>1, <1>4, <1>5, <1>6 DEF EOK

\* exit_client() on a server keeps the record sound.
LEMMA ExitServerOK ==
    ASSUME NEW s \in Servers, NEW e, EOK(e), NEW one, NEW by \in Servers \cup Uids,
           NEW x \in Servers
    PROVE  EOK(exit_server(s, e, one, by, x))
  <1> DEFINE e1 == Send(e, serv_list(e) \ {FromOf(e, x), one}, SQUIT(s, x))
             e2 == recurse_remove_clients(e1, x)
  <1>1. EOK(e1) BY SendOK, MsgTypes
  <1> HIDE DEF e1
  <1>2. EOK(e2) BY <1>1, RemoveClientsOK
  <1> HIDE DEF e2
  <1>3. EOK([e2 EXCEPT !.cut = {x}]) BY <1>2 DEF EOK, Effect
  <1>4. EOK(Send(e2, {FromOf(e, x)}, SQUIT(by, x))) BY <1>2, SendOK, MsgTypes
  <1> QED BY <1>2, <1>3, <1>4 DEF exit_server, e1, e2

-----------------------------------------------------------------------------
(* The collision rules.                                                    *)

\* However perform_nick_collides() decides, one client has the name after it.
LEMMA NickCollidesOK ==
    ASSUME NEW s \in Servers, NEW e, EOK(e), NEW t \in Servers, NEW m \in GoodMsg,
           m.cmd = "UID", NEW v \in Uids, Found(e, m.nick, v)
    PROVE  EOK(perform_nick_collides(s, e, t, m, v))
  <1>m. m.u \in Uids /\ m.nick \in Nicks \cup {m.u} /\ m.ts \in Nat
        /\ SAVE_NICKTS \in Nat
    BY MsgFields, ConstAssumption
  <1> DEFINE save_new(f) == register_client(Send(f, {t}, SAVE(s, m.u, m.ts)),
                                            t, m.u, m.u, SAVE_NICKTS)
             kill_new(f) == Send(f, {t}, KILL(s, m.u))
             saved == save_user(s, e, s, s, v)
             slain == kill_user(s, e, v)
  <1>1. ASSUME NEW f, EOK(f) PROVE EOK(save_new(f))
    <2> DEFINE g == Send(f, {t}, SAVE(s, m.u, m.ts))
    <2>1. EOK(g) BY <1>m, <1>1, SendOK, MsgTypes
    <2> HIDE DEF g
    <2>2. FreeFor(g, m.u, m.u) BY <1>m, <2>1, OwnName
    <2>3. EOK(register_client(g, t, m.u, m.u, SAVE_NICKTS))
      BY <1>m, <2>1, <2>2, RegisterClientOK
    <2> QED BY <2>3 DEF g
  <1>2. EOK(kill_new(e)) BY <1>m, SendOK, MsgTypes
  <1>3. EOK(saved) /\ Yields(e, saved, v) BY SaveUserOK
  <1>4. EOK(slain) /\ Yields(e, slain, v) BY KillUserOK
  <1>5. EOK(kill_user(s, kill_new(e), v))
    <2> HIDE DEF kill_new
    <2> QED BY <1>2, KillUserOK
  <1>6. EOK(register_client(saved, t, m.u, m.nick, m.ts))
    <2> HIDE DEF saved
    <2>1. FreeFor(saved, m.u, m.nick) BY <1>m, <1>3, Vacated
    <2> QED BY <1>m, <1>3, <2>1, RegisterClientOK
  <1>7. EOK(register_client(slain, t, m.u, m.nick, m.ts))
    <2> HIDE DEF slain
    <2>1. FreeFor(slain, m.u, m.nick) BY <1>m, <1>4, Vacated
    <2> QED BY <1>m, <1>4, <2>1, RegisterClientOK
  <1>8. EOK(save_new(e)) /\ EOK(save_new(saved)) BY <1>1, <1>3
  <1> QED BY <1>2, <1>5, <1>6, <1>7, <1>8 DEF perform_nick_collides

\* The same for perform_nickchange_collides(), where the changer is known already.
LEMMA NickChangeCollidesOK ==
    ASSUME NEW s \in Servers, NEW e, EOK(e), NEW t \in Servers, NEW m \in GoodMsg,
           m.cmd = "NICK", NEW v \in Uids, Found(e, m.nick, v)
    PROVE  EOK(perform_nickchange_collides(s, e, t, m, v))
  <1> DEFINE u == m.pre
             save_changer(f) ==
               LET g == Send(f, {t}, SAVE(s, u, m.ts))
               IN  IF f.row[u].nick \in Uids THEN g
                   ELSE change_remote_nick(g, t, u, SAVE_NICKTS, u)
             saved == save_user(s, e, s, s, v)
             slain == kill_user(s, e, v)
             both == exit_killed(kill_user(s, kill_client_serv_butone(s, e, u), v), u)
  <1>m. u \in Uids /\ m.nick \in Nicks \cup {u} /\ m.ts \in Nat
        /\ SAVE_NICKTS \in Nat
    BY MsgFields, ConstAssumption
  <1> HIDE DEF u
  <1>1. ASSUME NEW f, EOK(f) PROVE EOK(save_changer(f))
    <2> DEFINE g == Send(f, {t}, SAVE(s, u, m.ts))
    <2>1. EOK(g) BY <1>m, <1>1, SendOK, MsgTypes
    <2> HIDE DEF g
    <2>2. FreeFor(g, u, u) BY <1>m, <2>1, OwnName
    <2>3. EOK(change_remote_nick(g, t, u, SAVE_NICKTS, u))
      BY <1>m, <2>1, <2>2, ChangeRemoteNickOK
    <2> QED BY <2>1, <2>3 DEF g
  <1>3. EOK(saved) /\ Yields(e, saved, v) BY SaveUserOK
  <1>4. EOK(slain) /\ Yields(e, slain, v) BY KillUserOK
  <1>5. EOK(both)
    <2> DEFINE k == kill_client_serv_butone(s, e, u)
    <2>1. EOK(k) BY <1>m, KillUserOK
    <2> HIDE DEF k
    <2>2. EOK(kill_user(s, k, v)) BY <2>1, KillUserOK
    <2> QED BY <1>m, <2>2, ExitKilledOK DEF k
  <1>6. EOK(change_remote_nick(saved, t, u, m.ts, m.nick))
    <2> HIDE DEF saved
    <2>1. FreeFor(saved, u, m.nick) BY <1>m, <1>3, Vacated
    <2> QED BY <1>m, <1>3, <2>1, ChangeRemoteNickOK
  <1>7. EOK(change_remote_nick(slain, t, u, m.ts, m.nick))
    <2> HIDE DEF slain, saved, both, save_changer
    <2>1. FreeFor(slain, u, m.nick) BY <1>m, <1>4, Vacated
    <2> QED BY <1>m, <1>4, <2>1, ChangeRemoteNickOK
  <1>8. EOK(save_changer(e)) /\ EOK(save_changer(saved)) BY <1>1, <1>3
  <1>9. EOK(kill_user(s, e, u)) BY <1>m, KillUserOK
  <1> HIDE DEF saved, slain, both, save_changer
  <1> QED
    <2> DEFINE pick(a, b) == IF use_save(s) THEN a ELSE b
    <2>1. perform_nickchange_collides(s, e, t, m, v) \in
            {pick(save_changer(saved), both), pick(save_changer(e), kill_user(s, e, u)),
             change_remote_nick(pick(saved, slain), t, u, m.ts, m.nick)}
      BY DEF perform_nickchange_collides, saved, slain, both, save_changer, u
    <2> QED BY <2>1, <1>5, <1>6, <1>7, <1>8, <1>9

-----------------------------------------------------------------------------
(* The handlers.                                                           *)

\* An unregistered holder that gives way leaves the name free.
LEMMA OverriddenOK ==
    ASSUME NEW e, EOK(e), NEW u \in Uids, NEW n \in Nicks \cup {u},
           NEW v \in Uids, Found(e, n, v)
    PROVE  EOK(Overridden(e, v)) /\ FreeFor(Overridden(e, v), u, n)
  <1> DEFINE f == Overridden(e, v)
  <1>1. EOK(f) /\ Yields(e, f, v)
    BY ExitQuietlyOK DEF Overridden
  <1> HIDE DEF f
  <1>2. FreeFor(f, u, n) BY <1>1, Vacated
  <1> QED BY <1>1, <1>2 DEF f

\* find_client() returns a holder, and not one on abort_list if it can.
LEMMA FindClientOK ==
    ASSUME NEW e, NEW n, Holders(e, n) # {}
    PROVE  find_client(e, n) \in Uids /\ Found(e, n, find_client(e, n))
  <1>1. \E v \in Holders(e, n) : v \notin e.abt \/ Holders(e, n) \subseteq e.abt
    OBVIOUS
  <1> QED BY <1>1 DEF find_client, Found, Holders

\* ms_uid() keeps the record sound.
LEMMA MsUidOK ==
    ASSUME NEW s \in Servers, NEW e, EOK(e), NEW t \in Servers, NEW m \in GoodMsg,
           m.cmd = "UID"
    PROVE  EOK(ms_uid(s, e, t, m))
  <1>m. m.u \in Uids /\ m.nick \in Nicks \cup {m.u} /\ m.ts \in Nat
    BY MsgFields
  <1> DEFINE v == find_client(e, m.nick)
  <1>1. CASE Holders(e, m.nick) = {}
    <2>1. FreeFor(e, m.u, m.nick) BY <1>1 DEF Holders, FreeFor
    <2>2. EOK(register_client(e, t, m.u, m.nick, m.ts)) BY <1>m, <2>1, RegisterClientOK
    <2> QED BY <1>1, <2>2 DEF ms_uid
  <1>2. CASE Holders(e, m.nick) # {}
    <2>1. v \in Uids /\ Found(e, m.nick, v) BY <1>2, FindClientOK
    <2> HIDE DEF v
    <2> DEFINE f == Overridden(e, v)
    <2>2. EOK(f) /\ FreeFor(f, m.u, m.nick) BY <1>m, <2>1, OverriddenOK
    <2> HIDE DEF f
    <2>3. EOK(register_client(f, t, m.u, m.nick, m.ts)) BY <1>m, <2>2, RegisterClientOK
    <2>4. EOK(perform_nick_collides(s, e, t, m, v)) BY <2>1, NickCollidesOK
    <2> QED BY <1>2, <2>3, <2>4 DEF ms_uid, v, f
  <1> QED BY <1>1, <1>2

\* mc_nick() keeps the record sound.
LEMMA McNickOK ==
    ASSUME NEW s \in Servers, NEW e, EOK(e), NEW t \in Servers, NEW m \in GoodMsg,
           m.cmd = "NICK"
    PROVE  EOK(mc_nick(s, e, t, m))
  <1>m. m.pre \in Uids /\ m.nick \in Nicks \cup {m.pre} /\ m.ts \in Nat
    BY MsgFields
  <1> DEFINE v == find_client(e, m.nick)
  <1>1. CASE Holders(e, m.nick) = {}
    <2>1. FreeFor(e, m.pre, m.nick) BY <1>1 DEF Holders, FreeFor
    <2>2. EOK(change_remote_nick(e, t, m.pre, m.ts, m.nick))
      BY <1>m, <2>1, ChangeRemoteNickOK
    <2> QED BY <1>1, <2>2 DEF mc_nick
  <1>2. CASE Holders(e, m.nick) # {}
    <2>1. v \in Uids /\ Found(e, m.nick, v) BY <1>2, FindClientOK
    <2> HIDE DEF v
    <2> DEFINE f == Overridden(e, v)
    <2>2. EOK(f) /\ FreeFor(f, m.pre, m.nick) BY <1>m, <2>1, OverriddenOK
    <2> HIDE DEF f
    <2>3. EOK(change_remote_nick(f, t, m.pre, m.ts, m.nick))
      BY <1>m, <2>2, ChangeRemoteNickOK
    <2>4. EOK(perform_nickchange_collides(s, e, t, m, v)) BY <2>1, NickChangeCollidesOK
    <2> QED BY <1>2, <2>3, <2>4 DEF mc_nick, v, f
  <1> QED BY <1>1, <1>2

\* ms_save() keeps the record sound.
LEMMA MsSaveOK ==
    ASSUME NEW s \in Servers, NEW e, EOK(e), NEW t \in Servers, NEW m \in GoodMsg,
           m.cmd = "SAVE"
    PROVE  EOK(ms_save(s, e, t, m))
  <1>m. m.u \in Uids /\ m.pre \in Servers BY MsgFields
  <1>1. EOK(save_user(s, e, t, m.pre, m.u)) BY <1>m, SaveUserOK
  <1> QED BY <1>1 DEF ms_save

\* ms_kill() keeps the record sound.
LEMMA MsKillOK ==
    ASSUME NEW e, EOK(e), NEW t \in Servers, NEW m \in GoodMsg, m.cmd = "KILL"
    PROVE  EOK(ms_kill(e, t, m))
  <1>m. m.u \in Uids /\ m.pre \in Servers \cup Uids BY MsgFields
  <1> DEFINE f == sendto_server(e, t, KILL(m.pre, m.u))
  <1>1. EOK(f) BY <1>m, SendOK, MsgTypes DEF sendto_server
  <1> HIDE DEF f
  <1>2. EOK(exit_killed(f, m.u)) BY <1>m, <1>1, ExitKilledOK
  <1> QED BY <1>2 DEF ms_kill, f

\* ms_quit() keeps the record sound.
LEMMA MsQuitOK ==
    ASSUME NEW e, EOK(e), NEW t \in Servers, NEW m \in GoodMsg, m.cmd = "QUIT"
    PROVE  EOK(ms_quit(e, t, m))
  BY MsgFields, ExitUserOK DEF ms_quit

\* ms_sid() keeps the record sound, whether it accepts the server or splits.
LEMMA MsSidOK ==
    ASSUME NEW s \in Servers, NEW e, EOK(e), NEW t \in Servers, NEW m \in GoodMsg,
           m.cmd = "SID"
    PROVE  EOK(ms_sid(s, e, t, m))
  <1>m. m.pre \in Servers /\ m.sid \in Servers BY MsgFields
  <1>1. EOK(exit_server(s, e, s, s, t)) BY ExitServerOK
  <1> DEFINE f == [e EXCEPT !.srv[m.sid] = Append(e.srv[m.pre], m.sid)]
  <1>2. EOK(f)
    <2>1. Append(e.srv[m.pre], m.sid) \in Seq(Servers)
      BY <1>m, AppendProperties DEF EOK, Effect
    <2> QED BY <1>m, <2>1 DEF EOK, Effect
  <1> HIDE DEF f
  <1>3. EOK(sendto_server(f, t, SID(m.pre, m.sid)))
    BY <1>m, <1>2, SendOK, MsgTypes DEF sendto_server
  <1> QED BY <1>1, <1>3 DEF ms_sid, f

\* ms_squit() keeps the record sound.
LEMMA MsSquitOK ==
    ASSUME NEW s \in Servers, NEW e, EOK(e), NEW t \in Servers, NEW m \in GoodMsg,
           m.cmd = "SQUIT"
    PROVE  EOK(ms_squit(s, e, t, m))
  <1>m. m.pre \in Servers \cup Uids /\ m.sid \in Servers BY MsgFields
  <1>1. \A x \in Servers : EOK(exit_server(s, e, t, m.pre, x)) BY <1>m, ExitServerOK
  <1> QED BY <1>m, <1>1 DEF ms_squit

\* parse() answers an unknown prefix, drops a misdirected message, or runs
\* the handler.
LEMMA ParseOK ==
    ASSUME NEW s \in Servers, NEW e, EOK(e), NEW t \in Servers,
           NEW p \in Servers \cup Uids, NEW h, EOK(h)
    PROVE  EOK(parse(s, e, t, p, h))
  <1>1. EOK(remove_unknown(s, e, t, p))
    BY SendOK, MsgTypes DEF remove_unknown
  <1> QED BY <1>1 DEF parse

\* The burst of server_estab consists of well formed messages.
LEMMA ServerEstabOK ==
    ASSUME NEW s \in Servers, NEW e, EOK(e), NEW t \in Servers,
           NEW sids \in Listings(KnownServers(e)),
           NEW uids \in Listings({u \in Uids : IsClient(e, u)})
    PROVE  EOK(server_estab(s, e, t, sids, uids))
  <1> DEFINE K == KnownServers(e)
             U == {u \in Uids : IsClient(e, u)}
             b1 == [i \in DOMAIN sids |-> SID(servptr(s, e, sids[i]), sids[i])]
             b2 == [i \in DOMAIN uids |-> UID(Home[uids[i]], uids[i], e.row[uids[i]])]
             f == [e EXCEPT !.srv[t] = <<t>>]
             e1 == sendto_server(f, t, SID(s, t))
  <1>1. Cardinality(K) \in Nat /\ Cardinality(U) \in Nat
    <2>1. K \subseteq Servers /\ U \subseteq Uids BY DEF KnownServers
    <2>2. IsFiniteSet(K) /\ IsFiniteSet(U)
      BY <2>1, ConstAssumption, FS_Subset
    <2> QED BY <2>2, FS_CardinalityType
  <1>2. b1 \in Seq(GoodMsg)
    <2>1. sids \in [1..Cardinality(K) -> K] BY DEF Listings
    <2>2. \A x \in K : SID(servptr(s, e, x), x) \in GoodMsg
      <3>1. TAKE x \in K
      <3>2. x \in Servers /\ e.srv[x] \in Seq(Servers) /\ e.srv[x] # <<>>
        BY <3>1 DEF KnownServers, EOK, Effect
      <3>3. servptr(s, e, x) \in Servers
        <4> DEFINE p == e.srv[x]
        <4>0. p \in Seq(Servers) /\ p # <<>> BY <3>2
        <4>1. Len(p) \in Nat \ {0} BY <4>0, EmptySeq
        <4>2. Len(p) # 1 => p[Len(p) - 1] \in Servers
          <5> HIDE DEF p
          <5>1. \A k \in Nat \ {0} : k # 1 => k - 1 \in 1..k OBVIOUS
          <5>2. Len(p) # 1 => Len(p) - 1 \in 1..Len(p) BY <4>1, <5>1
          <5> QED BY <4>0, <5>2, ElementOfSeq
        <4> QED BY <4>2 DEF servptr
      <3> QED BY <3>2, <3>3, MsgTypes
    <2>3. b1 \in [1..Cardinality(K) -> GoodMsg] BY <2>1, <2>2
    <2> HIDE DEF b1, K
    <2> QED BY <1>1, <2>3, SeqDef
  <1>3. b2 \in Seq(GoodMsg)
    <2>1. uids \in [1..Cardinality(U) -> U] BY DEF Listings
    <2>2. \A u \in U : UID(Home[u], u, e.row[u]) \in GoodMsg
      BY MsgTypes, ConstAssumption DEF EOK, Effect, RowOK
    <2>3. b2 \in [1..Cardinality(U) -> GoodMsg] BY <2>1, <2>2
    <2> HIDE DEF b2, U
    <2> QED BY <1>1, <2>3, SeqDef
  <1>4. EOK(f)
    <2>1. <<t>> \in Seq(Servers) OBVIOUS
    <2> QED BY <2>1 DEF EOK, Effect
  <1>5. EOK(e1)
    <2> HIDE DEF f
    <2> QED BY <1>4, SendOK, MsgTypes DEF sendto_server
  <1> HIDE DEF e1, b1, b2
  <1>6. e1.q[t] \o b1 \o b2 \in Seq(GoodMsg)
    BY <1>2, <1>3, <1>5, ConcatProperties DEF EOK, Effect
  <1>7. EOK([e1 EXCEPT !.q[t] = e1.q[t] \o b1 \o b2])
    BY <1>5, <1>6 DEF EOK, Effect
  <1> QED BY <1>7 DEF server_estab, e1, b1, b2

\* The clients on abort_list leave, with well formed QUITs.
LEMMA AbortedOK ==
    ASSUME NEW e, EOK(e),
           NEW quits \in Listings({u \in e.abt \ e.kld : IsClient(e, u)})
    PROVE  EOK(aborted(e, quits))
  <1> DEFINE U == {u \in e.abt \ e.kld : IsClient(e, u)}
             b == [i \in DOMAIN quits |-> QUIT(quits[i])]
             r == [u \in Uids |-> IF u \in e.abt THEN Gone(u) ELSE e.row[u]]
             q == [t \in Servers |-> IF t \in serv_list(e) THEN e.q[t] \o b ELSE e.q[t]]
  <1>1. U \subseteq Uids /\ Cardinality(U) \in Nat
    <2>1. U \subseteq Uids BY DEF EOK, Effect
    <2> QED BY <2>1, ConstAssumption, FS_Subset, FS_CardinalityType
  <1>2. b \in Seq(GoodMsg)
    <2>1. quits \in [1..Cardinality(U) -> U] BY DEF Listings
    <2>2. b \in [1..Cardinality(U) -> GoodMsg] BY <1>1, <2>1, MsgTypes
    <2> HIDE DEF b, U
    <2> QED BY <1>1, <2>2, SeqDef
  <1>3. RowOK(r, {})
    <2>1. r \in [Uids -> Client] BY ClientTypes DEF EOK, Effect
    <2>2. \A u \in Uids : IF u \in e.abt THEN r[u] = Gone(u) ELSE r[u] = e.row[u]
      OBVIOUS
    <2> HIDE DEF r
    <2> QED BY <2>1, <2>2, ClientTypes DEF EOK, RowOK
  <1> HIDE DEF b, r
  <1>4. q \in [Servers -> Seq(GoodMsg)]
    <2>1. \A t \in Servers : e.q[t] \o b \in Seq(GoodMsg)
      BY <1>2, ConcatProperties DEF EOK, Effect
    <2> QED BY <2>1 DEF EOK, Effect
  <1>5. aborted(e, quits) = [e EXCEPT !.row = r, !.q = q, !.abt = {}, !.kld = {}]
    BY DEF aborted, r, b
  <1> HIDE DEF q
  <1> DEFINE f == [e EXCEPT !.row = r, !.q = q, !.abt = {}, !.kld = {}]
  <1>6. f \in Effect /\ f.row = r /\ f.abt = {}
    BY <1>3, <1>4 DEF EOK, Effect, RowOK
  <1> QED BY <1>3, <1>5, <1>6 DEF EOK

-----------------------------------------------------------------------------
(* From effect records to states.                                          *)

\* In a state of IInv the record a handler starts from is sound.
LEMMA HereOK ==
    ASSUME TablesOK, NEW s \in Servers
    PROVE  /\ EOK(Here(s))
           /\ Here(s).row = tab[s] /\ Here(s).srv = srv[s]
           /\ Here(s).abt = abort_list[s]
  BY DEF TablesOK, Here, EOK, Effect

\* Committing a sound record keeps every table and every queue sound.
LEMMA CommitOK ==
    ASSUME TablesOK, NEW s \in Servers, NEW e, EOK(e), NEW rd,
           \A a \in Servers : a \in rd => chan[a][s] # <<>>,
           Commit(s, rd, e)
    PROVE  TablesOK'
  <1>1. /\ e.row \in [Uids -> Client] /\ RowOK(e.row, e.abt)
        /\ e.srv \in [Servers -> Seq(Servers)]
        /\ e.q \in [Servers -> Seq(GoodMsg)]
        /\ e.nd \in SUBSET Names
        /\ e.abt \in SUBSET Uids /\ e.kld \in SUBSET Uids
    BY DEF EOK, Effect
  <1>2. /\ tab' \in [Servers -> [Uids -> Client]]
        /\ abort_list' \in [Servers -> SUBSET Uids]
        /\ killed' \in [Servers -> SUBSET Uids]
        /\ \A a \in Servers : RowOK(tab'[a], abort_list'[a])
    <2>1. /\ tab' = [tab EXCEPT ![s] = e.row]
          /\ abort_list' = [abort_list EXCEPT ![s] = e.abt]
          /\ killed' = [killed EXCEPT ![s] = e.kld]
      BY DEF Commit
    <2> QED BY <1>1, <2>1 DEF TablesOK
  <1>3. srv' \in [Servers -> [Servers -> Seq(Servers)]]
    <2>1. srv' = [srv EXCEPT ![s] = e.srv] BY DEF Commit
    <2> QED BY <1>1, <2>1 DEF TablesOK
  <1>4. nd' \in [Servers -> SUBSET Names]
    <2>1. nd' = [nd EXCEPT ![s] = e.nd] BY DEF Commit
    <2> QED BY <1>1, <2>1 DEF TablesOK
  <1>5. chan' \in [Servers -> [Servers -> Seq(GoodMsg)]]
    <2>1. PICK k \in IF e.cut = {} THEN {0} ELSE 0..Len(e.q[CHOOSE t \in e.cut : TRUE]) :
            chan' = [a \in Servers |-> [b \in Servers |->
             CASE a = s -> IF b \in e.cut THEN ClosedQueue(s, e, b, k) ELSE e.q[b]
               [] a # s /\ b = s /\ a \in e.cut -> <<>>
               [] a # s /\ b = s /\ a \in rd \ e.cut -> Tail(chan[a][b])
               [] OTHER -> chan[a][b]]]
      BY DEF Commit
    <2>2. ASSUME NEW b \in Servers, b \in e.cut
          PROVE  ClosedQueue(s, e, b, k) \in Seq(GoodMsg)
      <3>1. e.cut = {b} BY <2>2 DEF EOK, Effect
      <3>2. k \in 0..Len(e.q[b]) BY <2>1, <3>1
      <3>3. \A i \in 1..k : e.q[b][i] \in GoodMsg
        BY <1>1, <3>2, ElementOfSeq
      <3>4. SubSeq(e.q[b], 1, k) \in Seq(GoodMsg) BY <3>2, <3>3, SubSeqProperties
      <3>5. Append(SubSeq(e.q[b], 1, k), EOF) \in Seq(GoodMsg)
        BY <3>4, MsgTypes, AppendProperties
      <3>6. <<>> \in Seq(GoodMsg) OBVIOUS
      <3> QED BY <3>5, <3>6 DEF ClosedQueue
    <2>3. ASSUME NEW a \in Servers, NEW b \in Servers
          PROVE  chan'[a][b] \in Seq(GoodMsg)
      <3>1. CASE a = s BY <1>1, <2>1, <2>2, <3>1
      <3>2. CASE a # s /\ b = s /\ a \in e.cut
        <4>1. chan'[a][b] = <<>> BY <2>1, <3>2
        <4> QED BY <4>1
      <3>3. CASE a # s /\ b = s /\ a \in rd \ e.cut
        <4>1. chan'[a][b] = Tail(chan[a][b]) BY <2>1, <3>3
        <4>2. chan[a][b] \in Seq(GoodMsg) /\ chan[a][b] # <<>> BY <3>3 DEF TablesOK
        <4> QED BY <4>1, <4>2, HeadTailProperties
      <3>4. CASE a # s /\ ~(b = s /\ (a \in e.cut \/ a \in rd))
        <4>1. chan'[a][b] = chan[a][b] BY <2>1, <3>4
        <4> QED BY <4>1 DEF TablesOK
      <3> QED BY <3>1, <3>2, <3>3, <3>4
    <2>4. chan' = [a \in Servers |-> [b \in Servers |-> chan'[a][b]]]
      BY <2>1
    <2> QED BY <2>3, <2>4
  <1> QED BY <1>2, <1>3, <1>4, <1>5 DEF TablesOK

-----------------------------------------------------------------------------
(* Every step keeps the invariant.                                         *)

\* The servers start with empty tables and queues.
LEMMA InitOK == Init => IInv
  <1> SUFFICES ASSUME Init PROVE IInv OBVIOUS
  <1>1. \A s \in Servers : RowOK(tab[s], abort_list[s])
    <2>1. TAKE s \in Servers
    <2>2. tab[s] = [u \in Uids |-> Gone(u)] BY DEF Init
    <2> QED BY <2>2, ClientTypes DEF RowOK
  <1>2. \A s \in Servers : tab[s] \in [Uids -> Client] BY <1>1 DEF RowOK
  <1>3. tab \in [Servers -> [Uids -> Client]] BY <1>2 DEF Init
  <1> QED BY <1>1, <1>3 DEF Init, IInv, TablesOK, CountersOK

\* The handlers of server messages.
LEMMA ReceiveOK ==
    ASSUME IInv
    PROVE  \A s, t \in Servers : Receive(s, t) => IInv'
  <1>UID. ASSUME NEW s \in Servers, NEW t \in Servers, RecvUID(s, t)
          PROVE  IInv'
    <2> DEFINE m == Head(chan[t][s])
               f == parse(s, Here(s), t, m.pre, ms_uid(s, Here(s), t, m))
    <2>1. m \in GoodMsg /\ m.cmd = "UID" /\ chan[t][s] # <<>>
      BY <1>UID, HeadTailProperties DEF RecvUID, Reads, IInv, TablesOK
    <2>2. Commit(s, {t}, f) /\ Unchanged BY <1>UID DEF RecvUID
    <2> HIDE DEF m
    <2>3. EOK(f) BY <2>1, HereOK, MsUidOK, MsgFields, ParseOK DEF IInv
    <2> HIDE DEF f
    <2>4. TablesOK' BY <2>1, <2>2, <2>3, CommitOK DEF IInv
    <2> QED BY <2>2, <2>4 DEF IInv, CountersOK, Unchanged
  <1>NICK. ASSUME NEW s \in Servers, NEW t \in Servers, RecvNICK(s, t)
          PROVE  IInv'
    <2> DEFINE m == Head(chan[t][s])
               f == parse(s, Here(s), t, m.pre, mc_nick(s, Here(s), t, m))
    <2>1. m \in GoodMsg /\ m.cmd = "NICK" /\ chan[t][s] # <<>>
      BY <1>NICK, HeadTailProperties DEF RecvNICK, Reads, IInv, TablesOK
    <2>2. Commit(s, {t}, f) /\ Unchanged BY <1>NICK DEF RecvNICK
    <2> HIDE DEF m
    <2>3. EOK(f) BY <2>1, HereOK, McNickOK, MsgFields, ParseOK DEF IInv
    <2> HIDE DEF f
    <2>4. TablesOK' BY <2>1, <2>2, <2>3, CommitOK DEF IInv
    <2> QED BY <2>2, <2>4 DEF IInv, CountersOK, Unchanged
  <1>SAVE. ASSUME NEW s \in Servers, NEW t \in Servers, RecvSAVE(s, t)
          PROVE  IInv'
    <2> DEFINE m == Head(chan[t][s])
               f == parse(s, Here(s), t, m.pre, ms_save(s, Here(s), t, m))
    <2>1. m \in GoodMsg /\ m.cmd = "SAVE" /\ chan[t][s] # <<>>
      BY <1>SAVE, HeadTailProperties DEF RecvSAVE, Reads, IInv, TablesOK
    <2>2. Commit(s, {t}, f) /\ Unchanged BY <1>SAVE DEF RecvSAVE
    <2> HIDE DEF m
    <2>3. EOK(f) BY <2>1, HereOK, MsSaveOK, MsgFields, ParseOK DEF IInv
    <2> HIDE DEF f
    <2>4. TablesOK' BY <2>1, <2>2, <2>3, CommitOK DEF IInv
    <2> QED BY <2>2, <2>4 DEF IInv, CountersOK, Unchanged
  <1>KILL. ASSUME NEW s \in Servers, NEW t \in Servers, RecvKILL(s, t)
          PROVE  IInv'
    <2> DEFINE m == Head(chan[t][s])
               f == parse(s, Here(s), t, m.pre, ms_kill(Here(s), t, m))
    <2>1. m \in GoodMsg /\ m.cmd = "KILL" /\ chan[t][s] # <<>>
      BY <1>KILL, HeadTailProperties DEF RecvKILL, Reads, IInv, TablesOK
    <2>2. Commit(s, {t}, f) /\ Unchanged BY <1>KILL DEF RecvKILL
    <2> HIDE DEF m
    <2>3. EOK(f) BY <2>1, HereOK, MsKillOK, MsgFields, ParseOK DEF IInv
    <2> HIDE DEF f
    <2>4. TablesOK' BY <2>1, <2>2, <2>3, CommitOK DEF IInv
    <2> QED BY <2>2, <2>4 DEF IInv, CountersOK, Unchanged
  <1>QUIT. ASSUME NEW s \in Servers, NEW t \in Servers, RecvQUIT(s, t)
          PROVE  IInv'
    <2> DEFINE m == Head(chan[t][s])
               f == parse(s, Here(s), t, m.pre, ms_quit(Here(s), t, m))
    <2>1. m \in GoodMsg /\ m.cmd = "QUIT" /\ chan[t][s] # <<>>
      BY <1>QUIT, HeadTailProperties DEF RecvQUIT, Reads, IInv, TablesOK
    <2>2. Commit(s, {t}, f) /\ Unchanged BY <1>QUIT DEF RecvQUIT
    <2> HIDE DEF m
    <2>3. EOK(f) BY <2>1, HereOK, MsQuitOK, MsgFields, ParseOK DEF IInv
    <2> HIDE DEF f
    <2>4. TablesOK' BY <2>1, <2>2, <2>3, CommitOK DEF IInv
    <2> QED BY <2>2, <2>4 DEF IInv, CountersOK, Unchanged
  <1>SID. ASSUME NEW s \in Servers, NEW t \in Servers, RecvSID(s, t)
          PROVE  IInv'
    <2> DEFINE m == Head(chan[t][s])
               f == parse(s, Here(s), t, m.pre, ms_sid(s, Here(s), t, m))
    <2>1. m \in GoodMsg /\ m.cmd = "SID" /\ chan[t][s] # <<>>
      BY <1>SID, HeadTailProperties DEF RecvSID, Reads, IInv, TablesOK
    <2>2. Commit(s, {t}, f) /\ Unchanged BY <1>SID DEF RecvSID
    <2> HIDE DEF m
    <2>3. EOK(f) BY <2>1, HereOK, MsSidOK, MsgFields, ParseOK DEF IInv
    <2> HIDE DEF f
    <2>4. TablesOK' BY <2>1, <2>2, <2>3, CommitOK DEF IInv
    <2> QED BY <2>2, <2>4 DEF IInv, CountersOK, Unchanged
  <1>SQUIT. ASSUME NEW s \in Servers, NEW t \in Servers, RecvSQUIT(s, t)
          PROVE  IInv'
    <2> DEFINE m == Head(chan[t][s])
               f == parse(s, Here(s), t, m.pre, ms_squit(s, Here(s), t, m))
    <2>1. m \in GoodMsg /\ m.cmd = "SQUIT" /\ chan[t][s] # <<>>
      BY <1>SQUIT, HeadTailProperties DEF RecvSQUIT, Reads, IInv, TablesOK
    <2>2. Commit(s, {t}, f) /\ Unchanged BY <1>SQUIT DEF RecvSQUIT
    <2> HIDE DEF m
    <2>3. EOK(f) BY <2>1, HereOK, MsSquitOK, MsgFields, ParseOK DEF IInv
    <2> HIDE DEF f
    <2>4. TablesOK' BY <2>1, <2>2, <2>3, CommitOK DEF IInv
    <2> QED BY <2>2, <2>4 DEF IInv, CountersOK, Unchanged
  <1>EOF. ASSUME NEW s \in Servers, NEW t \in Servers, RecvEOF(s, t)
          PROVE  IInv'
    <2> DEFINE f == IF Here(s).srv[t] = <<t>> THEN exit_server(s, Here(s), t, s, t)
                                              ELSE [Here(s) EXCEPT !.cut = {t}]
    <2>1. Commit(s, {t}, f) /\ Unchanged /\ chan[t][s] # <<>> BY <1>EOF DEF RecvEOF
    <2>2. EOK(f)
      <3>1. EOK(Here(s)) BY HereOK DEF IInv
      <3>2. EOK(exit_server(s, Here(s), t, s, t)) BY <3>1, ExitServerOK
      <3>3. EOK([Here(s) EXCEPT !.cut = {t}]) BY <3>1 DEF EOK, Effect
      <3> QED BY <3>2, <3>3
    <2> HIDE DEF f
    <2>3. TablesOK' BY <2>1, <2>2, CommitOK DEF IInv
    <2> QED BY <2>1, <2>3 DEF IInv, CountersOK, Unchanged
  <1>SERVER. ASSUME NEW s \in Servers, NEW t \in Servers, RecvSERVER(s, t)
          PROVE  IInv'
    <2> DEFINE e == Here(s)
    <2>0. EOK(e) BY HereOK DEF IInv
    <2>1. Unchanged /\ chan[t][s] # <<>> BY <1>SERVER DEF RecvSERVER
    <2>2. PICK f : EOK(f) /\ Commit(s, {t}, f)
      <3>1. CASE e.srv[t] # <<>>
        <4>1. Commit(s, {t}, [e EXCEPT !.cut = {t}]) BY <1>SERVER, <3>1 DEF RecvSERVER
        <4>2. EOK([e EXCEPT !.cut = {t}]) BY <2>0 DEF EOK, Effect
        <4> QED BY <4>1, <4>2
      <3>2. CASE e.srv[t] = <<>>
        <4>1. PICK sids \in Listings(KnownServers(e)),
                   uids \in Listings({u \in Uids : IsClient(e, u)}) :
                Commit(s, {t}, server_estab(s, e, t, sids, uids))
          BY <1>SERVER, <3>2 DEF RecvSERVER
        <4> HIDE DEF e
        <4>2. EOK(server_estab(s, e, t, sids, uids)) BY <2>0, ServerEstabOK
        <4> QED BY <4>1, <4>2
      <3> QED BY <3>1, <3>2
    <2>3. TablesOK' BY <2>1, <2>2, CommitOK DEF IInv
    <2> QED BY <2>1, <2>3 DEF IInv, CountersOK, Unchanged
  <1> QED BY <1>UID, <1>NICK, <1>SAVE, <1>KILL, <1>QUIT, <1>SID, <1>SQUIT, <1>EOF,
             <1>SERVER DEF Receive

\* Connections coming up and going down.
LEMMA LinkOK ==
    ASSUME IInv
    PROVE  \A s, t \in Servers : Connect(s, t) \/ Drop(s, t) => IInv'
  <1>1. ASSUME NEW s \in Servers, NEW t \in Servers, Connect(s, t)
        PROVE  IInv'
    <2>1. chan' = [chan EXCEPT ![s][t] = <<SERVER>>, ![t][s] = <<SERVER>>]
      BY <1>1 DEF Connect
    <2>2. <<SERVER>> \in Seq(GoodMsg) BY MsgTypes
    <2>3. chan' \in [Servers -> [Servers -> Seq(GoodMsg)]]
      BY <2>1, <2>2 DEF IInv, TablesOK
    <2>4. UNCHANGED <<tab, srv, nd, abort_list, killed, spent, claims, now, ops, downs>> /\ ups' = ups + 1
      BY <1>1 DEF Connect
    <2> QED BY <2>3, <2>4 DEF IInv, TablesOK, CountersOK
  <1>2. ASSUME NEW s \in Servers, NEW t \in Servers, Drop(s, t)
        PROVE  IInv'
    <2> DEFINE f == exit_server(s, Here(s), s, s, t)
    <2>1. EOK(f) BY HereOK, ExitServerOK DEF IInv
    <2>2. Commit(s, {}, f) BY <1>2 DEF Drop
    <2> HIDE DEF f
    <2>3. TablesOK' BY <2>1, <2>2, CommitOK DEF IInv
    <2>4. UNCHANGED <<spent, claims, now, ops, ups>> /\ downs' = downs + 1
      BY <1>2 DEF Drop
    <2> QED BY <2>3, <2>4 DEF IInv, CountersOK
  <1> QED BY <1>1, <1>2

\* The local users and opers of a server.
LEMMA LocalOK ==
    ASSUME IInv
    PROVE  \A s \in Servers : Local(s) => IInv'
  <1> SUFFICES ASSUME NEW s \in Servers, Local(s) PROVE IInv' OBVIOUS
  <1>h. EOK(Here(s)) /\ Here(s).row = tab[s] /\ Here(s).abt = abort_list[s] BY HereOK DEF IInv
  <1>t. \A u \in Uids : tab[s][u] \in Client /\ tab[s][u].ts \in Nat
                        /\ tab[s][u].nick \in Nicks \cup {u}
    BY DEF IInv, TablesOK, RowOK, Client
  <1>c. Clock(s) \in Nat
    BY ConstAssumption DEF Clock, IInv, CountersOK
  <1>1. ASSUME NEW u \in Uids, NEW n \in Nicks, mr_nick(s, u, n)
        PROVE  IInv'
    <2> DEFINE c == Unknown(n, Clock(s))
               f == Put(Here(s), u, c)
    <2>1. c \in Client /\ c.nick = n BY <1>c, ClientTypes DEF Names
    <2>2. FreeFor(Here(s), u, n)
      BY <1>1 DEF mr_nick, Holders, FreeFor
    <2>3. EOK(f)
      <3> HIDE DEF c
      <3> QED BY <1>h, <2>1, <2>2, PutOK
    <2>4. Commit(s, {}, f) BY <1>1 DEF mr_nick
    <2> HIDE DEF f
    <2>5. TablesOK' BY <2>3, <2>4, CommitOK DEF IInv
    <2>6. CountersOK'
      BY <1>1, <1>c DEF mr_nick, IInv, CountersOK
    <2> QED BY <2>5, <2>6 DEF IInv
  <1>2. ASSUME NEW u \in Uids, NEW n \in Nicks, m_nick(s, u, n)
        PROVE  IInv'
    <2>0. NewTS(s, u) \in Nat BY <1>c, <1>t DEF NewTS
    <2> DEFINE c == User(n, NewTS(s, u))
               g == sendto_server(Here(s), s, NICK(u, n, NewTS(s, u)))
               f == Put(g, u, c)
    <2>1. c \in Client /\ c.nick = n BY <2>0, ClientTypes DEF Names
    <2>2. FreeFor(Here(s), u, n)
      BY <1>2 DEF m_nick, Holders, FreeFor
    <2>3. EOK(g) /\ g.row = Here(s).row /\ g.abt = Here(s).abt
      BY <1>h, <2>0, SendOK, MsgTypes DEF sendto_server, Names
    <2>4. FreeFor(g, u, n) BY <2>2, <2>3 DEF FreeFor
    <2>5. EOK(f)
      <3> HIDE DEF c, g
      <3> QED BY <2>1, <2>3, <2>4, PutOK
    <2>6. Commit(s, {}, f) BY <1>2 DEF m_nick, change_local_nick
    <2> HIDE DEF f
    <2>7. TablesOK' BY <2>5, <2>6, CommitOK DEF IInv
    <2>8. CountersOK'
      BY <1>2, <2>0 DEF m_nick, IInv, CountersOK
    <2> QED BY <2>7, <2>8 DEF IInv
  <1>3. ASSUME NEW u \in Uids, register_local_user(s, u)
        PROVE  IInv'
    <2> DEFINE c == User(tab[s][u].nick, tab[s][u].ts)
               g == Put(Here(s), u, c)
               f == introduce_client(g, s, u)
    <2>1. c \in Client /\ c.nick = tab[s][u].nick BY <1>t, ClientTypes DEF Names
    <2>2. FreeFor(Here(s), u, tab[s][u].nick)
      BY <1>h, <1>3 DEF register_local_user, Active, FreeFor, EOK, RowOK
    <2>3. EOK(g)
      <3> HIDE DEF c
      <3> QED BY <1>h, <1>t, <2>1, <2>2, PutOK
    <2>4. EOK(f)
      <3> HIDE DEF g
      <3> QED BY <2>3, IntroduceOK
    <2>5. Commit(s, {}, f) BY <1>3 DEF register_local_user
    <2> HIDE DEF f
    <2>6. TablesOK' BY <2>4, <2>5, CommitOK DEF IInv
    <2>7. CountersOK' BY <1>3 DEF register_local_user, IInv, CountersOK
    <2> QED BY <2>6, <2>7 DEF IInv
  <1>4. ASSUME NEW u \in Uids, m_quit(s, u)
        PROVE  IInv'
    <2>1. EOK(exit_user(Here(s), s, u)) BY <1>h, ExitUserOK
    <2>2. EOK(exit_quietly(Here(s), u)) BY <1>h, ExitQuietlyOK
    <2>3. PICK f : EOK(f) /\ Commit(s, {}, f) BY <1>4, <2>1, <2>2 DEF m_quit
    <2>4. TablesOK' BY <2>3, CommitOK DEF IInv
    <2> QED BY <1>4, <2>4 DEF m_quit, Unchanged, IInv, CountersOK
  <1>5. ASSUME NEW o \in Uids, NEW u \in Uids, mo_kill(s, o, u)
        PROVE  IInv'
    <2> DEFINE g == sendto_server(Here(s), s, KILL(o, u))
               f == IF MyClient(s, u) THEN exit_user(Here(s), s, u) ELSE exit_killed(g, u)
    <2>1. EOK(g) BY <1>h, SendOK, MsgTypes DEF sendto_server
    <2>2. EOK(f)
      <3> HIDE DEF g
      <3> QED BY <1>h, <2>1, ExitUserOK, ExitKilledOK
    <2>3. Commit(s, {}, f) BY <1>5 DEF mo_kill
    <2> HIDE DEF f
    <2>4. TablesOK' BY <2>2, <2>3, CommitOK DEF IInv
    <2>5. CountersOK' BY <1>5 DEF mo_kill, IInv, CountersOK
    <2> QED BY <2>4, <2>5 DEF IInv
  <1>6. ASSUME NEW o \in Uids, NEW x \in Servers, mo_squit(s, o, x)
        PROVE  IInv'
    <2> DEFINE f == exit_server(s, Here(s), s, o, x)
    <2>1. EOK(f) BY <1>h, ExitServerOK
    <2>2. Commit(s, {}, f) BY <1>6 DEF mo_squit
    <2> HIDE DEF f
    <2>3. TablesOK' BY <2>1, <2>2, CommitOK DEF IInv
    <2>4. CountersOK' BY <1>6 DEF mo_squit, IInv, CountersOK
    <2> QED BY <2>3, <2>4 DEF IInv
  <1>7. ASSUME NEW n \in Names, expire_nd_entries(s, n)
        PROVE  IInv'
    BY <1>7 DEF expire_nd_entries, IInv, TablesOK, CountersOK
  <1>8. ASSUME NEW u \in Uids, dead_link(s, u)
        PROVE  IInv'
    <2> DEFINE f == [Here(s) EXCEPT !.abt = @ \cup {u}]
    <2>1. EOK(f)
      <3>1. f \in Effect /\ f.row = tab[s] /\ f.abt = abort_list[s] \cup {u}
        BY <1>h DEF EOK, Effect
      <3>2. RowOK(tab[s], abort_list[s] \cup {u}) BY <1>h DEF EOK, RowOK
      <3> QED BY <3>1, <3>2 DEF EOK
    <2>2. Commit(s, {}, f) BY <1>8 DEF dead_link
    <2> HIDE DEF f
    <2>3. TablesOK' BY <2>1, <2>2, CommitOK DEF IInv
    <2> QED BY <1>8, <2>3 DEF dead_link, Unchanged, IInv, CountersOK
  <1>9. ASSUME exit_aborted_clients(s)
        PROVE  IInv'
    <2>1. PICK quits \in Listings({u \in Here(s).abt \ Here(s).kld : IsClient(Here(s), u)}) :
            Commit(s, {}, aborted(Here(s), quits))
      BY <1>9 DEF exit_aborted_clients
    <2>2. EOK(aborted(Here(s), quits)) BY <1>h, AbortedOK
    <2>3. TablesOK' BY <2>1, <2>2, CommitOK DEF IInv
    <2> QED BY <1>9, <2>3 DEF exit_aborted_clients, Unchanged, IInv, CountersOK
  <1> QED BY <1>1, <1>2, <1>3, <1>4, <1>5, <1>6, <1>7, <1>8, <1>9 DEF Local

\* IInv is inductive.
LEMMA NextOK == IInv /\ [Next]_vars => IInv'
  <1> SUFFICES ASSUME IInv, [Next]_vars PROVE IInv' OBVIOUS
  <1>1. CASE \E s, t \in Servers : Receive(s, t) \/ Connect(s, t) \/ Drop(s, t)
    BY <1>1, ReceiveOK, LinkOK
  <1>2. CASE \E s \in Servers : Local(s)
    BY <1>2, LocalOK
  <1>3. CASE Tick
    BY <1>3 DEF Tick, IInv, TablesOK, CountersOK
  <1>4. CASE UNCHANGED vars
    BY <1>4 DEF vars, IInv, TablesOK, CountersOK
  <1> QED BY <1>1, <1>2, <1>3, <1>4 DEF Next

\* IInv contains the type invariant and the uniqueness of nicknames.
LEMMA IInvImplies == IInv => TypeOK /\ NickUnique
  <1> SUFFICES ASSUME IInv PROVE TypeOK /\ NickUnique OBVIOUS
  <1>1. \A s, t \in Servers : chan[s][t] \in Seq(Msg)
    BY GoodMsgSeq DEF IInv, TablesOK
  <1>2. chan \in [Servers -> [Servers -> Seq(Msg)]]
    BY <1>1 DEF IInv, TablesOK
  <1>3. \A s \in Servers, u \in Uids : tab[s][u].nick \in Nicks \cup {u}
    BY DEF IInv, TablesOK, RowOK
  <1>4. TypeOK BY <1>2, <1>3 DEF IInv, TablesOK, CountersOK, TypeOK
  <1>5. NickUnique BY DEF IInv, TablesOK, RowOK, NickUnique
  <1> QED BY <1>4, <1>5

-----------------------------------------------------------------------------
(* The theorems.                                                           *)

\* In every network the tables, queues and counters keep their types, and no
\* client has the UID of another one as its nickname, under
\* all handlers of m_nick.c, m_kill.c, m_quit.c, m_squit.c and m_server.c here.
THEOREM TypeCorrect == Spec => []TypeOK
  <1>1. IInv => TypeOK BY IInvImplies
  <1> QED BY <1>1, InitOK, NextOK, PTL DEF Spec

\* In every network, whatever collides, splits, rejoins or is killed, a server
\* never has two clients of one nickname in its tables, other than one that
\* waits on abort_list for its exit.
THEOREM NicknameUnique == Spec => []NickUnique
  <1>1. IInv => NickUnique BY IInvImplies
  <1> QED BY <1>1, InitOK, NextOK, PTL DEF Spec

=============================================================================
