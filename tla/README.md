# A TLA+ verification of ircd-ratbox

ircd-ratbox is an IRC server: one process, one thread, a main loop that reads
sockets, runs timers and calls handlers.  What makes it hard is not threads but
the network: many servers keep copies of the same tables (users, nicknames,
servers, channels) and keep them equal by relaying commands over a tree of
links, without acknowledgements, while users act everywhere and links come and
go.  Timestamps (TS) decide every conflict.  Inside a server the same difficulty
returns on a smaller scale: helper processes (resolver, SSL, ban database) answer
late, out of order or never, about clients that may be gone.

The project models these two layers.  Paths below are relative to `src/`.

## 1. Inventory

### Nicknames and users across the network — `NickTS`, `NickTSProofs`
* Code: `modules/core/m_nick.c`, `m_kill.c`, `m_quit.c`, `m_server.c`, `m_squit.c`,
  `src/client.c` (exit), `src/s_user.c` (registration),
  `src/parse.c` (prefix checks), `src/hash.c`, `src/send.c`.
* State: per server the client table (HASH_CLIENT, HASH_ID), the tree of servers
  (`servptr`), send queues, nick delay entries, `abort_list`.
* Operations: NICK of a new and of a registered user, registration, UID, NICK, SAVE,
  KILL, QUIT, SID, SQUIT, SERVER with its burst, loss of a link, a failing client
  socket and the five-second event that ends it, nick delay and its expiry, the clock.
* Hard: introductions and changes that cross; collisions settled independently on
  both sides of a link by rules that must agree; SAVE and KILL servers mixed; skewed
  clocks; second-granular TS; a burst while everything is in flight; loops of links.
* Correct when: a nickname has one holder per server, servers agree once the messages
  are through, nobody loses a nickname without a rival with the better claim, nothing
  survives the loss of its server, and every exchange of protests dies out.

### Channels across the network — `ChannelTS`
* Code: `modules/core/m_join.c`, `m_part.c`, `m_kick.c`, `m_mode.c`,
  `src/channel.c`, `modules/core/m_server.c` (burst).
* State: per server the channel (TS, modes, ban lists, two ordered member lists with
  voices), the known users, the direct links and send queues.
* Operations: JOIN (new and existing channel), JOIN 0, PART, KICK, MODE, QUIT, and the
  server forms JOIN, SJOIN, BMASK, TMODE, PART, KICK, QUIT, SQUIT; burst; split.
* Hard: merges of two versions of a channel; the older TS must win everywhere,
  whatever crosses the burst; membership lists that are edited during a walk.
* Correct when: an empty channel does not exist, TS only falls, members, TS and status
  agree at rest, and nobody has `@` in the older channel by a grant of the younger one.

### Authentication and DNS — `Auth`
* Code: `src/s_auth.c` (ident, reverse DNS, blacklists), `src/dns.c` (the table of
  lookups and the resolver helper), the list functions of `libratbox/include/rb_tools.h`.
* State: one `AuthRequest` per connection with its pending queries, a table of slots
  with pointers into requests, blacklists with reference counts on an intrusive list.
* Hard: answers in any order, for requests that are gone, from slots that were given
  to somebody else; a full table; a helper that dies; a rehash under running lookups.
* Correct when: no callback reaches a freed request, no blacklist is freed while a
  lookup holds it, no answer goes to the wrong lookup except through a cancelled slot,
  and every connection is let go in the end.

### SSL helpers, listeners and the end of a local connection — `SSLProc`
* Code: `src/sslproc.c`, `ssld/ssld.c`, `src/listener.c`, the lists and the freeing of
  clients in `src/client.c`, outgoing connections in `src/s_serv.c`, the start of
  compression in `modules/core/m_server.c`, REHASH in `src/s_conf.c` and `src/newconf.c`.
* State: clients with the helpers they are counted at and their listener, `unknown_list`,
  helpers with counts, write queues and what is in the sockets to and from them, the
  connections inside each helper, the limit on restarts, listeners with reference counts.
* Hard: a helper dies, or is killed for bad keys, with commands not sent, commands under
  way and connections in every state; the server exits a client while the helper reports it
  dead; starting a helper fails; a REHASH closes a listener that has clients.
* Correct when: the counts equal the clients, no helper or listener is freed under a
  client and none outlives its last one, a descriptor is in one place and is released
  in the end.

### The resolver — `Resolver`, `Lookups`
* Code: `resolver/res.c`, `resolver/resolver.c`; `Lookups` is what `src/dns.c` relies on.
* State: the requests with their ids and remaining sends, what nameservers were asked.
* Hard: packets are lost, late and repeated; ids are reused; a lookup of an address takes two
  requests, the second to confirm the name.
* Correct when: every question is answered once, and a name is given only when the
  nameservers said that it has the address.

### Classes and limits — `ConnLimits`
* Code: `src/class.c`, `attach_iline()` and its callees in `src/s_conf.c`, server
  blocks in `src/s_newconf.c`, the counts per CIDR block of the network in
  `src/reject.c`, `check_server()` in `m_server.c`, the ends of connections in `src/client.c`.
* State: classes, `auth{}` and `connect{}` blocks with the clients attached to each, counters
  per class, per CIDR block of a class and per CIDR block of the network.
* Hard: a REHASH replaces, drops and changes all of it under clients that stay attached.
* Correct when: nothing is freed while a client or a block refers to it, and nobody is
  let in over a limit.

### Bans and their database — `Bans`
* Code: `src/bandbi.c`, `bandb/bandb.c`, `modules/m_kline.c`, `m_xline.c`, `m_resv.c`, the
  checks in `src/client.c`, the expiry in `src/s_conf.c`.
* State: permanent, locked and temporary bans, the pending ones, two pipes, the helper's tables.
* Hard: a list of bans is read while bans are placed and removed; the helper dies inside it.
* Correct when: a list is applied whole, no permanent ban is lost for good but by its
  removal, and no banned user stays.

### Lines in and out — `RecvQ`, `SendQ`
* Code: `libratbox/src/linebuf.c`, `src/packet.c`, `src/send.c`, `dead_link()` and the
  ends of connections in `src/client.c`.
* State: the receive queue with its partial line and the flood counters; lines shared by the send
  queues of several connections with reference counts, and a place in the first of them.
* Hard: reads and writes end anywhere; the way of parsing changes in the middle of a read when
  a connection registers; a socket fails inside a queue.
* Correct when: the lines parsed and sent are those of the stream, in order; nothing stays in a queue for good.

### Tables that point at users — `Watchers`
* Code: `src/monitor.c`, `modules/m_monitor.c`, `m_accept.c`, `m_invite.c`, `src/whowas.c`,
  `del_all_accepts()` and the exits in `src/client.c`, the changes of nickname in `m_nick.c`.
* State: lists kept at both ends: watched names, accept lists, invites, WHOWAS entries that
  lead a KILL to the client.
* Hard: every way a user goes or changes name has to take all of them apart.
* Correct when: no entry points at what is gone, and watchers know who is there.

### Not modelled
| component | state and operations | why not, or what it would show |
|---|---|---|
| rejects, throttles and delayed exits (`src/reject.c`) | counters per address with a time of expiry | a counter decays, every delayed descriptor is closed |
| D-lines and G-lines (`m_dline.c`, `m_gline.c`) | a trie of addresses; votes of operators with expiry | a G-line needs three servers |
| target change, CTCP and KNOCK limits (`m_message.c`, `m_knock.c`) | a counter and a time per client | limits hold |
| masks (`src/match.c`), patricia trees | pure functions of strings and bits | equality with a reference definition, for short inputs only |
| services, ENCAP, topics and TB (`m_services.c`, `m_encap.c`, `m_tb.c`) | account names, topics with a TS | agreement at rest |
| packets of the resolver (`resolver/reslib.c`) | encoding and decoding | functions of bytes |

Most of the repository's C lines are vendored or generated: `bandb/sqlite3` alone is two thirds,
and `libltdl`, the lexer and the parser follow.  They are out of scope, so the share of all lines that the
modules stand for is small; of the daemon's own core (`src/`, `modules/core`, the helpers) it is
larger by far.  Also out of scope: the flex/bison configuration grammar, information commands (they
read tables and print), the module loader, logs and help texts, contributed
modules and tools, vendored libraries.

`PROJECT.json` lists every component, and under `hazards` what is hard to test in
this code, each at its line, with the properties that cover it.

## 2. Modules and the code

| module | role |
|---|---|
| `NickTS` | users, nicknames and servers of a network of any size |
| `NickTSProofs` | theorems about `NickTS` |
| `MCNickTS`, `MCNickNet` | its instances for TLC; the second runs two networks and `Watchers` side by side |
| `ChannelTS`, `MCChannelTS` | one channel on a network, and its instances |
| `ChannelTSProofs` | theorems about `ChannelTS` |
| `Auth`, `MCAuth` | new connections of one server, and its instances |
| `AuthProofs` | theorems about `Auth` |
| `SSLProc`, `MCSSLProc` | local connections and the helpers that carry them, and its instances |
| `SSLProcProofs` | theorems about `SSLProc` |
| `Watchers`, `WatchersProofs` | MONITOR, ACCEPT, INVITE and WHOWAS of one server, and theorems about them |
| `Lookups` | abstract: questions, each answered in the end, once |
| `Resolver` | the resolver process, which implements `Lookups` |
| `ConnLimits` | classes, blocks, counters and limits |
| `Bans` | bans and the ban database process |
| `AdmissionProofs` | theorems about `ConnLimits` and `Bans`: who is let in, and who has to leave |
| `RecvQ`, `SendQ` | receive and send queues of local connections |
| `PartsProofs` | theorems about `Resolver`, `RecvQ` and `SendQ` |
| `Lists`, `ListsProofs` | removal from a linked list, and what the proofs need to know of lists |
| `MCParts` | instances of `Resolver` and of the modules after it, one per behaviour |

Names follow the source: the operator `ms_uid` models `ms_uid()`.  Operators whose
name has a capitalised suffix after the source's name (`save_user_NewTS`) are
plausible wrong versions, used to see that a property notices them; the
specifications do not use them.

### NickTS
A handler is an operator from an *effect record* to an effect record.  The record `e`
is what the server owns while the handler runs: `row` (the client table), `srv` (the
servptr chains), `q` (send queues), `nd`, `abt` and `kld` (`abort_list`, and who on it
has FLAGS_KILLED), `cut` (the link being closed).  So the order of calls in a C function
is the order of composition, and what `sendto_server()` queues before or after an exit is
right by construction of the translation.  `Commit` turns the record into the next
state; the actions (`RecvUID`, `m_nick`, `Drop`, ...) are a guard, the handler and
`Commit`.

* A link is a FIFO of messages per direction, and an EOF at the end when it is closed; what
  was queued before is still delivered, as with TCP.  When a server reads an EOF or
  exits the other end it drops its own queue to it.
* `srv[s][t]` is the path of servers from `s` to `t`; everything behind a lost server goes,
  as `recurse_remove_clients()` does.
* A UID serves once (`spent`): `generate_uid()` counts up.
* `claims` is a history variable; only `LossJustified` reads it.

### ChannelTS
One channel, users of fixed homes, routes fixed by `Route`.  A member list is a
sequence, newest first, because `remove_our_modes()` and the burst walk it.  A handler
returns the new channel, the known users and the messages to relay.  A link comes up in two
steps as in the code (the acceptor bursts when it has established the server, the
initiator when it reads SERVER); a split takes both ends at once, with the queues of
the link lost.  Each server has its own clock, which never runs back.

### Auth
A slot of `querytable` holds which lookup (client, and for a blacklist which one) its
callback pointer means; `asked` is what the helper has been sent and may answer, in any
order.  Blacklists are nodes with `next`, `prev`, `refcount` and `freeing`, and the list
functions work on these pointers as the C macros do, because a double removal from
the list is one of the behaviours met.

### SSLProc
Handlers work on an effect record as in `NickTS`.  Those that write to a helper return a set
of them, one per outcome: the write may find the helper dead (`ssl_dead()`), and
then `start_ssldaemon()` may succeed, fail to fork, or be put off because too many were started in a row.
`writeq` is the queue of the server; `inq` and `outq` are the two directions of the socket;
`conn` is the helper's table, with the states of a connection: handshake under way, open, and
`shut`, where the far end has closed and the helper waits for the server to close its end.
`Ids` names a descriptor handed over by its client and the purpose (accept, connect, compress).
`make_client()` puts a client on `unknown_list`; `exit_client()` takes it off its lists and makes it
`dead`; `free_exited_clients()` frees it, gives the helpers and the listener back, and may
free them.  Three places of the code run into undefined behaviour (section "Seen in the
code"); the model takes the step and stops (`up`), so no property is asserted beyond it.

### Resolver and Lookups
A request has its kind, its id and its sends; `net` is the set of packets a nameserver may still
answer, in any order and more than once, with what it likes: the answers are drawn from small sets.  A question is
checked as `check_question()` does, by comparing the name in the packet.
`Lookups` knows only which questions are open and the answer each got; `Resolver` refines it
with `L == INSTANCE Lookups WITH` the questions read as those asked and the first answer written
as the reply, and `ResolverAnswers` is `L!Spec`, its fairness included.

### ConnLimits
Classes are objects with generations: a class that is dropped and defined again is a new object
beside the old one, as in the code.  `Configs` is the set of configuration files a REHASH may find.
CIDR blocks are sets of addresses (`Cover`), two widths.  Counters are kept as the code
keeps them, in nodes that exist while they count.

### Bans
A ban is its mask and its kind.  Commands write to the first pipe, the helper answers a request for its list with
one message per ban between a clear and a finish; `bandb_parse()` takes them one at a time,
so everything else interleaves.  A death of the helper empties the pipes where they are.

### RecvQ and SendQ
A byte is a letter; `"n"` stands for CR or LF, capital letters are lines that change what
the connection is.  A read delivers any prefix of the rest of the stream up to the size of
the buffer; the parse loops of `parse_client_queued()` are steps of their own.  In `SendQ` a line is a number with a length and a
reference count, queues are sequences of lines, and a socket takes any number of bytes of
`Takes`, 0 being EAGAIN, or fails.

### Watchers
Lists kept at both ends are two variables each, changed separately as the code does, so that
their agreement is a property.  `told` is what a watcher was last told.  Who wins a nickname is
left to `NickTS`: here the loser leaves or is renamed, and the winner arrives, as separate
steps.  A user on `abort_list` keeps its entries until its exit.

## 3. Runs

| run | instance | what it shows |
|---|---|---|
| `nick_network` | a pair of servers (one SAVEs, one KILLs) with clocks one second apart, 2 users, 2 nicknames, 4 user commands and a socket that fails; or 3 servers and all 3 links at once | `TypeOK`, `NickUnique`, `NicksAgree`, `OneTree`, `LossJustified` |
| | `Watchers`: 2 local users and a remote one, 3 commands on the tables of MONITOR, of ACCEPT or of INVITE, WHOWAS of length 1 | `NoStalePointers`, `MonitorTrue` |
| `nick_line` | 3 servers in a line, 2 links up, one loss, nick delay | `ServersAgree`, which is `UsersAgree` and `NicksAgree`, over two hops |
| `nick_relink` | 2 servers, clones, an oper, a link lost and back | `NoDuplicateUID`, and `StormsEnd` under fairness |
| `chan_merge` | 2 servers, 3 users who stay, 3 link-ups, 2 splits, voices and limits | `TypeOK`, `TSAgree`, `StatusAgree`, `BansLegitimate` |
| `chan_all` | 2 servers; 2 users, one of every operation, one split and the link-up after it; or 3 users, 3 joins, a PART, a KICK, a mode change (`+o` and `-o` among them) and one link that stays | `ChannelPopulated`, `MembersAgree`, `TSNeverRises`, `OpsGranted` |
| `auth_queries` | 2 connections, 2 blacklists, 3 slots, one helper restart, 2 rehashes | `TypeOK`, `CallbacksLive`, `RblsHeld`, `AnswersRight`, and `AuthEnds` under fairness |
| `ssl_helpers` | 1 connection, plain or SSL, in or out, maybe compressed; 2 helpers, 1 REHASH | `DeadFreed`, `HelperReleases` under fairness |
| `ssl_crowd` | 2 SSL connections on one listener, 2 helpers, 1 REHASH | `CountsRight`, `NothingFreedInUse`, `OneHolder` |
| `parts` | the resolver: 2 questions about one address, 3 ids, 2 sends | `OneRequest`, `AnswersConfirmed`, `ResolverAnswers` (the refinement, with fairness) |
| | limits: 2 clients, limits of 1, 3 configuration files, 2 REHASHes | `ClassesHeld`, `AdmittedUnderLimits` |
| | bans: a K-line and a RESV, 1 user, 1 list under way, 1 death | `ListWhole`, `BannedLeave`, and `BansComeBack` under fairness |
| | receive queue: 4 streams, of a client, an oper, a server and an exempt client, buffers of 4 bytes | `LinesWhole`, and `LinesParsed` under fairness |
| | send queues: 2 connections, 3 lines of 1 and 2 bytes, limit of 2 | `QueuesWhole`, and `QueuesMove` under fairness |
| `save_race`, `op_survives`, `rbl_rehash` | small instances | violations, see findings |

Why these bounds: a collision needs two users, one nickname and two servers; a third party
needs a second nickname to flee to; relaying needs three servers in a line; refusing a loop
needs three links; a ghost needs a link that breaks and returns.  A merge needs two
operators on one side (three users) to see the walk over the member list, and a second
merge to see a channel that already lost once.  For `OpsGranted` the same two operators are needed, the second
made by a `+o` that crosses the burst of the older channel, and one link-up only: the burst of a second one lists those whom
`remove_our_modes()` left (run `op_survives`) as operators of the older channel, and nobody can tell.  A slot is reused only when the table
wraps, so it has three slots for up to six lookups.  A helper is replaced once (`NCtls` 2)
and put off after two starts (`MaxSpin` 1 stands for the 20 of the code); a shared helper or
listener needs two clients, which is why compression (`Zips`) and the plain port are
checked with one.  The parts of `parts`, and the networks and tables of `nick_network`, share no state, so a behaviour of
the run is one of one part, with the others at rest.  An id is reused with three ids and two sends of two
questions; a limit of one is met by two clients; a list is cut with one death; streams have lines
of the full length of a buffer and one more, so that both are cut by reads; two queues
are the fewest that share a line.  TLC checks every run completely
within these bounds.

`CHECK_DEADLOCK FALSE` is set in all runs: the bounds on user commands let the system come
to rest, which is the state the agreement properties are about.

### Fairness
* `NickTS!FairSpec`: weak fairness of `Receive(s, t)` for every link (the main loop
  reads every readable socket) and of `exit_aborted_clients` (an event every five seconds).
  Nothing is assumed of users, clocks, or links coming up.
* `Auth!FairSpec`: weak fairness of `timeout_auth_queries` per connection (an event
  every three seconds and a deadline for every request).  Nothing is assumed of the
  helper, of ident servers, or of clients.
* `SSLProc!FairSpec`: weak fairness of `ServerDuty` (the server's main loop: readable pipes and
  writable sockets of helpers, the recurring events that free exited clients and dead helpers, and
  the timeout of a client that can no longer be heard) and of `HelperDuty` for each helper (its
  main loop, and the timeout of ten seconds of a handshake).  Nothing is assumed of clients
  that can be heard, of new connections, of restarts, or of helpers dying.
* `ResolverFairness`: weak fairness of `timeout_query` (an event every second).  Nothing is assumed
  of nameservers.
* `BansFairness`: weak fairness of reading the two pipes, by the helper and by the server.
* `RecvFairness`: weak fairness of the steps of a running function, of the end of a read loop, and of
  `flood_recalc` (an event every second).  Nothing is assumed of new data.
* `SendFairness`: weak fairness of the write event of a socket that takes data or has failed, and
  of `exit_aborted` (an event).
* `ChannelTS`, `ConnLimits` and `Watchers` state no liveness.

### Findings (what the violation runs show)
* `save_race` — `modules/core/m_nick.c:509`: SAVE recognises its target by a TS in
  seconds.  Two servers save one user, the user changes nickname again within the second, the second
  SAVE matches on one server only: the nicknames differ for good.
* `op_survives` — `modules/core/m_join.c:1150`: `remove_our_modes()` moves list nodes
  while it walks the list and reaches only the first operator.
* `rbl_rehash` — `src/s_auth.c:661`: a blacklist is taken off the list twice at a rehash, which
  breaks the list of the new ones.

### Seen in the code
Disagreements and defects met while modelling, that no run of their own shows.  The models
follow the code in all of them.
* `modules/core/m_nick.c:220`: `m_nick()` looks for nick delay entries in HASH_CLIENT instead of
  HASH_ND, so the delay that `doc/example.conf:1130` describes does not hold for a local user.
* `modules/core/m_join.c:420`: a JOIN with an older TS keeps the younger channel's bans, against
  `doc/technical/ts6.txt:132-134` and `:252`; `BansLegitimate` holds in `chan_merge`, where
  channels merge by SJOIN.
* `src/listener.c:427`: when `socketpair()` fails, `add_connection()` frees a client that
  `make_client()` has put on `unknown_list`, although its comment says "not put in any client list
  yet"; `check_unknowns_list()` then reads freed memory.
* `src/s_serv.c:576`: without a helper, `serv_connect_ssl_callback()` closes the pair of
  which the client has one end, and then exits the client, which closes that end again,
  against the `lrb_assert(IsFDOpen(F))` of `rb_close()`.
* `src/sslproc.c:838`: `start_zlib_session()` without a helper leaves `z_ctl` NULL and two
  descriptors open; `collect_zipstats()` dereferences the pointer.
* `modules/core/m_server.c:1236-1240`: the comment speaks of an 'R' message that confirms the start of
  compression; there is none in `src/sslproc.c` or `ssld/ssld.c`.


Resolver:
* `resolver/res.c`, `send_res_msg()` overwrites `ipv6_F` at each send, so that of an IPv6 nameserver the
  earlier sockets are never closed and answers to a request that is gone are still read; `resolve_host()` compares with `6` where the
  request has `'6'`, so AAAA is never asked; `generate_random_id()` may return the id `0xffff` it means to avoid; a PTR
  answer without data leads to a question for the empty name.

Limits and configuration:
* `src/s_conf.c:595-604`: `attach_conf()` leaves the count of the CIDR block up when the class is full.
* `add_server_conf()` (`src/s_newconf.c:427-440`) takes a class that is marked for deletion, where
  `conf_add_class_to_conf()` does not: a connect{} that names a class which the new file no longer has is left with
  one that `check_class()` frees under it.  TLC finds `ClassesHeld` violated by such a file; `doc/example.conf:13`
  rules it out ("class {} blocks MUST be specified before anything that uses them"), and so does `FilesComplete`.
* A `number_per_cidr` changed between 0 and another value makes the counts of clients that stay drift: TLC finds a
  client admitted over the limit of its block (hence `LimitsSteady`); a changed width is used for new nodes only.  `rehash_global_cidr_tree()` counts connections that are not registered, and servers.

Bans:
* `src/bandbi.c:421`: the case of `C` falls through into that of `F`, so no permanent ban is in force
  until the list has been read; a user who registers in the gap leaves when it is applied (`BannedLeave`).
* `parse_ban()` stores NULL for a mask that is absent and `parse_unban()` deletes where it is `''`, so a D-line, X-line or
  RESV that was removed returns with the next list.  A list under way brings back a K-line removed meanwhile.
  Locks are not listed and are lost.  A restarted helper is not asked for its list.
* `bandb_check_resv` drops a permanent RESV when a temporary one of the same mask exists.

Queues:
* A line longer than the buffer whose rest comes with another read goes on as a line of its own.
* A read that ends between CR and LF gives an empty line, which stops the parse loop until the
  next read or `flood_recalc()`; the latter does not visit servers, so `LinesParsed` excludes them.
* `rb_linebuf_copy_line()` tests `raw` after clearing it: a terminated raw line keeps its CR LF.
* `send_linebuf()` compares with the limit before it adds the line.

Watchers:
* A nickname won from a client that waits on `abort_list` is signed off to its watchers when that client
  exits, with the winner online; `MonitorTrue` excepts such a name until it is free.
* `src/whowas.c:180`: `whowas_get_history()` walks from the oldest entry, so a KILL by an old nickname chases the first who left
  it within the limit, not the last.
* `m_accept()` counts names it skips against `max_accept`.
* `modules/m_services.c`, `me_rsfnc()` calls functions that no longer exist (built only with services).

### Limits of the protocol that the passing runs stay clear of
Each of these is a real behaviour of the code and a reason for a bound above.
* A KICK that crosses the PART and new JOIN of its target removes the target on one
  side only; nothing in the message tells the two stays apart (`MembersAgree` therefore
  speaks of executions without a KICK).
* The last member of the older channel leaves during a burst: the sides disagree on TS and
  operators until the next merge (`chan_merge` has no PART).
* A JOIN that lowers a TS loses the modes of the older channel (`doc/technical/ts6.txt:22-23`
  admits it), so modes are not compared in `StatusAgree`.
* A side that loses the TS with `MAXMODEPARAMS` (4) voices keeps its operators, since the full MODE line ends
  the walk of `remove_our_modes()` (see the finding of `op_survives`): `StatusAgree` is violated in `chan_merge` with
  `MAXMODEPARAMS` = 1, and holds there with the 4 of the code and the 3 users it has.
* `+v` and `-v` by two operators at equal TS may cross (`chan_merge` has no `-v`).
* An SJOIN that brings no new member lowers the TS locally and is not relayed.
* A SQUIT for a far server may cross the SID of its return on another path
  (`src/client.c:998`; not within the two link-ups of `nick_line`), and a QUIT of a client on `abort_list` may follow a burst that
  listed it (`src/client.c:1421`): ghosts remain.
* An operator's KILL that reaches a server which has just killed that operator in a collision is dropped
  by `parse()` as from an unknown source.  The victim stays there as a ghost until it is spoken of, and then is answered by
  a KILL of the server: the victim of TLC's trace has by then come back to another server's table and loses
  without a cause its own server knows.  So `LossJustified` is checked without operators and splits.  README.TSora:320-328 describes the kind.

## 4. Proofs

The theorems hold for every value of the constants under the named assumptions (`ConstAssumption`,
`BansFinite`, `WatchersAssumption`, `ResolverAssumption`, `SendAssumption`, `SizesPositive`; for `ConnLimits` `ClientsHaveAddresses`,
`BlocksNest`, `NamesFree` and `FilesComplete`): finite sets of actors where something is counted, numbers in their
ranges, a configuration file whose connect{} names a class of the same file.  Two theorems have one hypothesis more,
explained below: `AdmittedAlways` has `LimitsSteady`, `LinesAlwaysWhole` has `LinesFit`.  `MCParts` has TLC evaluate both for
the instances of run `parts`.

| module | theorems | of what |
|---|---|---|
| `NickTSProofs` | `TypeCorrect`, `NicknameUnique` | `TypeOK`, `NickUnique` |
| `ChannelTSProofs` | `ChannelTypes`, `ChannelsPopulated`, `ChannelTSFalls` | `TypeOK`, `ChannelPopulated`, `TSNeverRises` |
| `AdmissionProofs` | `ClassesHeldAlways`, `AdmittedAlways`, `BannedUsersLeave`, `ListsWhole` | `ClassesHeld`, `AdmittedUnderLimits` of `ConnLimits`; `BannedLeave`, `ListWhole` of `Bans` |
| `WatchersProofs` | `NoneStale`, `WatchersKnow` | `NoStalePointers`, `MonitorTrue` |
| `PartsProofs` | `RequestsHeld`, `NothingInvented`, `StepsOfLookups` | of `Resolver`: `OneRequest`, `AnswersConfirmed`, the refinement of `Lookups` |
| | `LinesAlwaysWhole` | of `RecvQ`: `LinesWhole` |
| | `SendQueuesWhole`, `WriteAwaited` | of `SendQ`: `QueuesWhole`, and the safety half of `QueuesMove` |
| `AuthProofs` | `AuthTypeOK`, `AuthCallbacksLive`, `AuthRblsHeld`, `AuthAnswersRight` | `TypeOK`, `CallbacksLive`, `RblsHeld`, `AnswersRight` |
| `SSLProcProofs` | `CountsRightAlways`, `NothingFreedInUseAlways`, `OneHolderAlways` | `CountsRight`, `NothingFreedInUse`, `OneHolder` |

Each module proves an inductive invariant and derives the theorems from it.

**`NickTSProofs`.**  `NickUnique` is not inductive.  A handler that renames a client to its UID is safe only
because no other client has that UID as nickname; so a UID used as nickname must be its
owner's, in all tables (`RowOK`) and in all messages on the way (`GoodMsg`).  And where a client
on `abort_list` shares a nickname with a newer holder, `find_client()` must return the
holder, or the collision rules would be run against the wrong one (`Found`).  The proof follows the
structure of the model: `EOK` is the invariant of an effect record; one lemma per handler shows that it
maps EOK records to EOK records (`PutOK` carries the weight: a name may be taken only when it is
free; `NickCollidesOK` and `NickChangeCollidesOK` show that after the collision rules it
is); `CommitOK` carries `EOK` to the next state; `NextOK` puts the actions together.

**`ChannelTSProofs`.**  That a channel exists exactly while it has members depends on what is on the way:
an SJOIN that named a user twice would put him on a member list twice, and his PART would leave
one of them.  So `IInv` is about channels (`ChannelOK`: lists without repetition, of users who are known,
voices and deops of members only) and messages (`GoodMsg`: a JOIN or SJOIN carries a TS within the
bounds, an SJOIN names nobody twice).  Inside a handler less holds: between the removal of
a user and `destroy_channel()` a channel is empty (`MembershipsOK`).  `EffectOK` is what each handler
leaves, with a TS that has not risen; so the action property comes from the same lemmas.

**`AdmissionProofs`, bans.**  `BannedLeave` is inductive.  `ListWhole` speaks of the first reply in the second pipe only; `FramesWhole`
speaks of every end of a list in the pipe, wherever a death of the helper has cut the pipe before it: what
lies between it and the last clear, or what is pending and all before it, is the list the helper read.

**`AdmissionProofs`, limits.**  `ClassesHeld` says that a class is freed only when nobody refers to it.  `Sound` counts what the
counters ought to count: the clients of each auth{} and connect{} block (`BlocksCounted`) and those attached in each class
(`ClassesCounted`); says that a block of the file in force is legal and one of an older file lives exactly as long as it is
used (`BlocksFollow`), that a class off the list has somebody attached (`ClassesFollow`), and that the blocks in force
have a class of the list (`BlocksLinked`), or a client could attach to a class that was freed.
`AdmittedUnderLimits` is an action property about what the limits are meant to count, and the counters may be above that:
`attach_conf()` leaves a count behind when a class is full, and a REHASH counts servers too.  So `AdmitInv` states that every trie counts
at least those it ought to (`Covers`), for the trie of each limited class (`Tracked`) and for that of the network
(`Counting`, whose nodes have one width, `Even`, so that a match is the node that was counted).  A class keeps its trie over a REHASH, and a
`number_per_cidr` or width of 0 switches the counting off: a file that turns it on leaves those who stay uncounted.  `LimitsSteady` says
that no two files differ in that, and `Settled` that the classes are as the files say.

**`WatchersProofs`.**  Each table is kept at both ends.  That neither end is stale needs that the two agree and that
a list names nobody twice, or one removal would not be enough (`MonitorsLinked`, `AcceptsLinked`, `InvitesLinked`);
that MONITOR tells the truth needs that a name has one holder unless it was taken from a
client that waits on `abort_list` (`OneHolderEach`, `ToldRight`).

**`PartsProofs`, the resolver.**  `ResolverInv` says for every question at which stage it is (not asked, waiting for one of its two
requests, answered once), and for every request on the list what it is about (`About`): the second one asks for a name only
when a nameserver has given that name for the address.  `StepsOfLookups` shows each step to be a step of `Lookups` or a
stutter; the fairness of the refinement is left to TLC.

**`PartsProofs`, the received lines.**  `Alike` texts are scanned into the same lines whatever came before them, so that ends
of line may be added to or dropped from a text where another one is.  `RecvInv` says that what parse() was given, the buffers and
the rest of the stream are scanned like the stream.  The invariant it needs is `BuffersOK`: only the last buffer may be
unfinished, no end of line is in it, and it holds the last bytes that were read; so it is part of one line, and by
`LinesFit` (any `BUF_DATA_SIZE` bytes in a row have an end of line among them) the line ends before the buffer is full.  Without that
hypothesis a line is cut when its rest comes with another read, as "Seen in the code" says.  `CopyStep` is one
round of `rb_linebuf_parse()`, in both ways of copying: a raw copy keeps the end of line in the buffer, a
parsed one leaves it out and skips those that follow.  `RoundOK` carries the account through any number of rounds, and `TextAlike` and `TakeSent` move
a buffer to `parse()`, where `rb_linebuf_get()` chops what a raw copy has left.

**`PartsProofs`, the send queues.**  For the reference counts a queue must hold a line once, and only lines that were made; for the bytes,
the place in the first line must not lie behind the end of the queue.  `StepOK` keeps the account of one connection
(bytes written and left are the bytes left before and those of a new line; lines in the queue are those before, the new
one, without those done); `TakeOK` sums the accounts of any set of receivers.  That a flush loses nothing is
`BytesSplit`: the bytes of a queue are those of its first lines, and then those of the rest.

**`AuthProofs`.**  The list of blacklists cannot be described by what its head reaches: `rbl_destroy()` deletes a node that
`rbl_clear_rbllists()` has taken off already, which sets head and tail to NULL and leaves the blacklists that were on the
list as a chain of their own (run `rbl_rehash`).  So `Linked` is local: `next` and `prev` mirror each other, a structure that is not in use
has no neighbours, head and tail are in use and at an end of a chain, and the `next` pointers descend along some
rank, so that a walk ends and meets nobody twice (`WalkHolds`).  `Counted` relates the reference counts to
the lookups of all clients.  The other half of `IInv` is about requests: a dead one has nothing, one that waits for a slot has
the pending flag for it (`Proper`), and the slots in use are exactly those waited for (`SlotsRight`).  Each loop of the code
(clearing, adding, attaching, detaching, looking up) has a lemma that carries these through any number of rounds; then there is
one lemma per action.  The largest is that of `start_auth()`, where the requests, the slots they get and the entries
of `rbl_queries` must agree, in reverse order and with a table that may fill up on the way.

**`SSLProcProofs`.**  `AllOK` has three parts, on clients, listeners and helpers, of an effect record, so that a lemma per function carries it
through a handler.  The counter of a helper is the number of clients with it for SSL and of those with it for compression, all of
whom refer to one that is not freed (`Counted`, which `CountsRight` and `NothingFreedInUse` need together); the list has each helper in use
once (`Listed`).  `OneHolder` adds up over helpers how often a connection is queued for one or held by it.  `Single` says
that this is one at most, and `Placed` that the client of a connection which is somewhere knows the helper; so a connection
that is handed out anew is nowhere yet.

**`ListsProofs`.**  The library's principles of induction take an operator as parameter, which none of the
provers can supply.  `UpTo` takes a set instead, and with it the recursive functions of the models are reasoned about
for lists of any length: that the recursion has a solution (`Recursion`), and that each prefix has the property.

Only model-checked: what holds at rest or within the bounds of section 3 because it is not true of every network
(`NicksAgree`, `ServersAgree`, `UsersAgree`, `OneTree`, `NoDuplicateUID`, `TSAgree`, `StatusAgree`, `BansLegitimate`,
`OpsGranted`, `MembersAgree`: see the findings and the limits of the protocol above).  `LossJustified` is true of a network without operators and splits, which run `nick_network` has, and not of
every network (see the KILL that is lost, above).
Out of the prover's reach and left to TLC for good: liveness under fairness (`StormsEnd`, `AuthEnds`,
`DeadFreed`, `HelperReleases`, `BansComeBack`, `LinesParsed`, `QueuesMove`, the fairness in `ResolverAnswers`)
and anything with ENABLED.

## 5. What the models leave out

* `NickTS`: TS5 (servers without SID), service clients, the form of nicknames and RESVs, flood
  limits, user modes and hosts beyond "same user@host", passwords and capabilities of links,
  hub and leaf masks, send queue limits, compression.
* `ChannelTS`: INVITE, topics, TS5, splitmode, MODE lines with several changes, keys set by
  MODE, bans that match several users, more than one channel.
* `Auth`: contents of answers, address families, whether a blacklist matched and the ban
  that follows, lookups of connect{} hosts (`src/s_newconf.c:449`), a restart of the helper
  that fails to fork (`src/dns.c:356`), the helper's read loop.
* `SSLProc`: what connections carry, ciphers, fingerprints and statistics, delayed exits and
  `abort_list`, connect{} blocks without ssl, a port that a REHASH turns from plain to SSL,
  helpers built without SSL or zlib, bans and throttles of `accept_precallback()`.
* `Resolver`: address families (nameservers are of IPv4, whose socket goes with the request and takes the packets
  that are late along), the choice and the timeouts of nameservers, REHASH DNS, the format of packets.
* `ConnLimits`: spoofs, passwords, flags of blocks other than exemption from limits, the reject
  cache and throttles, operator{}, shared{} and cluster{} blocks.
* `Bans`: D-lines and G-lines, masks that match one another, reasons, TESTLINE, failures of the database.
* `RecvQ`: the contents of lines beyond what they make of the connection, corks, the SSL helper's raw
  buffers; a line that overflows its buffer is trimmed, where `rb_linebuf_copy_line()` keeps its length and pads it with NULs.  `SendQ`: priorities, compression, the raw writes of the exit notice.
* `Watchers`: the lists of WHOWAS per nickname and the search in them, several names in a
  command, invite exceptions, the limit on channels, KNOCK.

## 6. Plan

Done: all modules of section 2, with the theorems of section 4.  Next, in this order:

1. Theorems: the agreement of two servers in `NickTS` for networks without splits.
2. Abstract specifications: a nickname registry (each server's table is a partial function
   from nicknames to users) implemented by `NickTS`; a channel as a last-writer-wins
   register by TS implemented by `ChannelTS` for users who stay.
3. G-line votes and D-lines in `Bans`; the reject cache; topics and TB; services' accounts.
