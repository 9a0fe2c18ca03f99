------------------------------ MODULE ChannelTS ------------------------------
(***************************************************************************)
(* One channel across a network of ircd-ratbox servers (TS6).              *)
(*                                                                         *)
(* Every server keeps its own copy of the channel: its timestamp, modes,   *)
(* members with their status, and ban lists.  JOIN, SJOIN, BMASK, TMODE,   *)
(* PART and KICK change the copies over FIFO server links, and the channel *)
(* TS decides whose status and modes survive where two copies meet.  Links *)
(* come and go: a split removes the users behind it, and a new link starts *)
(* with a burst of users and of the channel.                               *)
(*                                                                         *)
(* A handler is an operator that returns an effect: the server's copy of   *)
(* the channel (ch), the users it knows (known) and what it sends on (out).*)
(*                                                                         *)
(* Channels are independent of one another but for JOIN 0, the limit on    *)
(* channels per user and splitmode, so one is enough.  Abstracted: nicks   *)
(* and collisions (NickTS), what a mask matches (a mask here matches one   *)
(* user), INVITE, topics, TS5 links, several mode changes in one line.     *)
(***************************************************************************)
EXTENDS Naturals, Sequences, FiniteSets, Functions, Lists

CONSTANTS
    Servers,        \* the servers
    Users,          \* the users, who are also the masks of the lists
    Home,           \* Home[u]: the server user u is connected to
    Route,          \* Route[s][t]: the neighbour of s towards t, s itself if t = s
    Changes,        \* the mode changes channel operators ask for
    MAXMODEPARAMS,  \* status changes shown in one MODE line
    MaxBans,        \* channel::max_bans
    MaxTS,          \* bound: the last value of a clock
    Budget          \* bound: how often each kind of command is used

Kinds == {"join", "part", "mode", "kick", "quit", "up", "down"}

Flags == {"n", "t", "i"}    \* the modes of chm_simple that matter here
BanLists == {"b", "e", "I"}    \* bans, exceptions, invite exemptions

Change ==
    [dir: {"+", "-"}, letter: {"o", "v"}, arg: Users]
      \cup [dir: {"+", "-"}, letter: BanLists, arg: Users]
      \cup [dir: {"+", "-"}, letter: Flags]
      \cup [dir: {"+", "-"}, letter: {"l", "k"}, arg: Nat \ {0}]

ASSUME ConstAssumption ==
    /\ IsFiniteSet(Servers) /\ IsFiniteSet(Users)
    /\ Home \in [Users -> Servers]
    /\ Route \in [Servers -> [Servers -> Servers]]
    /\ \A s, t \in Servers : Route[s][t] = s <=> s = t
    /\ \A s, t \in Servers : Route[s][t] = t => Route[t][s] = s
    /\ Changes \subseteq Change
    /\ MAXMODEPARAMS \in Nat \ {0} /\ MaxBans \in Nat /\ MaxTS \in Nat \ {0}
    /\ Budget \in [Kinds -> Nat]

VARIABLES
    chan,    \* chan[s]: the channel as server s has it
    known,   \* known[s]: the users in the client table of s
    peers,   \* peers[s]: the established links of s (serv_list)
    queue,   \* queue[s][t]: what s has sent to t and t has not read
    clock,   \* clock[s]: rb_current_time() on s
    grants,  \* history: every <<letter, user or mask, TS>> of a +o or +b, +e, +I
    used     \* commands used so far, by kind

vars == <<chan, known, peers, queue, clock, grants, used>>

-----------------------------------------------------------------------------
(* Messages and the channel structure.                                     *)

Modes == [flags: SUBSET Flags, key: Nat, limit: Nat]
NoModes == [flags |-> {}, key |-> 0, limit |-> 0]

\* struct Channel and its memberships: op is the list members[MEMBER_OP], the
\* last added first, noop the members of the other list, voice and deop those
\* with CHFL_VOICE and CHFL_DEOPPED.  live: find_channel() finds it.
Channel ==
    [live: BOOLEAN, ts: Nat, mode: Modes, op: Seq(Users), noop: SUBSET Users,
     voice: SUBSET Users, deop: SUBSET Users, list: [BanLists -> SUBSET Users]]

\* Channel c with other memberships, and with other settings.
Populate(c, op, noop, voice, deop) ==
    [live |-> c.live, ts |-> c.ts, mode |-> c.mode, op |-> op, noop |-> noop,
     voice |-> voice, deop |-> deop, list |-> c.list]
Settle(c, ts, mode, list) ==
    [live |-> c.live, ts |-> ts, mode |-> mode, op |-> c.op, noop |-> c.noop,
     voice |-> c.voice, deop |-> c.deop, list |-> list]

NoChannel ==
    [live |-> FALSE, ts |-> 0, mode |-> NoModes, op |-> <<>>, noop |-> {},
     voice |-> {}, deop |-> {}, list |-> [l \in BanLists |-> {}]]

Ops(c)     == Range(c.op)
Members(c) == Ops(c) \cup c.noop

Msg ==
    [cmd: {"SERVER"}]
      \cup [cmd: {"UID", "QUIT", "PART", "JOIN0"}, u: Users]
      \cup [cmd: {"SQUIT"}, sid: Servers]
      \cup [cmd: {"SJOIN"}, ts: Nat, zero: BOOLEAN, mode: Modes,
            op: Seq(Users), noop: SUBSET Users, voice: SUBSET Users]
      \cup [cmd: {"JOIN"}, u: Users, ts: Nat]
      \cup [cmd: {"BMASK"}, ts: Nat, letter: BanLists, masks: SUBSET Users]
      \cup [cmd: {"TMODE"}, u: Users, ts: Nat, change: Change]
      \cup [cmd: {"KICK"}, u: Users, who: Users]

Word(cmd, u)      == [cmd |-> cmd, u |-> u]
SQUIT(t)          == [cmd |-> "SQUIT", sid |-> t]
JOIN(u, ts)       == [cmd |-> "JOIN", u |-> u, ts |-> ts]
TMODE(u, ts, x)   == [cmd |-> "TMODE", u |-> u, ts |-> ts, change |-> x]
KICK(u, v)        == [cmd |-> "KICK", u |-> u, who |-> v]
BMASK(ts, l, masks) == [cmd |-> "BMASK", ts |-> ts, letter |-> l, masks |-> masks]
SJOIN(ts, zero, mode, op, noop, voice) ==
    [cmd |-> "SJOIN", ts |-> ts, zero |-> zero, mode |-> mode, op |-> op, noop |-> noop,
     voice |-> voice]

\* The users of the servers that s reaches through its neighbour n.
Behind(s, n) == {t \in Servers : Route[s][t] = n}
UsersBehind(s, n) == {u \in Users : Home[u] \in Behind(s, n)}

\* The effect that only makes c of the channel of s; the one that changes nothing;
\* and the effect e with m sent on.
Changed(s, c) == [ch |-> c, known |-> known[s], out |-> <<>>]
Here(s)       == Changed(s, chan[s])
Relay(e, m)   == [ch |-> e.ch, known |-> e.known, out |-> Append(e.out, m)]

Larger(a, b) == IF a > b THEN a ELSE b
Backwards(q) == [i \in DOMAIN q |-> q[Len(q) + 1 - i]]

-----------------------------------------------------------------------------
(* Memberships.                                                            *)

find_channel(s) == chan[s].live

add_user_to_channel(c, u, isop) ==
    IF isop THEN Populate(c, <<u>> \o c.op, c.noop, c.voice, c.deop)
    ELSE Populate(c, c.op, c.noop \cup {u}, c.voice, c.deop)

\* Mutant: the channel outlives its last member.
remove_users_KeepEmpty(c, gone) ==
    Populate(c, Without(c.op, gone), c.noop \ gone, c.voice \ gone, c.deop \ gone)

\* Without members the channel is destroyed, its lists and modes with it.
remove_users(c, gone) ==
    LET rest == Populate(c, Without(c.op, gone), c.noop \ gone, c.voice \ gone, c.deop \ gone)
    IN IF Members(rest) = {} THEN NoChannel ELSE rest

remove_user_from_channel(c, u) == remove_users(c, {u})

get_or_create_channel(c) == IF c.live THEN c ELSE [NoChannel EXCEPT !.live = TRUE]

\* Mutant: voices survive the loss.
remove_our_modes_KeepVoice(c) ==
    IF c.op = <<>> THEN c
    ELSE Populate(c, Tail(c.op), c.noop \cup {Head(c.op)}, c.voice, c.deop)

\* The walk over members[MEMBER_NOOP] and then members[MEMBER_OP].  It clears
\* the voices of the first list; a full MODE line on the way leaves the loop
\* variable past MEMBER_OP, and the second list is not walked.  The first node
\* of the second list is moved to the first list, where the walk goes on, so
\* no other operator loses @ or +.
remove_our_modes(c) ==
    LET lines == Cardinality(c.voice \cap c.noop) >= MAXMODEPARAMS
        quiet == c.voice \ c.noop
    IN IF lines \/ c.op = <<>> THEN Populate(c, c.op, c.noop, quiet, c.deop)
       ELSE Populate(c, Tail(c.op), c.noop \cup {Head(c.op)}, quiet \ {Head(c.op)}, c.deop)

\* The TS rules of JOIN and SJOIN for the TS that arrives and the one we have.
keep_our_modes(c, ts) == ~c.live \/ ts = 0 \/ c.ts = 0 \/ ts >= c.ts
keep_new_modes(c, ts) == ~c.live \/ ts = 0 \/ c.ts = 0 \/ ts <= c.ts
\* Mutants: the younger TS wins; the TS we have stays.
channelts_Newest(c, ts) == IF c.live /\ c.ts > ts THEN c.ts ELSE ts
channelts_Ours(c, ts) == IF c.live THEN c.ts ELSE ts

channelts(c, ts) ==
    IF ~c.live THEN ts
    ELSE IF ts = 0 \/ c.ts = 0 THEN 0
    ELSE IF ts < c.ts THEN ts ELSE c.ts

\* The channel after the TS rules, without the modes a SJOIN brings.
apply_ts(c, ts) ==
    LET new == [get_or_create_channel(c) EXCEPT !.ts = channelts(c, ts)]
    IN IF keep_our_modes(c, ts) THEN new
       ELSE Settle(remove_our_modes(new), new.ts, NoModes, new.list)

-----------------------------------------------------------------------------
(* Handlers of what arrives on server s from its link n.                   *)

\* A user joins an existing channel; the lists are kept whatever the TS.
ms_join(s, n, m) ==
    LET c == apply_ts(chan[s], m.ts)
        d == IF m.u \in Members(c) THEN c ELSE add_user_to_channel(c, m.u, FALSE)
    IN Relay(Changed(s, d), JOIN(m.u, d.ts))

\* The modes of the channel: ours, theirs or, with equal TS, both.
set_final_mode(c, m) ==
    LET ours == get_or_create_channel(c).mode
    IN IF ~keep_new_modes(c, m.ts) THEN ours
       ELSE IF ~keep_our_modes(c, m.ts) THEN m.mode
       ELSE [flags |-> m.mode.flags \cup ours.flags,
             key   |-> Larger(m.mode.key, ours.key),
             limit |-> Larger(m.mode.limit, ours.limit)]

\* The members of a description that come from where it comes from.
targets(s, n, m) ==
    LET valid == known[s] \cap UsersBehind(s, n)
    IN SJOIN(m.ts, m.zero, m.mode, Without(m.op, Users \ valid), m.noop \cap valid,
             m.voice \cap valid)

\* Those who are not members yet join channel c; the others get no status.
\* Where the description is younger its operators are marked as deopped.
sjoin_members(c, m, new) ==
    LET addop   == Without(m.op, Members(c))
        addnoop == m.noop \ Members(c)
        joins   == Range(addop) \cup addnoop
    IN IF new THEN Populate(c, Backwards(addop) \o c.op, c.noop \cup addnoop,
                            c.voice \cup (m.voice \cap joins), c.deop)
       ELSE Populate(c, c.op, c.noop \cup joins, c.voice, c.deop \cup Range(addop))

\* What is sent on: our TS, and modes and status only if they were accepted.
sjoin_relay(c, m, new) ==
    IF new THEN SJOIN(c.ts, m.zero, IF m.zero THEN NoModes ELSE c.mode, m.op, m.noop, m.voice)
    ELSE SJOIN(c.ts, TRUE, NoModes, <<>>, m.noop \cup Range(m.op), {})

\* A channel description.  One that brings nobody is not sent on, and makes
\* no channel; one that wins takes our lists away.
ms_sjoin(s, n, m) ==
    LET c    == chan[s]
        new  == keep_new_modes(c, m.ts)
        from == targets(s, n, m)
        old  == apply_ts(c, m.ts)
        base == Settle(old, old.ts, set_final_mode(c, m), old.list)
        d    == sjoin_members(base, from, new)
        kept == IF keep_our_modes(c, m.ts) THEN d ELSE Settle(d, d.ts, d.mode, NoChannel.list)
    IN IF Members(d) # Members(base) THEN Relay(Changed(s, kept), sjoin_relay(d, from, new))
       ELSE IF c.live THEN Changed(s, d)
       ELSE Here(s)

add_masks(c, m) ==
    Settle(c, c.ts, c.mode, [c.list EXCEPT ![m.letter] = @ \cup m.masks])

ms_bmask_AnyTS(s, n, m) ==
    IF ~find_channel(s) THEN Here(s)
    ELSE Relay(Changed(s, add_masks(chan[s], m)), BMASK(chan[s].ts, m.letter, m.masks))

ms_bmask(s, n, m) ==
    LET c == chan[s]
    IN IF ~find_channel(s) \/ m.ts > c.ts THEN Here(s)
       ELSE Relay(Changed(s, add_masks(c, m)), BMASK(c.ts, m.letter, m.masks))

-----------------------------------------------------------------------------
(* Mode changes.  chm(c, u, x) is the channel after the change x by user u, *)
(* and shown(c, u, x) whether there is a change to show and to send on.     *)

chm_op(c, u, x) ==
    IF x.dir = "+" /\ x.arg \in c.noop
    THEN Populate(c, <<x.arg>> \o c.op, c.noop \ {x.arg}, c.voice, c.deop \ {x.arg})
    ELSE IF x.dir = "-" /\ x.arg \in Ops(c)
    THEN Populate(c, Without(c.op, {x.arg}), c.noop \cup {x.arg}, c.voice, c.deop)
    ELSE c

\* S with or without y, as the direction of x says.
Toggle(x, S, y) == IF x.dir = "+" THEN S \cup {y} ELSE S \ {y}

chm_voice(c, u, x) == Populate(c, c.op, c.noop, Toggle(x, c.voice, x.arg), c.deop)

chm_ban(c, u, x) ==
    Settle(c, c.ts, c.mode, [c.list EXCEPT ![x.letter] = Toggle(x, @, x.arg)])

\* The modes of c, once set.
mode_set(c, flags, key, limit) ==
    Settle(c, c.ts, [flags |-> flags, key |-> key, limit |-> limit], c.list)

chm_simple(c, u, x) ==
    mode_set(c, Toggle(x, c.mode.flags, x.letter), c.mode.key, c.mode.limit)

\* Mutant: -l stores -1, as if 0 were a limit.
chm_limit_Unset(c, u, x) ==
    mode_set(c, c.mode.flags, c.mode.key, IF x.dir = "+" THEN x.arg ELSE 0 - 1)

chm_limit(c, u, x) ==
    mode_set(c, c.mode.flags, c.mode.key, IF x.dir = "+" THEN x.arg ELSE 0)
chm_key(c, u, x) ==
    mode_set(c, c.mode.flags, IF x.dir = "+" THEN x.arg ELSE 0, c.mode.limit)

\* A local user may not fill the lists beyond max_bans; nobody adds a mask twice.
add_id(s, c, u, x) ==
    /\ x.arg \notin c.list[x.letter]
    /\ Home[u] = s => Cardinality(c.list["b"]) + Cardinality(c.list["e"])
                        + Cardinality(c.list["I"]) < MaxBans

shown(s, c, u, x) ==
    \/ /\ x.letter = "o" /\ x.arg \in Members(c)
       /\ x.dir = "+" => x.arg # u
    \/ x.letter = "v" /\ x.arg \in Members(c)
    \/ x.letter \in BanLists /\ (x.dir = "+" => add_id(s, c, u, x))
    \/ x.letter \in Flags /\ ((x.dir = "+") <=> (x.letter \notin c.mode.flags))
    \/ x.letter = "l" /\ (x.dir = "-" => c.mode.limit # 0)
    \/ x.letter = "k" /\ (x.dir = "-" => c.mode.key # 0)

chm(c, u, x) ==
    IF x.letter = "o" THEN chm_op(c, u, x)
    ELSE IF x.letter = "v" THEN chm_voice(c, u, x)
    ELSE IF x.letter \in BanLists THEN chm_ban(c, u, x)
    ELSE IF x.letter \in Flags THEN chm_simple(c, u, x)
    ELSE IF x.letter = "l" THEN chm_limit(c, u, x)
    ELSE chm_key(c, u, x)

\* On server s, by user u: sent on with the channel TS of s.
set_channel_mode(s, u, x) ==
    LET c == chan[s]
    IN IF shown(s, c, u, x)
       THEN Relay(Changed(s, chm(c, u, x)), TMODE(u, c.ts, x))
       ELSE Here(s)

\* Mutant: mode changes of a younger channel are accepted.
ms_tmode_AnyTS(s, n, m) ==
    IF ~find_channel(s) \/ m.u \in chan[s].deop THEN Here(s)
    ELSE set_channel_mode(s, m.u, m.change)

ms_tmode(s, n, m) ==
    IF ~find_channel(s) \/ m.ts > chan[s].ts \/ m.u \in chan[s].deop THEN Here(s)
    ELSE set_channel_mode(s, m.u, m.change)

-----------------------------------------------------------------------------
(* Leaving.                                                                *)

\* Mutant: the PART is not sent on.
part_one_client_Silent(s, u) == Changed(s, remove_user_from_channel(chan[s], u))

part_one_client(s, u) ==
    IF u \in Members(chan[s])
    THEN Relay(Changed(s, remove_user_from_channel(chan[s], u)), Word("PART", u))
    ELSE Here(s)

do_join_0(s, u) ==
    LET e == IF u \in Members(chan[s])
             THEN Changed(s, remove_user_from_channel(chan[s], u)) ELSE Here(s)
    IN Relay(e, Word("JOIN0", u))

\* A remote user's KICK is believed, operator here or not, unless the TS is 0.
m_kick(s, u, v) ==
    LET c == chan[s]
    IN IF \/ ~find_channel(s) \/ v \notin Members(c)
          \/ u \notin Ops(c) /\ (Home[u] = s \/ c.ts = 0)
       THEN Here(s)
       ELSE Relay(Changed(s, remove_user_from_channel(c, v)), KICK(u, v))

\* exit_client() for users gone: out of the channel and of the client table.
exit_users(s, gone) ==
    [ch |-> remove_users(chan[s], gone), known |-> known[s] \ gone, out |-> <<>>]

ms_quit(s, u) == Relay(exit_users(s, {u}), Word("QUIT", u))

\* A server behind link n is gone, and what s reaches only through it.
Lost(s, n, t) == {u \in UsersBehind(s, n) : Route[t][Home[u]] # Route[t][s]}

ms_squit(s, n, t) == Relay(exit_users(s, Lost(s, n, t)), SQUIT(t))

-----------------------------------------------------------------------------
(* Steps.                                                                  *)

\* What s sends after the effect e, to every link but one.
sendto_server(s, e, one) ==
    [t \in Servers |-> IF t \in peers[s] \ {one} THEN queue[s][t] \o e.out
                                                 ELSE queue[s][t]]

Commit(s, e) ==
    /\ chan' = [chan EXCEPT ![s] = e.ch]
    /\ known' = [known EXCEPT ![s] = e.known]

Use(kind) == /\ used[kind] < Budget[kind]
             /\ used' = [used EXCEPT ![kind] = @ + 1]

\* A command of a local user: the effect e of it, sent to every server.
Local(s, e) == Commit(s, e) /\ queue' = [queue EXCEPT ![s] = sendto_server(s, e, s)]

banned(c, u) == u \in c.list["b"] /\ u \notin c.list["e"]

can_join(c, u, key) ==
    /\ ~banned(c, u)
    /\ "i" \in c.mode.flags => u \in c.list["I"]
    /\ c.mode.key # 0 => key = c.mode.key
    /\ c.mode.limit # 0 => Cardinality(Members(c)) < c.mode.limit

\* m_join() where the channel exists.
m_join(u) ==
    LET s == Home[u]
        c == chan[s]
    IN /\ u \in known[s] /\ find_channel(s) /\ u \notin Members(c)
       /\ \E key \in {0, c.mode.key} : can_join(c, u, key)
       /\ Use("join")
       /\ Local(s, Relay(Changed(s, add_user_to_channel(c, u, FALSE)), JOIN(u, c.ts)))
       /\ UNCHANGED <<peers, clock, grants>>

\* m_join() where it does not: the user becomes operator of a new channel, by
\* the clock of the server, and the channel is announced with SJOIN.
m_join_new(u) ==
    LET s == Home[u]
    IN /\ u \in known[s] /\ ~find_channel(s)
       /\ Use("join")
       /\ \E now \in clock[s]..MaxTS :
            LET c == add_user_to_channel(get_or_create_channel(chan[s]), u, TRUE)
                d == Settle(c, now, [flags |-> {"n", "t"}, key |-> 0, limit |-> 0], c.list)
            IN /\ clock' = [clock EXCEPT ![s] = now]
               /\ grants' = grants \cup {<<"o", u, now>>}
               /\ Local(s, Relay(Changed(s, d), SJOIN(now, FALSE, d.mode, <<u>>, {}, {})))
       /\ UNCHANGED peers

m_part(u) ==
    LET s == Home[u]
    IN /\ u \in known[s] /\ u \in Members(chan[s])
       /\ Use("part")
       /\ Local(s, part_one_client(s, u)) \/ Local(s, do_join_0(s, u))
       /\ UNCHANGED <<peers, clock, grants>>

m_mode(u) ==
    LET s == Home[u]
    IN /\ u \in known[s] /\ u \in Ops(chan[s]) \ chan[s].deop
       /\ Use("mode")
       /\ \E x \in Changes :
            /\ shown(s, chan[s], u, x)
            /\ grants' = IF x.dir = "+" /\ x.letter \in {"o"} \cup BanLists
                         THEN grants \cup {<<x.letter, x.arg, chan[s].ts>>} ELSE grants
            /\ Local(s, set_channel_mode(s, u, x))
       /\ UNCHANGED <<peers, clock>>

KickUser(u) ==
    LET s == Home[u]
    IN /\ u \in known[s] /\ u \in Ops(chan[s])
       /\ Use("kick")
       /\ \E v \in Members(chan[s]) : Local(s, m_kick(s, u, v))
       /\ UNCHANGED <<peers, clock, grants>>

m_quit(u) ==
    LET s == Home[u]
    IN /\ u \in known[s]
       /\ Use("quit")
       /\ Local(s, ms_quit(s, u))
       /\ UNCHANGED <<peers, clock, grants>>

burst_masks(c, l) == IF c.list[l] = {} THEN <<>> ELSE <<BMASK(c.ts, l, c.list[l])>>

burst_channel(c) ==
    IF ~c.live THEN <<>>
    ELSE <<SJOIN(c.ts, FALSE, c.mode, c.op, c.noop, c.voice)>>
         \o (burst_masks(c, "b") \o (burst_masks(c, "e") \o burst_masks(c, "I")))

burst_users(us) ==
    LET order == CHOOSE f \in [1..Cardinality(us) -> us] : Range(f) = us
    IN [i \in 1..Cardinality(us) |-> Word("UID", order[i])]

\* The users, then the channel with its members and lists.
burst_TS6(s) == burst_users(known[s]) \o burst_channel(chan[s])

\* server_estab() on the server that accepted the connection, after SERVER
\* has come in: its own SERVER and its burst go out.
Connect(s, t) ==
    /\ Route[s][t] = t /\ s # t
    /\ t \notin peers[s] /\ s \notin peers[t]
    /\ Use("up")
    /\ peers' = [peers EXCEPT ![s] = @ \cup {t}]
    /\ queue' = [queue EXCEPT ![s] =
                   [queue[s] EXCEPT ![t] = <<[cmd |-> "SERVER"]>> \o burst_TS6(s)]]
    /\ UNCHANGED <<chan, known, clock, grants>>

\* server_estab() on the server that connected.
RecvSERVER(s, t) ==
    /\ queue[s][t] # <<>> /\ Head(queue[s][t]).cmd = "SERVER"
    /\ peers' = [peers EXCEPT ![t] = @ \cup {s}]
    /\ queue' = [a \in Servers |->
                   IF a = t THEN [queue[t] EXCEPT ![s] = burst_TS6(t)]
                   ELSE IF a = s THEN [queue[s] EXCEPT ![t] = Tail(queue[s][t])] ELSE queue[a]]
    /\ UNCHANGED <<chan, known, clock, grants, used>>

\* The link breaks: what is in flight is lost, and both ends drop what is
\* behind it and tell their other links.
exit_local_server(s, t) == Relay(exit_users(s, UsersBehind(s, t)), SQUIT(t))

Split(s, t) ==
    /\ t \in peers[s]
    /\ Use("down")
    /\ LET e == exit_local_server(s, t)
           f == IF s \in peers[t] THEN exit_local_server(t, s) ELSE Here(t)
       IN /\ chan' = [a \in Servers |-> IF a = t THEN f.ch ELSE IF a = s THEN e.ch ELSE chan[a]]
          /\ known' = [a \in Servers |-> IF a = t THEN f.known
                                         ELSE IF a = s THEN e.known ELSE known[a]]
          /\ queue' = [a \in Servers |->
                         IF a = t THEN [sendto_server(t, f, s) EXCEPT ![s] = <<>>]
                         ELSE IF a = s THEN [sendto_server(s, e, t) EXCEPT ![t] = <<>>]
                         ELSE queue[a]]
    /\ peers' = [a \in Servers |-> IF a = t THEN peers[t] \ {s}
                                   ELSE IF a = s THEN peers[s] \ {t} ELSE peers[a]]
    /\ UNCHANGED <<clock, grants>>

\* The effect of the message m from link n on server s.  A command of a user
\* that s does not know is dropped by parse().
ms_uid(s, u) ==
    [ch |-> chan[s], known |-> known[s] \cup {u}, out |-> <<Word("UID", u)>>]

Handle(s, n, m) ==
    IF m.cmd = "UID" THEN ms_uid(s, m.u)
    ELSE IF m.cmd = "SQUIT" THEN ms_squit(s, n, m.sid)
    ELSE IF m.cmd = "SJOIN" THEN ms_sjoin(s, n, m)
    ELSE IF m.cmd = "BMASK" THEN ms_bmask(s, n, m)
    ELSE IF m.u \notin known[s] THEN Here(s)
    ELSE IF m.cmd = "JOIN" THEN ms_join(s, n, m)
    ELSE IF m.cmd = "TMODE" THEN ms_tmode(s, n, m)
    ELSE IF m.cmd = "PART" THEN part_one_client(s, m.u)
    ELSE IF m.cmd = "JOIN0" THEN do_join_0(s, m.u)
    ELSE IF m.cmd = "KICK" THEN m_kick(s, m.u, m.who)
    ELSE ms_quit(s, m.u)

Receive(n, s) ==
    /\ queue[n][s] # <<>> /\ Head(queue[n][s]).cmd # "SERVER"
    /\ LET e == Handle(s, n, Head(queue[n][s]))
       IN /\ Commit(s, e)
          /\ queue' = [a \in Servers |->
                         IF a = s THEN sendto_server(s, e, n)
                         ELSE IF a = n THEN [queue[n] EXCEPT ![s] = Tail(queue[n][s])]
                         ELSE queue[a]]
    /\ UNCHANGED <<peers, clock, grants, used>>

Init ==
    /\ chan = [s \in Servers |-> NoChannel]
    /\ known = [s \in Servers |-> {u \in Users : Home[u] = s}]
    /\ peers = [s \in Servers |-> {}]
    /\ queue = [s \in Servers |-> [t \in Servers |-> <<>>]]
    /\ clock = [s \in Servers |-> 1]
    /\ grants = {}
    /\ used = [k \in Kinds |-> 0]

Next ==
    \/ \E u \in Users : \/ m_join(u) \/ m_join_new(u) \/ m_part(u) \/ m_mode(u)
                        \/ KickUser(u) \/ m_quit(u)
    \/ \E s, t \in Servers : \/ Connect(s, t) \/ RecvSERVER(s, t)
                             \/ Split(s, t) \/ Receive(s, t)

Spec == Init /\ [][Next]_vars

-----------------------------------------------------------------------------
(* Properties.                                                             *)

\* Every piece of state has its type.
TypeOK ==
    /\ chan \in [Servers -> Channel]
    /\ known \in [Servers -> SUBSET Users]
    /\ peers \in [Servers -> SUBSET Servers]
    /\ queue \in [Servers -> [Servers -> Seq(Msg)]]
    /\ clock \in [Servers -> 1..MaxTS]
    /\ grants \in SUBSET (({"o"} \cup BanLists) \X Users \X (1..MaxTS))
    /\ used \in [Kinds -> Nat]

\* A channel exists exactly while it has members, they are users the server
\* knows, nobody is on both member lists or twice on one, and only members
\* have status (s_assert in burst_TS6(), destroy_channel() by the last to
\* leave).
ChannelPopulated ==
    \A s \in Servers : LET c == chan[s] IN
        /\ c.live <=> Members(c) # {}
        /\ Members(c) \subseteq known[s]
        /\ Len(c.op) = Cardinality(Ops(c)) /\ Ops(c) \cap c.noop = {}
        /\ c.voice \cup c.deop \subseteq Members(c) /\ c.deop \cap Ops(c) = {}

\* While a server has the channel its TS never rises: a younger description
\* cannot make itself the older one (TS rules of ms_join() and ms_sjoin()).
TSNeverRises ==
    [][\A s \in Servers :
         chan[s].live /\ chan'[s].live => chan'[s].ts <= chan[s].ts]_vars

\* u was given @, by creating the channel or by +o, under ts or an older TS.
Granted(u, ts) == \E old \in 1..ts : <<"o", u, old>> \in grants

\* What doc/technical/ts6.txt demands of a channel that loses: an operator has
\* been given @ under the TS its server has for the channel or an older one.
\* remove_our_modes() does not see to it (run op_survives).
OpsLegitimate ==
    \A s \in Servers : \A u \in Ops(chan[s]) : Granted(u, chan[s].ts)

\* Nobody gains @ on a server but by having been given it under the TS the
\* channel has there by then, or an older one: a +o or a description that comes
\* late from the younger side of a merge makes no operator of the older channel
\* (the TS check of ms_tmode(), the TS rules and the status of ms_sjoin()).  For
\* the first link: the burst of a later one lists as its own the operators whom
\* remove_our_modes() did not reach in the merge before.
OpsGranted ==
    [][used["up"] <= 1 =>
         \A s \in Servers : \A u \in Ops(chan'[s]) \ Ops(chan[s]) :
             Granted(u, chan[s].ts)']_vars

\* A ban, exception or invite exemption has been set under the TS its server
\* has for the channel or an older one (remove_ban_list(), the TS check of
\* ms_bmask()).
BansLegitimate ==
    \A s \in Servers, l \in BanLists : \A u \in chan[s].list[l] :
        \E ts \in 1..chan[s].ts : <<l, u, ts>> \in grants

\* Nothing in flight, every link established on both ends.
Quiet == \A s, t \in Servers : /\ queue[s][t] = <<>>
                               /\ t \in peers[s] => s \in peers[t]

\* With nothing in flight, linked servers have the same channel TS, if any.
TSAgree ==
    Quiet => \A s \in Servers : \A t \in peers[s] :
                /\ chan[s].live = chan[t].live
                /\ chan[s].ts = chan[t].ts

\* With nothing in flight, linked servers list the same members, whatever JOINs,
\* PARTs and QUITs crossed bursts, splits and the bursts after them.  Only a KICK may break this, when
\* it meets a user who has left and come back: nothing in it tells the two stays
\* apart (m_kick(), whose comment expects channels to be desynced at times).
MembersAgree ==
    Quiet /\ used["kick"] = 0 =>
        \A s \in Servers : \A t \in peers[s] : Members(chan[s]) = Members(chan[t])

\* With nothing in flight, linked servers give @ and + to the same members.
StatusAgree ==
    Quiet => \A s \in Servers : \A t \in peers[s] :
                /\ Ops(chan[s]) = Ops(chan[t])
                /\ chan[s].voice = chan[t].voice

=============================================================================
