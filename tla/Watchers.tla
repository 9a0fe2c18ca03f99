------------------------------ MODULE Watchers ------------------------------
(* The tables of one server that point at clients and channels which come     *)
(* and go: MONITOR (monitor.c, m_monitor.c), ACCEPT (m_accept.c), INVITE      *)
(* (m_invite.c) and WHOWAS (whowas.c).  Most are lists kept at both ends; an  *)
(* exit, a change of nickname and the end of a channel take them apart.       *)
(*                                                                            *)
(* Which user wins a nickname is settled as in NickTS.  Here the loser's exit *)
(* or SAVE and the winner's arrival are steps of their own.                   *)
EXTENDS Naturals, Sequences, FiniteSets, SequencesExt, Lists

CONSTANTS
  Persons,        \* users, each connecting once; a name after a SAVE is the user itself
  Locals,         \* those of this server
  Present,        \* those of them who are there at the start, under their UIDs
  Nicknames,      \* nicknames
  Chans,          \* channels
  max_monitor,    \* general::max_monitor
  max_accept,     \* general::max_accept
  max_chans,      \* channel::max_chans_per_user, which bounds invites too
  WhowasLength,   \* general::whowas_length
  WhowasSlack,    \* entries beyond it before an addition trims (100)
  MaxCommands     \* bound: commands of users

ASSUME WatchersAssumption ==
  /\ Present \subseteq Locals /\ Locals \subseteq Persons /\ Persons \cap Nicknames = {}
  /\ max_chans \in Nat \ {0}
  /\ WhowasLength \in Nat /\ WhowasSlack \in Nat

VARIABLES
  status,         \* of each user: "new", "unknown" (before registration),
                  \* "person", "aborted" (on abort_list), "gone" (freed)
  name,           \* HASH_CLIENT: the name of each user, "" for none
  monitors,       \* HASH_MONITOR: the names that have a struct monitor
  watched_by,     \* struct monitor's users
  monitor_list,   \* localClient->monitor_list
  told,           \* what MONITOR last told each user of a name: is it online?
  allow_list,     \* localClient->allow_list
  on_allow_list,  \* whose allow_list a user is on
  channel,        \* members, operators and +i of each channel; no members: none
  invites,        \* chptr->invites
  invited,        \* localClient->invited, newest first
  whowas,         \* whowas_list, newest first, and whowas_clist of each user
  doubled,        \* history: names that were given away while their holder was
                  \* on abort_list, until they are free again
  commands        \* number of commands of users so far

monitorVars == <<monitors, watched_by, monitor_list, told>>
acceptVars  == <<allow_list, on_allow_list>>
inviteVars  == <<channel, invites, invited>>
nameVars    == <<status, name, doubled>>
watchVars   == <<nameVars, monitorVars, acceptVars, inviteVars, whowas, commands>>

InHash(u)   == status[u] \in {"unknown", "person", "aborted"}
IsPerson(u) == status[u] \in {"person", "aborted"}
Named(n)   == {u \in Persons : InHash(u) /\ name[u] = n}
find_named_person(n) == {u \in Named(n) : IsPerson(u)}

\* A command of a user: parse() hears nobody who is on abort_list.
Commands(u) ==
  /\ status[u] = "person" /\ commands < MaxCommands
  /\ commands' = commands + 1

------------------------------------------------------------------------------
(* MONITOR *)

\* sendto_monitor() to the watchers of a name; t is what they know.
Notify(t, n, up) ==
  [u \in Locals |-> IF n \in monitors /\ u \in watched_by[n]
                    THEN [t[u] EXCEPT ![n] = up] ELSE t[u]]
monitor_signon(t, n)  == Notify(t, n, TRUE)
monitor_signoff(t, n) == Notify(t, n, FALSE)

add_monitor(u, n) ==
  /\ u \in Locals /\ Commands(u)
  /\ Cardinality(monitor_list[u]) < max_monitor
  /\ monitors' = monitors \cup {n}
  /\ u \notin watched_by[n]
  /\ watched_by' = [watched_by EXCEPT ![n] = @ \cup {u}]
  /\ monitor_list' = [monitor_list EXCEPT ![u] = @ \cup {n}]
  /\ told' = [told EXCEPT ![u][n] = find_named_person(n) # {}]
  /\ UNCHANGED <<nameVars, acceptVars, inviteVars, whowas>>

\* u stops watching the names ns; free_monitor() frees those nobody watches.
Unwatch(u, ns) ==
  /\ watched_by' = [n \in Nicknames |-> watched_by[n] \ (IF n \in ns THEN {u} ELSE {})]
  /\ monitor_list' = [monitor_list EXCEPT ![u] = @ \ ns]
  /\ monitors' = {n \in monitors : n \in ns => watched_by'[n] # {}}

\* What is known of a name no longer watched is forgotten.
Forget(t, u, ns) == [t EXCEPT ![u] = [n \in Nicknames |-> @[n] /\ n \notin ns]]

del_monitor(u, n) ==
  /\ u \in Locals /\ Commands(u)
  /\ monitor_list[u] # {} /\ n \in monitors
  /\ Unwatch(u, {n}) /\ told' = Forget(told, u, {n})
  /\ UNCHANGED <<nameVars, acceptVars, inviteVars, whowas>>

m_monitor_clear(u) ==
  /\ u \in Locals /\ Commands(u)
  /\ Unwatch(u, monitor_list[u]) /\ told' = Forget(told, u, monitor_list[u])
  /\ UNCHANGED <<nameVars, acceptVars, inviteVars, whowas>>

------------------------------------------------------------------------------
(* ACCEPT *)

accept_message(t, u) == t = u \/ t \in allow_list[u]

m_accept(u, n) ==
  /\ u \in Locals /\ Commands(u)
  /\ \E t \in find_named_person(n) :
       \/ /\ ~accept_message(t, u) /\ Cardinality(allow_list[u]) < max_accept
          /\ allow_list' = [allow_list EXCEPT ![u] = @ \cup {t}]
          /\ on_allow_list' = [on_allow_list EXCEPT ![t] = @ \cup {u}]
       \/ /\ accept_message(t, u)
          /\ allow_list' = [allow_list EXCEPT ![u] = @ \ {t}]
          /\ on_allow_list' = [on_allow_list EXCEPT ![t] = @ \ {u}]
  /\ UNCHANGED <<nameVars, monitorVars, inviteVars, whowas>>

\* A new nickname takes a user off the lists of the others.
drop_accepts(u) ==
  /\ allow_list' = [v \in Locals |-> allow_list[v] \ (IF v \in on_allow_list[u] THEN {u} ELSE {})]
  /\ on_allow_list' = [on_allow_list EXCEPT ![u] = {}]

\* An exit takes apart both his own list and his places on the others'.
del_all_accepts_Others(u) == drop_accepts(u)
del_all_accepts(u) ==
  LET own == IF u \in Locals THEN allow_list[u] ELSE {}
  IN  /\ allow_list' = [v \in Locals |->
                          IF v = u THEN {}
                          ELSE allow_list[v] \ (IF v \in on_allow_list[u] THEN {u} ELSE {})]
      /\ on_allow_list' = [v \in Persons |->
                             IF v = u THEN {}
                             ELSE on_allow_list[v] \ (IF v \in own THEN {u} ELSE {})]

------------------------------------------------------------------------------
(* WHOWAS: w is the list and the users' own lists of entries with online set *)

EntryIds == 1 .. WhowasLength + WhowasSlack + 2

whowas_trim(w) ==
  IF Len(w.list) <= WhowasLength THEN w
  ELSE LET over == Range(SubSeq(w.list, WhowasLength + 1, Len(w.list)))
       IN  [list  |-> SubSeq(w.list, 1, WhowasLength),
            clist |-> [u \in Persons |-> w.clist[u] \ {e.id : e \in {o \in over : u \in o.online}}]]

whowas_add_history(w, u, online) ==
  LET v  == IF Len(w.list) > WhowasLength + WhowasSlack THEN whowas_trim(w) ELSE w
      id == CHOOSE i \in EntryIds : \A e \in Range(v.list) : e.id # i
  IN  [list  |-> <<[id |-> id, name |-> name[u], online |-> IF online THEN {u} ELSE {}]>> \o v.list,
       clist |-> IF online THEN [v.clist EXCEPT ![u] = @ \cup {id}] ELSE v.clist]

whowas_off_history(w, u) ==
  [list  |-> [i \in DOMAIN w.list |->
                IF w.list[i].id \in w.clist[u] THEN [w.list[i] EXCEPT !.online = {}] ELSE w.list[i]],
   clist |-> [w.clist EXCEPT ![u] = {}]]

\* The event every ten seconds; a REHASH that shortens the list does the same.
whowas_trim_event ==
  /\ Len(whowas.list) > WhowasLength
  /\ whowas' = whowas_trim(whowas)
  /\ UNCHANGED <<nameVars, monitorVars, acceptVars, inviteVars, commands>>

------------------------------------------------------------------------------
(* Channels and INVITE *)

NoChannel == [members |-> {}, ops |-> {}, invite_only |-> FALSE]

\* Invites are removed at both ends.
Uninvited(inv, chs, us) ==
  [u \in Locals |-> IF u \in us THEN Without(inv[u], chs) ELSE inv[u]]

\* u leaves the channels chs; destroy_channel() ends those left empty, with the
\* invites to them.
Leave(u, chs) ==
  [c \in Chans |-> IF c \notin chs THEN channel[c]
                   ELSE IF channel[c].members \subseteq {u} THEN NoChannel
                   ELSE [members |-> channel[c].members \ {u}, ops |-> channel[c].ops \ {u},
                         invite_only |-> channel[c].invite_only]]
On(u) == {c \in Chans : u \in channel[c].members}
destroy_channel(u, chs) == {c \in chs : channel[c].members = {u}}

part(u, c) ==
  LET ended == destroy_channel(u, {c})
  IN  /\ u \in channel[c].members /\ Commands(u)
      /\ channel' = Leave(u, {c})
      /\ invites' = [d \in Chans |-> IF d \in ended THEN {} ELSE invites[d]]
      /\ invited' = Uninvited(invited, ended, UNION {invites[d] : d \in ended})
      /\ UNCHANGED <<nameVars, monitorVars, acceptVars, whowas>>

\* A local user needs an invite to a +i channel and uses it up; a user of
\* another server was let in there.
join(u, c) ==
  /\ Commands(u) /\ u \notin channel[c].members
  /\ (u \in Locals /\ channel[c].invite_only) => Contains(invited[u], c)
  /\ channel' = [channel EXCEPT ![c] =
                    [members |-> @.members \cup {u},
                     ops |-> IF @.members = {} THEN {u} ELSE @.ops,
                     invite_only |-> @.invite_only]]
  /\ IF u \in Locals
     THEN /\ invites' = [invites EXCEPT ![c] = @ \ {u}]
          /\ invited' = Uninvited(invited, {c}, {u})
     ELSE UNCHANGED <<invites, invited>>
  /\ UNCHANGED <<nameVars, monitorVars, acceptVars, whowas>>

mode_i(u, c) ==
  /\ u \in channel[c].ops /\ Commands(u)
  /\ channel' = [channel EXCEPT ![c] = [members |-> @.members, ops |-> @.ops,
                                         invite_only |-> ~@.invite_only]]
  /\ UNCHANGED <<nameVars, monitorVars, acceptVars, invites, invited, whowas>>

\* The oldest invite makes room for a new one.
add_invite(c, t) ==
  LET full == Len(invited[t]) >= max_chans
      old  == IF full THEN {Last(invited[t])} ELSE {}
  IN  IF Contains(invited[t], c) THEN UNCHANGED <<invites, invited>>
      ELSE /\ invites' = [d \in Chans |-> (invites[d] \ (IF d \in old THEN {t} ELSE {}))
                                          \cup (IF d = c THEN {t} ELSE {})]
           /\ invited' = [invited EXCEPT ![t] = <<c>> \o Without(@, old)]

\* Invites of others to a user of this server are kept when the channel is +i.
m_invite(u, n, c) ==
  /\ Commands(u) /\ channel[c].members # {}
  /\ u \in Locals => u \in channel[c].members
  /\ channel[c].invite_only /\ (u \in Locals => u \in channel[c].ops)
  /\ \E t \in find_named_person(n) \cap Locals :
       t \notin channel[c].members /\ add_invite(c, t)
  /\ UNCHANGED <<nameVars, monitorVars, acceptVars, channel, whowas>>

------------------------------------------------------------------------------
(* Users come, change their nicknames and go *)

\* NICK of a new connection, which takes a name that nobody has.
m_nick_new(u, n) ==
  /\ u \in Locals /\ status[u] = "new" /\ Named(n) = {}
  /\ status' = [status EXCEPT ![u] = "unknown"] /\ name' = [name EXCEPT ![u] = n]
  /\ UNCHANGED <<doubled, monitorVars, acceptVars, inviteVars, whowas, commands>>

register_local(u) ==
  /\ status[u] = "unknown"
  /\ status' = [status EXCEPT ![u] = "person"]
  /\ told' = monitor_signon(told, name[u])
  /\ UNCHANGED <<name, doubled, monitors, watched_by, monitor_list,
                 acceptVars, inviteVars, whowas, commands>>

\* A name from another server is taken even from a client on abort_list, whom
\* exit_client() leaves in the table.
Takeable(n) == \A v \in Named(n) : status[v] = "aborted"
Given(n) == {n} \cap {m \in Nicknames : Named(m) # {}}
Freed(u) == {name[u]} \cap {m \in Nicknames : Named(m) = {u}}

register_remote(u, n) ==
  /\ u \notin Locals /\ status[u] = "new" /\ Takeable(n)
  /\ status' = [status EXCEPT ![u] = "person"] /\ name' = [name EXCEPT ![u] = n]
  /\ doubled' = doubled \cup Given(n)
  /\ told' = monitor_signon(told, n)
  /\ UNCHANGED <<monitors, watched_by, monitor_list, acceptVars, inviteVars, whowas, commands>>

\* change_local_nick() and change_remote_nick(); n is the same name when only
\* the case of letters changes, and the user itself when it is a SAVE.
change_nick_Quiet(u, n) ==
  /\ name' = [name EXCEPT ![u] = n]
  /\ told' = IF n = name[u] THEN told ELSE monitor_signoff(told, name[u])
  /\ whowas' = whowas_add_history(whowas, u, TRUE)
  /\ drop_accepts(u)
change_nick(u, n) ==
  /\ name' = [name EXCEPT ![u] = n]
  /\ told' = IF n = name[u] THEN told
             ELSE monitor_signon(monitor_signoff(told, name[u]), n)
  /\ whowas' = whowas_add_history(whowas, u, TRUE)
  /\ drop_accepts(u)

nick(u, n) ==
  /\ Commands(u)
  /\ \/ n = name[u]
     \/ n \in Nicknames /\ IF u \in Locals THEN Named(n) = {} ELSE Takeable(n)
  /\ doubled' = IF n = name[u] THEN doubled ELSE (doubled \ Freed(u)) \cup Given(n)
  /\ change_nick(u, n)
  /\ UNCHANGED <<status, monitors, watched_by, monitor_list, inviteVars>>

\* SAVE reaches a client on abort_list too.
saved(u) ==
  /\ IsPerson(u) /\ name[u] # u
  /\ change_nick(u, u)
  /\ doubled' = doubled \ Freed(u)
  /\ UNCHANGED <<status, monitors, watched_by, monitor_list, inviteVars, commands>>

\* dead_link(): the socket of a local client failed.
abort(u) ==
  /\ u \in Locals /\ status[u] = "person"
  /\ status' = [status EXCEPT ![u] = "aborted"]
  /\ UNCHANGED <<name, doubled, monitorVars, acceptVars, inviteVars, whowas, commands>>

\* exit_generic_client(), and exit_local_client() for a client of this server.
exit_person(u) ==
  LET ended == destroy_channel(u, On(u))
      asked == IF u \in Locals THEN ToSet(invited[u]) ELSE {}
      known == monitor_signoff(told, name[u])
  IN  /\ IsPerson(u)
      /\ status' = [status EXCEPT ![u] = "gone"] /\ name' = [name EXCEPT ![u] = ""]
      /\ doubled' = doubled \ Freed(u)
      /\ channel' = Leave(u, On(u))
      /\ invites' = [c \in Chans |-> IF c \in ended THEN {}
                                     ELSE invites[c] \ (IF c \in asked THEN {u} ELSE {})]
      /\ invited' = Uninvited(Uninvited(invited, ended, UNION {invites[c] : c \in ended}),
                              Chans, {u} \cap Locals)
      /\ del_all_accepts(u)
      /\ whowas' = whowas_off_history(whowas_add_history(whowas, u, FALSE), u)
      /\ IF u \in Locals
         THEN /\ Unwatch(u, monitor_list[u])
              /\ told' = Forget(known, u, monitor_list[u])
         ELSE told' = known /\ UNCHANGED <<monitors, watched_by, monitor_list>>
      /\ UNCHANGED commands

exit_unknown(u) ==
  /\ status[u] = "unknown"
  /\ status' = [status EXCEPT ![u] = "gone"] /\ name' = [name EXCEPT ![u] = ""]
  /\ UNCHANGED <<doubled, monitorVars, acceptVars, inviteVars, whowas, commands>>

------------------------------------------------------------------------------
WatchersInit ==
  /\ status = [u \in Persons |-> IF u \in Present THEN "person" ELSE "new"]
  /\ name = [u \in Persons |-> IF u \in Present THEN u ELSE ""]
  /\ monitors = {} /\ watched_by = [n \in Nicknames |-> {}]
  /\ monitor_list = [u \in Locals |-> {}]
  /\ told = [u \in Locals |-> [n \in Nicknames |-> FALSE]]
  /\ allow_list = [u \in Locals |-> {}] /\ on_allow_list = [u \in Persons |-> {}]
  /\ \E open \in SUBSET Chans : channel =
       [c \in Chans |-> IF c \in open /\ Present # {}
                        THEN [members |-> Present, ops |-> Present, invite_only |-> TRUE]
                        ELSE NoChannel]
  /\ invites = [c \in Chans |-> {}] /\ invited = [u \in Locals |-> <<>>]
  /\ whowas = [list |-> <<>>, clist |-> [u \in Persons |-> {}]]
  /\ doubled = {} /\ commands = 0

WatchersNext ==
  \/ \E u \in Persons, n \in Nicknames :
       \/ add_monitor(u, n) \/ del_monitor(u, n)
       \/ m_nick_new(u, n) \/ register_remote(u, n)
  \/ \E u \in Persons, n \in Nicknames \cup Persons :
       \/ m_accept(u, n)
       \/ \E c \in Chans : m_invite(u, n, c)
  \/ \E u \in Persons : \E n \in Nicknames \cup {u} : nick(u, n)
  \/ \E u \in Persons :
       \/ m_monitor_clear(u) \/ register_local(u) \/ saved(u)
       \/ abort(u) \/ exit_person(u) \/ exit_unknown(u)
       \/ \E c \in Chans : join(u, c) \/ part(u, c) \/ mode_i(u, c)
  \/ whowas_trim_event

WatchersSpec == WatchersInit /\ [][WatchersNext]_watchVars

------------------------------------------------------------------------------
MonitorsLinked ==
  /\ \A n \in Nicknames : watched_by[n] = {u \in Locals : n \in monitor_list[u]}
  /\ monitors = {n \in Nicknames : watched_by[n] # {}}
  /\ \A u \in Locals : monitor_list[u] # {} => IsPerson(u)

AcceptsLinked ==
  /\ \A t \in Persons : on_allow_list[t] = {u \in Locals : t \in allow_list[u]}
  /\ \A u \in Locals : \A t \in allow_list[u] : IsPerson(u) /\ IsPerson(t)

InvitesLinked ==
  /\ \A c \in Chans : invites[c] = {u \in Locals : Contains(invited[u], c)}
  /\ \A u \in Locals : \A c \in ToSet(invited[u]) : IsPerson(u) /\ channel[c].members # {}

HistoryLinked ==
  \A u \in Persons :
    /\ whowas.clist[u] = {e.id : e \in {o \in Range(whowas.list) : u \in o.online}}
    /\ whowas.clist[u] # {} => IsPerson(u)

\* No table of watchers outlives what it points to, and lists kept at both ends
\* agree: monitored names with their watchers (clear_monitor(), free_monitor()),
\* accept lists (del_all_accepts()), invites (del_invite(), destroy_channel()) and
\* the clients that WHOWAS entries lead a KILL to (whowas_off_history()).
NoStalePointers == MonitorsLinked /\ AcceptsLinked /\ InvitesLinked /\ HistoryLinked

\* What MONITOR last told a user about a name he watches is true: somebody has
\* that nickname exactly when he was told so, through collisions, SAVEs, changes
\* of letter case and exits (monitor_signon(), monitor_signoff()).  A name given
\* away while its last holder waits on abort_list is excepted until it is free:
\* the exit of that holder signs it off under the new one.
MonitorTrue ==
  \A u \in Locals : \A n \in monitor_list[u] \ doubled :
    told[u][n] <=> find_named_person(n) # {}
=============================================================================
