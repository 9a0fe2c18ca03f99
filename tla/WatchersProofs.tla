--------------------------- MODULE WatchersProofs ---------------------------
(* Proofs about Watchers: lists kept at both ends agree and lead nowhere      *)
(* stale, and what MONITOR told its users is true.                            *)
(*                                                                            *)
(* Each table has a conjunct of the inductive invariant and a lemma that      *)
(* every step preserves it; the entries of WHOWAS need ids that are never     *)
(* used up, and the truth of MONITOR that a name has one holder unless it is  *)
(* doubled.                                                                   *)
EXTENDS Watchers, ListsProofs, FiniteSetTheorems, TLAPS

-----------------------------------------------------------------------------
(* The inductive invariant.                                                *)

Statuses == {"new", "unknown", "person", "aborted", "gone"}

NamesOK ==
    /\ status \in [Persons -> Statuses]
    /\ name \in [Persons -> Nicknames \cup Persons \cup {""}]
    /\ doubled \subseteq Nicknames

MonitorsOK ==
    /\ monitors \subseteq Nicknames
    /\ watched_by \in [Nicknames -> SUBSET Locals]
    /\ monitor_list \in [Locals -> SUBSET Nicknames]
    /\ told \in [Locals -> [Nicknames -> BOOLEAN]]

AcceptsOK ==
    /\ allow_list \in [Locals -> SUBSET Persons]
    /\ on_allow_list \in [Persons -> SUBSET Locals]

Channel == [members : SUBSET Persons, ops : SUBSET Persons, invite_only : BOOLEAN]

InvitesOK ==
    /\ channel \in [Chans -> Channel]
    /\ invites \in [Chans -> SUBSET Locals]
    /\ invited \in [Locals -> Seq(Chans)]

Entry == [id : EntryIds, name : Nicknames \cup Persons \cup {""}, online : SUBSET Persons]

\* The entries of a list l of WHOWAS are told apart by their ids, each is of one
\* user at most, and cl holds the entries of each user who is online.
Listed(l, cl) ==
    /\ \A i, j \in 1..Len(l) : l[i].id = l[j].id => i = j
    /\ \A i \in 1..Len(l) : \A u, v \in l[i].online : u = v
    /\ \A u \in Persons : \A d \in EntryIds :
          d \in cl[u] <=> \E i \in 1..Len(l) : l[i].id = d /\ u \in l[i].online

HistoryOK(w) ==
    /\ w \in [list : Seq(Entry), clist : [Persons -> SUBSET EntryIds]]
    /\ Len(w.list) <= WhowasLength + WhowasSlack + 1
    /\ Listed(w.list, w.clist)

WatchTypes == NamesOK /\ MonitorsOK /\ AcceptsOK /\ InvitesOK /\ HistoryOK(whowas)

\* A name that is not doubled has at most one holder.
OneHolderEach == \A n \in Nicknames \ doubled : \A u, v \in Named(n) : u = v

-----------------------------------------------------------------------------
(* Users.                                                                  *)

\* A step that lets everybody stay.
Stay == \A v \in Persons : IsPerson(v) => IsPerson(v)'

\* Only the exit of a user ends a person.
LEMMA PersonsStay ==
    ASSUME NamesOK, WatchersNext, ~ \E u \in Persons : exit_person(u)
    PROVE  Stay
  <1> USE DEF NamesOK, Stay, IsPerson, Statuses
  <1>1. ASSUME UNCHANGED status PROVE Stay
    BY <1>1
  <1>2. ASSUME NEW u \in Persons, NEW n \in Nicknames,
               \/ add_monitor(u, n) \/ del_monitor(u, n)
               \/ m_nick_new(u, n) \/ register_remote(u, n)
        PROVE  Stay
    BY <1>1, <1>2 DEF add_monitor, del_monitor, m_nick_new, register_remote, nameVars
  <1>3. ASSUME NEW u \in Persons, NEW n \in Nicknames \cup Persons,
               m_accept(u, n) \/ \E c \in Chans : m_invite(u, n, c)
        PROVE  Stay
    BY <1>1, <1>3 DEF m_accept, m_invite, nameVars
  <1>4. ASSUME NEW u \in Persons, NEW n \in Nicknames \cup {u}, nick(u, n)
        PROVE  Stay
    BY <1>1, <1>4 DEF nick
  <1>5. ASSUME NEW u \in Persons,
               \/ m_monitor_clear(u) \/ register_local(u) \/ saved(u)
               \/ abort(u) \/ exit_unknown(u)
               \/ \E c \in Chans : join(u, c) \/ part(u, c) \/ mode_i(u, c)
        PROVE  Stay
    BY <1>1, <1>5 DEF m_monitor_clear, register_local, saved, abort, exit_unknown,
                      join, part, mode_i, nameVars
  <1>6. CASE whowas_trim_event
    BY <1>1, <1>6 DEF whowas_trim_event, nameVars
  <1> QED BY <1>2, <1>3, <1>4, <1>5, <1>6 DEF WatchersNext

\* An exit ends one person.
LEMMA OneLeaves ==
    ASSUME NamesOK, NEW u \in Persons, exit_person(u)
    PROVE  \A v \in Persons \ {u} : IsPerson(v) => IsPerson(v)'
  BY DEF NamesOK, exit_person, IsPerson

-----------------------------------------------------------------------------
(* MONITOR.                                                                *)

\* What the steps do to the tables of MONITOR, but for what users were told.
LEMMA MonitorSteps ==
    ASSUME WatchersNext
    PROVE  \/ \E u \in Persons, n \in Nicknames : add_monitor(u, n) \/ del_monitor(u, n)
           \/ \E u \in Persons : m_monitor_clear(u)
           \/ \E u \in Persons : exit_person(u)
           \/ /\ ~ \E u \in Persons : exit_person(u)
              /\ UNCHANGED <<monitors, watched_by, monitor_list>>
  <1> USE DEF monitorVars
  <1>2. ASSUME NEW u \in Persons, NEW n \in Nicknames,
               m_nick_new(u, n) \/ register_remote(u, n)
        PROVE  UNCHANGED <<monitors, watched_by, monitor_list>>
    BY <1>2 DEF m_nick_new, register_remote
  <1>3. ASSUME NEW u \in Persons, NEW n \in Nicknames \cup Persons,
               m_accept(u, n) \/ \E c \in Chans : m_invite(u, n, c)
        PROVE  UNCHANGED <<monitors, watched_by, monitor_list>>
    BY <1>3 DEF m_accept, m_invite
  <1>4. ASSUME NEW u \in Persons, NEW n \in Nicknames \cup {u}, nick(u, n)
        PROVE  UNCHANGED <<monitors, watched_by, monitor_list>>
    BY <1>4 DEF nick
  <1>5. ASSUME NEW u \in Persons,
               \/ register_local(u) \/ saved(u) \/ abort(u) \/ exit_unknown(u)
               \/ \E c \in Chans : join(u, c) \/ part(u, c) \/ mode_i(u, c)
        PROVE  UNCHANGED <<monitors, watched_by, monitor_list>>
    BY <1>5 DEF register_local, saved, abort, exit_unknown, join, part, mode_i
  <1>6. CASE whowas_trim_event
    BY <1>6 DEF whowas_trim_event
  <1> QED BY <1>2, <1>3, <1>4, <1>5, <1>6 DEF WatchersNext

\* Unwatch takes a user and names apart at both ends, and frees the names that
\* nobody watches any more.
LEMMA Unwatched ==
    ASSUME MonitorsOK, MonitorsLinked, NEW u \in Locals, NEW ns \in SUBSET Nicknames,
           Unwatch(u, ns)
    PROVE  /\ monitors' \subseteq Nicknames
           /\ watched_by' \in [Nicknames -> SUBSET Locals]
           /\ monitor_list' \in [Locals -> SUBSET Nicknames]
           /\ monitor_list'[u] = monitor_list[u] \ ns
           /\ \A v \in Locals \ {u} : monitor_list'[v] = monitor_list[v]
           /\ \A n \in Nicknames : watched_by'[n] = {v \in Locals : n \in monitor_list'[v]}
           /\ monitors' = {n \in Nicknames : watched_by'[n] # {}}
  <1>1. monitor_list' \in [Locals -> SUBSET Nicknames] /\ monitor_list'[u] = monitor_list[u] \ ns
        /\ \A v \in Locals \ {u} : monitor_list'[v] = monitor_list[v]
    BY DEF MonitorsOK, Unwatch
  <1>2. watched_by' \in [Nicknames -> SUBSET Locals]
    BY DEF MonitorsOK, Unwatch
  <1>3. \A n \in Nicknames : watched_by'[n] = watched_by[n] \ (IF n \in ns THEN {u} ELSE {})
    BY DEF Unwatch
  <1>4. ASSUME NEW n \in Nicknames PROVE watched_by'[n] = {v \in Locals : n \in monitor_list'[v]}
    BY <1>1, <1>3, <1>4 DEF MonitorsLinked
  <1>5. monitors' = {n \in Nicknames : watched_by'[n] # {}}
    <2>1. monitors' = {n \in monitors : n \in ns => watched_by'[n] # {}} BY DEF Unwatch
    <2> QED BY <1>3, <2>1 DEF MonitorsLinked
  <1> QED BY <1>1, <1>2, <1>4, <1>5

\* Whoever the server told, the tables keep their types.
LEMMA NotifyType ==
    ASSUME NEW t \in [Locals -> [Nicknames -> BOOLEAN]], NEW n, NEW up \in BOOLEAN
    PROVE  /\ Notify(t, n, up) \in [Locals -> [Nicknames -> BOOLEAN]]
           /\ \A u \in Locals, m \in Nicknames :
                Notify(t, n, up)[u][m] =
                  IF n \in monitors /\ u \in watched_by[n] /\ m = n THEN up ELSE t[u][m]
  BY DEF Notify

\* A user forgets names.
LEMMA ForgetType ==
    ASSUME NEW t \in [Locals -> [Nicknames -> BOOLEAN]], NEW u \in Locals, NEW ns
    PROVE  /\ Forget(t, u, ns) \in [Locals -> [Nicknames -> BOOLEAN]]
           /\ \A v \in Locals, m \in Nicknames :
                Forget(t, u, ns)[v][m] = IF v = u THEN t[u][m] /\ m \notin ns ELSE t[v][m]
  BY DEF Forget

\* The lists of MONITOR agree at both ends after every step.
LEMMA MonitorsStep ==
    ASSUME NamesOK, MonitorsOK, MonitorsLinked, WatchersNext
    PROVE  /\ monitors' \subseteq Nicknames
           /\ watched_by' \in [Nicknames -> SUBSET Locals]
           /\ monitor_list' \in [Locals -> SUBSET Nicknames]
           /\ MonitorsLinked'
  <1> DEFINE Goal == /\ monitors' \subseteq Nicknames
                     /\ watched_by' \in [Nicknames -> SUBSET Locals]
                     /\ monitor_list' \in [Locals -> SUBSET Nicknames]
                     /\ MonitorsLinked'
  <1>0. \A u \in Locals : u \in Persons BY WatchersAssumption
  <1>1. ASSUME NEW u \in Persons, NEW n \in Nicknames, add_monitor(u, n) PROVE Goal
    <2>1. /\ u \in Locals /\ status[u] = "person" /\ status' = status
          /\ monitors' = monitors \cup {n}
          /\ watched_by' = [watched_by EXCEPT ![n] = @ \cup {u}]
          /\ monitor_list' = [monitor_list EXCEPT ![u] = @ \cup {n}]
      BY <1>1 DEF add_monitor, Commands, nameVars
    <2>2. /\ watched_by' \in [Nicknames -> SUBSET Locals]
          /\ monitor_list' \in [Locals -> SUBSET Nicknames]
          /\ monitors' \subseteq Nicknames
      BY <2>1 DEF MonitorsOK
    <2>3. \A m \in Nicknames : watched_by'[m] = {v \in Locals : m \in monitor_list'[v]}
      BY <2>1, <2>2 DEF MonitorsOK, MonitorsLinked
    <2>4. monitors' = {m \in Nicknames : watched_by'[m] # {}}
      BY <2>1, <2>2 DEF MonitorsOK, MonitorsLinked
    <2>5. \A v \in Locals : monitor_list'[v] # {} => IsPerson(v)'
      BY <2>1, <2>2 DEF MonitorsOK, MonitorsLinked, IsPerson
    <2> QED BY <2>2, <2>3, <2>4, <2>5 DEF MonitorsLinked
  <1>2. ASSUME NEW u \in Locals, NEW ns \in SUBSET Nicknames, Unwatch(u, ns), status' = status
        PROVE  Goal
    <2>1. \A v \in Locals : monitor_list'[v] # {} => monitor_list[v] # {}
      BY <1>2, Unwatched
    <2>2. \A v \in Locals : monitor_list'[v] # {} => IsPerson(v)'
      BY <1>2, <2>1 DEF MonitorsLinked, IsPerson
    <2> QED BY <1>2, <2>2, Unwatched DEF MonitorsLinked
  <1>3. ASSUME NEW u \in Persons, NEW n \in Nicknames, del_monitor(u, n) PROVE Goal
    BY <1>2, <1>3 DEF del_monitor, nameVars
  <1>4. ASSUME NEW u \in Persons, m_monitor_clear(u) PROVE Goal
    <2>1. u \in Locals /\ Unwatch(u, monitor_list[u]) /\ status' = status
      BY <1>4 DEF m_monitor_clear, nameVars
    <2> QED BY <1>2, <2>1 DEF MonitorsOK
  <1>5. ASSUME NEW u \in Persons, exit_person(u) PROVE Goal
    <2>1. \A v \in Persons \ {u} : IsPerson(v) => IsPerson(v)' BY <1>5, OneLeaves
    <2>2. CASE u \in Locals
      <3>1. Unwatch(u, monitor_list[u]) /\ monitor_list[u] \in SUBSET Nicknames
        BY <1>5, <2>2 DEF exit_person, MonitorsOK
      <3>2. /\ monitor_list'[u] = {}
            /\ \A v \in Locals \ {u} : monitor_list'[v] = monitor_list[v]
        BY <2>2, <3>1, Unwatched
      <3>3. \A v \in Locals : monitor_list'[v] # {} => IsPerson(v)'
        BY <1>0, <2>1, <3>2 DEF MonitorsLinked
      <3> QED BY <2>2, <3>1, <3>3, Unwatched DEF MonitorsLinked
    <2>3. CASE u \notin Locals
      <3>1. UNCHANGED <<monitors, watched_by, monitor_list>>
        BY <1>5, <2>3 DEF exit_person
      <3> QED BY <1>0, <2>1, <2>3, <3>1 DEF MonitorsOK, MonitorsLinked
    <2> QED BY <2>2, <2>3
  <1>6. CASE /\ ~ \E u \in Persons : exit_person(u)
             /\ UNCHANGED <<monitors, watched_by, monitor_list>>
    <2>1. Stay BY <1>6, PersonsStay
    <2> QED BY <1>0, <1>6, <2>1 DEF MonitorsOK, MonitorsLinked, Stay
  <1> QED BY <1>1, <1>3, <1>4, <1>5, <1>6, MonitorSteps

-----------------------------------------------------------------------------
(* ACCEPT.                                                                 *)

\* What the steps do to the accept lists.
LEMMA AcceptSteps ==
    ASSUME WatchersNext
    PROVE  \/ \E u \in Persons, n \in Nicknames \cup Persons : m_accept(u, n)
           \/ \E u \in Persons : exit_person(u)
           \/ /\ ~ \E u \in Persons : exit_person(u)
              /\ (\E u \in Persons : drop_accepts(u)) \/ UNCHANGED acceptVars
  <1> DEFINE Goal == (\E u \in Persons : drop_accepts(u)) \/ UNCHANGED acceptVars
  <1>2. ASSUME NEW u \in Persons, NEW n \in Nicknames,
               \/ add_monitor(u, n) \/ del_monitor(u, n)
               \/ m_nick_new(u, n) \/ register_remote(u, n)
        PROVE  UNCHANGED acceptVars
    BY <1>2 DEF add_monitor, del_monitor, m_nick_new, register_remote
  <1>3. ASSUME NEW u \in Persons, NEW n \in Nicknames \cup Persons,
               \E c \in Chans : m_invite(u, n, c)
        PROVE  UNCHANGED acceptVars
    BY <1>3 DEF m_invite
  <1>4. ASSUME NEW u \in Persons,
               saved(u) \/ \E n \in Nicknames \cup {u} : nick(u, n)
        PROVE  drop_accepts(u)
    BY <1>4 DEF nick, saved, change_nick
  <1>5. ASSUME NEW u \in Persons,
               \/ m_monitor_clear(u) \/ register_local(u) \/ abort(u) \/ exit_unknown(u)
               \/ \E c \in Chans : join(u, c) \/ part(u, c) \/ mode_i(u, c)
        PROVE  UNCHANGED acceptVars
    BY <1>5 DEF m_monitor_clear, register_local, abort, exit_unknown, join, part, mode_i
  <1>6. CASE whowas_trim_event
    BY <1>6 DEF whowas_trim_event
  <1> QED BY <1>2, <1>3, <1>4, <1>5, <1>6 DEF WatchersNext

\* The accept lists agree at both ends after every step.
LEMMA AcceptsStep ==
    ASSUME NamesOK, AcceptsOK, AcceptsLinked, WatchersNext
    PROVE  AcceptsOK' /\ AcceptsLinked'
  <1>0. \A u \in Locals : u \in Persons BY WatchersAssumption
  <1>1. ASSUME NEW u \in Persons, NEW n \in Nicknames \cup Persons, m_accept(u, n)
        PROVE  AcceptsOK' /\ AcceptsLinked'
    <2>1. /\ u \in Locals /\ status' = status /\ IsPerson(u)
      BY <1>1 DEF m_accept, Commands, nameVars, IsPerson
    <2>2. PICK t \in Persons :
            /\ IsPerson(t)
            /\ \/ /\ allow_list' = [allow_list EXCEPT ![u] = @ \cup {t}]
                  /\ on_allow_list' = [on_allow_list EXCEPT ![t] = @ \cup {u}]
               \/ /\ allow_list' = [allow_list EXCEPT ![u] = @ \ {t}]
                  /\ on_allow_list' = [on_allow_list EXCEPT ![t] = @ \ {u}]
      BY <1>1 DEF m_accept, find_named_person, Named
    <2>3. AcceptsOK' BY <2>1, <2>2 DEF AcceptsOK
    <2>4. \A v \in Persons : on_allow_list'[v] = {w \in Locals : v \in allow_list'[w]}
      BY <2>1, <2>2, <2>3 DEF AcceptsOK, AcceptsLinked
    <2>5. \A v \in Locals : \A w \in allow_list'[v] : IsPerson(v) /\ IsPerson(w)
      BY <2>1, <2>2, <2>3 DEF AcceptsOK, AcceptsLinked
    <2> QED BY <2>1, <2>3, <2>4, <2>5 DEF AcceptsLinked, IsPerson
  <1>2. ASSUME NEW u \in Persons, drop_accepts(u), Stay
        PROVE  AcceptsOK' /\ AcceptsLinked'
    <2>1. AcceptsOK' BY <1>2 DEF drop_accepts, AcceptsOK
    <2>2. \A v \in Persons : on_allow_list'[v] = {w \in Locals : v \in allow_list'[w]}
      BY <1>2, <2>1 DEF drop_accepts, AcceptsOK, AcceptsLinked
    <2>3. \A v \in Locals : allow_list'[v] \subseteq allow_list[v]
      BY <1>2 DEF drop_accepts, AcceptsOK
    <2>4. \A v \in Locals : \A w \in allow_list'[v] : IsPerson(v)' /\ IsPerson(w)'
      BY <1>0, <1>2, <2>3 DEF AcceptsOK, AcceptsLinked, Stay
    <2> QED BY <2>1, <2>2, <2>4 DEF AcceptsLinked
  <1>3. ASSUME NEW u \in Persons, exit_person(u)
        PROVE  AcceptsOK' /\ AcceptsLinked'
    <2>0. del_all_accepts(u) BY <1>3 DEF exit_person
    <2>1. AcceptsOK' BY <2>0 DEF del_all_accepts, AcceptsOK
    <2>2. \A v \in Persons : on_allow_list'[v] = {w \in Locals : v \in allow_list'[w]}
      BY <2>0, <2>1 DEF del_all_accepts, AcceptsOK, AcceptsLinked
    <2>3. \A v \in Locals : allow_list'[v] \subseteq allow_list[v] /\ u \notin allow_list'[v]
      BY <2>0 DEF del_all_accepts, AcceptsOK, AcceptsLinked
    <2>4. u \in Locals => allow_list'[u] = {}
      BY <2>0 DEF del_all_accepts
    <2>5. \A v \in Locals : \A w \in allow_list'[v] : IsPerson(v)' /\ IsPerson(w)'
      BY <1>0, <1>3, <2>3, <2>4, OneLeaves DEF AcceptsOK, AcceptsLinked
    <2> QED BY <2>1, <2>2, <2>5 DEF AcceptsLinked
  <1>4. CASE UNCHANGED acceptVars /\ Stay
    BY <1>0, <1>4 DEF acceptVars, AcceptsOK, AcceptsLinked, Stay
  <1> QED BY <1>1, <1>2, <1>3, <1>4, AcceptSteps, PersonsStay

-----------------------------------------------------------------------------
(* INVITE.                                                                 *)

\* What the steps do to the channels and the invites.
LEMMA InviteSteps ==
    ASSUME WatchersNext
    PROVE  \/ \E u \in Persons, n \in Nicknames \cup Persons, c \in Chans : m_invite(u, n, c)
           \/ \E u \in Persons, c \in Chans : join(u, c) \/ part(u, c) \/ mode_i(u, c)
           \/ \E u \in Persons : exit_person(u)
           \/ ~ (\E u \in Persons : exit_person(u)) /\ UNCHANGED inviteVars
  <1>2. ASSUME NEW u \in Persons, NEW n \in Nicknames,
               \/ add_monitor(u, n) \/ del_monitor(u, n)
               \/ m_nick_new(u, n) \/ register_remote(u, n)
        PROVE  UNCHANGED inviteVars
    BY <1>2 DEF add_monitor, del_monitor, m_nick_new, register_remote
  <1>3. ASSUME NEW u \in Persons, NEW n \in Nicknames \cup Persons, m_accept(u, n)
        PROVE  UNCHANGED inviteVars
    BY <1>3 DEF m_accept
  <1>4. ASSUME NEW u \in Persons,
               saved(u) \/ \E n \in Nicknames \cup {u} : nick(u, n)
        PROVE  UNCHANGED inviteVars
    BY <1>4 DEF nick, saved
  <1>5. ASSUME NEW u \in Persons,
               \/ m_monitor_clear(u) \/ register_local(u) \/ abort(u) \/ exit_unknown(u)
        PROVE  UNCHANGED inviteVars
    BY <1>5 DEF m_monitor_clear, register_local, abort, exit_unknown
  <1>6. CASE whowas_trim_event
    BY <1>6 DEF whowas_trim_event
  <1> QED BY <1>2, <1>3, <1>4, <1>5, <1>6 DEF WatchersNext

\* A channel is on a list.
LEMMA ContainsSet ==
    ASSUME NEW s \in Seq(Chans), NEW c
    PROVE  Contains(s, c) <=> c \in ToSet(s)
  BY DEF Contains, ToSet

\* The invites with Contains spelt out as a set.
LEMMA InvitesSets ==
    ASSUME InvitesOK
    PROVE  InvitesLinked <=>
             /\ \A c \in Chans : invites[c] = {u \in Locals : c \in ToSet(invited[u])}
             /\ \A u \in Locals : \A c \in ToSet(invited[u]) : IsPerson(u) /\ channel[c].members # {}
  <1>1. \A u \in Locals : \A c \in Chans : Contains(invited[u], c) <=> c \in ToSet(invited[u])
    BY ContainsSet DEF InvitesOK
  <1> QED BY <1>1 DEF InvitesLinked

\* The invites agree at both ends after every step, and lead to channels that
\* exist.
LEMMA InvitesStep ==
    ASSUME NamesOK, InvitesOK, InvitesLinked, WatchersNext
    PROVE  InvitesOK' /\ InvitesLinked'
  <1> DEFINE Both == \A c \in Chans : invites[c] = {u \in Locals : c \in ToSet(invited[u])}
             Alive == \A u \in Locals : \A c \in ToSet(invited[u]) :
                         IsPerson(u) /\ channel[c].members # {}
  <1>0. \A u \in Locals : u \in Persons BY WatchersAssumption
  <1>1. Both /\ Alive BY InvitesSets
  <1>2. ASSUME InvitesOK', Both', Alive' PROVE InvitesLinked'
    <2>1. \A u \in Locals : \A c \in Chans : Contains(invited'[u], c) <=> c \in ToSet(invited'[u])
      BY <1>2, ContainsSet DEF InvitesOK
    <2> QED BY <1>2, <2>1 DEF InvitesLinked
  <1>3. \A s \in Seq(Chans) : ToSet(s) \subseteq Chans BY DEF ToSet
  <1>4. ASSUME NEW u \in Persons, NEW n \in Nicknames \cup Persons, NEW c \in Chans,
               m_invite(u, n, c)
        PROVE  InvitesOK' /\ InvitesLinked'
    <2>1. status' = status /\ channel' = channel /\ channel[c].members # {}
      BY <1>4 DEF m_invite, nameVars
    <2>2. PICK t \in Locals : IsPerson(t) /\ add_invite(c, t)
      BY <1>4 DEF m_invite, find_named_person
    <2>3. CASE Contains(invited[t], c)
      BY <2>1, <2>2, <2>3 DEF add_invite, InvitesOK, InvitesLinked, IsPerson
    <2>4. CASE ~Contains(invited[t], c)
      <3> DEFINE old == IF Len(invited[t]) >= max_chans THEN {Last(invited[t])} ELSE {}
                 rest == Without(invited[t], old)
      <3>1. /\ invites' = [d \in Chans |-> (invites[d] \ (IF d \in old THEN {t} ELSE {}))
                                            \cup (IF d = c THEN {t} ELSE {})]
            /\ invited' = [invited EXCEPT ![t] = <<c>> \o rest]
        BY <2>2, <2>4 DEF add_invite
      <3> HIDE DEF old
      <3>2. rest \in Seq(Chans) /\ ToSet(rest) = ToSet(invited[t]) \ old
        BY WithoutElements DEF InvitesOK
      <3> HIDE DEF rest
      <3>3. <<c>> \o rest \in Seq(Chans) /\ ToSet(<<c>> \o rest) = {c} \cup ToSet(rest)
        BY <3>2, ConsElements
      <3>4. InvitesOK' BY <2>1, <3>1, <3>3 DEF InvitesOK
      <3>5. \A v \in Locals : ToSet(invited'[v]) =
               IF v = t THEN {c} \cup (ToSet(invited[t]) \ old) ELSE ToSet(invited[v])
        BY <3>1, <3>2, <3>3 DEF InvitesOK
      <3>6. Both' BY <1>1, <3>1, <3>5
      <3>7. Alive' BY <1>1, <2>1, <2>2, <3>5 DEF IsPerson
      <3> QED BY <1>2, <3>4, <3>6, <3>7
    <2> QED BY <2>3, <2>4
  <1>5. ASSUME NEW u \in Persons, NEW c \in Chans, join(u, c)
        PROVE  InvitesOK' /\ InvitesLinked'
    <2>1. /\ status' = status
          /\ channel' = [channel EXCEPT ![c] =
                    [members |-> channel[c].members \cup {u},
                     ops |-> IF channel[c].members = {} THEN {u} ELSE channel[c].ops,
                     invite_only |-> channel[c].invite_only]]
      BY <1>5 DEF join, nameVars
    <2>2. /\ channel' \in [Chans -> Channel]
          /\ \A d \in Chans : channel[d].members # {} => channel'[d].members # {}
      BY <2>1 DEF InvitesOK, Channel
    <2>3. CASE u \in Locals
      <3>1. /\ invites' = [invites EXCEPT ![c] = @ \ {u}]
            /\ invited' = Uninvited(invited, {c}, {u})
        BY <1>5, <2>3 DEF join
      <3>2. /\ invited' \in [Locals -> Seq(Chans)]
            /\ \A v \in Locals : v \in {u} => ToSet(invited'[v]) = ToSet(invited[v]) \ {c}
            /\ \A v \in Locals : v \notin {u} => invited'[v] = invited[v]
        <4>1. \A v \in Locals : invited[v] \in Seq(Chans) BY DEF InvitesOK
        <4>2. ASSUME NEW v \in Locals
              PROVE  \/ v \notin {u} /\ invited'[v] = invited[v]
                     \/ /\ v \in {u} /\ invited'[v] \in Seq(Chans)
                        /\ ToSet(invited'[v]) = ToSet(invited[v]) \ {c}
          <5> DEFINE s == invited[v]
                     gone == {c}
          <5>1. s \in Seq(Chans) BY <4>1
          <5>2. \/ v \notin {u} /\ invited'[v] = s
                \/ v \in {u} /\ invited'[v] = Without(s, gone)
            BY <3>1 DEF Uninvited
          <5> HIDE DEF s, gone
          <5>3. Without(s, gone) \in Seq(Chans) /\ ToSet(Without(s, gone)) = ToSet(s) \ gone
            BY <5>1, WithoutElements
          <5>4. \/ v \notin {u} /\ invited'[v] = s
                \/ v \in {u} /\ invited'[v] \in Seq(Chans) /\ ToSet(invited'[v]) = ToSet(s) \ gone
            BY <5>2, <5>3, Zenon
          <5> QED BY <5>4 DEF s, gone
        <4>3. invited' \in [Locals -> Seq(Chans)]
          BY <3>1, <4>1, <4>2 DEF Uninvited
        <4> QED BY <4>2, <4>3
      <3>3. InvitesOK' BY <2>2, <3>1, <3>2 DEF InvitesOK
      <3> DEFINE had(v) == ToSet(invited[v])
                 has(v) == ToSet(invited'[v])
      <3>4. \A v \in Locals : has(v) = IF v = u THEN had(v) \ {c} ELSE had(v)
        BY <3>2
      <3>5. \A v \in Locals : had(v) \subseteq Chans BY <1>3 DEF InvitesOK
      <3>6. /\ \A d \in Chans : invites[d] = {v \in Locals : d \in had(v)}
            /\ \A v \in Locals : \A d \in had(v) : IsPerson(v) /\ channel[d].members # {}
        BY <1>1
      <3> HIDE DEF had, has
      <3>7. \A d \in Chans : invites'[d] = {v \in Locals : d \in has(v)}
        BY <3>1, <3>4, <3>6 DEF InvitesOK
      <3>8. \A v \in Locals : \A d \in has(v) : IsPerson(v)' /\ channel'[d].members # {}
        BY <2>1, <2>2, <3>4, <3>5, <3>6 DEF IsPerson
      <3>9. Both' /\ Alive' BY <3>7, <3>8 DEF has
      <3> QED BY <1>2, <3>3, <3>9
    <2>4. CASE u \notin Locals
      <3>1. UNCHANGED <<invites, invited>> BY <1>5, <2>4 DEF join
      <3>2. InvitesOK' BY <2>2, <3>1 DEF InvitesOK
      <3>3. Alive' BY <1>1, <1>3, <2>1, <2>2, <3>1 DEF InvitesOK, IsPerson
      <3> QED BY <1>1, <1>2, <3>1, <3>2, <3>3
    <2> QED BY <2>3, <2>4
  <1>6. ASSUME NEW u \in Persons, NEW c \in Chans, part(u, c)
        PROVE  InvitesOK' /\ InvitesLinked'
    <2> DEFINE ended == destroy_channel(u, {c})
               us == UNION {invites[d] : d \in ended}
    <2>1. /\ status' = status /\ channel' = Leave(u, {c})
          /\ invites' = [d \in Chans |-> IF d \in ended THEN {} ELSE invites[d]]
          /\ invited' = Uninvited(invited, ended, us)
          /\ u \in channel[c].members
      BY <1>6 DEF part, nameVars
    <2>2. /\ channel' \in [Chans -> Channel]
          /\ \A d \in Chans \ ended : channel[d].members # {} => channel'[d].members # {}
      BY <2>1 DEF InvitesOK, Channel, Leave, NoChannel, destroy_channel
    <2>3. ended \subseteq Chans BY DEF destroy_channel
    <2> HIDE DEF ended
    <2>4. /\ invited' \in [Locals -> Seq(Chans)]
          /\ \A v \in Locals : v \in us => ToSet(invited'[v]) = ToSet(invited[v]) \ ended
          /\ \A v \in Locals : v \notin us => invited'[v] = invited[v]
      <3>1. \A v \in Locals : invited[v] \in Seq(Chans) BY DEF InvitesOK
      <3> HIDE DEF us
      <3>2. ASSUME NEW v \in Locals
            PROVE  \/ v \notin us /\ invited'[v] = invited[v]
                   \/ /\ v \in us /\ invited'[v] \in Seq(Chans)
                      /\ ToSet(invited'[v]) = ToSet(invited[v]) \ ended
        <4> DEFINE s == invited[v]
                   gone == ended
        <4>1. s \in Seq(Chans) BY <3>1
        <4>2. \/ v \notin us /\ invited'[v] = s
              \/ v \in us /\ invited'[v] = Without(s, gone)
          BY <2>1 DEF Uninvited
        <4> HIDE DEF s, gone
        <4>3. Without(s, gone) \in Seq(Chans) /\ ToSet(Without(s, gone)) = ToSet(s) \ gone
          BY <4>1, WithoutElements
        <4>4. \/ v \notin us /\ invited'[v] = s
              \/ v \in us /\ invited'[v] \in Seq(Chans) /\ ToSet(invited'[v]) = ToSet(s) \ gone
          BY <4>2, <4>3, Zenon
        <4> QED BY <4>4 DEF s, gone
      <3>3. invited' \in [Locals -> Seq(Chans)]
        BY <2>1, <3>1, <3>2 DEF Uninvited
      <3> QED BY <3>2, <3>3
    <2>5. \A v \in Locals : ToSet(invited'[v]) = ToSet(invited[v]) \ ended
      BY <1>1, <2>3, <2>4
    <2>6. InvitesOK' BY <2>1, <2>2, <2>4 DEF InvitesOK
    <2>7. Both' BY <1>1, <2>1, <2>5
    <2>8. Alive' BY <1>1, <1>3, <2>1, <2>2, <2>5 DEF InvitesOK, IsPerson
    <2> QED BY <1>2, <2>6, <2>7, <2>8
  <1>7. ASSUME NEW u \in Persons, NEW c \in Chans, mode_i(u, c)
        PROVE  InvitesOK' /\ InvitesLinked'
    <2>1. /\ status' = status /\ UNCHANGED <<invites, invited>>
          /\ channel' = [channel EXCEPT ![c] =
                            [members |-> channel[c].members, ops |-> channel[c].ops,
                             invite_only |-> ~channel[c].invite_only]]
      BY <1>7 DEF mode_i, nameVars
    <2>2. /\ channel' \in [Chans -> Channel]
          /\ \A d \in Chans : channel[d].members = channel'[d].members
      BY <2>1 DEF InvitesOK, Channel
    <2>3. InvitesOK' BY <2>1, <2>2 DEF InvitesOK
    <2>4. Alive' BY <1>1, <1>3, <2>1, <2>2 DEF InvitesOK, IsPerson
    <2> QED BY <1>1, <1>2, <2>1, <2>3, <2>4
  <1>8. ASSUME NEW u \in Persons, exit_person(u)
        PROVE  InvitesOK' /\ InvitesLinked'
    <2> DEFINE ended == destroy_channel(u, On(u))
               asked == IF u \in Locals THEN ToSet(invited[u]) ELSE {}
               us == UNION {invites[d] : d \in ended}
               inv == Uninvited(invited, ended, us)
    <2>1. /\ channel' = Leave(u, On(u))
          /\ invites' = [c \in Chans |-> IF c \in ended THEN {}
                                     ELSE invites[c] \ (IF c \in asked THEN {u} ELSE {})]
          /\ invited' = Uninvited(inv, Chans, {u} \cap Locals)
      BY <1>8 DEF exit_person
    <2>2. /\ channel' \in [Chans -> Channel]
          /\ \A d \in Chans \ ended : channel[d].members # {} => channel'[d].members # {}
      BY <2>1 DEF InvitesOK, Channel, Leave, NoChannel, destroy_channel, On
    <2>3. ended \subseteq Chans BY DEF destroy_channel, On
    <2> HIDE DEF ended
    <2>4. /\ inv \in [Locals -> Seq(Chans)]
          /\ \A v \in Locals : v \in us => ToSet(inv[v]) = ToSet(invited[v]) \ ended
          /\ \A v \in Locals : v \notin us => inv[v] = invited[v]
      <3>1. \A v \in Locals : invited[v] \in Seq(Chans) BY DEF InvitesOK
      <3>0. inv = Uninvited(invited, ended, us) OBVIOUS
      <3> HIDE DEF us, inv
      <3>2. ASSUME NEW v \in Locals
            PROVE  \/ v \notin us /\ inv[v] = invited[v]
                   \/ /\ v \in us /\ inv[v] \in Seq(Chans)
                      /\ ToSet(inv[v]) = ToSet(invited[v]) \ ended
        <4> DEFINE s == invited[v]
                   gone == ended
        <4>1. s \in Seq(Chans) BY <3>1
        <4>2. \/ v \notin us /\ inv[v] = s
              \/ v \in us /\ inv[v] = Without(s, gone)
          BY <3>0 DEF Uninvited
        <4> HIDE DEF s, gone
        <4>3. Without(s, gone) \in Seq(Chans) /\ ToSet(Without(s, gone)) = ToSet(s) \ gone
          BY <4>1, WithoutElements
        <4>4. \/ v \notin us /\ inv[v] = s
              \/ v \in us /\ inv[v] \in Seq(Chans) /\ ToSet(inv[v]) = ToSet(s) \ gone
          BY <4>2, <4>3, Zenon
        <4> QED BY <4>4 DEF s, gone
      <3>3. inv \in [Locals -> Seq(Chans)]
        BY <3>0, <3>1, <3>2 DEF Uninvited
      <3> QED BY <3>2, <3>3
    <2>5. \A v \in Locals : ToSet(inv[v]) = ToSet(invited[v]) \ ended
      <3> DEFINE had(v) == ToSet(invited[v])
      <3>1. \A v \in Locals : v \notin us => had(v) \cap ended = {} BY <1>1, <2>3
      <3>2. \A v \in Locals : IF v \in us THEN ToSet(inv[v]) = had(v) \ ended
                                             ELSE ToSet(inv[v]) = had(v)
        BY <2>4, Zenon
      <3> HIDE DEF had, us, inv
      <3>3. \A v \in Locals : ToSet(inv[v]) = had(v) \ ended BY <3>1, <3>2
      <3> QED BY <3>3 DEF had
    <2> HIDE DEF inv
    <2>6. /\ invited' \in [Locals -> Seq(Chans)]
          /\ \A v \in Locals : ToSet(invited'[v]) =
               IF v = u THEN {} ELSE ToSet(invited[v]) \ ended
      <3>1. /\ invited' \in [Locals -> Seq(Chans)]
            /\ \A v \in Locals : v \in {u} \cap Locals => ToSet(invited'[v]) = ToSet(inv[v]) \ Chans
            /\ \A v \in Locals : v \notin {u} \cap Locals => invited'[v] = inv[v]
        <4>1. \A v \in Locals : inv[v] \in Seq(Chans) BY <2>4
        <4>2. ASSUME NEW v \in Locals
              PROVE  \/ v \notin {u} \cap Locals /\ invited'[v] = inv[v]
                     \/ /\ v \in {u} \cap Locals /\ invited'[v] \in Seq(Chans)
                        /\ ToSet(invited'[v]) = ToSet(inv[v]) \ Chans
          <5> DEFINE s == inv[v]
                     gone == Chans
          <5>1. s \in Seq(Chans) BY <4>1
          <5>2. \/ v \notin {u} \cap Locals /\ invited'[v] = s
                \/ v \in {u} \cap Locals /\ invited'[v] = Without(s, gone)
            BY <2>1 DEF Uninvited
          <5> HIDE DEF s, gone
          <5>3. Without(s, gone) \in Seq(Chans) /\ ToSet(Without(s, gone)) = ToSet(s) \ gone
            BY <5>1, WithoutElements
          <5>4. \/ v \notin {u} \cap Locals /\ invited'[v] = s
                \/ v \in {u} \cap Locals /\ invited'[v] \in Seq(Chans) /\ ToSet(invited'[v]) = ToSet(s) \ gone
            BY <5>2, <5>3, Zenon
          <5> QED BY <5>4 DEF s, gone
        <4>3. invited' \in [Locals -> Seq(Chans)]
          BY <2>1, <4>1, <4>2 DEF Uninvited
        <4> QED BY <4>2, <4>3
      <3>2. \A v \in Locals : ToSet(inv[v]) \ Chans = {} BY <1>3, <2>4
      <3> QED BY <2>5, <3>1, <3>2
    <2>7. InvitesOK' BY <2>1, <2>2, <2>6 DEF InvitesOK
    <2>8. Both' BY <1>1, <2>1, <2>6
    <2>9. Alive' BY <1>0, <1>1, <1>3, <1>8, <2>2, <2>6, OneLeaves DEF InvitesOK
    <2> QED BY <1>2, <2>7, <2>8, <2>9
  <1>9. CASE Stay /\ UNCHANGED inviteVars
    <2>1. InvitesOK' BY <1>9 DEF inviteVars, InvitesOK
    <2>2. Alive' BY <1>0, <1>1, <1>9 DEF inviteVars, Stay
    <2> QED BY <1>1, <1>2, <1>9, <2>1, <2>2 DEF inviteVars
  <1> QED BY <1>4, <1>5, <1>6, <1>7, <1>8, <1>9, InviteSteps, PersonsStay

-----------------------------------------------------------------------------
(* WHOWAS.                                                                 *)

\* The list is never so long that it has used all ids.
LEMMA FreeId ==
    ASSUME NEW w, HistoryOK(w)
    PROVE  \E i \in EntryIds : \A e \in Range(w.list) : e.id # i
  <1> DEFINE l == w.list
             n == Len(l)
             m == WhowasLength + WhowasSlack + 2
  <1>1. l \in Seq(Entry) /\ n \in Nat /\ m \in Nat /\ n < m
    BY WatchersAssumption DEF HistoryOK
  <1>2. SUFFICES ASSUME \A d \in EntryIds : \E i \in 1..n : l[i].id = d PROVE FALSE
    BY <1>1 DEF Range
  <1> DEFINE f == [d \in EntryIds |-> CHOOSE i \in 1..n : l[i].id = d]
  <1>3. \A d \in EntryIds : f[d] \in 1..n /\ l[f[d]].id = d BY <1>2
  <1>4. f \in [EntryIds -> 1..n] BY <1>3
  <1> HIDE DEF f
  <1>5. EntryIds = 1..m BY DEF EntryIds
  <1> HIDE DEF m, n, l
  <1>6. /\ IsFiniteSet(1..n) /\ Cardinality(1..n) = n
        /\ IsFiniteSet(1..m) /\ Cardinality(1..m) = m
    BY <1>1, FS_Interval
  <1>7. IsFiniteSet(EntryIds) /\ Cardinality(1..n) < Cardinality(EntryIds)
    BY <1>1, <1>5, <1>6
  <1>8. \E x, y \in EntryIds : x # y /\ f[x] = f[y]
    BY <1>4, <1>6, <1>7, FS_PigeonHole
  <1> QED BY <1>3, <1>8

\* Trimming keeps the newest entries and takes the others off their users' lists.
LEMMA TrimmedHistory ==
    ASSUME NEW w, HistoryOK(w)
    PROVE  /\ HistoryOK(whowas_trim(w)) /\ Len(whowas_trim(w).list) <= WhowasLength
           /\ \A u \in Persons : whowas_trim(w).clist[u] \subseteq w.clist[u]
  <1> DEFINE l == w.list
             cl == w.clist
             n == Len(l)
             r == whowas_trim(w)
             k == SubSeq(l, 1, WhowasLength)
             over == Range(SubSeq(l, WhowasLength + 1, n))
             kl == [u \in Persons |-> cl[u] \ {e.id : e \in {o \in over : u \in o.online}}]
  <1>0. WhowasLength \in Nat /\ WhowasSlack \in Nat BY WatchersAssumption
  <1>1. l \in Seq(Entry) /\ n \in Nat /\ cl \in [Persons -> SUBSET EntryIds] /\ Listed(l, cl)
    BY DEF HistoryOK
  <1>2. CASE n <= WhowasLength BY <1>2 DEF whowas_trim
  <1>3. CASE n > WhowasLength
    <2>1. r = [list |-> k, clist |-> kl] BY <1>0, <1>1, <1>3 DEF whowas_trim
    <2>2. /\ k \in Seq(Entry) /\ Len(k) = WhowasLength
          /\ \A i \in 1..WhowasLength : k[i] = l[i]
      BY <1>0, <1>1, <1>3
    <2>3. over = {l[i] : i \in WhowasLength + 1 .. n}
      <3> DEFINE s == SubSeq(l, WhowasLength + 1, n)
      <3>1. /\ Len(s) = n - WhowasLength
            /\ \A i \in 1..(n - WhowasLength) : s[i] = l[WhowasLength + i]
        BY <1>0, <1>1, <1>3
      <3>2. DOMAIN s = 1..(n - WhowasLength) BY <1>0, <1>1, <1>3
      <3> HIDE DEF s, l, n
      <3>3. over = {s[i] : i \in 1..(n - WhowasLength)} BY <3>2 DEF Range, s
      <3>4. ASSUME NEW e PROVE e \in over <=> \E i \in WhowasLength + 1 .. n : e = l[i]
        <4>1. ASSUME NEW j \in 1..(n - WhowasLength), e = s[j]
              PROVE \E i \in WhowasLength + 1 .. n : e = l[i]
          BY <1>0, <1>1, <1>3, <3>1, <4>1
        <4>2. ASSUME NEW i \in WhowasLength + 1 .. n, e = l[i]
              PROVE \E j \in 1..(n - WhowasLength) : e = s[j]
          <5>1. (i - WhowasLength) \in 1..(n - WhowasLength) /\ WhowasLength + (i - WhowasLength) = i
            BY <1>0, <1>1, <1>3
          <5> QED BY <3>1, <4>2, <5>1
        <4> QED BY <3>3, <4>1, <4>2
      <3> QED BY <3>4
    <2>4. \A u \in Persons : \A d \in EntryIds :
            d \in kl[u] <=> d \in cl[u] /\ ~ \E i \in WhowasLength + 1 .. n : u \in l[i].online /\ l[i].id = d
      BY <2>3
    <2>5. kl \in [Persons -> SUBSET EntryIds] /\ \A u \in Persons : kl[u] \subseteq cl[u] BY <1>1
    <2> HIDE DEF k, kl, over, r, l, cl, n
    <2>6. \A i, j \in 1..Len(k) : k[i].id = k[j].id => i = j
      BY <1>0, <1>1, <1>3, <2>2 DEF Listed, n
    <2>7. \A i \in 1..Len(k) : \A u, v \in k[i].online : u = v
      BY <1>0, <1>1, <1>3, <2>2 DEF Listed, n
    <2>8. ASSUME NEW u \in Persons, NEW d \in EntryIds
          PROVE  d \in kl[u] <=> \E i \in 1..Len(k) : k[i].id = d /\ u \in k[i].online
      <3>1. ASSUME d \in kl[u] PROVE \E i \in 1..Len(k) : k[i].id = d /\ u \in k[i].online
        <4>1. PICK i \in 1..n : l[i].id = d /\ u \in l[i].online
          BY <1>1, <2>4, <3>1 DEF Listed, n
        <4>2. i \notin WhowasLength + 1 .. n BY <2>4, <3>1, <4>1
        <4> QED BY <1>0, <1>1, <2>2, <4>1, <4>2
      <3>2. ASSUME NEW i \in 1..Len(k), k[i].id = d, u \in k[i].online PROVE d \in kl[u]
        <4>1. i \in 1..n /\ i \notin WhowasLength + 1 .. n /\ l[i].id = d /\ u \in l[i].online
          BY <1>0, <1>1, <1>3, <2>2, <3>2
        <4>2. d \in cl[u] BY <1>1, <4>1 DEF Listed, n
        <4>3. \A j \in WhowasLength + 1 .. n : j \in 1..n /\ j # i BY <1>0, <1>1, <4>1
        <4>4. \A j \in WhowasLength + 1 .. n : l[j].id # d
          BY <1>1, <4>1, <4>3 DEF Listed, n
        <4> QED BY <2>4, <4>2, <4>4
      <3> QED BY <3>1, <3>2
    <2>9. Listed(k, kl) BY <2>6, <2>7, <2>8 DEF Listed
    <2> QED BY <1>0, <2>1, <2>2, <2>5, <2>9 DEF HistoryOK, r, cl
  <1> QED BY <1>0, <1>1, <1>2, <1>3

\* A new entry has an id of its own, and goes on the list of its user if he
\* stays.
LEMMA AddedHistory ==
    ASSUME NamesOK, NEW w, HistoryOK(w), NEW u \in Persons, NEW online \in BOOLEAN
    PROVE  /\ HistoryOK(whowas_add_history(w, u, online))
           /\ \A v \in Persons : whowas_add_history(w, u, online).clist[v] # {}
                                   => w.clist[v] # {} \/ v = u
  <1> DEFINE x == IF Len(w.list) > WhowasLength + WhowasSlack THEN whowas_trim(w) ELSE w
             l == x.list
             cl == x.clist
             n == Len(l)
             id == CHOOSE i \in EntryIds : \A e \in Range(x.list) : e.id # i
             on == IF online THEN {u} ELSE {}
             e == [id |-> id, name |-> name[u], online |-> on]
             k == <<e>> \o l
             kl == IF online THEN [cl EXCEPT ![u] = @ \cup {id}] ELSE cl
             r == whowas_add_history(w, u, online)
  <1>0. WhowasLength \in Nat /\ WhowasSlack \in Nat BY WatchersAssumption
  <1>1. r = [list |-> k, clist |-> kl] BY DEF whowas_add_history
  <1>2. /\ HistoryOK(x) /\ Len(x.list) <= WhowasLength + WhowasSlack
        /\ \A v \in Persons : x.clist[v] \subseteq w.clist[v]
    <2>1. Len(w.list) \in Nat BY DEF HistoryOK
    <2>2. CASE Len(w.list) > WhowasLength + WhowasSlack
      <3>1. x = whowas_trim(w) BY <2>2
      <3> HIDE DEF x
      <3>2. /\ HistoryOK(x) /\ Len(x.list) <= WhowasLength
            /\ \A v \in Persons : x.clist[v] \subseteq w.clist[v]
        BY <3>1, TrimmedHistory
      <3>3. Len(x.list) \in Nat BY <3>2 DEF HistoryOK
      <3> QED BY <1>0, <3>2, <3>3
    <2>3. CASE ~(Len(w.list) > WhowasLength + WhowasSlack) BY <1>0, <2>1, <2>3
    <2> QED BY <2>2, <2>3
  <1> HIDE DEF x
  <1>3. \E i \in EntryIds : \A o \in Range(x.list) : o.id # i BY <1>2, FreeId
  <1>4. id \in EntryIds /\ \A o \in Range(x.list) : o.id # id BY <1>3
  <1> HIDE DEF id
  <1>5. /\ l \in Seq(Entry) /\ n \in Nat /\ n <= WhowasLength + WhowasSlack
        /\ cl \in [Persons -> SUBSET EntryIds] /\ Listed(l, cl)
    BY <1>2 DEF HistoryOK
  <1>6. \A i \in 1..n : l[i].id # id BY <1>4, <1>5 DEF Range
  <1>7. e \in Entry /\ e.id = id /\ e.online = on BY <1>4 DEF Entry, NamesOK
  <1> HIDE DEF e, l
  <1>8. /\ k \in Seq(Entry) /\ Len(k) = n + 1 /\ k[1] = e
        /\ \A i \in 1..n : k[i + 1] = l[i]
    BY <1>5, <1>7, ConsElements
  <1>9. /\ kl \in [Persons -> SUBSET EntryIds]
        /\ \A v \in Persons : \A d \in EntryIds :
             d \in kl[v] <=> d \in cl[v] \/ (v \in on /\ d = id)
    BY <1>4, <1>5
  <1>10. /\ \A i \in 1..(n + 1) : i = 1 \/ \E j \in 1..n : i = j + 1
         /\ \A j \in 1..n : (j + 1) \in 1..(n + 1)
         /\ 1 \in 1..(n + 1)
    <2>1. ASSUME NEW i \in 1..(n + 1), i # 1 PROVE \E j \in 1..n : i = j + 1
      <3>1. (i - 1) \in 1..n /\ i = (i - 1) + 1 BY <1>5, <2>1
      <3> QED BY <3>1
    <2> QED BY <1>5, <2>1
  <1>11. /\ \A i, j \in 1..n : l[i].id = l[j].id => i = j
         /\ \A i \in 1..n : \A u1, v1 \in l[i].online : u1 = v1
         /\ \A v \in Persons : \A d \in EntryIds :
              d \in cl[v] <=> \E i \in 1..n : l[i].id = d /\ v \in l[i].online
    BY <1>5 DEF Listed
  <1>12. \A u1, v1 \in on : u1 = v1 OBVIOUS
  <1> HIDE DEF k, kl, n, cl, on, r
  <1>13. Listed(k, kl)
    <2>1. ASSUME NEW i \in 1..(n + 1), NEW j \in 1..(n + 1), k[i].id = k[j].id PROVE i = j
      BY <1>6, <1>7, <1>8, <1>10, <1>11, <2>1
    <2>2. ASSUME NEW i \in 1..(n + 1), NEW u1 \in k[i].online, NEW v1 \in k[i].online PROVE u1 = v1
      BY <1>7, <1>8, <1>10, <1>11, <1>12, <2>2
    <2>3. ASSUME NEW v \in Persons, NEW d \in EntryIds
          PROVE  d \in kl[v] <=> \E i \in 1..(n + 1) : k[i].id = d /\ v \in k[i].online
      <3>1. (\E i \in 1..(n + 1) : k[i].id = d /\ v \in k[i].online)
              <=> (e.id = d /\ v \in e.online) \/ (\E j \in 1..n : l[j].id = d /\ v \in l[j].online)
        BY <1>8, <1>10
      <3> QED BY <1>7, <1>9, <1>11, <3>1
    <2> QED BY <1>8, <2>1, <2>2, <2>3 DEF Listed
  <1>14. HistoryOK(r) BY <1>0, <1>1, <1>5, <1>8, <1>9, <1>13 DEF HistoryOK
  <1>15. ASSUME NEW v \in Persons, kl[v] # {} PROVE w.clist[v] # {} \/ v = u
    <2>1. PICK d \in EntryIds : d \in kl[v] BY <1>9, <1>15
    <2> QED BY <1>2, <1>9, <2>1 DEF cl, on
  <1> QED BY <1>1, <1>14, <1>15 DEF r

\* An exit takes the user off the entries that lead to him.
LEMMA OffHistory ==
    ASSUME NEW w, HistoryOK(w), NEW u \in Persons
    PROVE  /\ HistoryOK(whowas_off_history(w, u)) /\ whowas_off_history(w, u).clist[u] = {}
           /\ \A v \in Persons \ {u} : whowas_off_history(w, u).clist[v] = w.clist[v]
  <1> DEFINE l == w.list
             cl == w.clist
             n == Len(l)
             k == [i \in DOMAIN w.list |->
                IF w.list[i].id \in w.clist[u] THEN [w.list[i] EXCEPT !.online = {}] ELSE w.list[i]]
             kl == [w.clist EXCEPT ![u] = {}]
             r == whowas_off_history(w, u)
  <1>1. r = [list |-> k, clist |-> kl] BY DEF whowas_off_history
  <1>2. /\ l \in Seq(Entry) /\ n \in Nat /\ cl \in [Persons -> SUBSET EntryIds]
        /\ Listed(l, cl) /\ n <= WhowasLength + WhowasSlack + 1
    BY DEF HistoryOK
  <1>3. ASSUME NEW i \in 1..n
        PROVE  /\ k[i] \in Entry /\ k[i].id = l[i].id
               /\ k[i].online = IF l[i].id \in cl[u] THEN {} ELSE l[i].online
    <2>1. l[i] \in Entry /\ i \in DOMAIN w.list BY <1>2
    <2>2. k[i] = IF l[i].id \in cl[u] THEN [l[i] EXCEPT !.online = {}] ELSE l[i] BY <2>1
    <2> HIDE DEF k, l
    <2> QED BY <2>1, <2>2 DEF Entry
  <1>4. DOMAIN k = 1..n BY <1>2
  <1>5. k \in [1..n -> Entry] BY <1>3, <1>4
  <1>6. kl \in [Persons -> SUBSET EntryIds] /\ kl[u] = {}
        /\ \A v \in Persons \ {u} : kl[v] = cl[v]
    BY <1>2
  <1> HIDE DEF k, kl, l, cl, n, r
  <1>7. k \in Seq(Entry) /\ Len(k) = n BY <1>2, <1>5
  <1>8. /\ \A i, j \in 1..n : l[i].id = l[j].id => i = j
        /\ \A i \in 1..n : \A u1, v1 \in l[i].online : u1 = v1
        /\ \A v \in Persons : \A d \in EntryIds :
             d \in cl[v] <=> \E i \in 1..n : l[i].id = d /\ v \in l[i].online
        /\ \A i \in 1..n : l[i].id \in EntryIds
    <2>1. Listed(l, cl) /\ n = Len(l) BY <1>2 DEF n
    <2>2. \A i \in 1..n : l[i] \in Entry BY <1>2 DEF n
    <2> QED BY <2>1, <2>2 DEF Listed, Entry
  <1>9. \A i \in 1..n : l[i].id \in cl[u] <=> u \in l[i].online
    BY <1>8
  <1>10. Listed(k, kl)
    <2>1. ASSUME NEW v \in Persons, NEW d \in EntryIds
          PROVE  d \in kl[v] <=> \E i \in 1..n : k[i].id = d /\ v \in k[i].online
      <3>1. CASE v = u BY <1>3, <1>6, <1>9, <3>1
      <3>2. CASE v # u
        <4>1. \A i \in 1..n : v \in k[i].online <=> v \in l[i].online
          BY <1>3, <1>8, <1>9, <3>2
        <4> QED BY <1>3, <1>6, <1>8, <3>2, <4>1
      <3> QED BY <3>1, <3>2
    <2> QED BY <1>3, <1>7, <1>8, <2>1 DEF Listed
  <1> QED BY <1>1, <1>2, <1>6, <1>7, <1>10 DEF HistoryOK, r, cl

\* What the steps do to the history.
LEMMA HistorySteps ==
    ASSUME WatchersNext
    PROVE  \/ \E u \in Persons : exit_person(u)
           \/ /\ ~ \E u \in Persons : exit_person(u)
              /\ \/ \E u \in Persons : IsPerson(u) /\ whowas' = whowas_add_history(whowas, u, TRUE)
                 \/ whowas' = whowas_trim(whowas)
                 \/ whowas' = whowas
  <1>2. ASSUME NEW u \in Persons, NEW n \in Nicknames,
               \/ add_monitor(u, n) \/ del_monitor(u, n)
               \/ m_nick_new(u, n) \/ register_remote(u, n)
        PROVE  whowas' = whowas
    BY <1>2 DEF add_monitor, del_monitor, m_nick_new, register_remote
  <1>3. ASSUME NEW u \in Persons, NEW n \in Nicknames \cup Persons,
               m_accept(u, n) \/ \E c \in Chans : m_invite(u, n, c)
        PROVE  whowas' = whowas
    BY <1>3 DEF m_accept, m_invite
  <1>4. ASSUME NEW u \in Persons,
               saved(u) \/ \E n \in Nicknames \cup {u} : nick(u, n)
        PROVE  IsPerson(u) /\ whowas' = whowas_add_history(whowas, u, TRUE)
    BY <1>4 DEF nick, saved, change_nick, Commands, IsPerson
  <1>5. ASSUME NEW u \in Persons,
               \/ m_monitor_clear(u) \/ register_local(u) \/ abort(u) \/ exit_unknown(u)
               \/ \E c \in Chans : join(u, c) \/ part(u, c) \/ mode_i(u, c)
        PROVE  whowas' = whowas
    BY <1>5 DEF m_monitor_clear, register_local, abort, exit_unknown, join, part, mode_i
  <1>6. CASE whowas_trim_event
    BY <1>6 DEF whowas_trim_event
  <1> QED BY <1>2, <1>3, <1>4, <1>5, <1>6 DEF WatchersNext

\* Entries lead to users who are there.
OnlineOK == \A u \in Persons : whowas.clist[u] # {} => IsPerson(u)

\* The entries lead to users who are there after every step.
LEMMA HistoryStep ==
    ASSUME NamesOK, HistoryOK(whowas), OnlineOK, WatchersNext
    PROVE  HistoryOK(whowas') /\ OnlineOK'
  <1>1. ASSUME NEW u \in Persons, exit_person(u) PROVE HistoryOK(whowas') /\ OnlineOK'
    <2> DEFINE x == whowas_add_history(whowas, u, FALSE)
    <2>1. whowas' = whowas_off_history(x, u) BY <1>1 DEF exit_person
    <2>2. HistoryOK(x) /\ \A v \in Persons : x.clist[v] # {} => whowas.clist[v] # {} \/ v = u
      BY AddedHistory
    <2> HIDE DEF x
    <2>3. /\ HistoryOK(whowas') /\ whowas'.clist[u] = {}
          /\ \A v \in Persons \ {u} : whowas'.clist[v] = x.clist[v]
      BY <2>1, <2>2, OffHistory
    <2>4. \A v \in Persons \ {u} : IsPerson(v) => IsPerson(v)' BY <1>1, OneLeaves
    <2> QED BY <2>2, <2>3, <2>4 DEF OnlineOK
  <1>2. ASSUME Stay, NEW u \in Persons, IsPerson(u), whowas' = whowas_add_history(whowas, u, TRUE)
        PROVE  HistoryOK(whowas') /\ OnlineOK'
    <2>1. /\ HistoryOK(whowas')
          /\ \A v \in Persons : whowas'.clist[v] # {} => whowas.clist[v] # {} \/ v = u
      BY <1>2, AddedHistory
    <2> QED BY <1>2, <2>1 DEF OnlineOK, Stay
  <1>3. CASE Stay /\ whowas' = whowas_trim(whowas)
    <2>1. /\ HistoryOK(whowas')
          /\ \A v \in Persons : whowas'.clist[v] \subseteq whowas.clist[v]
      BY <1>3, TrimmedHistory
    <2> QED BY <1>3, <2>1 DEF OnlineOK, Stay
  <1>4. CASE Stay /\ whowas' = whowas
    BY <1>4 DEF OnlineOK, Stay
  <1> QED BY <1>1, <1>2, <1>3, <1>4, HistorySteps, PersonsStay

\* The users' lists are the entries that lead to them.
LEMMA HistoryTied ==
    ASSUME HistoryOK(whowas), OnlineOK
    PROVE  HistoryLinked
  <1> DEFINE l == whowas.list
             n == Len(l)
  <1>1. l \in Seq(Entry) /\ n \in Nat /\ whowas.clist \in [Persons -> SUBSET EntryIds]
        /\ Listed(l, whowas.clist)
    BY DEF HistoryOK
  <1>2. \A o : o \in Range(l) <=> \E i \in 1..n : o = l[i] BY <1>1 DEF Range
  <1>3. \A i \in 1..n : l[i] \in Entry BY <1>1
  <1>4. \A u \in Persons : \A d \in EntryIds :
           d \in whowas.clist[u] <=> \E i \in 1..n : l[i].id = d /\ u \in l[i].online
    BY <1>1 DEF Listed
  <1> HIDE DEF l, n
  <1>5. ASSUME NEW u \in Persons
        PROVE  whowas.clist[u] = {e.id : e \in {o \in Range(l) : u \in o.online}}
    <2>1. ASSUME NEW d \in whowas.clist[u] PROVE d \in {e.id : e \in {o \in Range(l) : u \in o.online}}
      <3>1. d \in EntryIds BY <1>1
      <3>2. PICK i \in 1..n : l[i].id = d /\ u \in l[i].online BY <1>4, <3>1
      <3>3. l[i] \in Range(l) BY <1>2
      <3> QED BY <3>2, <3>3
    <2>2. ASSUME NEW o \in Range(l), u \in o.online PROVE o.id \in whowas.clist[u]
      <3>1. PICK i \in 1..n : o = l[i] BY <1>2
      <3>2. o.id \in EntryIds BY <1>3, <3>1 DEF Entry
      <3> QED BY <1>4, <2>2, <3>1, <3>2
    <2> QED BY <2>1, <2>2
  <1> QED BY <1>5 DEF HistoryLinked, OnlineOK, l

-----------------------------------------------------------------------------
(* Names.                                                                  *)

\* What the steps do to the users and their names.
LEMMA NameSteps ==
    ASSUME WatchersNext
    PROVE  \/ \E u \in Persons, n \in Nicknames : m_nick_new(u, n) \/ register_remote(u, n)
           \/ \E u \in Persons : \E n \in Nicknames \cup {u} : nick(u, n)
           \/ \E u \in Persons : \/ register_local(u) \/ saved(u) \/ abort(u)
                                 \/ exit_person(u) \/ exit_unknown(u)
           \/ \E u \in Persons, n \in Nicknames : add_monitor(u, n) \/ del_monitor(u, n)
           \/ \E u \in Persons : m_monitor_clear(u)
           \/ UNCHANGED <<nameVars, monitorVars>>
  <1>3. ASSUME NEW u \in Persons, NEW n \in Nicknames \cup Persons,
               m_accept(u, n) \/ \E c \in Chans : m_invite(u, n, c)
        PROVE  UNCHANGED <<nameVars, monitorVars>>
    BY <1>3 DEF m_accept, m_invite
  <1>5. ASSUME NEW u \in Persons,
               \E c \in Chans : join(u, c) \/ part(u, c) \/ mode_i(u, c)
        PROVE  UNCHANGED <<nameVars, monitorVars>>
    BY <1>5 DEF join, part, mode_i
  <1>6. CASE whowas_trim_event
    BY <1>6 DEF whowas_trim_event
  <1> QED BY <1>3, <1>5, <1>6 DEF WatchersNext

\* A user takes a name: it counts as doubled unless it was free, and the name he
\* gives up no longer does when he was the last to have it.
LEMMA Renamed ==
    ASSUME NamesOK, OneHolderEach, NEW u \in Persons, NEW n \in Nicknames \cup {u},
           InHash(u), n # name[u], status' = status, name' = [name EXCEPT ![u] = n],
           doubled' = (doubled \ Freed(u)) \cup Given(n)
    PROVE  NamesOK' /\ OneHolderEach'
  <1>1. NamesOK' BY DEF NamesOK, Given, Freed
  <1>2. ASSUME NEW m \in Nicknames \ doubled', NEW v \in Named(m)', NEW x \in Named(m)'
        PROVE  v = x
    <2>1. /\ v \in Persons /\ InHash(v) /\ name'[v] = m
          /\ x \in Persons /\ InHash(x) /\ name'[x] = m
      BY <1>2 DEF Named, InHash
    <2>2. \A y \in Persons \ {u} : name'[y] = name[y] BY DEF NamesOK
    <2>3. name'[u] = n BY DEF NamesOK
    <2>4. CASE m = n
      <3>1. Named(m) = {} BY <1>2, <2>4 DEF Given
      <3> QED BY <2>1, <2>2, <3>1 DEF Named
    <2>5. CASE m # n
      <3>1. v # u /\ x # u BY <2>1, <2>3, <2>5
      <3>2. v \in Named(m) /\ x \in Named(m) BY <2>1, <2>2, <3>1 DEF Named
      <3>3. Named(m) # {u} BY <3>1, <3>2
      <3>4. m \notin doubled BY <1>2, <3>3 DEF Freed
      <3> QED BY <1>2, <3>2, <3>4 DEF OneHolderEach
    <2> QED BY <2>4, <2>5
  <1> QED BY <1>1, <1>2 DEF OneHolderEach

\* A name that is not doubled has one holder at most after every step.
LEMMA NamesStep ==
    ASSUME NamesOK, OneHolderEach, WatchersNext
    PROVE  NamesOK' /\ OneHolderEach'
  <1>1. ASSUME NEW u \in Persons, NEW n \in Nicknames, m_nick_new(u, n)
        PROVE  NamesOK' /\ OneHolderEach'
    <2>1. /\ Named(n) = {} /\ status' = [status EXCEPT ![u] = "unknown"]
          /\ name' = [name EXCEPT ![u] = n] /\ doubled' = doubled
      BY <1>1 DEF m_nick_new
    <2>2. NamesOK' BY <2>1 DEF NamesOK, Statuses
    <2>3. ASSUME NEW m \in Nicknames \ doubled', NEW v \in Named(m)', NEW x \in Named(m)'
          PROVE  v = x
      <3>1. \A y \in Persons \ {u} : y \in Named(m)' => y \in Named(m)
        BY <2>1 DEF NamesOK, Named, InHash
      <3>2. m # n => u \notin Named(m)' BY <2>1 DEF NamesOK, Named
      <3>3. v \in Persons /\ x \in Persons BY DEF Named
      <3> QED BY <2>1, <2>3, <3>1, <3>2, <3>3 DEF OneHolderEach
    <2> QED BY <2>2, <2>3 DEF OneHolderEach
  <1>2. ASSUME NEW u \in Persons, NEW n \in Nicknames, register_remote(u, n)
        PROVE  NamesOK' /\ OneHolderEach'
    <2>1. /\ status[u] = "new" /\ status' = [status EXCEPT ![u] = "person"]
          /\ name' = [name EXCEPT ![u] = n] /\ doubled' = doubled \cup Given(n)
      BY <1>2 DEF register_remote
    <2>2. NamesOK' BY <2>1 DEF NamesOK, Statuses, Given
    <2>3. ASSUME NEW m \in Nicknames \ doubled', NEW v \in Named(m)', NEW x \in Named(m)'
          PROVE  v = x
      <3>1. \A y \in Persons \ {u} : y \in Named(m)' => y \in Named(m)
        BY <2>1 DEF NamesOK, Named, InHash
      <3>2. m = n => Named(m) = {} BY <2>1, <2>3 DEF Given
      <3>3. m # n => u \notin Named(m)' BY <2>1 DEF NamesOK, Named
      <3>4. v \in Persons /\ x \in Persons BY DEF Named
      <3> QED BY <2>1, <2>3, <3>1, <3>2, <3>3, <3>4 DEF OneHolderEach
    <2> QED BY <2>2, <2>3 DEF OneHolderEach
  <1>3. ASSUME NEW u \in Persons, NEW n \in Nicknames \cup {u}, nick(u, n)
        PROVE  NamesOK' /\ OneHolderEach'
    <2>1. /\ InHash(u) /\ status' = status /\ name' = [name EXCEPT ![u] = n]
          /\ doubled' = IF n = name[u] THEN doubled ELSE (doubled \ Freed(u)) \cup Given(n)
      BY <1>3 DEF nick, change_nick, Commands, InHash
    <2>2. CASE n = name[u]
      <3>1. name' = name BY <2>1, <2>2 DEF NamesOK
      <3> QED BY <2>1, <2>2, <3>1 DEF NamesOK, OneHolderEach, Named, InHash
    <2>3. CASE n # name[u] BY <2>1, <2>3, Renamed
    <2> QED BY <2>2, <2>3
  <1>4. ASSUME NEW u \in Persons, saved(u) PROVE NamesOK' /\ OneHolderEach'
    <2>1. /\ InHash(u) /\ u # name[u] /\ status' = status /\ name' = [name EXCEPT ![u] = u]
          /\ doubled' = doubled \ Freed(u)
      BY <1>4 DEF saved, change_nick, IsPerson, InHash
    <2>2. Given(u) = {} BY WatchersAssumption DEF Given
    <2> QED BY <2>1, <2>2, Renamed
  <1>5. ASSUME NEW u \in Persons, register_local(u) \/ abort(u)
        PROVE  NamesOK' /\ OneHolderEach'
    <2>1. /\ NamesOK' /\ name' = name /\ doubled' = doubled
          /\ \A v \in Persons : InHash(v)' <=> InHash(v)
      BY <1>5 DEF register_local, abort, NamesOK, Statuses, InHash
    <2> QED BY <2>1 DEF OneHolderEach, Named
  <1>6. ASSUME NEW u \in Persons, exit_person(u) \/ exit_unknown(u)
        PROVE  NamesOK' /\ OneHolderEach'
    <2>1. /\ status' = [status EXCEPT ![u] = "gone"] /\ name' = [name EXCEPT ![u] = ""]
          /\ doubled' = doubled \/ doubled' = doubled \ Freed(u)
      BY <1>6 DEF exit_person, exit_unknown
    <2>2. NamesOK' BY <2>1 DEF NamesOK, Statuses
    <2>3. ASSUME NEW m \in Nicknames \ doubled', NEW v \in Named(m)', NEW x \in Named(m)'
          PROVE  v = x
      <3>1. \A y \in Named(m)' : y # u /\ y \in Named(m)
        BY <2>1 DEF NamesOK, Named, InHash
      <3>2. m \notin Freed(u) BY <3>1 DEF Freed
      <3> QED BY <2>1, <2>3, <3>1, <3>2 DEF OneHolderEach
    <2> QED BY <2>2, <2>3 DEF OneHolderEach
  <1>7. CASE UNCHANGED nameVars
    BY <1>7 DEF nameVars, NamesOK, OneHolderEach, Named, InHash
  <1>8. ASSUME NEW u \in Persons, NEW n \in Nicknames,
               add_monitor(u, n) \/ del_monitor(u, n) \/ m_monitor_clear(u)
        PROVE  UNCHANGED nameVars
    BY <1>8 DEF add_monitor, del_monitor, m_monitor_clear
  <1>9. ASSUME NEW u \in Persons, m_monitor_clear(u)
        PROVE  UNCHANGED nameVars
    BY <1>9 DEF m_monitor_clear
  <1> QED BY <1>1, <1>2, <1>3, <1>4, <1>5, <1>6, <1>7, <1>8, <1>9, NameSteps

-----------------------------------------------------------------------------
(* What the watchers were told.                                            *)

\* Somebody has the nickname n.
Online(n) == \E v \in Persons : IsPerson(v) /\ name[v] = n

LEMMA OnlineNamed ==
    ASSUME NEW n
    PROVE  find_named_person(n) # {} <=> Online(n)
  BY DEF find_named_person, Named, Online, IsPerson, InHash

\* What the users were told, with the users spelt out.
ToldRight == \A u \in Locals : \A n \in monitor_list[u] \ doubled : told[u][n] <=> Online(n)

\* A message about a name reaches everybody who watches it.
LEMMA Heard ==
    ASSUME MonitorsOK, MonitorsLinked, NEW t \in [Locals -> [Nicknames -> BOOLEAN]], NEW n
    PROVE  \A u \in Locals : \A m \in monitor_list[u] :
             /\ monitor_signon(t, n)[u][m] <=> (m = n \/ t[u][m])
             /\ monitor_signoff(t, n)[u][m] <=> (m # n /\ t[u][m])
  <1>1. \A u \in Locals : \A m \in monitor_list[u] :
          m \in Nicknames /\ m \in monitors /\ u \in watched_by[m]
    BY DEF MonitorsOK, MonitorsLinked
  <1> QED BY <1>1 DEF monitor_signon, monitor_signoff, Notify

\* The name a user gives up is no longer anybody's, unless it stays doubled.
LEMMA GivenUp ==
    ASSUME NamesOK, OneHolderEach, NEW u \in Persons, InHash(u), name[u] \in Nicknames,
           doubled \ Freed(u) \subseteq doubled', name[u] \notin doubled'
    PROVE  \A v \in Persons \ {u} : InHash(v) => name[v] # name[u]
  <1>1. CASE name[u] \in doubled
    <2>1. Named(name[u]) = {u} BY <1>1 DEF Freed
    <2> QED BY <2>1 DEF Named
  <1>2. CASE name[u] \notin doubled
    BY <1>2 DEF OneHolderEach, Named
  <1> QED BY <1>1, <1>2

\* What MONITOR told its users is true after a change of nickname.
LEMMA ToldRenamed ==
    ASSUME NamesOK, OneHolderEach, MonitorsOK, MonitorsLinked, ToldRight,
           NEW u \in Persons, NEW n \in Nicknames \cup {u}, IsPerson(u),
           status' = status, change_nick(u, n), monitor_list' = monitor_list,
           doubled' = IF n = name[u] THEN doubled ELSE (doubled \ Freed(u)) \cup Given(n)
    PROVE  told' \in [Locals -> [Nicknames -> BOOLEAN]] /\ ToldRight'
  <1>1. CASE n = name[u]
    <2>1. name' = name /\ told' = told BY <1>1 DEF change_nick, NamesOK
    <2> QED BY <1>1, <2>1 DEF MonitorsOK, ToldRight, Online, IsPerson
  <1>2. CASE n # name[u]
    <2> DEFINE t == monitor_signoff(told, name[u])
    <2>1. told' = monitor_signon(t, n) /\ name' = [name EXCEPT ![u] = n]
      BY <1>2 DEF change_nick
    <2>2. t \in [Locals -> [Nicknames -> BOOLEAN]]
      BY NotifyType DEF monitor_signoff, MonitorsOK
    <2>3. told' \in [Locals -> [Nicknames -> BOOLEAN]]
      <3> HIDE DEF t
      <3> QED BY <2>1, <2>2, NotifyType DEF monitor_signon
    <2>4. ASSUME NEW v \in Locals, NEW m \in monitor_list[v], m \notin doubled'
          PROVE  told'[v][m] <=> Online(m)'
      <3>1. t[v][m] <=> (m # name[u] /\ told[v][m])
        BY Heard DEF MonitorsOK
      <3> HIDE DEF t
      <3>2. told'[v][m] <=> (m = n \/ t[v][m])
        BY <2>1, <2>2, Heard
      <3>3. m \in Nicknames BY DEF MonitorsOK
      <3>4. /\ name'[u] = n /\ \A x \in Persons \ {u} : name'[x] = name[x]
            /\ \A x \in Persons : IsPerson(x)' <=> IsPerson(x)
        BY <2>1 DEF NamesOK, IsPerson
      <3>5. CASE m = n
        BY <3>2, <3>4, <3>5 DEF Online
      <3>6. CASE m # n /\ m = name[u]
        <4>1. \A x \in Persons \ {u} : InHash(x) => name[x] # name[u]
          BY <1>2, <2>4, <3>3, <3>6, GivenUp DEF IsPerson, InHash
        <4>2. \A x \in Persons : IsPerson(x) => InHash(x) BY DEF IsPerson, InHash
        <4> QED BY <3>1, <3>2, <3>4, <3>6, <4>1, <4>2 DEF Online
      <3>7. CASE m # n /\ m # name[u]
        <4>1. m \notin doubled BY <1>2, <2>4, <3>7 DEF Freed
        <4>2. told[v][m] <=> Online(m) BY <4>1 DEF ToldRight
        <4>3. Online(m)' <=> Online(m) BY <3>4, <3>7 DEF Online
        <4> QED BY <3>1, <3>2, <3>7, <4>2, <4>3
      <3> QED BY <3>5, <3>6, <3>7
    <2> QED BY <2>3, <2>4 DEF ToldRight
  <1> QED BY <1>1, <1>2

\* What MONITOR told its users is true after every step.
LEMMA ToldStep ==
    ASSUME NamesOK, OneHolderEach, MonitorsOK, MonitorsLinked, ToldRight, WatchersNext
    PROVE  told' \in [Locals -> [Nicknames -> BOOLEAN]] /\ ToldRight'
  <1> DEFINE Told == [Locals -> [Nicknames -> BOOLEAN]]
             Goal == told' \in Told /\ ToldRight'
             Same == \A n \in Nicknames : Online(n)' <=> Online(n)
  <1>0. /\ told \in Told
        /\ \A u \in Locals : monitor_list[u] \subseteq Nicknames
        /\ \A u \in Locals : u \in Persons
    BY WatchersAssumption DEF MonitorsOK
  <1>1. ASSUME Same, doubled' = doubled, told' \in Told,
               \A v \in Locals : \A m \in monitor_list'[v] :
                  \/ m \in monitor_list[v] /\ told'[v][m] = told[v][m]
                  \/ m \in Nicknames /\ (told'[v][m] <=> Online(m))
        PROVE  Goal
    BY <1>0, <1>1 DEF ToldRight
  <1>2. ASSUME UNCHANGED nameVars PROVE Same /\ doubled' = doubled
    BY <1>2 DEF nameVars, Online, IsPerson
  <1>3. ASSUME NEW u \in Persons, NEW n \in Nicknames, add_monitor(u, n) PROVE Goal
    <2>1. /\ u \in Locals /\ UNCHANGED nameVars
          /\ monitor_list' = [monitor_list EXCEPT ![u] = @ \cup {n}]
          /\ told' = [told EXCEPT ![u][n] = find_named_person(n) # {}]
      BY <1>3 DEF add_monitor
    <2>2. find_named_person(n) # {} <=> Online(n) BY OnlineNamed
    <2>3. told' \in Told BY <1>0, <2>1
    <2>4. ASSUME NEW v \in Locals, NEW m \in monitor_list'[v]
          PROVE  \/ m \in monitor_list[v] /\ told'[v][m] = told[v][m]
                 \/ m \in Nicknames /\ (told'[v][m] <=> Online(m))
      <3>1. m \in Nicknames /\ (m \in monitor_list[v] \/ (v = u /\ m = n))
        BY <1>0, <2>1, <2>4 DEF MonitorsOK
      <3>2. CASE v = u /\ m = n
        BY <1>0, <2>1, <2>2, <3>2
      <3>3. CASE ~(v = u /\ m = n)
        BY <1>0, <2>1, <3>1, <3>3
      <3> QED BY <3>2, <3>3
    <2> QED BY <1>1, <1>2, <2>1, <2>3, <2>4
  <1>4. ASSUME NEW u \in Locals, NEW ns \in SUBSET Nicknames, Unwatch(u, ns),
               told' = Forget(told, u, ns), UNCHANGED nameVars
        PROVE  Goal
    <2>1. told' \in Told /\ \A v \in Locals, m \in Nicknames :
                 told'[v][m] = IF v = u THEN told[u][m] /\ m \notin ns ELSE told[v][m]
      BY <1>0, <1>4, ForgetType
    <2>2. \A v \in Locals : monitor_list'[v] = IF v = u THEN monitor_list[u] \ ns ELSE monitor_list[v]
      BY <1>4 DEF Unwatch, MonitorsOK
    <2>3. \A v \in Locals : \A m \in monitor_list'[v] :
             m \in monitor_list[v] /\ told'[v][m] = told[v][m]
      BY <1>0, <2>1, <2>2
    <2> QED BY <1>1, <1>2, <1>4, <2>1, <2>3
  <1>5. ASSUME NEW u \in Persons, NEW n \in Nicknames, del_monitor(u, n) PROVE Goal
    BY <1>4, <1>5 DEF del_monitor
  <1>6. ASSUME NEW u \in Persons, m_monitor_clear(u) PROVE Goal
    BY <1>0, <1>4, <1>6 DEF m_monitor_clear
  <1>7. ASSUME NEW u \in Persons, NEW n \in Nicknames, m_nick_new(u, n) PROVE Goal
    <2>1. /\ status[u] = "new" /\ status' = [status EXCEPT ![u] = "unknown"]
          /\ name' = [name EXCEPT ![u] = n] /\ doubled' = doubled /\ UNCHANGED monitorVars
      BY <1>7 DEF m_nick_new
    <2>2. /\ ~IsPerson(u) /\ ~IsPerson(u)'
          /\ \A v \in Persons \ {u} : name'[v] = name[v] /\ (IsPerson(v)' <=> IsPerson(v))
      BY <2>1 DEF NamesOK, IsPerson
    <2>3. Same BY <2>2 DEF Online
    <2> QED BY <1>0, <1>1, <2>1, <2>3 DEF monitorVars
  <1>8. ASSUME NEW u \in Persons, NEW n \in Nicknames \cup Persons \cup {""}, ~IsPerson(u), IsPerson(u)',
               name'[u] = n, doubled \subseteq doubled',
               \A v \in Persons \ {u} : name'[v] = name[v] /\ (IsPerson(v)' <=> IsPerson(v)),
               told' = monitor_signon(told, n), monitor_list' = monitor_list
        PROVE  Goal
    <2>1. told' \in Told BY <1>0, <1>8, NotifyType DEF monitor_signon
    <2>2. ASSUME NEW v \in Locals, NEW m \in monitor_list[v], m \notin doubled'
          PROVE  told'[v][m] <=> Online(m)'
      <3>1. told'[v][m] <=> (m = n \/ told[v][m])
        <4>1. monitor_signon(told, n)[v][m] <=> (m = n \/ told[v][m]) BY <1>0, Heard
        <4> QED BY <1>8, <4>1
      <3>2. Online(m)' <=> (m = n \/ Online(m)) BY <1>8 DEF Online
      <3>3. told[v][m] <=> Online(m) BY <1>8, <2>2 DEF ToldRight
      <3> QED BY <3>1, <3>2, <3>3
    <2> QED BY <1>8, <2>1, <2>2 DEF ToldRight
  <1>9. ASSUME NEW u \in Persons, NEW n \in Nicknames, register_remote(u, n) PROVE Goal
    <2>1. /\ status[u] = "new" /\ status' = [status EXCEPT ![u] = "person"]
          /\ name' = [name EXCEPT ![u] = n] /\ doubled \subseteq doubled'
          /\ told' = monitor_signon(told, n) /\ monitor_list' = monitor_list
      BY <1>9 DEF register_remote
    <2>2. /\ ~IsPerson(u) /\ IsPerson(u)' /\ name'[u] = n
          /\ \A v \in Persons \ {u} : name'[v] = name[v] /\ (IsPerson(v)' <=> IsPerson(v))
      BY <2>1 DEF NamesOK, IsPerson
    <2> QED BY <1>8, <2>1, <2>2
  <1>10. ASSUME NEW u \in Persons, register_local(u) PROVE Goal
    <2>1. /\ status[u] = "unknown" /\ status' = [status EXCEPT ![u] = "person"]
          /\ name' = name /\ doubled \subseteq doubled'
          /\ told' = monitor_signon(told, name[u]) /\ monitor_list' = monitor_list
      BY <1>10 DEF register_local
    <2>2. /\ ~IsPerson(u) /\ IsPerson(u)'
          /\ \A v \in Persons \ {u} : name'[v] = name[v] /\ (IsPerson(v)' <=> IsPerson(v))
      BY <2>1 DEF NamesOK, IsPerson
    <2>3. name[u] \in Nicknames \cup Persons \cup {""} BY DEF NamesOK
    <2> QED BY <1>8, <2>1, <2>2, <2>3
  <1>11. ASSUME NEW u \in Persons, NEW n \in Nicknames \cup {u}, nick(u, n) PROVE Goal
    BY <1>11, ToldRenamed DEF nick, Commands, IsPerson
  <1>12. ASSUME NEW u \in Persons, saved(u) PROVE Goal
    <2>1. Given(u) = {} BY WatchersAssumption DEF Given
    <2>2. /\ IsPerson(u) /\ u # name[u] /\ status' = status /\ change_nick(u, u)
          /\ monitor_list' = monitor_list /\ doubled' = (doubled \ Freed(u)) \cup Given(u)
      BY <1>12, <2>1 DEF saved
    <2> QED BY <2>2, ToldRenamed
  <1>13. ASSUME NEW u \in Persons, abort(u) PROVE Goal
    <2>1. /\ name' = name /\ doubled' = doubled /\ UNCHANGED monitorVars
          /\ \A v \in Persons : IsPerson(v)' <=> IsPerson(v)
      BY <1>13 DEF abort, NamesOK, IsPerson
    <2>2. Same BY <2>1 DEF Online
    <2> QED BY <1>0, <1>1, <2>1, <2>2 DEF monitorVars
  <1>14. ASSUME NEW u \in Persons, exit_person(u) PROVE Goal
    <2> DEFINE known == monitor_signoff(told, name[u])
    <2>1. /\ IsPerson(u) /\ status' = [status EXCEPT ![u] = "gone"]
          /\ name' = [name EXCEPT ![u] = ""] /\ doubled' = doubled \ Freed(u)
      BY <1>14 DEF exit_person
    <2>2. known \in Told BY <1>0, NotifyType DEF monitor_signoff
    <2>3. \A v \in Locals : \A m \in monitor_list[v] :
             known[v][m] <=> (m # name[u] /\ told[v][m])
      BY <1>0, Heard
    <2>4. told' \in Told /\ \A v \in Locals : \A m \in monitor_list'[v] :
              m \in monitor_list[v] /\ told'[v][m] = known[v][m]
      <3>1. CASE u \in Locals
        <4>1. Unwatch(u, monitor_list[u]) /\ told' = Forget(known, u, monitor_list[u])
          BY <1>14, <3>1 DEF exit_person
        <4> HIDE DEF known
        <4>2. told' \in Told /\ \A v \in Locals, m \in Nicknames :
                 told'[v][m] = IF v = u THEN known[u][m] /\ m \notin monitor_list[u] ELSE known[v][m]
          BY <2>2, <3>1, <4>1, ForgetType
        <4>3. \A v \in Locals : monitor_list'[v] = IF v = u THEN {} ELSE monitor_list[v]
          BY <3>1, <4>1 DEF Unwatch, MonitorsOK
        <4> QED BY <1>0, <4>2, <4>3
      <3>2. CASE u \notin Locals
        <4>1. told' = known /\ monitor_list' = monitor_list BY <1>14, <3>2 DEF exit_person
        <4> QED BY <2>2, <4>1
      <3> QED BY <3>1, <3>2
    <2> HIDE DEF known
    <2>5. /\ ~IsPerson(u)'
          /\ \A v \in Persons \ {u} : name'[v] = name[v] /\ (IsPerson(v)' <=> IsPerson(v))
      BY <2>1 DEF NamesOK, IsPerson
    <2>6. ASSUME NEW v \in Locals, NEW m \in monitor_list'[v], m \notin doubled'
          PROVE  told'[v][m] <=> Online(m)'
      <3>1. /\ m \in monitor_list[v] /\ m \in Nicknames
            /\ told'[v][m] <=> (m # name[u] /\ told[v][m])
        BY <1>0, <2>3, <2>4
      <3>2. CASE m = name[u]
        <4>1. \A x \in Persons \ {u} : InHash(x) => name[x] # name[u]
          BY <2>1, <2>6, <3>1, <3>2, GivenUp DEF IsPerson, InHash
        <4>2. \A x \in Persons : IsPerson(x) => InHash(x) BY DEF IsPerson, InHash
        <4> QED BY <2>5, <3>1, <3>2, <4>1, <4>2 DEF Online
      <3>3. CASE m # name[u]
        <4>1. m \notin doubled BY <2>1, <2>6, <3>3 DEF Freed
        <4>2. told[v][m] <=> Online(m) BY <3>1, <4>1 DEF ToldRight
        <4>3. Online(m)' <=> Online(m) BY <2>5, <3>3 DEF Online
        <4> QED BY <3>1, <3>3, <4>2, <4>3
      <3> QED BY <3>2, <3>3
    <2> QED BY <2>4, <2>6 DEF ToldRight
  <1>15. ASSUME NEW u \in Persons, exit_unknown(u) PROVE Goal
    <2>1. /\ status[u] = "unknown" /\ status' = [status EXCEPT ![u] = "gone"]
          /\ name' = [name EXCEPT ![u] = ""] /\ doubled' = doubled /\ UNCHANGED monitorVars
      BY <1>15 DEF exit_unknown
    <2>2. /\ ~IsPerson(u) /\ ~IsPerson(u)'
          /\ \A v \in Persons \ {u} : name'[v] = name[v] /\ (IsPerson(v)' <=> IsPerson(v))
      BY <2>1 DEF NamesOK, IsPerson
    <2>3. Same BY <2>2 DEF Online
    <2> QED BY <1>0, <1>1, <2>1, <2>3 DEF monitorVars
  <1>16. CASE UNCHANGED <<nameVars, monitorVars>>
    BY <1>0, <1>1, <1>2, <1>16 DEF monitorVars
  <1> QED BY <1>3, <1>5, <1>6, <1>7, <1>9, <1>10, <1>11, <1>12, <1>13, <1>14, <1>15, <1>16,
             NameSteps

-----------------------------------------------------------------------------
(* The theorems.                                                           *)

\* The inductive invariant.
WatchInv ==
    /\ WatchTypes /\ OneHolderEach /\ OnlineOK /\ ToldRight
    /\ MonitorsLinked /\ AcceptsLinked /\ InvitesLinked

\* It holds at the start.
LEMMA WatchInvInit ==
    ASSUME WatchersInit
    PROVE  WatchInv
  <1>0. /\ Present \subseteq Locals /\ Locals \subseteq Persons /\ Persons \cap Nicknames = {}
        /\ WhowasLength \in Nat /\ WhowasSlack \in Nat
    BY WatchersAssumption
  <1>1. NamesOK /\ OneHolderEach
    BY <1>0 DEF WatchersInit, NamesOK, Statuses, OneHolderEach, Named, InHash
  <1>2. MonitorsOK /\ MonitorsLinked /\ ToldRight
    BY DEF WatchersInit, MonitorsOK, MonitorsLinked, ToldRight
  <1>3. AcceptsOK /\ AcceptsLinked
    BY DEF WatchersInit, AcceptsOK, AcceptsLinked
  <1>4. InvitesOK /\ InvitesLinked
    <2>0. /\ \E open \in SUBSET Chans : channel =
               [c \in Chans |-> IF c \in open /\ Present # {}
                                THEN [members |-> Present, ops |-> Present, invite_only |-> TRUE]
                                ELSE NoChannel]
          /\ invites = [c \in Chans |-> {}] /\ invited = [u \in Locals |-> <<>>]
      BY DEF WatchersInit
    <2>1. channel \in [Chans -> Channel]
      BY <1>0, <2>0 DEF Channel, NoChannel
    <2>2. InvitesOK
      <3>1. invites \in [Chans -> SUBSET Locals] BY <2>0
      <3>2. <<>> \in Seq(Chans) OBVIOUS
      <3>3. invited \in [Locals -> Seq(Chans)] BY <2>0, <3>2, Zenon
      <3> QED BY <2>1, <3>1, <3>3 DEF InvitesOK
    <2>3. ToSet(<<>>) = {} BY DEF ToSet
    <2> QED BY <2>0, <2>2, <2>3, InvitesSets
  <1>5. HistoryOK(whowas) /\ OnlineOK
    <2>1. whowas = [list |-> <<>>, clist |-> [u \in Persons |-> {}]] BY DEF WatchersInit
    <2>2. whowas.list = <<>> /\ whowas.clist = [u \in Persons |-> {}] BY <2>1
    <2>3. Listed(<<>>, [u \in Persons |-> {}]) BY DEF Listed
    <2>4. OnlineOK BY <2>2 DEF OnlineOK
    <2>5. HistoryOK(whowas) BY <1>0, <2>1, <2>2, <2>3 DEF HistoryOK
    <2> QED BY <2>4, <2>5
  <1> QED BY <1>1, <1>2, <1>3, <1>4, <1>5 DEF WatchInv, WatchTypes

\* It holds after every step.
LEMMA WatchInvStep ==
    ASSUME WatchInv, [WatchersNext]_watchVars
    PROVE  WatchInv'
  <1>1. CASE WatchersNext
    <2> USE DEF WatchInv, WatchTypes
    <2>1. NamesOK' /\ OneHolderEach' BY <1>1, NamesStep
    <2>2. MonitorsOK' /\ MonitorsLinked' BY <1>1, MonitorsStep, ToldStep DEF MonitorsOK
    <2>3. ToldRight' BY <1>1, ToldStep
    <2>4. AcceptsOK' /\ AcceptsLinked' BY <1>1, AcceptsStep
    <2>5. InvitesOK' /\ InvitesLinked' BY <1>1, InvitesStep
    <2>6. HistoryOK(whowas)' /\ OnlineOK' BY <1>1, HistoryStep
    <2> QED BY <2>1, <2>2, <2>3, <2>4, <2>5, <2>6
  <1>2. CASE UNCHANGED watchVars
    <2>1. /\ UNCHANGED <<status, name, doubled>>
          /\ UNCHANGED <<monitors, watched_by, monitor_list, told>>
          /\ UNCHANGED <<allow_list, on_allow_list>>
          /\ UNCHANGED <<channel, invites, invited>> /\ UNCHANGED whowas
      BY <1>2 DEF watchVars, nameVars, monitorVars, acceptVars, inviteVars
    <2>2. NamesOK' /\ OneHolderEach' BY <2>1 DEF WatchInv, WatchTypes, NamesOK, OneHolderEach, Named, InHash
    <2>3. MonitorsOK' /\ MonitorsLinked' /\ ToldRight'
      BY <2>1 DEF WatchInv, WatchTypes, MonitorsOK, MonitorsLinked, ToldRight, Online, IsPerson
    <2>4. AcceptsOK' /\ AcceptsLinked'
      BY <2>1 DEF WatchInv, WatchTypes, AcceptsOK, AcceptsLinked, IsPerson
    <2>5. InvitesOK' /\ InvitesLinked'
      BY <2>1 DEF WatchInv, WatchTypes, InvitesOK, InvitesLinked, IsPerson
    <2>6. HistoryOK(whowas)' /\ OnlineOK'
      BY <2>1 DEF WatchInv, WatchTypes, OnlineOK, IsPerson
    <2> QED BY <2>2, <2>3, <2>4, <2>5, <2>6 DEF WatchInv, WatchTypes
  <1> QED BY <1>1, <1>2

\* No list of MONITOR, ACCEPT, INVITE or WHOWAS outlives the client or the
\* channel it leads to, and lists kept at both ends agree, whatever the numbers
\* of users, nicknames and channels and the limits on the lists: exit_client(),
\* destroy_channel() and the changes of nickname take them apart completely.
THEOREM NoneStale == WatchersSpec => []NoStalePointers
  <1>1. WatchInv => NoStalePointers
    BY HistoryTied DEF WatchInv, WatchTypes, NoStalePointers
  <1> QED BY <1>1, WatchInvInit, WatchInvStep, PTL DEF WatchersSpec

\* MONITOR never leaves a watcher with a wrong idea of a nickname, except while
\* one of its holders waits on abort_list: every path by which a user gets or
\* loses a nickname tells the watchers of both names.
THEOREM WatchersKnow == WatchersSpec => []MonitorTrue
  <1>1. WatchInv => MonitorTrue
    BY OnlineNamed DEF WatchInv, ToldRight, MonitorTrue
  <1> QED BY <1>1, WatchInvInit, WatchInvStep, PTL DEF WatchersSpec

=============================================================================
