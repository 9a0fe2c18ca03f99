-------------------------------- MODULE Bans --------------------------------
(* Bans that outlive the server: K-lines (m_kline.c), X-lines (m_xline.c) and *)
(* RESVs (m_resv.c), permanent and temporary, and the bandb helper process    *)
(* that keeps the permanent ones in a database (bandbi.c, bandb/bandb.c).     *)
(* The server and the helper talk through two pipes; a reload of the bans     *)
(* asks the helper for its list and replaces the permanent bans by it.        *)
(*                                                                            *)
(* A ban is its mask; masks do not match one another, so that a ban is placed *)
(* already exactly when its own mask is (general::non_redundant_klines set).  *)
EXTENDS Sequences, Naturals, FiniteSets, SequencesExt

CONSTANTS
  Bans,          \* masks of bans
  Kind,          \* [Bans -> {"K", "X", "R"}]
  People,        \* users who connect
  Matching,      \* [People -> SUBSET Bans]: the K- and X-lines that match each
  KlineDelay,    \* is general::kline_delay set?
  MaxPipe,       \* bound: requests under way to the helper
  MaxLists,      \* bound: lists asked for and not yet read to their end
  MaxDeaths      \* bound: deaths of the helper

ASSUME BansFinite == IsFiniteSet(Bans)

VARIABLES
  permanent,     \* permanent bans in force
  locked,        \* those that only an admin removes
  temporary,     \* temporary bans in force
  kline_queued,  \* check_klines_event is scheduled
  online,        \* users who are connected
  requests,      \* pipe to the helper
  replies,       \* pipe from the helper
  bandb_pending, \* bans read since the last list was applied
  db,            \* the helper's tables
  deaths,        \* number of deaths of the helper
  cut            \* history: a death took part of a list with it

banVars == <<permanent, locked, temporary, kline_queued, online, requests, replies,
             bandb_pending, db, deaths, cut>>
commandVars == <<replies, bandb_pending, db, deaths, cut>>
helperVars == <<requests, replies, db, deaths, cut>>

InForce == permanent \cup temporary
OfKind(k, bans) == {b \in bans : Kind[b] = k}
Hit(c, bans) == Matching[c] \cap bans # {}

\* check_klines(), check_xlines() and check_banned_lines() exit the users that
\* bans of theirs match.
Remaining(bans) == {c \in online : ~Hit(c, bans)}

------------------------------------------------------------------------------
(* Commands of operators, of this server or, shared, of others *)

bandb_write(r) ==
  /\ Len(requests) < MaxPipe
  /\ requests' = Append(requests, r)

\* With a new ban the users are checked at once against all of its kind; for a
\* K-line after kline_delay, if set; a RESV exits nobody.
CheckAgainst(b) ==
  IF Kind[b] = "K" /\ KlineDelay
  THEN kline_queued' = TRUE /\ UNCHANGED online
  ELSE /\ online' = IF Kind[b] = "R" THEN online ELSE Remaining(OfKind(Kind[b], InForce \cup {b}))
       /\ UNCHANGED kline_queued

\* KLINE, XLINE, RESV and their ADMIN forms
place_permanent(b, admin) ==
  /\ b \notin InForce
  /\ permanent' = permanent \cup {b}
  /\ locked' = IF admin THEN locked \cup {b} ELSE locked
  /\ bandb_write([type |-> "add", ban |-> b])
  /\ CheckAgainst(b)
  /\ UNCHANGED <<temporary, commandVars>>

place_temporary(b) ==
  /\ b \notin InForce
  /\ temporary' = temporary \cup {b}
  /\ CheckAgainst(b)
  /\ UNCHANGED <<permanent, locked, requests, commandVars>>

\* UNKLINE takes the temporary K-line first; UNXLINE and UNRESV take the one of
\* the list that they meet first.
remove_temporary(b) ==
  /\ b \in temporary
  /\ temporary' = temporary \ {b}
  /\ UNCHANGED <<permanent, locked, kline_queued, online, requests, commandVars>>

remove_permanent(b, admin) ==
  /\ b \in permanent
  /\ Kind[b] = "K" => b \notin temporary
  /\ b \in locked => admin
  /\ permanent' = permanent \ {b}
  /\ locked' = locked \ {b}
  /\ bandb_write([type |-> "del", ban |-> b])
  /\ UNCHANGED <<temporary, kline_queued, online, commandVars>>

\* expire_temp_kd() and expire_temp_rxlines(), when the time of the ban has come
expire_temp(b) == remove_temporary(b)

check_klines_event ==
  /\ kline_queued
  /\ kline_queued' = FALSE
  /\ online' = Remaining(OfKind("K", InForce))
  /\ UNCHANGED <<permanent, locked, temporary, requests, commandVars>>

\* A user registers: verify_access() and find_xline() look for bans.
user_registers(c) ==
  /\ c \notin online
  /\ ~Hit(c, InForce)
  /\ online' = online \cup {c}
  /\ UNCHANGED <<permanent, locked, temporary, kline_queued, requests, commandVars>>

\* At startup, on SIGUSR2 and on REHASH BANS
bandb_rehash_bans ==
  /\ Len(SelectSeq(requests \o replies, LAMBDA m : m.type \in {"list", "F"})) < MaxLists
  /\ bandb_write([type |-> "list"])
  /\ UNCHANGED <<permanent, locked, temporary, kline_queued, online, commandVars>>

------------------------------------------------------------------------------
(* The helper *)

\* DELETE ... WHERE mask1=... AND mask2=...: K-lines only have a second mask;
\* for the others parse_ban() stored NULL there, which no comparison selects.
Deleted(b) == IF Kind[b] = "K" THEN db \ {b} ELSE db

Line(b) == [type |-> "ban", ban |-> b]

\* MUTANT: as if a list did not begin with "C".
list_bans_NoClear ==
  SetToSeq({Line(b) : b \in db}) \o <<[type |-> "F", of |-> db]>>

\* "C", the bans, "F".  The history of "F" is the table it ends.
list_bans ==
  <<[type |-> "C"]>> \o SetToSeq({Line(b) : b \in db}) \o <<[type |-> "F", of |-> db]>>

parse_request ==
  /\ requests # <<>>
  /\ requests' = Tail(requests)
  /\ LET r == Head(requests)
     IN  /\ db' = IF r.type = "add" THEN db \cup {r.ban}
                   ELSE IF r.type = "del" THEN Deleted(r.ban) ELSE db
         /\ replies' = IF r.type = "list" THEN replies \o list_bans ELSE replies
  /\ UNCHANGED <<permanent, locked, temporary, kline_queued, online, bandb_pending,
                 deaths, cut>>

\* The helper dies and bandb_restart_cb() starts another: what it had not read
\* is lost, and of what it had written some.
bandb_restart_cb ==
  /\ deaths < MaxDeaths
  /\ deaths' = deaths + 1
  /\ requests' = <<>>
  /\ \E n \in 0..Len(replies) :
       /\ replies' = SubSeq(replies, 1, n)
       /\ cut' = (cut \/ n < Len(replies))
  /\ UNCHANGED <<permanent, locked, temporary, kline_queued, online, bandb_pending, db>>

------------------------------------------------------------------------------
(* Replies of the helper *)

\* MUTANT: as if the K-lines and X-lines only were taken from a list.
bandb_check_NoResv(b) == Kind[b] # "R"

\* bandb_check_kline() and its like: a RESV is not added beside a temporary one.
bandb_check(b) == Kind[b] = "R" => b \notin temporary

\* MUTANT: as if users were not checked once the bans are replaced.
bandb_handle_finish_NoCheck(pending) ==
  /\ permanent' = {b \in pending : bandb_check(b)}
  /\ locked' = {}
  /\ bandb_pending' = {}
  /\ UNCHANGED online

\* The permanent bans are dropped, the list's are added (it does not say which
\* were locked) and every user is checked.
bandb_handle_finish(pending) ==
  /\ permanent' = {b \in pending : bandb_check(b)}
  /\ locked' = {}
  /\ bandb_pending' = {}
  /\ online' = Remaining(permanent' \cup temporary)

\* What bandb_handle_clear() leaves pending
bandb_handle_clear == {}

\* bandb_parse(); the case of "C" runs on into that of "F".
bandb_parse ==
  /\ replies # <<>>
  /\ replies' = Tail(replies)
  /\ LET r == Head(replies)
     IN  \/ /\ r.type = "ban"
            /\ bandb_pending' = bandb_pending \cup {r.ban}
            /\ UNCHANGED <<permanent, locked, online>>
         \/ r.type = "C" /\ bandb_handle_finish(bandb_handle_clear)
         \/ r.type = "F" /\ bandb_handle_finish(bandb_pending)
  /\ UNCHANGED <<temporary, kline_queued, requests, db, deaths, cut>>

------------------------------------------------------------------------------
\* The server starts with the table of its last run.
BansInit ==
  /\ db \in SUBSET Bans
  /\ permanent = {} /\ locked = {} /\ temporary = {}
  /\ kline_queued = FALSE
  /\ online = {}
  /\ requests = <<[type |-> "list"]>>
  /\ replies = <<>>
  /\ bandb_pending = {}
  /\ deaths = 0 /\ cut = FALSE

BansNext ==
  \/ \E b \in Bans : \/ \E admin \in BOOLEAN : \/ place_permanent(b, admin)
                                               \/ remove_permanent(b, admin)
                     \/ place_temporary(b)
                     \/ remove_temporary(b)
                     \/ expire_temp(b)
  \/ \E c \in People : user_registers(c)
  \/ check_klines_event
  \/ bandb_rehash_bans
  \/ parse_request
  \/ bandb_restart_cb
  \/ bandb_parse

\* The helper loops on its pipe, and the server's event loop on its end.
BansFairness == WF_banVars(parse_request) /\ WF_banVars(bandb_parse)

BansSpec == BansInit /\ [][BansNext]_banVars /\ BansFairness

------------------------------------------------------------------------------
(* Properties *)

\* A list is applied whole or not at all: whatever part of an earlier one a
\* death of the helper left pending, what "F" applies is the table as the
\* helper read it (list_bans, bandb_handle_clear, bandb_handle_finish).
ListWhole ==
  (replies # <<>> /\ Head(replies).type = "F") => bandb_pending = Head(replies).of

\* Nobody stays whom a ban in force matches: not one who came while the bans
\* were being replaced, and under kline_delay none for longer than it takes
\* the scheduled check to run (check_klines_event, check_banned_lines).
BannedLeave ==
  \A c \in online : /\ ~Hit(c, OfKind("X", InForce))
                    /\ Hit(c, OfKind("K", InForce)) => kline_queued

\* A ban that the helper lists comes into force, unless a death of the helper
\* takes part of the list with it.
Listed(b) == \E i \in DOMAIN replies : replies[i] = Line(b)
BansComeBack == \A b \in Bans : Listed(b) ~> (b \in InForce \/ cut)

==============================================================================
