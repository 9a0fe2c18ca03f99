----------------------------- MODULE MCNickNet -----------------------------
(* Nicknames in one run: two networks of NickTS, a pair of servers whose users *)
(* collide and three servers that open all three links at once, and beside     *)
(* them the tables of one server that follow its users, Watchers.  These share *)
(* nothing but the users who come and go, so a behaviour fills one of them.    *)
EXTENDS MCNickTS, Watchers

VARIABLE net

Tables == {"monitor", "accept", "invite"}

\* A pair with one link, whose third server stays alone, or a triangle in which
\* one user connects.
Pair == net = "pair" => ups <= 1 /\ \A s \in Servers : chan[s][C] = <<>> /\ chan[C][s] = <<>>
Loop == net = "triangle" => ops <= 1 /\ now = 0

OneTable == /\ net # "monitor" => UNCHANGED monitorVars
            /\ net # "accept" => UNCHANGED acceptVars
            /\ net # "invite" => UNCHANGED inviteVars

NetInit ==
    /\ net \in {"pair", "triangle"} \cup Tables
    /\ Init /\ WatchersInit
    /\ \A c \in Chans : channel[c] # NoChannel <=> net = "invite"

NetNext ==
    /\ UNCHANGED net
    /\ \/ net \notin Tables /\ Next /\ UNCHANGED watchVars /\ Pair' /\ Loop'
       \/ net \in Tables /\ WatchersNext /\ UNCHANGED vars /\ OneTable

NetSpec == NetInit /\ [][NetNext]_<<vars, watchVars, net>>

=============================================================================
