---------------------------- MODULE MCChannelTS ----------------------------
(* Instances of ChannelTS for TLC.                                         *)
EXTENDS ChannelTS

CONSTANTS A, B, C, ann, bob, cid

\* One user per server; or ann on A against bob and cid on B.
Spread == [u \in Users |-> IF u = ann THEN A ELSE IF u = bob THEN B ELSE C]
Paired == [u \in Users |-> IF u = ann THEN A ELSE B]

\* A line A - B - C; with two servers, one link.
Line == [s \in Servers |-> [t \in Servers |-> IF s = t \/ s = B THEN t ELSE B]]

Uses(join, part, mode, kick, quit, up, down) ==
    [k \in Kinds |-> CASE k = "join" -> join [] k = "part" -> part [] k = "mode" -> mode
                       [] k = "kick" -> kick [] k = "quit" -> quit
                       [] k = "up" -> up [] k = "down" -> down]

Staying == Uses(3, 0, 2, 0, 0, 3, 2)
Everything == Uses(3, 1, 1, 1, 1, 2, 1)
TwoOps == Uses(3, 0, 1, 0, 0, 1, 0)

On(l, u) == [dir |-> "+", letter |-> l, arg |-> u]
Off(l, u) == [dir |-> "-", letter |-> l, arg |-> u]

Mild == {On("v", bob), On("v", cid), On("b", bob), On("l", 2), Off("l", 2)}
Opping == {On("o", cid)}
Mixed == {On("o", cid), Off("o", bob), On("v", bob), On("b", ann), [dir |-> "+", letter |-> "i"]}

\* Two users, one of every operation and a link that breaks and returns; or
\* three users, one of whom may be made operator, and one link that stays.
AllInit ==
    /\ chan = [s \in Servers |-> NoChannel]
    /\ peers = [s \in Servers |-> {}]
    /\ queue = [s \in Servers |-> [t \in Servers |-> <<>>]]
    /\ clock = [s \in Servers |-> 1]
    /\ grants = {}
    /\ \E absent \in {{}, {cid}} :
         /\ known = [s \in Servers |-> {u \in Users \ absent : Home[u] = s}]
         /\ used = [k \in Kinds |-> IF absent = {} /\ k \in {"quit", "down"} THEN Budget[k]
                                                                          ELSE 0]
AllSpec == AllInit /\ [][Next]_vars

=============================================================================
