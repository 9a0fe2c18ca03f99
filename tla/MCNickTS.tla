------------------------------ MODULE MCNickTS ------------------------------
(* Instances of NickTS for TLC.                                            *)
EXTENDS NickTS

CONSTANTS A, B, C, u1, u2, u3

NoSkew == [s \in Servers |-> 0]
OneAhead == [s \in Servers |-> IF s = B THEN 1 ELSE 0]

\* One user per server, and two users of A against one of B.
Spread == [u \in Uids |-> IF u = u1 THEN A ELSE IF u = u2 THEN B ELSE C]
Ends == [u \in Uids |-> IF u = u2 THEN C ELSE A]
Paired == [u \in Uids |-> IF u = u2 THEN B ELSE A]

\* All users from different user@hosts, or all from the same one.
Distinct == [u \in Uids |-> u]
Clones == [u \in Uids |-> u1]

OneLink == {{A, B}}
Line == {{A, B}, {B, C}}
Triangle == {{A, B}, {B, C}, {A, C}}

=============================================================================
