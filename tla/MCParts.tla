------------------------------ MODULE MCParts ------------------------------
(* Small instances of the parts that run beside the network protocol: the   *)
(* resolver, the ban database, the limits on connections, and the queues of *)
(* a connection.  They share no state, so a behaviour is one of one part,   *)
(* chosen in the initial state, with the others at rest.                    *)
EXTENDS Resolver, ConnLimits, Bans, RecvQ, SendQ

CONSTANTS q1, q2, ip1, ip2, name1, name2, p1, p2

VARIABLE part

Parts == {"resolver", "limits", "bans", "recvq", "sendq"}

partVars == <<part, resolverVars, limitVars, banVars, recvVars, sendVars>>

\* At rest: nothing that fairness asks for is enabled.
BansAtRest ==
    /\ db = {} /\ permanent = {} /\ locked = {} /\ temporary = {}
    /\ kline_queued = FALSE /\ online = {}
    /\ requests = <<>> /\ replies = <<>> /\ bandb_pending = {}
    /\ deaths = 0 /\ cut = FALSE

RecvAtRest ==
    /\ stream = <<>> /\ pos = 0 /\ kind = "dead" /\ recvq = <<>> /\ parsed = <<>>
    /\ flood = [sent_parsed |-> 0, allow_read |-> 0, done |-> FALSE, delayed |-> FALSE]
    /\ phase = "idle" /\ caller = "read" /\ binary = FALSE /\ checkflood = TRUE

PartsInit ==
    /\ part \in Parts
    /\ ResolverInit /\ LimitsInit /\ SendInit
    /\ part # "limits" => config = CHOOSE c \in Configs : TRUE
    /\ IF part = "bans" THEN BansInit ELSE BansAtRest
    /\ IF part = "recvq" THEN RecvInit ELSE RecvAtRest

PartsNext ==
    /\ UNCHANGED part
    /\ \/ /\ part = "resolver" /\ ResolverNext
          /\ UNCHANGED <<limitVars, banVars, recvVars, sendVars>>
       \/ /\ part = "limits" /\ LimitsNext
          /\ UNCHANGED <<resolverVars, banVars, recvVars, sendVars>>
       \/ /\ part = "bans" /\ BansNext
          /\ UNCHANGED <<resolverVars, limitVars, recvVars, sendVars>>
       \/ /\ part = "recvq" /\ RecvNext
          /\ UNCHANGED <<resolverVars, limitVars, banVars, sendVars>>
       \/ /\ part = "sendq" /\ SendNext
          /\ UNCHANGED <<resolverVars, limitVars, banVars, recvVars>>

PartsSpec == /\ PartsInit /\ [][PartsNext]_partVars
             /\ ResolverFairness /\ BansFairness /\ RecvFairness /\ SendFairness

------------------------------------------------------------------------------
(* Resolver: two questions about the same address. *)

OneAddress == [q \in Queries |-> ip1]

(* ConnLimits: two connections from neighbouring addresses, limits of one;    *)
(* three configuration files that add, drop and change classes and blocks.    *)

Addresses == [c \in Clients |-> IF c = "c1" THEN "i1" ELSE "i2"]
Unidented == [c \in Clients |-> "~"]
TwoWidths == << [i \in Ips |-> Ips], [i \in Ips |-> {i}] >>

Class(max, amount, bits) == [max |-> max, amount |-> amount, bits |-> bits]
File(cls, block, width) ==
    [class |-> cls, auth |-> [a \in Auths |-> IF a = "a" THEN block ELSE "users"],
     connect |-> block, global_bits |-> width, global_count |-> 1]

Files == { File("users" :> Class(2, 1, 1), "users", 1),
           File("users" :> Class(1, 1, 2) @@ "servers" :> Class(2, 1, 1), "servers", 2),
           File("servers" :> Class(2, 1, 1), "servers", 1) }

\* The hypothesis of AdmissionProofs!AdmittedAlways: these files turn no
\* counting by CIDR block on or off.
ASSUME FilesSteady == LimitsSteady

(* Bans: a K-line and a RESV; every user matches the K-line. *)

Kinds == [b \in Bans |-> IF b = "k" THEN "K" ELSE "R"]
AllMatch == [c \in People |-> Bans \ {"r"}]

(* RecvQ: a client, an oper, a server and an exempt client; lines of full       *)
(* length, lines after which reads may cut the two bytes of an end of line.     *)

FourStreams ==
    { <<"a", "n", "n", "R", "n", "E", "n", "b", "b", "b", "n", "c">>,
      <<"R", "n", "O", "n", "a", "n", "b", "n", "c", "n", "d", "n">>,
      <<"S", "n", "a", "n", "n", "b", "b", "b", "n", "c", "n">>,
      <<"X", "n", "n", "a", "n", "b", "n", "c", "n">> }

\* The hypothesis of PartsProofs!LinesAlwaysWhole.
ASSUME StreamsFit == LinesFit

(* SendQ: three lines of one and two bytes. *)

ShortLines == <<2, 1, 2>>

=============================================================================
