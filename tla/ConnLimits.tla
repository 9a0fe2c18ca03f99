----------------------------- MODULE ConnLimits -----------------------------
(* The limits on connections: the classes of class.c with their counters, the *)
(* auth{} and connect{} blocks that point to them (s_conf.c, s_newconf.c),    *)
(* the tries that count connections by CIDR block (one per class, and the     *)
(* global one of reject.c), and the rehash that replaces all the blocks under *)
(* the clients attached to them.                                              *)
(*                                                                            *)
(* Blocks and classes are C objects: an object of the same name made by a     *)
(* later rehash is another one, so each is named with the generation of the   *)
(* configuration that made it.  A node of a trie is the set of the addresses  *)
(* it covers.                                                                 *)
EXTENDS Integers, FiniteSets, Functions, TLC

CONSTANTS
  Clients,       \* connections, of this server and of others
  Ips,           \* their addresses
  Ip,            \* [Clients -> Ips]
  Ident,         \* the user name of each; "~" stands for every unidented one
  ClassNames,    \* names of class{} blocks
  Auths,         \* auth{} blocks of the configuration file
  ExemptLimits,  \* those with exceed_limit
  Cover,         \* Cover[b][i]: the addresses in the block of b bits around i
  Configs,       \* the contents of the configuration file over time
  MaxLocal,      \* number_per_ip,
  MaxGlobal,     \* number_per_ip_global
  MaxIdent,      \* and number_per_ident of every class; 0 is no limit
  MaxRehash      \* bound: number of rehashes

ASSUME ClientsHaveAddresses ==
  /\ IsFiniteSet(Clients)
  /\ Ip \in [Clients -> Ips]
  /\ ExemptLimits \subseteq Auths
  /\ MaxRehash \in Nat

\* The blocks of one width are disjoint, and of two blocks around an address one
\* lies in the other.
ASSUME BlocksNest ==
  \A v \in DOMAIN Cover :
    /\ Cover[v] \in [Ips -> SUBSET Ips]
    /\ \A i \in Ips : i \in Cover[v][i] /\ \A j \in Cover[v][i] : Cover[v][j] = Cover[v][i]
    /\ \A w \in DOMAIN Cover, i \in Ips :
         Cover[v][i] \subseteq Cover[w][i] \/ Cover[w][i] \subseteq Cover[v][i]

\* "none" and "default" name no block and no class of a file: the class that
\* initclass() makes is not on the list of those.
ASSUME NamesFree == "none" \notin Auths /\ "default" \notin ClassNames

\* The numbers of a file, and a connect{} block that names a class of the same
\* file (doc/example.conf: classes "MUST be specified before anything that uses
\* them"); an auth{} block may name any.
ASSUME FilesComplete ==
  \A file \in Configs :
    /\ DOMAIN file.class \subseteq ClassNames
    /\ \A name \in DOMAIN file.class :
         file.class[name] \in [max : Nat, amount : Nat, bits : DOMAIN Cover \cup {0}]
    /\ file.global_bits \in DOMAIN Cover /\ file.global_count \in Nat
    /\ file.connect \in DOMAIN file.class \/ file.connect \notin ClassNames

VARIABLES
  generation,    \* number of rehashes so far
  config,        \* what the last one read
  classes,       \* class objects, by <<name, generation>>
  auths,         \* auth{} objects (struct ConfItem), by <<block, generation>>
  connects,      \* the connect{} object (struct server_conf) of each generation
  conns,         \* the connections
  global_tree    \* users of the network, by CIDR block

limitVars == <<generation, config, classes, auths, connects, conns, global_tree>>

Generations == 0..MaxRehash
ClassIds == (ClassNames \X Generations) \cup {<<"default", 0>>}
Nobody == <<"none", 0>>

default_class == <<"default", 0>>
NoClass == [st |-> "none", max |-> 0, amount |-> 0, bits |-> 0, total |-> 0, limits |-> <<>>]
initclass == [st |-> "linked", max |-> 1, amount |-> 0, bits |-> 0, total |-> 0, limits |-> <<>>]
NoBlock == [st |-> "none", class |-> default_class, users |-> 0]
NoConn == [st |-> "gone", conf |-> Nobody, sconf |-> -1]

------------------------------------------------------------------------------
(* Tries of counters *)

\* The most specific node that covers an address.
Covering(tree, ip) == {n \in DOMAIN tree : ip \in n}
rb_match_ip(tree, ip) ==
  CHOOSE n \in Covering(tree, ip) : \A m \in Covering(tree, ip) : n \subseteq m

CountAt(tree, ip) == IF Covering(tree, ip) = {} THEN 0 ELSE tree[rb_match_ip(tree, ip)]

\* An address is counted in the node that covers it, and in a new one of the
\* given number of bits when none does.
Grow(tree, ip, bits) ==
  IF Covering(tree, ip) = {}
  THEN [n \in DOMAIN tree \cup {Cover[bits][ip]} |-> IF n \in DOMAIN tree THEN tree[n] ELSE 1]
  ELSE [tree EXCEPT ![rb_match_ip(tree, ip)] = @ + 1]

Shrink(tree, ip) ==
  IF Covering(tree, ip) = {} THEN tree
  ELSE LET n == rb_match_ip(tree, ip)
       IN  IF tree[n] = 1 THEN Restrict(tree, DOMAIN tree \ {n})
                          ELSE [tree EXCEPT ![n] = @ - 1]

------------------------------------------------------------------------------
(* Attaching to a block and its class.  The operators take and return the     *)
(* state they share: s.classes, s.auths, s.connects, s.conns.                 *)

State(cls, au, sc, cn) == [classes |-> cls, auths |-> au, connects |-> sc, conns |-> cn]

Now == State(classes, auths, connects, conns)

Commit(s) ==
  /\ classes' = s.classes
  /\ auths' = s.auths
  /\ connects' = s.connects
  /\ conns' = s.conns

Limited(class) == class.amount # 0 /\ class.bits # 0

\* add_ip_limit() counts the connection unless its block is full.
CidrFull(class, a, ip) ==
  Limited(class) /\ a \notin ExemptLimits /\ CountAt(class.limits, ip) >= class.amount
add_ip_limit(class, ip) ==
  IF Limited(class) THEN [class EXCEPT !.limits = Grow(@, ip, class.bits)] ELSE class
remove_ip_limit(class, ip) ==
  IF Limited(class) THEN [class EXCEPT !.limits = Shrink(@, ip)] ELSE class

\* The last user of a class that the configuration no longer has frees it.
FreedIfUnused(class) ==
  IF class.max < 0 /\ class.total = 0 THEN [class EXCEPT !.st = "freed"] ELSE class

\* One user of a class or of a block more or less; the last user of a block
\* that the configuration no longer has frees it.
Counted(class, n) == [class EXCEPT !.total = n]
Joined(block) == [block EXCEPT !.users = @ + 1]
Left(block) ==
  [st |-> IF block.users = 1 /\ block.st = "illegal" THEN "freed" ELSE block.st,
   class |-> block.class, users |-> block.users - 1]

\* A connection in another state, with another auth{} or connect{} block.
Being(conn, st) == [conn EXCEPT !.st = st]
Holding(conn, b) == [conn EXCEPT !.conf = b]
Using(conn, g) == [conn EXCEPT !.sconf = g]

ClassLeft(class, ip) ==
  FreedIfUnused(Counted(remove_ip_limit(class, ip),
                        IF class.total > 0 THEN class.total - 1 ELSE 0))

detach_conf(s, c) ==
  LET b == s.conns[c].conf
      k == s.auths[b].class
  IN  IF b = Nobody THEN s
      ELSE State([s.classes EXCEPT ![k] = ClassLeft(@, Ip[c])],
                 [s.auths EXCEPT ![b] = Left(@)],
                 s.connects,
                 [s.conns EXCEPT ![c] = Holding(@, Nobody)])

ClassFull(class, a) == class.max > 0 /\ class.total >= class.max /\ a \notin ExemptLimits

join_conf(s, c, b) ==
  State([s.classes EXCEPT ![s.auths[b].class] = Counted(@, @.total + 1)],
        [s.auths EXCEPT ![b] = Joined(@)],
        s.connects,
        [s.conns EXCEPT ![c] = Holding(@, b)])

\* attach_conf(): a full class refuses the connection, which add_ip_limit() has
\* counted by then.
attach_conf(s, c, b) ==
  LET k == s.auths[b].class
      t == State([s.classes EXCEPT ![k] = add_ip_limit(@, Ip[c])], s.auths, s.connects, s.conns)
  IN  IF s.auths[b].st = "illegal" \/ CidrFull(s.classes[k], b[1], Ip[c]) THEN s
      ELSE IF ClassFull(s.classes[k], b[1]) THEN t
      ELSE join_conf(detach_conf(t, c), c, b)

\* The class is freed with the last user of a block of an old configuration.
detach_server_conf(s, c) ==
  LET g == s.conns[c].sconf
      k == s.connects[g].class
      class == Counted(s.classes[k], s.classes[k].total - 1)
      last == s.connects[g].st = "illegal" /\ s.connects[g].users = 1
  IN  IF g = -1 THEN s
      ELSE State([s.classes EXCEPT ![k] = IF last THEN FreedIfUnused(class) ELSE class],
                 s.auths,
                 [s.connects EXCEPT ![g] = Left(@)],
                 [s.conns EXCEPT ![c] = Using(@, -1)])

join_server_conf(s, c, g) ==
  State([s.classes EXCEPT ![s.connects[g].class] = Counted(@, @.total + 1)],
        s.auths,
        [s.connects EXCEPT ![g] = Joined(@)],
        [s.conns EXCEPT ![c] = Using(@, g)])

attach_server_conf(s, c, g) ==
  IF s.conns[c].sconf = g THEN s ELSE join_server_conf(detach_server_conf(s, c), c, g)

------------------------------------------------------------------------------
(* Connections *)

Users == {c \in Clients : conns[c].st \in {"user", "remote"}}

\* HASH_HOSTNAME holds the registered users, local and remote, of a host.
SameHost(c) == {d \in Users : Ip[d] = Ip[c]}
SameHostHere(c) == {d \in SameHost(c) : conns[d].st = "user"}

\* attach_iline(): the limits on the host, then the global one on the block.
TooMany(c) ==
  \/ MaxLocal # 0 /\ Cardinality(SameHostHere(c)) >= MaxLocal
  \/ MaxGlobal # 0 /\ Cardinality(SameHost(c)) >= MaxGlobal
  \/ MaxIdent # 0 /\ Cardinality({d \in SameHost(c) : Ident[d] = Ident[c]}) >= MaxIdent
  \/ CountAt(global_tree, Ip[c]) >= config.global_count

attach_iline(s, c, b) ==
  IF b[1] \notin ExemptLimits /\ TooMany(c) THEN s ELSE attach_conf(s, c, b)

\* Connection c becomes r.
Turned(s, c, r) == State(s.classes, s.auths, s.connects, [s.conns EXCEPT ![c] = r])
In(s, c, st) == Turned(s, c, Being(s.conns[c], st))

close_connection(s, c) == Turned(detach_server_conf(detach_conf(s, c), c), c, NoConn)

\* A connection is accepted.
add_connection(c) ==
  /\ conns[c].st = "gone"
  /\ conns' = [conns EXCEPT ![c] = Being(@, "unknown")]
  /\ UNCHANGED <<generation, config, classes, auths, connects, global_tree>>

\* NICK and USER are complete.  The client is attached to an auth{} block that
\* matches it, or refused; what follows (password, name, X-lines, RBLs) may
\* still refuse it.
register_local_user(c) ==
  /\ conns[c].st = "unknown"
  /\ conns[c].sconf = -1
  /\ UNCHANGED <<generation, config>>
  /\ \E a \in Auths : \E s \in {attach_iline(Now, c, <<a, generation>>)} :
       \/ /\ s.conns[c].conf # Nobody
          /\ Commit(In(s, c, "user"))
          /\ global_tree' = Grow(global_tree, Ip[c], config.global_bits)
       \/ /\ Commit(close_connection(s, c))
          /\ UNCHANGED global_tree

\* Another server introduces a user, who comes with his address.
register_client(c) ==
  /\ conns[c].st = "gone"
  /\ conns' = [conns EXCEPT ![c] = Being(@, "remote")]
  /\ global_tree' = Grow(global_tree, Ip[c], config.global_bits)
  /\ UNCHANGED <<generation, config, classes, auths, connects>>

\* find_server(): the server of the connect{} block is linked.
Linked == \E d \in Clients : conns[d].st = "server"

\* This server connects to the one of the connect{} block in force.
serv_connect(c) ==
  /\ conns[c].st = "gone" /\ ~Linked
  /\ Commit(attach_server_conf(In(Now, c, "unknown"), c, generation))
  /\ UNCHANGED <<generation, config, global_tree>>

\* SERVER: the link takes the block in force now, whichever it began with.
check_server(c) ==
  /\ conns[c].st = "unknown" /\ ~Linked
  /\ Commit(attach_server_conf(In(Now, c, "server"), c, generation))
  /\ UNCHANGED <<generation, config, global_tree>>

exit_client(c) ==
  /\ conns[c].st # "gone"
  /\ Commit(close_connection(Now, c))
  /\ global_tree' = IF c \in Users THEN Shrink(global_tree, Ip[c]) ELSE global_tree
  /\ UNCHANGED <<generation, config>>

------------------------------------------------------------------------------
(* Rehash *)

find_class(cls, name) ==
  LET linked == {k \in DOMAIN cls : k[1] = name /\ cls[k].st = "linked"}
  IN  IF linked = {} THEN default_class ELSE CHOOSE k \in linked : TRUE

\* clear_out_old_conf() marks the classes and drops the blocks nobody uses.
Marked(cls) ==
  [k \in DOMAIN cls |-> IF k # default_class /\ cls[k].st = "linked"
                        THEN [cls[k] EXCEPT !.max = -1] ELSE cls[k]]

Dropped(blocks) ==
  [b \in DOMAIN blocks |->
     IF blocks[b].st # "legal" THEN blocks[b]
     ELSE [st |-> IF blocks[b].users = 0 THEN "freed" ELSE "illegal",
           class |-> blocks[b].class, users |-> blocks[b].users]]

Updated(class, new) ==
  [st |-> "linked", max |-> new.max, amount |-> new.amount, bits |-> new.bits,
   total |-> class.total, limits |-> class.limits]

\* add_class() updates the class of that name, or adds the new one.
add_class(cls, file, g) ==
  [k \in DOMAIN cls |->
     IF k[1] \notin DOMAIN file.class THEN cls[k]
     ELSE IF cls[k].st = "linked" THEN Updated(cls[k], file.class[k[1]])
     ELSE IF k[2] = g /\ find_class(cls, k[1]) = default_class
     THEN Updated(NoClass, file.class[k[1]])
     ELSE cls[k]]

\* MUTANT: as if it took any class it finds.
conf_add_class_to_conf_Marked(cls, name) == find_class(cls, name)

\* An auth{} block does not take a class that is marked; a connect{} block does.
conf_add_class_to_conf(cls, name) ==
  LET k == find_class(cls, name)
  IN  IF cls[k].max < 0 THEN default_class ELSE k

add_server_conf(cls, name) == find_class(cls, name)

check_class(cls) ==
  [k \in DOMAIN cls |->
     IF cls[k].st = "linked" /\ cls[k].max < 0
     THEN [cls[k] EXCEPT !.st = IF cls[k].total <= 0 THEN "freed" ELSE "unlinked"]
     ELSE cls[k]]

\* MUTANT: as if the local connections only were counted.
rehash_global_cidr_tree_Local(bits) ==
  LET known == {c \in Clients : conns[c].st \notin {"gone", "remote"}}
  IN  [n \in {Cover[bits][Ip[c]] : c \in known} |-> Cardinality({c \in known : Ip[c] \in n})]

\* Everybody on the list of clients is counted.
rehash_global_cidr_tree(bits) ==
  LET known == {c \in Clients : conns[c].st # "gone"}
  IN  [n \in {Cover[bits][Ip[c]] : c \in known} |-> Cardinality({c \in known : Ip[c] \in n})]

\* The blocks of a configuration file, read over those of the generation before.
read_conf(s, file, g) ==
  LET cls == add_class(Marked(s.classes), file, g)
      block(k) == [st |-> "legal", class |-> k, users |-> 0]
  IN  State(check_class(cls),
            [b \in DOMAIN s.auths |->
               IF b[2] = g /\ b # Nobody
               THEN block(conf_add_class_to_conf(cls, file.auth[b[1]]))
               ELSE Dropped(s.auths)[b]],
            [h \in DOMAIN s.connects |->
               IF h = g THEN block(add_server_conf(cls, file.connect))
               ELSE Dropped(s.connects)[h]],
            s.conns)

rehash(file) ==
  /\ generation < MaxRehash
  /\ generation' = generation + 1
  /\ config' = file
  /\ Commit(read_conf(Now, file, generation + 1))
  /\ global_tree' = IF file.global_bits = config.global_bits THEN global_tree
                    ELSE rehash_global_cidr_tree(file.global_bits)

LimitsInit ==
  /\ generation = 0
  /\ config \in Configs
  /\ conns = [c \in Clients |-> NoConn]
  /\ global_tree = <<>>
  /\ LET s == read_conf(
                [classes |-> [k \in ClassIds |-> IF k = default_class THEN initclass ELSE NoClass],
                 auths |-> [b \in (Auths \X Generations) \cup {Nobody} |-> NoBlock],
                 connects |-> [g \in Generations \cup {-1} |-> NoBlock],
                 conns |-> conns], config, 0)
     IN  classes = s.classes /\ auths = s.auths /\ connects = s.connects

LimitsNext ==
  \/ \E c \in Clients : \/ add_connection(c)
                        \/ register_local_user(c)
                        \/ register_client(c)
                        \/ serv_connect(c)
                        \/ check_server(c)
                        \/ exit_client(c)
  \/ \E file \in Configs : rehash(file)

LimitsSpec == LimitsInit /\ [][LimitsNext]_limitVars

------------------------------------------------------------------------------
(* Properties *)

ClassOf(c) == auths[conns[c].conf].class
AttachedTo(k) == {c \in Clients : conns[c].conf # Nobody /\ ClassOf(c) = k}
ServersOf(k) == {c \in Clients : conns[c].sconf # -1 /\ connects[conns[c].sconf].class = k}
Held(k) == AttachedTo(k) \cup ServersOf(k) # {}

\* A class that rehash dropped lives exactly as long as a client or a server is
\* attached to it through an old block: nobody is left with a freed block or
\* class, and the last one to leave frees both (detach_conf,
\* detach_server_conf, check_class).
ClassesHeld ==
  /\ \A c \in Clients : /\ conns[c].conf # Nobody => auths[conns[c].conf].st \in {"legal", "illegal"}
                        /\ conns[c].sconf # -1 => connects[conns[c].sconf].st \in {"legal", "illegal"}
  /\ \A k \in ClassIds : /\ Held(k) => classes[k].st \in {"linked", "unlinked"}
                         /\ classes[k].st = "unlinked" => Held(k)

\* The clients of class k that a node of its trie ought to count.
CountedIn(k, n) ==
  {c \in AttachedTo(k) : /\ Covering(classes[k].limits, Ip[c]) # {}
                         /\ rb_match_ip(classes[k].limits, Ip[c]) = n}

\* The clients that are really there leave room for c in auth{} block b: in its
\* class, in its CIDR block of that class, and in its block of the network.
RoomFor(c, b) ==
  LET k == auths[b].class
  IN  /\ classes[k].max > 0 => Cardinality(AttachedTo(k)) < classes[k].max
      /\ Limited(classes[k]) =>
           /\ \A d \in AttachedTo(k) : Covering(classes[k].limits, Ip[d]) # {}
           /\ \A n \in Covering(classes[k].limits, Ip[c]) :
                n = rb_match_ip(classes[k].limits, Ip[c])
                => Cardinality(CountedIn(k, n)) < classes[k].amount
      /\ Cardinality({d \in Users : Ip[d] \in Cover[config.global_bits][Ip[c]]})
           < config.global_count

\* Whatever was counted, forgotten or counted twice over rehashes, a client is
\* admitted to a block that does not exceed the limits only while the clients
\* that are really there are fewer than each limit (attach_iline, attach_conf,
\* inc_global_cidr_count, rehash_global_cidr_tree).
AdmittedUnderLimits ==
  [][\A c \in Clients :
       (conns[c].conf = Nobody /\ conns'[c].conf # Nobody /\ conns'[c].conf[1] \notin ExemptLimits)
       => RoomFor(c, conns'[c].conf)]_limitVars

\* A class whose connections are counted by CIDR block with one file is so with
\* every file that has the class.
LimitsSteady ==
  \A e, f \in Configs : \A name \in DOMAIN e.class \cap DOMAIN f.class :
    Limited(e.class[name]) <=> Limited(f.class[name])

==============================================================================
