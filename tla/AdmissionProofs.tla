--------------------------- MODULE AdmissionProofs ---------------------------
(* Theorems about who may be connected: the classes and blocks of ConnLimits, *)
(* and the bans of Bans.                                                      *)
(*                                                                            *)
(* ConnLimits.  ClassesHeld is not inductive: a class is freed when its       *)
(* counter says that nobody is left, so the counters of classes and blocks    *)
(* must be the numbers of their users (BlocksCounted, ClassesCounted), a      *)
(* block of an old configuration must be freed with its last user             *)
(* (BlocksFollow), a class the file no longer has must be marked and in use   *)
(* (ClassesFollow), and the blocks in force must have a class of the list     *)
(* (BlocksLinked).  The operations take a shared state s to another, and a    *)
(* step is several of them, so the invariant Sound is stated about s.         *)
(*                                                                            *)
(* AdmittedUnderLimits needs what the counters mean: a trie counts at least   *)
(* the clients that its nodes ought to count (Covers), of a class those that  *)
(* are attached to it (Tracked), of the network the users, in blocks of the   *)
(* one width in force (Counting).  A class keeps its trie over a rehash, so   *)
(* it must be counted with each file or with none (Settled, from the          *)
(* hypothesis LimitsSteady).                                                  *)
(*                                                                            *)
(* Bans.  BannedLeave is inductive.  ListWhole speaks of the first reply      *)
(* only; the invariant behind it (FramesWhole) speaks of every "F" in the     *)
(* pipe, wherever a death of the helper has cut the pipe before it.           *)
EXTENDS ConnLimits, Bans, ListsProofs, SequenceTheorems, FiniteSetTheorems, TLAPS

-----------------------------------------------------------------------------
(* Types.                                                                   *)

BlockIds == Auths \X Generations

\* The blocks of addresses, of any width, and the tries of counters of them.
Nodes == UNION {{Cover[w][i] : i \in Ips} : w \in DOMAIN Cover}

Trie(tree) ==
  /\ DOMAIN tree \subseteq Nodes /\ IsFiniteSet(DOMAIN tree)
  /\ tree \in [DOMAIN tree -> Nat \ {0}]

Tries == {t \in UNION {[D -> Nat \ {0}] : D \in SUBSET Nodes} : Trie(t)}

ClassRec == [st : {"none", "linked", "unlinked", "freed"}, max : Int, amount : Nat,
             bits : DOMAIN Cover \cup {0}, total : Nat, limits : Tries]

BlockRec == [st : {"none", "legal", "illegal", "freed"}, class : ClassIds, users : Nat]

ConnRec == [st : {"gone", "unknown", "user", "remote", "server"},
            conf : BlockIds \cup {Nobody}, sconf : Generations \cup {-1}]

TypesOK(s) ==
  /\ s.classes \in [ClassIds -> ClassRec]
  /\ s.auths \in [BlockIds \cup {Nobody} -> BlockRec]
  /\ s.connects \in [Generations \cup {-1} -> BlockRec]
  /\ s.conns \in [Clients -> ConnRec]

-----------------------------------------------------------------------------
(* The inductive invariant, of the shared state s at generation g.          *)

HoldersOf(s, b) == {c \in Clients : s.conns[c].conf = b}
LinksOf(s, h) == {c \in Clients : s.conns[c].sconf = h}
AttachedIn(s, k) ==
  {c \in Clients : s.conns[c].conf # Nobody /\ s.auths[s.conns[c].conf].class = k}
LinkedIn(s, k) ==
  {c \in Clients : s.conns[c].sconf # -1 /\ s.connects[s.conns[c].sconf].class = k}

\* What a counter counts.
BlocksCounted(s) ==
  /\ \A b \in BlockIds : s.auths[b].users = Cardinality(HoldersOf(s, b))
  /\ \A h \in Generations : s.connects[h].users = Cardinality(LinksOf(s, h))

ClassesCounted(s) ==
  \A k \in ClassIds :
    s.classes[k].total = Cardinality(AttachedIn(s, k)) + Cardinality(LinkedIn(s, k))

\* A block of the configuration in force is legal; one of an older lives as
\* long as it is used.
Follows(block, h, g) ==
  /\ h = g => block.st = "legal"
  /\ h > g => block.st = "none" /\ block.users = 0
  /\ h < g => block.st = IF block.users = 0 THEN "freed" ELSE "illegal"

BlocksFollow(s, g) ==
  /\ \A b \in BlockIds : Follows(s.auths[b], b[2], g)
  /\ \A h \in Generations : Follows(s.connects[h], h, g)

ClassFollows(class) ==
  /\ class.st = "linked" => class.max >= 0
  /\ class.st = "unlinked" => class.max < 0 /\ class.total > 0
  /\ class.st \in {"none", "freed"} => class.total = 0

ClassesFollow(s, g) ==
  /\ s.classes[default_class].st = "linked"
  /\ \A k \in ClassIds : ClassFollows(s.classes[k])
  /\ \A k \in ClassNames \X Generations : k[2] > g => s.classes[k].st = "none"

\* The blocks in force have a class of the list.
BlocksLinked(s, g) ==
  /\ \A a \in Auths : s.classes[s.auths[<<a, g>>].class].st = "linked"
  /\ s.classes[s.connects[g].class].st = "linked"

Kept(s, g) ==
  /\ TypesOK(s)
  /\ BlocksCounted(s)
  /\ ClassesCounted(s)
  /\ BlocksFollow(s, g)
  /\ ClassesFollow(s, g)

Sound(s, g) == Kept(s, g) /\ BlocksLinked(s, g)

-----------------------------------------------------------------------------
(* Tries.                                                                   *)

\* Of two blocks around an address one lies in the other.
LEMMA NodesNest ==
    ASSUME NEW ip, NEW m \in Nodes, NEW n \in Nodes, ip \in m, ip \in n
    PROVE  m \subseteq n \/ n \subseteq m
  <1>1. PICK v \in DOMAIN Cover : \E i \in Ips : m = Cover[v][i] BY DEF Nodes
  <1>2. PICK i \in Ips : m = Cover[v][i] BY <1>1
  <1>3. PICK w \in DOMAIN Cover : \E j \in Ips : n = Cover[w][j] BY DEF Nodes
  <1>4. PICK j \in Ips : n = Cover[w][j] BY <1>3
  <1>5. ip \in Ips BY <1>2, BlocksNest
  <1>6. m = Cover[v][ip] BY <1>2, BlocksNest
  <1>7. n = Cover[w][ip] BY <1>4, BlocksNest
  <1> QED BY <1>5, <1>6, <1>7, BlocksNest

\* The members of C are nested.
Chain(C) == \A m, n \in C : m \subseteq n \/ n \subseteq m

HasLeast(C) == \E n \in C : \A m \in C : n \subseteq m

\* A finite chain has a least member.
LEMMA ChainLeast ==
    ASSUME NEW C, IsFiniteSet(C), C # {}, Chain(C)
    PROVE  HasLeast(C)
  <1> DEFINE N == Cardinality(C)
             S == {i \in 0..N : \A D \in SUBSET C : D # {} /\ Cardinality(D) = i => HasLeast(D)}
  <1>1. N \in Nat BY FS_CardinalityType
  <1>2. \A D \in SUBSET C : IsFiniteSet(D) BY FS_Subset
  <1>3. 0 \in S
    <2>1. \A D \in SUBSET C : Cardinality(D) = 0 => D = {} BY <1>2, FS_EmptySet
    <2> QED BY <1>1, <2>1
  <1>4. ASSUME NEW i \in 0..(N - 1), i \in S PROVE i + 1 \in S
    <2>1. ASSUME NEW D \in SUBSET C, D # {}, Cardinality(D) = i + 1 PROVE HasLeast(D)
      <3>1. PICK x \in D : TRUE BY <2>1
      <3> DEFINE E == D \ {x}
      <3>2. IsFiniteSet(D) BY <1>2
      <3>3. Cardinality(E) = Cardinality(D) - 1 BY <3>1, <3>2, FS_RemoveElement
      <3>4. Cardinality(E) = i BY <1>1, <2>1, <3>3
      <3>5. CASE E = {}
        <4>1. D = {x} BY <3>1, <3>5
        <4> QED BY <4>1 DEF HasLeast
      <3>6. CASE E # {}
        <4>1. HasLeast(E) BY <1>4, <3>4, <3>6
        <4>2. PICK n \in E : \A m \in E : n \subseteq m BY <4>1 DEF HasLeast
        <4>3. n \subseteq x \/ x \subseteq n BY <4>2 DEF Chain
        <4>4. CASE n \subseteq x
          <5>1. n \in D /\ \A m \in D : n \subseteq m BY <4>2, <4>4
          <5> QED BY <5>1 DEF HasLeast
        <4>5. CASE x \subseteq n
          <5>1. x \in D /\ \A m \in D : x \subseteq m BY <3>1, <4>2, <4>5
          <5> QED BY <5>1 DEF HasLeast
        <4> QED BY <4>3, <4>4, <4>5
      <3> QED BY <3>5, <3>6
    <2>2. i + 1 \in 0..N BY <1>1
    <2> QED BY <2>1, <2>2
  <1>5. 0..N \subseteq S
    <2> HIDE DEF N, S
    <2> QED BY <1>1, <1>3, <1>4, UpTo
  <1>6. N \in S BY <1>1, <1>5
  <1> QED BY <1>6

\* rb_match_ip() finds the least node around the address.
LEMMA MatchIs ==
    ASSUME NEW tree, NEW ip, Trie(tree), Covering(tree, ip) # {}
    PROVE  /\ rb_match_ip(tree, ip) \in Covering(tree, ip)
           /\ \A m \in Covering(tree, ip) : rb_match_ip(tree, ip) \subseteq m
  <1> DEFINE C == Covering(tree, ip)
  <1>1. C \subseteq DOMAIN tree /\ \A n \in C : ip \in n /\ n \in Nodes
    BY DEF Covering, Trie
  <1>2. IsFiniteSet(C) BY <1>1, FS_Subset DEF Trie
  <1>3. Chain(C) BY <1>1, NodesNest DEF Chain
  <1>4. HasLeast(C)
    <2> HIDE DEF C
    <2> QED BY <1>2, <1>3, ChainLeast DEF C
  <1>5. \E n \in C : \A m \in C : n \subseteq m BY <1>4 DEF HasLeast
  <1> QED BY <1>5 DEF rb_match_ip

LEMMA MatchUnique ==
    ASSUME NEW tree, NEW ip, NEW n \in Covering(tree, ip),
           \A m \in Covering(tree, ip) : n \subseteq m
    PROVE  rb_match_ip(tree, ip) = n
  <1>1. \A x \in Covering(tree, ip) :
          (\A m \in Covering(tree, ip) : x \subseteq m) => x = n
    OBVIOUS
  <1> QED BY <1>1 DEF rb_match_ip

LEMMA TriesAre == \A t : t \in Tries <=> Trie(t)
  BY DEF Tries, Trie

LEMMA EmptyTrie == <<>> \in Tries /\ DOMAIN <<>> = {}
  <1>1. DOMAIN <<>> = {} OBVIOUS
  <1>2. <<>> \in [{} -> Nat \ {0}] OBVIOUS
  <1>3. IsFiniteSet({}) BY FS_EmptySet
  <1> QED BY <1>1, <1>2, <1>3 DEF Tries, Trie

\* What Grow returns: a node covers the address, and counts one more.
LEMMA GrowCovered ==
    ASSUME NEW tree, NEW ip, NEW bits, Trie(tree), Covering(tree, ip) # {}
    PROVE  /\ Trie(Grow(tree, ip, bits))
           /\ DOMAIN Grow(tree, ip, bits) = DOMAIN tree
           /\ \A n \in DOMAIN tree :
                Grow(tree, ip, bits)[n] =
                  IF n = rb_match_ip(tree, ip) THEN tree[n] + 1 ELSE tree[n]
  <1> DEFINE r == rb_match_ip(tree, ip)
             t == [tree EXCEPT ![r] = @ + 1]
  <1>1. r \in DOMAIN tree BY MatchIs DEF Covering
  <1>2. Grow(tree, ip, bits) = t BY DEF Grow
  <1> HIDE DEF r
  <1>3. DOMAIN t = DOMAIN tree /\ \A n \in DOMAIN tree : t[n] = IF n = r THEN tree[n] + 1 ELSE tree[n]
    OBVIOUS
  <1>4. Trie(t) BY <1>1 DEF Trie
  <1> HIDE DEF t
  <1> QED BY <1>2, <1>3, <1>4 DEF r

LEMMA GrowNew ==
    ASSUME NEW tree, NEW ip \in Ips, NEW bits \in DOMAIN Cover, Trie(tree), Covering(tree, ip) = {}
    PROVE  /\ Trie(Grow(tree, ip, bits))
           /\ DOMAIN Grow(tree, ip, bits) = DOMAIN tree \cup {Cover[bits][ip]}
           /\ Cover[bits][ip] \notin DOMAIN tree
           /\ \A n \in DOMAIN tree : Grow(tree, ip, bits)[n] = tree[n]
           /\ Grow(tree, ip, bits)[Cover[bits][ip]] = 1
  <1> DEFINE x == Cover[bits][ip]
             t == [n \in DOMAIN tree \cup {x} |-> IF n \in DOMAIN tree THEN tree[n] ELSE 1]
  <1>1. x \in Nodes BY DEF Nodes
  <1>2. x \notin DOMAIN tree BY BlocksNest DEF Covering
  <1>3. Grow(tree, ip, bits) = t BY DEF Grow
  <1> HIDE DEF x
  <1>4. /\ DOMAIN t = DOMAIN tree \cup {x} /\ t[x] = 1
        /\ \A n \in DOMAIN tree : t[n] = tree[n]
    BY <1>2
  <1>5. IsFiniteSet(DOMAIN tree \cup {x}) BY FS_AddElement DEF Trie
  <1>6. Trie(t) BY <1>1, <1>5 DEF Trie
  <1> HIDE DEF t
  <1> QED BY <1>2, <1>3, <1>4, <1>6 DEF x

LEMMA GrowTrie ==
    ASSUME NEW tree \in Tries, NEW ip \in Ips, NEW bits \in DOMAIN Cover
    PROVE  Grow(tree, ip, bits) \in Tries
  BY GrowCovered, GrowNew, TriesAre

\* What Shrink returns: the node that covers the address counts one less, or goes.
LEMMA ShrinkIs ==
    ASSUME NEW tree, NEW ip, Trie(tree), Covering(tree, ip) # {}
    PROVE  LET r == rb_match_ip(tree, ip)
               t == Shrink(tree, ip)
           IN  /\ Trie(t)
               /\ r \in DOMAIN tree
               /\ DOMAIN t = IF tree[r] = 1 THEN DOMAIN tree \ {r} ELSE DOMAIN tree
               /\ \A n \in DOMAIN t : t[n] = IF n = r THEN tree[n] - 1 ELSE tree[n]
  <1> DEFINE r == rb_match_ip(tree, ip)
             t == Shrink(tree, ip)
             E == DOMAIN tree \ {r}
  <1>1. r \in DOMAIN tree BY MatchIs DEF Covering
  <1>2. t = IF tree[r] = 1 THEN [n \in E |-> tree[n]] ELSE [tree EXCEPT ![r] = @ - 1]
    BY DEF Shrink, Restrict
  <1> HIDE DEF r, t
  <1>3. CASE tree[r] = 1
    <2>1. t = [n \in E |-> tree[n]] BY <1>2, <1>3
    <2>2. DOMAIN t = E /\ \A n \in E : t[n] = tree[n] BY <2>1
    <2>3. IsFiniteSet(E) BY FS_Subset DEF Trie
    <2>4. Trie(t) BY <2>1, <2>2, <2>3 DEF Trie
    <2> QED BY <1>1, <1>3, <2>2, <2>4 DEF r, t
  <1>4. CASE tree[r] # 1
    <2>1. t = [tree EXCEPT ![r] = @ - 1] BY <1>2, <1>4
    <2>2. DOMAIN t = DOMAIN tree /\ \A n \in DOMAIN tree : t[n] = IF n = r THEN tree[n] - 1 ELSE tree[n]
      BY <2>1
    <2>3. tree[r] - 1 \in Nat \ {0} BY <1>1, <1>4 DEF Trie
    <2>4. Trie(t) BY <2>1, <2>2, <2>3 DEF Trie
    <2> QED BY <1>1, <1>4, <2>2, <2>4 DEF r, t
  <1> QED BY <1>3, <1>4

LEMMA ShrinkTrie ==
    ASSUME NEW tree \in Tries, NEW ip
    PROVE  Shrink(tree, ip) \in Tries
  <1>1. CASE Covering(tree, ip) = {} BY <1>1 DEF Shrink
  <1>2. CASE Covering(tree, ip) # {} BY <1>2, ShrinkIs, TriesAre
  <1> QED BY <1>1, <1>2

-----------------------------------------------------------------------------
(* Records.                                                                 *)

\* The operators on a class change one thing each.
LEMMA CountedIs ==
    ASSUME NEW class \in ClassRec, NEW n \in Nat
    PROVE  /\ Counted(class, n) \in ClassRec
           /\ Counted(class, n).total = n
           /\ Counted(class, n).st = class.st /\ Counted(class, n).max = class.max
           /\ Counted(class, n).limits = class.limits
           /\ Counted(class, n).amount = class.amount /\ Counted(class, n).bits = class.bits
  BY DEF Counted, ClassRec

LEMMA ClassNumbers ==
    ASSUME NEW class \in ClassRec
    PROVE  class.total \in Nat /\ class.max \in Int
  BY DEF ClassRec

LEMMA TreeIs ==
    ASSUME NEW class \in ClassRec, NEW t \in Tries
    PROVE  LET new == [class EXCEPT !.limits = t]
           IN  /\ new \in ClassRec
               /\ new.total = class.total
               /\ new.st = class.st /\ new.max = class.max
               /\ new.limits = t
               /\ new.amount = class.amount /\ new.bits = class.bits
  BY DEF ClassRec

LEMMA AddIs ==
    ASSUME NEW class \in ClassRec, NEW ip \in Ips
    PROVE  LET new == add_ip_limit(class, ip)
           IN  /\ new \in ClassRec
               /\ new.total = class.total
               /\ new.st = class.st /\ new.max = class.max
               /\ new.limits = IF Limited(class) THEN Grow(class.limits, ip, class.bits)
                               ELSE class.limits
               /\ new.amount = class.amount /\ new.bits = class.bits
  <1> DEFINE t == Grow(class.limits, ip, class.bits)
  <1>1. CASE Limited(class)
    <2>1. class.limits \in Tries /\ class.bits \in DOMAIN Cover BY <1>1 DEF Limited, ClassRec
    <2>2. t \in Tries BY <2>1, GrowTrie
    <2>3. add_ip_limit(class, ip) = [class EXCEPT !.limits = t] BY <1>1 DEF add_ip_limit
    <2> HIDE DEF t
    <2> QED BY <1>1, <2>2, <2>3, TreeIs DEF t
  <1>2. CASE ~Limited(class)
    BY <1>2 DEF add_ip_limit
  <1> QED BY <1>1, <1>2

LEMMA RemoveIs ==
    ASSUME NEW class \in ClassRec, NEW ip
    PROVE  LET new == remove_ip_limit(class, ip)
           IN  /\ new \in ClassRec
               /\ new.total = class.total
               /\ new.st = class.st /\ new.max = class.max
               /\ new.limits = IF Limited(class) THEN Shrink(class.limits, ip)
                               ELSE class.limits
               /\ new.amount = class.amount /\ new.bits = class.bits
  <1> DEFINE t == Shrink(class.limits, ip)
  <1>1. CASE Limited(class)
    <2>1. class.limits \in Tries BY DEF ClassRec
    <2>2. t \in Tries BY <2>1, ShrinkTrie
    <2>3. remove_ip_limit(class, ip) = [class EXCEPT !.limits = t] BY <1>1 DEF remove_ip_limit
    <2> HIDE DEF t
    <2> QED BY <1>1, <2>2, <2>3, TreeIs DEF t
  <1>2. CASE ~Limited(class)
    BY <1>2 DEF remove_ip_limit
  <1> QED BY <1>1, <1>2

LEMMA FreedIs ==
    ASSUME NEW class \in ClassRec
    PROVE  LET new == FreedIfUnused(class)
           IN  /\ new \in ClassRec
               /\ new.total = class.total /\ new.max = class.max
               /\ new.st = IF class.max < 0 /\ class.total = 0 THEN "freed" ELSE class.st
               /\ new.limits = class.limits
               /\ new.amount = class.amount /\ new.bits = class.bits
  BY DEF FreedIfUnused, ClassRec

LEMMA ClassLeftIs ==
    ASSUME NEW class \in ClassRec, NEW ip
    PROVE  LET new == ClassLeft(class, ip)
               n == IF class.total > 0 THEN class.total - 1 ELSE 0
           IN  /\ new \in ClassRec
               /\ new.total = n /\ new.max = class.max
               /\ new.st = IF class.max < 0 /\ n = 0 THEN "freed" ELSE class.st
               /\ new.limits = IF Limited(class) THEN Shrink(class.limits, ip)
                               ELSE class.limits
               /\ new.amount = class.amount /\ new.bits = class.bits
  <1> DEFINE n == IF class.total > 0 THEN class.total - 1 ELSE 0
             r == remove_ip_limit(class, ip)
             s == Counted(r, n)
  <1>1. n \in Nat BY DEF ClassRec
  <1>2. /\ r \in ClassRec /\ r.st = class.st /\ r.max = class.max
        /\ r.limits = IF Limited(class) THEN Shrink(class.limits, ip) ELSE class.limits
        /\ r.amount = class.amount /\ r.bits = class.bits
    BY RemoveIs
  <1>3. ClassLeft(class, ip) = FreedIfUnused(s) BY DEF ClassLeft
  <1> HIDE DEF n, r
  <1>4. /\ s \in ClassRec /\ s.st = r.st /\ s.max = r.max /\ s.total = n
        /\ s.limits = r.limits /\ s.amount = r.amount /\ s.bits = r.bits
    BY <1>1, <1>2, CountedIs
  <1> HIDE DEF s
  <1>5. LET new == FreedIfUnused(s)
        IN  /\ new \in ClassRec
            /\ new.total = s.total /\ new.max = s.max
            /\ new.st = IF s.max < 0 /\ s.total = 0 THEN "freed" ELSE s.st
            /\ new.limits = s.limits
            /\ new.amount = s.amount /\ new.bits = s.bits
    BY <1>4, FreedIs
  <1> QED BY <1>2, <1>3, <1>4, <1>5 DEF n

LEMMA LeftIs ==
    ASSUME NEW block \in BlockRec, block.users > 0
    PROVE  /\ Left(block) \in BlockRec
           /\ Left(block).class = block.class /\ Left(block).users = block.users - 1
           /\ Left(block).st = IF block.users = 1 /\ block.st = "illegal" THEN "freed" ELSE block.st
  BY DEF Left, BlockRec

LEMMA JoinedIs ==
    ASSUME NEW block \in BlockRec
    PROVE  /\ Joined(block) \in BlockRec
           /\ Joined(block).class = block.class /\ Joined(block).users = block.users + 1
           /\ Joined(block).st = block.st
  BY DEF Joined, BlockRec

-----------------------------------------------------------------------------
(* Who is attached to what, when one connection changes.                    *)

\* Apart from connection c, t has the attachments of s.
SameBut(s, t, c) ==
  /\ \A d \in Clients \ {c} : t.conns[d] = s.conns[d]
  /\ \A b \in BlockIds : t.auths[b].class = s.auths[b].class
  /\ \A h \in Generations : t.connects[h].class = s.connects[h].class

LEMMA NobodyIsNoBlock == Nobody \notin BlockIds /\ -1 \notin Generations
  <1>1. Nobody \notin BlockIds BY NamesFree DEF Nobody, BlockIds
  <1>2. -1 \notin Generations BY DEF Generations
  <1> QED BY <1>1, <1>2

LEMMA ConnTypes ==
    ASSUME NEW s, TypesOK(s), NEW c \in Clients
    PROVE  /\ s.conns[c] \in ConnRec
           /\ s.conns[c].conf # Nobody => s.conns[c].conf \in BlockIds
           /\ s.conns[c].sconf # -1 => s.conns[c].sconf \in Generations
  BY DEF TypesOK, ConnRec

\* The sets are finite, and losing or gaining a member shows in the counts.
LEMMA SetsFinite ==
    ASSUME NEW s
    PROVE  /\ \A b : IsFiniteSet(HoldersOf(s, b)) /\ Cardinality(HoldersOf(s, b)) \in Nat
           /\ \A h : IsFiniteSet(LinksOf(s, h)) /\ Cardinality(LinksOf(s, h)) \in Nat
           /\ \A k : IsFiniteSet(AttachedIn(s, k)) /\ Cardinality(AttachedIn(s, k)) \in Nat
           /\ \A k : IsFiniteSet(LinkedIn(s, k)) /\ Cardinality(LinkedIn(s, k)) \in Nat
  <1>1. \A S : S \subseteq Clients => IsFiniteSet(S) /\ Cardinality(S) \in Nat
    BY ClientsHaveAddresses, FS_Subset, FS_CardinalityType
  <1>2. \A b : HoldersOf(s, b) \subseteq Clients /\ LinksOf(s, b) \subseteq Clients
    BY DEF HoldersOf, LinksOf
  <1>3. \A k : AttachedIn(s, k) \subseteq Clients /\ LinkedIn(s, k) \subseteq Clients
    BY DEF AttachedIn, LinkedIn
  <1> QED BY <1>1, <1>2, <1>3

\* c keeps its blocks.
LEMMA SetsStay ==
    ASSUME NEW s, NEW t, NEW c \in Clients, TypesOK(s), TypesOK(t), SameBut(s, t, c),
           t.conns[c].conf = s.conns[c].conf, t.conns[c].sconf = s.conns[c].sconf
    PROVE  /\ \A b : HoldersOf(t, b) = HoldersOf(s, b)
           /\ \A h : LinksOf(t, h) = LinksOf(s, h)
           /\ \A k : AttachedIn(t, k) = AttachedIn(s, k)
           /\ \A k : LinkedIn(t, k) = LinkedIn(s, k)
  <1>1. \A d \in Clients : t.conns[d].conf = s.conns[d].conf /\ t.conns[d].sconf = s.conns[d].sconf
    BY DEF SameBut
  <1>2. \A d \in Clients : s.conns[d].conf # Nobody => s.conns[d].conf \in BlockIds BY ConnTypes
  <1>3. \A d \in Clients : s.conns[d].sconf # -1 => s.conns[d].sconf \in Generations BY ConnTypes
  <1>4. \A b : HoldersOf(t, b) = HoldersOf(s, b) BY <1>1 DEF HoldersOf
  <1>5. \A h : LinksOf(t, h) = LinksOf(s, h) BY <1>1 DEF LinksOf
  <1>6. \A k : AttachedIn(t, k) = AttachedIn(s, k) BY SMTT(20), <1>1, <1>2 DEF AttachedIn, SameBut
  <1>7. \A k : LinkedIn(t, k) = LinkedIn(s, k) BY <1>1, <1>3 DEF LinkedIn, SameBut
  <1> QED BY <1>4, <1>5, <1>6, <1>7

\* c leaves its auth{} block.
LEMMA SetsLeave ==
    ASSUME NEW s, NEW t, NEW c \in Clients, TypesOK(s), TypesOK(t), SameBut(s, t, c),
           t.conns[c].conf = Nobody, t.conns[c].sconf = s.conns[c].sconf
    PROVE  /\ \A b \in BlockIds : HoldersOf(t, b) = HoldersOf(s, b) \ {c}
           /\ \A h : LinksOf(t, h) = LinksOf(s, h)
           /\ \A k : AttachedIn(t, k) = AttachedIn(s, k) \ {c}
           /\ \A k : LinkedIn(t, k) = LinkedIn(s, k)
  <1>1. \A d \in Clients : /\ t.conns[d].sconf = s.conns[d].sconf
                           /\ d # c => t.conns[d].conf = s.conns[d].conf
    BY DEF SameBut
  <1>2. \A d \in Clients : s.conns[d].conf # Nobody => s.conns[d].conf \in BlockIds BY ConnTypes
  <1>3. \A d \in Clients : s.conns[d].sconf # -1 => s.conns[d].sconf \in Generations BY ConnTypes
  <1>4. \A b \in BlockIds : HoldersOf(t, b) = HoldersOf(s, b) \ {c}
    BY <1>1, NobodyIsNoBlock DEF HoldersOf
  <1>5. \A h : LinksOf(t, h) = LinksOf(s, h) BY <1>1 DEF LinksOf
  <1>6. \A k : AttachedIn(t, k) = AttachedIn(s, k) \ {c} BY <1>1, <1>2 DEF AttachedIn, SameBut
  <1>7. \A k : LinkedIn(t, k) = LinkedIn(s, k) BY <1>1, <1>3 DEF LinkedIn, SameBut
  <1> QED BY <1>4, <1>5, <1>6, <1>7

\* c, in no auth{} block, joins b.
LEMMA SetsJoin ==
    ASSUME NEW s, NEW t, NEW c \in Clients, NEW b \in BlockIds,
           TypesOK(s), TypesOK(t), SameBut(s, t, c), s.conns[c].conf = Nobody,
           t.conns[c].conf = b, t.conns[c].sconf = s.conns[c].sconf
    PROVE  /\ c \notin HoldersOf(s, b) /\ c \notin AttachedIn(s, s.auths[b].class)
           /\ \A x \in BlockIds :
                HoldersOf(t, x) = IF x = b THEN HoldersOf(s, x) \cup {c} ELSE HoldersOf(s, x)
           /\ \A h : LinksOf(t, h) = LinksOf(s, h)
           /\ \A k : AttachedIn(t, k) = IF k = s.auths[b].class THEN AttachedIn(s, k) \cup {c}
                                        ELSE AttachedIn(s, k)
           /\ \A k : LinkedIn(t, k) = LinkedIn(s, k)
  <1>1. \A d \in Clients : /\ t.conns[d].sconf = s.conns[d].sconf
                           /\ d # c => t.conns[d].conf = s.conns[d].conf
    BY DEF SameBut
  <1>2. \A d \in Clients : s.conns[d].conf # Nobody => s.conns[d].conf \in BlockIds BY ConnTypes
  <1>3. \A d \in Clients : s.conns[d].sconf # -1 => s.conns[d].sconf \in Generations BY ConnTypes
  <1>4. \A x \in BlockIds :
          HoldersOf(t, x) = IF x = b THEN HoldersOf(s, x) \cup {c} ELSE HoldersOf(s, x)
    BY <1>1, NobodyIsNoBlock DEF HoldersOf
  <1>5. \A h : LinksOf(t, h) = LinksOf(s, h) BY <1>1 DEF LinksOf
  <1>6. t.auths[b].class = s.auths[b].class BY DEF SameBut
  <1>7. \A k : AttachedIn(t, k) = IF k = s.auths[b].class THEN AttachedIn(s, k) \cup {c}
                                  ELSE AttachedIn(s, k)
    BY SMTT(20), <1>1, <1>2, <1>6, NobodyIsNoBlock DEF AttachedIn, SameBut
  <1>8. \A k : LinkedIn(t, k) = LinkedIn(s, k) BY <1>1, <1>3 DEF LinkedIn, SameBut
  <1>9. c \notin HoldersOf(s, b) /\ c \notin AttachedIn(s, s.auths[b].class)
    BY NobodyIsNoBlock DEF HoldersOf, AttachedIn
  <1> QED BY <1>4, <1>5, <1>7, <1>8, <1>9

\* The same of connect{} blocks.
LEMMA LinksLeave ==
    ASSUME NEW s, NEW t, NEW c \in Clients, TypesOK(s), TypesOK(t), SameBut(s, t, c),
           t.conns[c].sconf = -1, t.conns[c].conf = s.conns[c].conf
    PROVE  /\ \A b \in BlockIds : HoldersOf(t, b) = HoldersOf(s, b)
           /\ \A h \in Generations : LinksOf(t, h) = LinksOf(s, h) \ {c}
           /\ \A k : AttachedIn(t, k) = AttachedIn(s, k)
           /\ \A k : LinkedIn(t, k) = LinkedIn(s, k) \ {c}
  <1>1. \A d \in Clients : /\ t.conns[d].conf = s.conns[d].conf
                           /\ d # c => t.conns[d].sconf = s.conns[d].sconf
    BY DEF SameBut
  <1>2. \A d \in Clients : s.conns[d].conf # Nobody => s.conns[d].conf \in BlockIds BY ConnTypes
  <1>3. \A d \in Clients : s.conns[d].sconf # -1 => s.conns[d].sconf \in Generations BY ConnTypes
  <1>4. \A b \in BlockIds : HoldersOf(t, b) = HoldersOf(s, b) BY <1>1 DEF HoldersOf
  <1>5. \A h \in Generations : LinksOf(t, h) = LinksOf(s, h) \ {c}
    BY <1>1, NobodyIsNoBlock DEF LinksOf
  <1>6. \A k : AttachedIn(t, k) = AttachedIn(s, k) BY <1>1, <1>2 DEF AttachedIn, SameBut
  <1>7. \A k : LinkedIn(t, k) = LinkedIn(s, k) \ {c} BY <1>1, <1>3 DEF LinkedIn, SameBut
  <1> QED BY <1>4, <1>5, <1>6, <1>7

LEMMA LinksJoin ==
    ASSUME NEW s, NEW t, NEW c \in Clients, NEW g \in Generations,
           TypesOK(s), TypesOK(t), SameBut(s, t, c), s.conns[c].sconf = -1,
           t.conns[c].sconf = g, t.conns[c].conf = s.conns[c].conf
    PROVE  /\ c \notin LinksOf(s, g) /\ c \notin LinkedIn(s, s.connects[g].class)
           /\ \A b \in BlockIds : HoldersOf(t, b) = HoldersOf(s, b)
           /\ \A h \in Generations :
                LinksOf(t, h) = IF h = g THEN LinksOf(s, h) \cup {c} ELSE LinksOf(s, h)
           /\ \A k : AttachedIn(t, k) = AttachedIn(s, k)
           /\ \A k : LinkedIn(t, k) = IF k = s.connects[g].class THEN LinkedIn(s, k) \cup {c}
                                      ELSE LinkedIn(s, k)
  <1>1. \A d \in Clients : /\ t.conns[d].conf = s.conns[d].conf
                           /\ d # c => t.conns[d].sconf = s.conns[d].sconf
    BY DEF SameBut
  <1>2. \A d \in Clients : s.conns[d].conf # Nobody => s.conns[d].conf \in BlockIds BY ConnTypes
  <1>3. \A d \in Clients : s.conns[d].sconf # -1 => s.conns[d].sconf \in Generations BY ConnTypes
  <1>4. \A b \in BlockIds : HoldersOf(t, b) = HoldersOf(s, b) BY <1>1 DEF HoldersOf
  <1>5. \A h \in Generations :
          LinksOf(t, h) = IF h = g THEN LinksOf(s, h) \cup {c} ELSE LinksOf(s, h)
    BY <1>1, NobodyIsNoBlock DEF LinksOf
  <1>6. t.connects[g].class = s.connects[g].class BY DEF SameBut
  <1>7. \A k : AttachedIn(t, k) = AttachedIn(s, k) BY SMTT(20), <1>1, <1>2 DEF AttachedIn, SameBut
  <1>8. \A k : LinkedIn(t, k) = IF k = s.connects[g].class THEN LinkedIn(s, k) \cup {c}
                                ELSE LinkedIn(s, k)
    BY <1>1, <1>3, <1>6, NobodyIsNoBlock DEF LinkedIn, SameBut
  <1>9. c \notin LinksOf(s, g) /\ c \notin LinkedIn(s, s.connects[g].class)
    BY NobodyIsNoBlock DEF LinksOf, LinkedIn
  <1> QED BY <1>4, <1>5, <1>7, <1>8, <1>9

-----------------------------------------------------------------------------
(* Each operation on the shared state keeps the invariant.                  *)

\* A connection record with one field changed.
LEMMA HoldingIs ==
    ASSUME NEW r \in ConnRec, NEW b \in BlockIds \cup {Nobody}
    PROVE  /\ Holding(r, b) \in ConnRec /\ Holding(r, b).conf = b
           /\ Holding(r, b).sconf = r.sconf /\ Holding(r, b).st = r.st
  BY DEF ConnRec, Holding

LEMMA UsingIs ==
    ASSUME NEW r \in ConnRec, NEW h \in Generations \cup {-1}
    PROVE  /\ Using(r, h) \in ConnRec /\ Using(r, h).sconf = h
           /\ Using(r, h).conf = r.conf /\ Using(r, h).st = r.st
  BY DEF ConnRec, Using

LEMMA BeingIs ==
    ASSUME NEW r \in ConnRec, NEW st \in {"gone", "unknown", "user", "remote", "server"}
    PROVE  /\ Being(r, st) \in ConnRec /\ Being(r, st).st = st
           /\ Being(r, st).conf = r.conf /\ Being(r, st).sconf = r.sconf
  BY DEF ConnRec, Being

LEMMA StateIs ==
    ASSUME NEW a, NEW b, NEW c, NEW d
    PROVE  /\ State(a, b, c, d).classes = a /\ State(a, b, c, d).auths = b
           /\ State(a, b, c, d).connects = c /\ State(a, b, c, d).conns = d
  BY DEF State

\* detach_conf(), of a connection that is attached: the fields of the result.
LEMMA DetachIs ==
    ASSUME NEW s, NEW c \in Clients, TypesOK(s), s.conns[c].conf # Nobody,
           s.auths[s.conns[c].conf].users > 0
    PROVE  LET b == s.conns[c].conf
               k == s.auths[b].class
               t == detach_conf(s, c)
           IN  /\ TypesOK(t) /\ SameBut(s, t, c)
               /\ t.conns[c].conf = Nobody /\ t.conns[c].sconf = s.conns[c].sconf
               /\ t.conns[c].st = s.conns[c].st
               /\ t.classes[k] = ClassLeft(s.classes[k], Ip[c])
               /\ \A x \in ClassIds \ {k} : t.classes[x] = s.classes[x]
               /\ t.auths[b] = Left(s.auths[b])
               /\ \A x \in BlockIds \ {b} : t.auths[x] = s.auths[x]
               /\ t.connects = s.connects
  <1> DEFINE b == s.conns[c].conf
             k == s.auths[b].class
             t == detach_conf(s, c)
             r == Holding(s.conns[c], Nobody)
             class == ClassLeft(s.classes[k], Ip[c])
             block == Left(s.auths[b])
  <1>1. b \in BlockIds /\ s.conns[c] \in ConnRec BY ConnTypes
  <1>2. s.auths[b] \in BlockRec /\ k \in ClassIds BY <1>1 DEF TypesOK, BlockRec
  <1>3. s.classes[k] \in ClassRec BY <1>2 DEF TypesOK
  <1>4. class \in ClassRec BY <1>3, ClassLeftIs
  <1>5. block \in BlockRec /\ block.class = k BY <1>2, LeftIs
  <1>6. r \in ConnRec /\ r.conf = Nobody /\ r.sconf = s.conns[c].sconf /\ r.st = s.conns[c].st
    BY <1>1, HoldingIs
  <1>7. /\ t.classes = [s.classes EXCEPT ![k] = class]
        /\ t.auths = [s.auths EXCEPT ![b] = block]
        /\ t.connects = s.connects
        /\ t.conns = [s.conns EXCEPT ![c] = r]
    <2>1. t = State([s.classes EXCEPT ![k] = class], [s.auths EXCEPT ![b] = block],
                    s.connects, [s.conns EXCEPT ![c] = r])
      BY Zenon DEF detach_conf
    <2> HIDE DEF t, class, block, r, k, b
    <2> QED BY <2>1, StateIs
  <1> HIDE DEF class, block, r, t
  <1>8. k \in ClassIds /\ b \in BlockIds \cup {Nobody} BY <1>1, <1>2
  <1> HIDE DEF k, b
  <1>9. TypesOK(t)
    <2>1. t.classes \in [ClassIds -> ClassRec] BY <1>4, <1>7 DEF TypesOK
    <2>2. t.auths \in [BlockIds \cup {Nobody} -> BlockRec] BY <1>5, <1>7 DEF TypesOK
    <2>3. t.connects \in [Generations \cup {-1} -> BlockRec] BY <1>7 DEF TypesOK
    <2>4. t.conns \in [Clients -> ConnRec] BY <1>6, <1>7 DEF TypesOK
    <2> QED BY <2>1, <2>2, <2>3, <2>4 DEF TypesOK
  <1>10. /\ t.classes[k] = class /\ \A x \in ClassIds \ {k} : t.classes[x] = s.classes[x]
         /\ t.auths[b] = block /\ \A x \in BlockIds \ {b} : t.auths[x] = s.auths[x]
         /\ t.conns[c] = r /\ \A d \in Clients \ {c} : t.conns[d] = s.conns[d]
    BY <1>7, <1>8 DEF TypesOK
  <1>11. k = s.auths[b].class BY DEF k
  <1>12. SameBut(s, t, c) BY <1>5, <1>7, <1>10, <1>11 DEF SameBut
  <1> QED BY <1>6, <1>7, <1>9, <1>10, <1>12 DEF class, block, t, k, b

\* A connection that holds a block is counted there and at its class.
LEMMA HolderCounted ==
    ASSUME NEW s, NEW g \in Int, Kept(s, g), NEW c \in Clients, s.conns[c].conf # Nobody
    PROVE  LET b == s.conns[c].conf
               k == s.auths[b].class
           IN  /\ b \in BlockIds /\ s.auths[b] \in BlockRec
               /\ k \in ClassIds /\ s.classes[k] \in ClassRec
               /\ c \in HoldersOf(s, b) /\ c \in AttachedIn(s, k)
               /\ s.auths[b].users > 0 /\ s.classes[k].total > 0
               /\ s.auths[b].st = IF b[2] = g THEN "legal" ELSE "illegal"
  <1> DEFINE b == s.conns[c].conf
             k == s.auths[b].class
  <1>1. TypesOK(s) BY DEF Kept
  <1>2. b \in BlockIds BY <1>1, ConnTypes
  <1>3. s.auths[b] \in BlockRec BY <1>1, <1>2 DEF TypesOK
  <1>4. k \in ClassIds BY <1>3 DEF BlockRec
  <1>5. s.classes[k] \in ClassRec BY <1>1, <1>4 DEF TypesOK
  <1>6. c \in HoldersOf(s, b) /\ c \in AttachedIn(s, k) BY DEF HoldersOf, AttachedIn
  <1> HIDE DEF b, k
  <1>7. Cardinality(HoldersOf(s, b)) # 0 /\ Cardinality(AttachedIn(s, k)) # 0
    BY <1>6, SetsFinite, FS_EmptySet
  <1>8. s.auths[b].users > 0 BY <1>2, <1>7, SetsFinite DEF Kept, BlocksCounted
  <1>9. s.classes[k].total > 0 BY <1>4, <1>7, SetsFinite DEF Kept, ClassesCounted
  <1>10. Follows(s.auths[b], b[2], g) BY <1>2 DEF Kept, BlocksFollow
  <1>11. b[2] \in Generations BY <1>2 DEF BlockIds
  <1>12. s.auths[b].st = IF b[2] = g THEN "legal" ELSE "illegal"
    BY <1>8, <1>10, <1>11 DEF Follows, Generations
  <1> QED BY <1>2, <1>3, <1>4, <1>5, <1>6, <1>8, <1>9, <1>12 DEF b, k

LEMMA DetachSound ==
    ASSUME NEW s, NEW g \in Generations, Sound(s, g), NEW c \in Clients
    PROVE  LET t == detach_conf(s, c)
           IN  /\ Sound(t, g) /\ SameBut(s, t, c) /\ t.conns[c].conf = Nobody
               /\ t.conns[c].sconf = s.conns[c].sconf /\ t.conns[c].st = s.conns[c].st
  <1> DEFINE b == s.conns[c].conf
             k == s.auths[b].class
             t == detach_conf(s, c)
  <1>1. Kept(s, g) /\ TypesOK(s) /\ g \in Int BY DEF Sound, Kept, Generations
  <1>2. CASE b = Nobody
    <2>1. t = s BY <1>2 DEF detach_conf
    <2> HIDE DEF t
    <2>2. SameBut(s, t, c) BY <2>1 DEF SameBut
    <2> QED BY <1>2, <2>1, <2>2 DEF t
  <1>3. CASE b # Nobody
    <2>1. /\ b \in BlockIds /\ s.auths[b] \in BlockRec
          /\ k \in ClassIds /\ s.classes[k] \in ClassRec
          /\ c \in HoldersOf(s, b) /\ c \in AttachedIn(s, k)
          /\ s.auths[b].users > 0 /\ s.classes[k].total > 0
          /\ s.auths[b].st = IF b[2] = g THEN "legal" ELSE "illegal"
      BY <1>1, <1>3, HolderCounted
    <2>2. /\ TypesOK(t) /\ SameBut(s, t, c)
          /\ t.conns[c].conf = Nobody /\ t.conns[c].sconf = s.conns[c].sconf
          /\ t.conns[c].st = s.conns[c].st
          /\ t.classes[k] = ClassLeft(s.classes[k], Ip[c])
          /\ \A x \in ClassIds \ {k} : t.classes[x] = s.classes[x]
          /\ t.auths[b] = Left(s.auths[b])
          /\ \A x \in BlockIds \ {b} : t.auths[x] = s.auths[x]
          /\ t.connects = s.connects
      BY <1>1, <1>3, <2>1, DetachIs
    <2> HIDE DEF t
    <2>3. /\ \A x \in BlockIds : HoldersOf(t, x) = HoldersOf(s, x) \ {c}
          /\ \A h : LinksOf(t, h) = LinksOf(s, h)
          /\ \A x : AttachedIn(t, x) = AttachedIn(s, x) \ {c}
          /\ \A x : LinkedIn(t, x) = LinkedIn(s, x)
      BY <1>1, <2>2, SetsLeave
    <2>4. \A x \in BlockIds \ {b} : c \notin HoldersOf(s, x) BY DEF HoldersOf
    <2>5. \A x \in ClassIds \ {k} : c \notin AttachedIn(s, x) BY DEF AttachedIn
    <2>6. k = s.auths[b].class OBVIOUS
    <2> HIDE DEF b, k
    <2>7. /\ t.classes[k].total = s.classes[k].total - 1
          /\ t.classes[k].max = s.classes[k].max
          /\ t.classes[k].st = IF s.classes[k].max < 0 /\ s.classes[k].total - 1 = 0 THEN "freed"
                               ELSE s.classes[k].st
      BY <2>1, <2>2, ClassLeftIs
    <2>8. /\ t.auths[b].class = s.auths[b].class /\ t.auths[b].users = s.auths[b].users - 1
          /\ t.auths[b].st = IF s.auths[b].users = 1 /\ s.auths[b].st = "illegal" THEN "freed"
                             ELSE s.auths[b].st
      BY <2>1, <2>2, LeftIs
    <2>9. BlocksCounted(t)
      <3>1. Cardinality(HoldersOf(t, b)) = Cardinality(HoldersOf(s, b)) - 1
        BY <2>1, <2>3, SetsFinite, FS_RemoveElement
      <3>2. \A x \in BlockIds \ {b} : HoldersOf(t, x) = HoldersOf(s, x) BY <2>3, <2>4
      <3> QED BY <1>1, <2>1, <2>2, <2>3, <2>8, <3>1, <3>2 DEF Kept, BlocksCounted
    <2>10. ClassesCounted(t)
      <3>1. Cardinality(AttachedIn(t, k)) = Cardinality(AttachedIn(s, k)) - 1
        BY <2>1, <2>3, SetsFinite, FS_RemoveElement
      <3>2. \A x \in ClassIds \ {k} : AttachedIn(t, x) = AttachedIn(s, x) BY <2>3, <2>5
      <3>3. t.classes[k].total = Cardinality(AttachedIn(t, k)) + Cardinality(LinkedIn(t, k))
        BY <1>1, <2>1, <2>3, <2>7, <3>1, SetsFinite DEF Kept, ClassesCounted
      <3>4. ASSUME NEW x \in ClassIds \ {k}
            PROVE  t.classes[x].total = Cardinality(AttachedIn(t, x)) + Cardinality(LinkedIn(t, x))
        BY <1>1, <2>2, <2>3, <3>2 DEF Kept, ClassesCounted
      <3> QED BY <3>3, <3>4 DEF ClassesCounted
    <2>11. BlocksFollow(t, g)
      <3>1. b[2] \in Int BY <2>1 DEF BlockIds, Generations
      <3>2. Follows(s.auths[b], b[2], g) BY <1>1, <2>1 DEF Kept, BlocksFollow
      <3>3. Follows(t.auths[b], b[2], g) BY <1>1, <2>1, <2>8, <3>1, <3>2 DEF Follows, BlockRec
      <3> QED BY <1>1, <2>2, <3>3 DEF Kept, BlocksFollow
    <2>12. s.classes[k].max \in Int /\ s.classes[k].total \in Nat BY <2>1 DEF ClassRec
    <2>13. \A x \in ClassIds : s.classes[x].st = "linked" => t.classes[x].st = "linked"
      <3>1. ClassFollows(s.classes[k]) BY <1>1, <2>1 DEF Kept, ClassesFollow
      <3>2. s.classes[k].st = "linked" => t.classes[k].st = "linked"
        BY <2>7, <2>12, <3>1 DEF ClassFollows
      <3> QED BY <2>2, <3>2
    <2>14. ClassesFollow(t, g)
      <3>1. ClassFollows(s.classes[k]) BY <1>1, <2>1 DEF Kept, ClassesFollow
      <3>2. s.classes[k].st \in {"linked", "unlinked"}
        BY <2>1, <2>12, <3>1 DEF ClassFollows, ClassRec
      <3>3. ClassFollows(t.classes[k]) BY <2>1, <2>7, <2>12, <3>1, <3>2 DEF ClassFollows
      <3>4. default_class \in ClassIds BY DEF ClassIds, default_class
      <3>5. \A x \in ClassNames \X Generations : x[2] > g => x # k
        BY <1>1, <3>2 DEF Kept, ClassesFollow
      <3> QED BY <1>1, <2>2, <2>13, <3>3, <3>4, <3>5 DEF Kept, ClassesFollow, ClassIds
    <2>15. BlocksLinked(t, g)
      <3>1. \A a \in Auths : <<a, g>> \in BlockIds BY DEF BlockIds
      <3>2. \A x \in BlockIds : t.auths[x].class = s.auths[x].class /\ s.auths[x].class \in ClassIds
        BY <1>1, <2>2 DEF SameBut, TypesOK, BlockRec
      <3>3. s.connects[g].class \in ClassIds BY <1>1 DEF TypesOK, BlockRec
      <3> QED BY <2>2, <2>13, <3>1, <3>2, <3>3 DEF Sound, BlocksLinked
    <2> QED BY <2>2, <2>9, <2>10, <2>11, <2>14, <2>15 DEF Sound, Kept, t
  <1> QED BY <1>2, <1>3

\* The blocks in force keep their classes, and these stay on the list.
LEMMA LinkedStays ==
    ASSUME NEW s, NEW t, NEW g \in Generations, NEW c, TypesOK(s), SameBut(s, t, c),
           BlocksLinked(s, g),
           \A x \in ClassIds : s.classes[x].st = "linked" => t.classes[x].st = "linked"
    PROVE  BlocksLinked(t, g)
  <1>1. \A a \in Auths : <<a, g>> \in BlockIds BY DEF BlockIds
  <1>2. \A x \in BlockIds : t.auths[x].class = s.auths[x].class /\ s.auths[x].class \in ClassIds
    BY DEF SameBut, TypesOK, BlockRec
  <1>3. t.connects[g].class = s.connects[g].class /\ s.connects[g].class \in ClassIds
    BY DEF SameBut, TypesOK, BlockRec
  <1> QED BY <1>1, <1>2, <1>3 DEF BlocksLinked

\* A connection without a block takes one in force.
LEMMA JoinSound ==
    ASSUME NEW s, NEW g \in Generations, Sound(s, g), NEW c \in Clients, NEW a \in Auths,
           s.conns[c].conf = Nobody
    PROVE  LET b == <<a, g>>
               k == s.auths[b].class
               t == join_conf(s, c, b)
           IN  /\ Sound(t, g) /\ SameBut(s, t, c)
               /\ t.conns[c].conf = b /\ t.conns[c].sconf = s.conns[c].sconf
               /\ t.conns[c].st = s.conns[c].st
               /\ \A x \in ClassIds : t.classes[x].limits = s.classes[x].limits
               /\ \A x \in ClassIds : /\ t.classes[x].amount = s.classes[x].amount
                                      /\ t.classes[x].bits = s.classes[x].bits
                                      /\ t.classes[x].st = s.classes[x].st
  <1> DEFINE b == <<a, g>>
             k == s.auths[b].class
             t == join_conf(s, c, b)
             class == Counted(s.classes[k], s.classes[k].total + 1)
             block == Joined(s.auths[b])
             r == Holding(s.conns[c], b)
  <1>1. Kept(s, g) /\ TypesOK(s) /\ g \in Int BY DEF Sound, Kept, Generations
  <1>2. b \in BlockIds /\ s.conns[c] \in ConnRec BY <1>1, ConnTypes DEF BlockIds
  <1>3. s.auths[b] \in BlockRec /\ k \in ClassIds BY <1>1, <1>2 DEF TypesOK, BlockRec
  <1>4. s.classes[k] \in ClassRec BY <1>1, <1>3 DEF TypesOK
  <1>5. s.classes[k].total \in Nat /\ s.classes[k].total + 1 \in Nat BY <1>4 DEF ClassRec
  <1>6. s.classes[k].st = "linked" BY DEF Sound, BlocksLinked
  <1>7. /\ class \in ClassRec /\ class.total = s.classes[k].total + 1
        /\ class.st = s.classes[k].st /\ class.max = s.classes[k].max
        /\ class.limits = s.classes[k].limits
        /\ class.amount = s.classes[k].amount /\ class.bits = s.classes[k].bits
    BY <1>4, <1>5, CountedIs
  <1>8. /\ block \in BlockRec /\ block.class = k
        /\ block.users = s.auths[b].users + 1 /\ block.st = s.auths[b].st
    BY <1>3, JoinedIs
  <1>9. r \in ConnRec /\ r.conf = b /\ r.sconf = s.conns[c].sconf /\ r.st = s.conns[c].st
    BY <1>2, HoldingIs
  <1>10. /\ t.classes = [s.classes EXCEPT ![k] = class]
         /\ t.auths = [s.auths EXCEPT ![b] = block]
         /\ t.connects = s.connects
         /\ t.conns = [s.conns EXCEPT ![c] = r]
    <2>1. t = State([s.classes EXCEPT ![k] = class], [s.auths EXCEPT ![b] = block],
                    s.connects, [s.conns EXCEPT ![c] = r])
      BY Zenon DEF join_conf
    <2> HIDE DEF t, class, block, r, k, b
    <2> QED BY <2>1, StateIs
  <1>11. b = <<a, g>> /\ b[2] = g OBVIOUS
  <1>12. k = s.auths[b].class OBVIOUS
  <1> HIDE DEF class, block, r, t, k, b
  <1>13. TypesOK(t)
    <2>1. t.classes \in [ClassIds -> ClassRec] BY <1>1, <1>7, <1>10 DEF TypesOK
    <2>2. t.auths \in [BlockIds \cup {Nobody} -> BlockRec] BY <1>1, <1>8, <1>10 DEF TypesOK
    <2>3. t.connects \in [Generations \cup {-1} -> BlockRec] BY <1>1, <1>10 DEF TypesOK
    <2>4. t.conns \in [Clients -> ConnRec] BY <1>1, <1>9, <1>10 DEF TypesOK
    <2> QED BY <2>1, <2>2, <2>3, <2>4 DEF TypesOK
  <1>14. /\ t.classes[k] = class /\ \A x \in ClassIds \ {k} : t.classes[x] = s.classes[x]
         /\ t.auths[b] = block /\ \A x \in BlockIds \ {b} : t.auths[x] = s.auths[x]
         /\ t.conns[c] = r /\ \A d \in Clients \ {c} : t.conns[d] = s.conns[d]
    BY <1>1, <1>2, <1>3, <1>10 DEF TypesOK
  <1>15. SameBut(s, t, c) BY <1>8, <1>10, <1>12, <1>14 DEF SameBut
  <1>16. /\ c \notin HoldersOf(s, b) /\ c \notin AttachedIn(s, k)
         /\ \A x \in BlockIds :
              HoldersOf(t, x) = IF x = b THEN HoldersOf(s, x) \cup {c} ELSE HoldersOf(s, x)
         /\ \A h : LinksOf(t, h) = LinksOf(s, h)
         /\ \A x : AttachedIn(t, x) = IF x = k THEN AttachedIn(s, x) \cup {c} ELSE AttachedIn(s, x)
         /\ \A x : LinkedIn(t, x) = LinkedIn(s, x)
    BY <1>1, <1>2, <1>9, <1>12, <1>13, <1>14, <1>15, SetsJoin
  <1>17. BlocksCounted(t)
    <2>1. Cardinality(HoldersOf(t, b)) = Cardinality(HoldersOf(s, b)) + 1
      BY <1>2, <1>16, SetsFinite, FS_AddElement
    <2>2. \A x \in BlockIds \ {b} : HoldersOf(t, x) = HoldersOf(s, x) BY <1>16
    <2> QED BY <1>1, <1>2, <1>8, <1>10, <1>14, <1>16, <2>1, <2>2 DEF Kept, BlocksCounted
  <1>18. ClassesCounted(t)
    <2>1. Cardinality(AttachedIn(t, k)) = Cardinality(AttachedIn(s, k)) + 1
      BY ZenonT(40), <1>16, SetsFinite, FS_AddElement
    <2>2. \A x \in ClassIds \ {k} : AttachedIn(t, x) = AttachedIn(s, x) BY <1>16
    <2>3. t.classes[k].total = Cardinality(AttachedIn(t, k)) + Cardinality(LinkedIn(t, k))
      BY <1>1, <1>3, <1>7, <1>14, <1>16, <2>1, SetsFinite DEF Kept, ClassesCounted
    <2>4. ASSUME NEW x \in ClassIds \ {k}
          PROVE  t.classes[x].total = Cardinality(AttachedIn(t, x)) + Cardinality(LinkedIn(t, x))
      BY <1>1, <1>14, <1>16, <2>2 DEF Kept, ClassesCounted
    <2> QED BY <2>3, <2>4 DEF ClassesCounted
  <1>19. BlocksFollow(t, g)
    <2>1. Follows(s.auths[b], b[2], g) BY <1>1, <1>2 DEF Kept, BlocksFollow
    <2>2. Follows(t.auths[b], b[2], g) BY <1>1, <1>8, <1>11, <1>14, <2>1 DEF Follows
    <2> QED BY <1>1, <1>10, <1>14, <2>2 DEF Kept, BlocksFollow
  <1>20. \A x \in ClassIds : t.classes[x].st = s.classes[x].st BY <1>7, <1>14
  <1>21. ClassesFollow(t, g)
    <2>1. ClassFollows(s.classes[k]) BY <1>1, <1>3 DEF Kept, ClassesFollow
    <2>2. ClassFollows(t.classes[k]) BY <1>6, <1>7, <1>14, <2>1 DEF ClassFollows
    <2>3. default_class \in ClassIds BY DEF ClassIds, default_class
    <2> QED BY <1>1, <1>14, <1>20, <2>2, <2>3 DEF Kept, ClassesFollow, ClassIds
  <1>22. BlocksLinked(t, g) BY <1>1, <1>15, <1>20, LinkedStays DEF Sound
  <1>23. Sound(t, g) BY <1>13, <1>17, <1>18, <1>19, <1>21, <1>22 DEF Sound, Kept
  <1>24. \A x \in ClassIds : /\ t.classes[x].amount = s.classes[x].amount
                             /\ t.classes[x].bits = s.classes[x].bits
                             /\ t.classes[x].limits = s.classes[x].limits
    BY <1>7, <1>14
  <1> QED BY <1>9, <1>14, <1>15, <1>20, <1>23, <1>24 DEF t, b

\* A connection that uses a connect{} block is counted there and at its class.
LEMMA UserCounted ==
    ASSUME NEW s, NEW g \in Int, Kept(s, g), NEW c \in Clients, s.conns[c].sconf # -1
    PROVE  LET h == s.conns[c].sconf
               k == s.connects[h].class
           IN  /\ h \in Generations /\ s.connects[h] \in BlockRec
               /\ k \in ClassIds /\ s.classes[k] \in ClassRec
               /\ c \in LinksOf(s, h) /\ c \in LinkedIn(s, k)
               /\ s.connects[h].users > 0 /\ s.classes[k].total > 0
               /\ s.connects[h].st = IF h = g THEN "legal" ELSE "illegal"
  <1> DEFINE h == s.conns[c].sconf
             k == s.connects[h].class
  <1>1. TypesOK(s) BY DEF Kept
  <1>2. h \in Generations BY <1>1, ConnTypes
  <1>3. s.connects[h] \in BlockRec BY <1>1, <1>2 DEF TypesOK
  <1>4. k \in ClassIds BY <1>3 DEF BlockRec
  <1>5. s.classes[k] \in ClassRec BY <1>1, <1>4 DEF TypesOK
  <1>6. c \in LinksOf(s, h) /\ c \in LinkedIn(s, k) BY DEF LinksOf, LinkedIn
  <1> HIDE DEF h, k
  <1>7. Cardinality(LinksOf(s, h)) # 0 /\ Cardinality(LinkedIn(s, k)) # 0
    BY <1>6, SetsFinite, FS_EmptySet
  <1>8. s.connects[h].users > 0 BY <1>2, <1>7, SetsFinite DEF Kept, BlocksCounted
  <1>9. s.classes[k].total > 0 BY <1>4, <1>7, SetsFinite DEF Kept, ClassesCounted
  <1>10. Follows(s.connects[h], h, g) BY <1>2 DEF Kept, BlocksFollow
  <1>11. s.connects[h].st = IF h = g THEN "legal" ELSE "illegal"
    BY <1>2, <1>8, <1>10 DEF Follows, Generations
  <1> QED BY <1>2, <1>3, <1>4, <1>5, <1>6, <1>8, <1>9, <1>11 DEF h, k

\* detach_server_conf().
LEMMA DetachServerSound ==
    ASSUME NEW s, NEW g \in Generations, Sound(s, g), NEW c \in Clients
    PROVE  LET t == detach_server_conf(s, c)
           IN  /\ Sound(t, g) /\ SameBut(s, t, c) /\ t.conns[c].sconf = -1
               /\ t.conns[c].conf = s.conns[c].conf /\ t.conns[c].st = s.conns[c].st
               /\ \A x \in ClassIds : /\ t.classes[x].amount = s.classes[x].amount
                                      /\ t.classes[x].bits = s.classes[x].bits
                                      /\ t.classes[x].limits = s.classes[x].limits
               /\ \A x \in ClassIds : t.classes[x].st = "linked" => s.classes[x].st = "linked"
  <1> DEFINE h == s.conns[c].sconf
             k == s.connects[h].class
             t == detach_server_conf(s, c)
             n == s.classes[k].total - 1
             one == Counted(s.classes[k], n)
             last == s.connects[h].st = "illegal" /\ s.connects[h].users = 1
             class == IF last THEN FreedIfUnused(one) ELSE one
             block == Left(s.connects[h])
             r == Using(s.conns[c], -1)
  <1>1. Kept(s, g) /\ TypesOK(s) /\ g \in Int BY DEF Sound, Kept, Generations
  <1>2. CASE h = -1
    <2>1. t = s BY <1>2 DEF detach_server_conf
    <2> HIDE DEF t
    <2>2. SameBut(s, t, c) BY <2>1 DEF SameBut
    <2> QED BY <1>2, <2>1, <2>2 DEF t
  <1>3. CASE h # -1
    <2>1. /\ h \in Generations /\ s.connects[h] \in BlockRec
          /\ k \in ClassIds /\ s.classes[k] \in ClassRec
          /\ c \in LinksOf(s, h) /\ c \in LinkedIn(s, k)
          /\ s.connects[h].users > 0 /\ s.classes[k].total > 0
          /\ s.connects[h].st = IF h = g THEN "legal" ELSE "illegal"
      BY <1>1, <1>3, UserCounted
    <2>2. n \in Nat /\ s.classes[k].max \in Int /\ s.classes[k].total \in Nat
      <3> HIDE DEF k, h
      <3>1. s.classes[k].max \in Int /\ s.classes[k].total \in Nat BY <2>1, ClassNumbers
      <3> QED BY <2>1, <3>1
    <2>3. s.conns[c] \in ConnRec BY <1>1, ConnTypes
    <2>4. r \in ConnRec /\ r.sconf = -1 /\ r.conf = s.conns[c].conf /\ r.st = s.conns[c].st
      BY <2>3, UsingIs
    <2>5. /\ block \in BlockRec /\ block.class = k /\ block.users = s.connects[h].users - 1
          /\ block.st = IF s.connects[h].users = 1 /\ s.connects[h].st = "illegal" THEN "freed"
                        ELSE s.connects[h].st
      BY <2>1, LeftIs
    <2>6. /\ one \in ClassRec /\ one.total = n /\ one.st = s.classes[k].st
          /\ one.max = s.classes[k].max /\ one.limits = s.classes[k].limits
          /\ one.amount = s.classes[k].amount /\ one.bits = s.classes[k].bits
      BY <2>1, <2>2, CountedIs
    <2>7. /\ t.classes = [s.classes EXCEPT ![k] = class]
          /\ t.auths = s.auths
          /\ t.connects = [s.connects EXCEPT ![h] = block]
          /\ t.conns = [s.conns EXCEPT ![c] = r]
      <3>1. t = State([s.classes EXCEPT ![k] = class], s.auths,
                      [s.connects EXCEPT ![h] = block], [s.conns EXCEPT ![c] = r])
        BY <1>3, Zenon DEF detach_server_conf
      <3> HIDE DEF t, class, block, r, k, h
      <3> QED BY <3>1, StateIs
    <2>8. k = s.connects[h].class OBVIOUS
    <2>9. h = s.conns[c].sconf OBVIOUS
    <2> HIDE DEF one, t, r, block
    <2>10. /\ class \in ClassRec /\ class.total = n /\ class.max = s.classes[k].max
           /\ class.st = IF last /\ s.classes[k].max < 0 /\ n = 0 THEN "freed" ELSE s.classes[k].st
           /\ class.limits = s.classes[k].limits
           /\ class.amount = s.classes[k].amount /\ class.bits = s.classes[k].bits
      BY <2>6, FreedIs
    <2> HIDE DEF class, k, h
    <2>11. TypesOK(t)
      <3>1. t.classes \in [ClassIds -> ClassRec] BY <1>1, <2>7, <2>10 DEF TypesOK
      <3>2. t.auths \in [BlockIds \cup {Nobody} -> BlockRec] BY <1>1, <2>7 DEF TypesOK
      <3>3. t.connects \in [Generations \cup {-1} -> BlockRec] BY <1>1, <2>5, <2>7 DEF TypesOK
      <3>4. t.conns \in [Clients -> ConnRec] BY <1>1, <2>4, <2>7 DEF TypesOK
      <3> QED BY <3>1, <3>2, <3>3, <3>4 DEF TypesOK
    <2>12. /\ t.classes[k] = class /\ \A x \in ClassIds \ {k} : t.classes[x] = s.classes[x]
           /\ t.connects[h] = block /\ \A x \in Generations \ {h} : t.connects[x] = s.connects[x]
           /\ t.conns[c] = r /\ \A d \in Clients \ {c} : t.conns[d] = s.conns[d]
      BY <1>1, <2>1, <2>7 DEF TypesOK
    <2>13. SameBut(s, t, c) BY <2>5, <2>7, <2>8, <2>12 DEF SameBut
    <2>14. /\ \A b \in BlockIds : HoldersOf(t, b) = HoldersOf(s, b)
           /\ \A x \in Generations : LinksOf(t, x) = LinksOf(s, x) \ {c}
           /\ \A x : AttachedIn(t, x) = AttachedIn(s, x)
           /\ \A x : LinkedIn(t, x) = LinkedIn(s, x) \ {c}
      BY <1>1, <2>4, <2>11, <2>12, <2>13, LinksLeave
    <2>15. \A x \in Generations \ {h} : c \notin LinksOf(s, x) BY <2>9 DEF LinksOf
    <2>16. \A x \in ClassIds \ {k} : c \notin LinkedIn(s, x) BY <2>8, <2>9 DEF LinkedIn
    <2>17. BlocksCounted(t)
      <3>1. Cardinality(LinksOf(t, h)) = Cardinality(LinksOf(s, h)) - 1
        <4>1. LinksOf(t, h) = LinksOf(s, h) \ {c} /\ c \in LinksOf(s, h) BY <2>1, <2>14
        <4>2. IsFiniteSet(LinksOf(s, h)) BY SetsFinite
        <4> QED BY <4>1, <4>2, FS_RemoveElement
      <3>2. \A x \in Generations \ {h} : LinksOf(t, x) = LinksOf(s, x) BY <2>14, <2>15
      <3> QED BY <1>1, <2>1, <2>5, <2>7, <2>12, <2>14, <3>1, <3>2 DEF Kept, BlocksCounted
    <2>18. ClassesCounted(t)
      <3>1. Cardinality(LinkedIn(t, k)) = Cardinality(LinkedIn(s, k)) - 1
        <4>1. LinkedIn(t, k) = LinkedIn(s, k) \ {c} /\ c \in LinkedIn(s, k) BY <2>1, <2>14
        <4>2. IsFiniteSet(LinkedIn(s, k)) BY SetsFinite
        <4> QED BY <4>1, <4>2, FS_RemoveElement
      <3>2. \A x \in ClassIds \ {k} : LinkedIn(t, x) = LinkedIn(s, x) BY <2>14, <2>16
      <3>3. t.classes[k].total = Cardinality(AttachedIn(t, k)) + Cardinality(LinkedIn(t, k))
        BY <1>1, <2>1, <2>10, <2>12, <2>14, <3>1, SetsFinite DEF Kept, ClassesCounted
      <3>4. ASSUME NEW x \in ClassIds \ {k}
            PROVE  t.classes[x].total = Cardinality(AttachedIn(t, x)) + Cardinality(LinkedIn(t, x))
        BY <1>1, <2>12, <2>14, <3>2 DEF Kept, ClassesCounted
      <3> QED BY <3>3, <3>4 DEF ClassesCounted
    <2>19. BlocksFollow(t, g)
      <3>1. Follows(s.connects[h], h, g) BY <1>1, <2>1 DEF Kept, BlocksFollow
      <3>2. Follows(t.connects[h], h, g)
        BY <1>1, <2>1, <2>5, <2>12, <3>1 DEF Follows, BlockRec, Generations
      <3> QED BY <1>1, <2>7, <2>12, <3>2 DEF Kept, BlocksFollow
    <2>20. ClassFollows(s.classes[k]) BY <1>1, <2>1 DEF Kept, ClassesFollow
    <2>21. \A x \in ClassIds : s.classes[x].st = "linked" => t.classes[x].st = "linked"
      <3>1. s.classes[k].st = "linked" => t.classes[k].st = "linked"
        BY <2>2, <2>10, <2>12, <2>20 DEF ClassFollows
      <3> QED BY <2>12, <3>1
    <2>22. s.classes[k].st \in {"linked", "unlinked"}
      BY <2>1, <2>2, <2>20 DEF ClassFollows, ClassRec
    \* A class off the list loses its last user with the last one of an old block.
    <2>23. s.classes[k].st = "unlinked" /\ n = 0 => last
      <3> SUFFICES ASSUME s.classes[k].st = "unlinked", n = 0 PROVE last
        OBVIOUS
      <3>1. h # g BY <2>8 DEF Sound, BlocksLinked
      <3>2. s.connects[h].st = "illegal" BY <2>1, <3>1
      <3>3. LinksOf(s, h) \subseteq LinkedIn(s, k) BY <2>1, <2>8, NobodyIsNoBlock DEF LinksOf, LinkedIn
      <3>4. Cardinality(LinksOf(s, h)) <= Cardinality(LinkedIn(s, k))
        BY <3>3, SetsFinite, FS_Subset
      <3>5. s.classes[k].total = Cardinality(AttachedIn(s, k)) + Cardinality(LinkedIn(s, k))
        BY <1>1, <2>1 DEF Kept, ClassesCounted
      <3>6. s.connects[h].users = Cardinality(LinksOf(s, h))
        BY <1>1, <2>1 DEF Kept, BlocksCounted
      <3>7. s.classes[k].total = 1 BY <2>2
      <3>8. Cardinality(LinksOf(s, h)) \in Nat /\ Cardinality(AttachedIn(s, k)) \in Nat
              /\ Cardinality(LinkedIn(s, k)) \in Nat
        BY SetsFinite
      <3>9. s.connects[h].users = 1
        <4> HIDE DEF n, last
        <4> QED BY <2>1, <3>4, <3>5, <3>6, <3>7, <3>8
      <3> QED BY <3>2, <3>9
    <2>24. ClassesFollow(t, g)
      <3>1. ClassFollows(t.classes[k])
        <4> HIDE DEF last
        <4> QED BY <2>2, <2>10, <2>12, <2>20, <2>22, <2>23 DEF ClassFollows
      <3>2. default_class \in ClassIds BY DEF ClassIds, default_class
      <3>3. \A x \in ClassNames \X Generations : x[2] > g => x # k
        BY <1>1, <2>22 DEF Kept, ClassesFollow
      <3> QED BY <1>1, <2>12, <2>21, <3>1, <3>2, <3>3 DEF Kept, ClassesFollow, ClassIds
    <2>25. BlocksLinked(t, g) BY <1>1, <2>13, <2>21, LinkedStays DEF Sound
    <2>26. Sound(t, g) BY <2>11, <2>17, <2>18, <2>19, <2>24, <2>25 DEF Sound, Kept
    <2>27. \A x \in ClassIds : /\ t.classes[x].amount = s.classes[x].amount
                               /\ t.classes[x].bits = s.classes[x].bits
                               /\ t.classes[x].limits = s.classes[x].limits
      BY <2>10, <2>12
    <2>28. \A x \in ClassIds : t.classes[x].st = "linked" => s.classes[x].st = "linked"
      BY <2>10, <2>12
    <2> QED BY <2>4, <2>12, <2>13, <2>26, <2>27, <2>28 DEF t
  <1> QED BY <1>2, <1>3

\* A connection without a connect{} block takes the one in force.
LEMMA JoinServerSound ==
    ASSUME NEW s, NEW g \in Generations, Sound(s, g), NEW c \in Clients, s.conns[c].sconf = -1
    PROVE  LET t == join_server_conf(s, c, g)
           IN  /\ Sound(t, g) /\ SameBut(s, t, c)
               /\ t.conns[c].sconf = g /\ t.conns[c].conf = s.conns[c].conf
               /\ t.conns[c].st = s.conns[c].st
               /\ \A x \in ClassIds : /\ t.classes[x].amount = s.classes[x].amount
                                      /\ t.classes[x].bits = s.classes[x].bits
                                      /\ t.classes[x].limits = s.classes[x].limits
               /\ \A x \in ClassIds : t.classes[x].st = s.classes[x].st
  <1> DEFINE k == s.connects[g].class
             t == join_server_conf(s, c, g)
             class == Counted(s.classes[k], s.classes[k].total + 1)
             block == Joined(s.connects[g])
             r == Using(s.conns[c], g)
  <1>1. Kept(s, g) /\ TypesOK(s) /\ g \in Int BY DEF Sound, Kept, Generations
  <1>2. s.conns[c] \in ConnRec BY <1>1, ConnTypes
  <1>3. s.connects[g] \in BlockRec /\ k \in ClassIds BY <1>1 DEF TypesOK, BlockRec
  <1>4. s.classes[k] \in ClassRec BY <1>1, <1>3 DEF TypesOK
  <1>5. s.classes[k].total \in Nat /\ s.classes[k].total + 1 \in Nat BY <1>4 DEF ClassRec
  <1>6. s.classes[k].st = "linked" BY DEF Sound, BlocksLinked
  <1>7. /\ class \in ClassRec /\ class.total = s.classes[k].total + 1
        /\ class.st = s.classes[k].st /\ class.max = s.classes[k].max
        /\ class.limits = s.classes[k].limits
        /\ class.amount = s.classes[k].amount /\ class.bits = s.classes[k].bits
    BY <1>4, <1>5, CountedIs
  <1>8. /\ block \in BlockRec /\ block.class = k
        /\ block.users = s.connects[g].users + 1 /\ block.st = s.connects[g].st
    BY <1>3, JoinedIs
  <1>9. r \in ConnRec /\ r.sconf = g /\ r.conf = s.conns[c].conf /\ r.st = s.conns[c].st
    BY <1>2, UsingIs
  <1>10. /\ t.classes = [s.classes EXCEPT ![k] = class]
         /\ t.auths = s.auths
         /\ t.connects = [s.connects EXCEPT ![g] = block]
         /\ t.conns = [s.conns EXCEPT ![c] = r]
    <2>1. t = State([s.classes EXCEPT ![k] = class], s.auths,
                    [s.connects EXCEPT ![g] = block], [s.conns EXCEPT ![c] = r])
      BY Zenon DEF join_server_conf
    <2> HIDE DEF t, class, block, r, k
    <2> QED BY <2>1, StateIs
  <1>11. k = s.connects[g].class OBVIOUS
  <1> HIDE DEF class, block, r, t, k
  <1>12. TypesOK(t)
    <2>1. t.classes \in [ClassIds -> ClassRec] BY <1>1, <1>7, <1>10 DEF TypesOK
    <2>2. t.auths \in [BlockIds \cup {Nobody} -> BlockRec] BY <1>1, <1>10 DEF TypesOK
    <2>3. t.connects \in [Generations \cup {-1} -> BlockRec] BY <1>1, <1>8, <1>10 DEF TypesOK
    <2>4. t.conns \in [Clients -> ConnRec] BY <1>1, <1>9, <1>10 DEF TypesOK
    <2> QED BY <2>1, <2>2, <2>3, <2>4 DEF TypesOK
  <1>13. /\ t.classes[k] = class /\ \A x \in ClassIds \ {k} : t.classes[x] = s.classes[x]
         /\ t.connects[g] = block /\ \A x \in Generations \ {g} : t.connects[x] = s.connects[x]
         /\ t.conns[c] = r /\ \A d \in Clients \ {c} : t.conns[d] = s.conns[d]
    BY <1>1, <1>3, <1>10 DEF TypesOK
  <1>14. SameBut(s, t, c) BY <1>8, <1>10, <1>11, <1>13 DEF SameBut
  <1>15. /\ c \notin LinksOf(s, g) /\ c \notin LinkedIn(s, k)
         /\ \A b \in BlockIds : HoldersOf(t, b) = HoldersOf(s, b)
         /\ \A h \in Generations :
              LinksOf(t, h) = IF h = g THEN LinksOf(s, h) \cup {c} ELSE LinksOf(s, h)
         /\ \A x : AttachedIn(t, x) = AttachedIn(s, x)
         /\ \A x : LinkedIn(t, x) = IF x = k THEN LinkedIn(s, x) \cup {c} ELSE LinkedIn(s, x)
    BY <1>1, <1>9, <1>11, <1>12, <1>13, <1>14, LinksJoin
  <1>16. BlocksCounted(t)
    <2>1. Cardinality(LinksOf(t, g)) = Cardinality(LinksOf(s, g)) + 1
      BY <1>15, SetsFinite, FS_AddElement
    <2>2. \A x \in Generations \ {g} : LinksOf(t, x) = LinksOf(s, x) BY <1>15
    <2>3. \A b \in BlockIds : t.auths[b].users = Cardinality(HoldersOf(t, b))
      BY <1>1, <1>10, <1>15 DEF Kept, BlocksCounted
    <2>4. t.connects[g].users = Cardinality(LinksOf(t, g))
      BY <1>1, <1>8, <1>13, <2>1 DEF Kept, BlocksCounted
    <2>5. \A h \in Generations \ {g} : t.connects[h].users = Cardinality(LinksOf(t, h))
      BY <1>1, <1>13, <2>2 DEF Kept, BlocksCounted
    <2> QED BY <2>3, <2>4, <2>5 DEF BlocksCounted
  <1>17. ClassesCounted(t)
    <2>1. Cardinality(LinkedIn(t, k)) = Cardinality(LinkedIn(s, k)) + 1
      BY <1>15, SetsFinite, FS_AddElement
    <2>2. \A x \in ClassIds \ {k} : LinkedIn(t, x) = LinkedIn(s, x) BY <1>15
    <2>3. t.classes[k].total = Cardinality(AttachedIn(t, k)) + Cardinality(LinkedIn(t, k))
      BY <1>1, <1>3, <1>7, <1>13, <1>15, <2>1, SetsFinite DEF Kept, ClassesCounted
    <2>4. ASSUME NEW x \in ClassIds \ {k}
          PROVE  t.classes[x].total = Cardinality(AttachedIn(t, x)) + Cardinality(LinkedIn(t, x))
      BY <1>1, <1>13, <1>15, <2>2 DEF Kept, ClassesCounted
    <2> QED BY <2>3, <2>4 DEF ClassesCounted
  <1>18. BlocksFollow(t, g)
    <2>1. Follows(s.connects[g], g, g) BY <1>1 DEF Kept, BlocksFollow
    <2>2. Follows(t.connects[g], g, g) BY <1>1, <1>8, <1>13, <2>1 DEF Follows
    <2> QED BY <1>1, <1>10, <1>13, <2>2 DEF Kept, BlocksFollow
  <1>19. \A x \in ClassIds : t.classes[x].st = s.classes[x].st BY <1>7, <1>13
  <1>20. ClassesFollow(t, g)
    <2>1. ClassFollows(s.classes[k]) BY <1>1, <1>3 DEF Kept, ClassesFollow
    <2>2. ClassFollows(t.classes[k]) BY <1>6, <1>7, <1>13, <2>1 DEF ClassFollows
    <2>3. default_class \in ClassIds BY DEF ClassIds, default_class
    <2> QED BY <1>1, <1>13, <1>19, <2>2, <2>3 DEF Kept, ClassesFollow, ClassIds
  <1>21. BlocksLinked(t, g) BY <1>1, <1>14, <1>19, LinkedStays DEF Sound
  <1>22. Sound(t, g) BY <1>12, <1>16, <1>17, <1>18, <1>20, <1>21 DEF Sound, Kept
  <1>23. \A x \in ClassIds : /\ t.classes[x].amount = s.classes[x].amount
                             /\ t.classes[x].bits = s.classes[x].bits
                             /\ t.classes[x].limits = s.classes[x].limits
    BY <1>7, <1>13
  <1> QED BY <1>9, <1>13, <1>14, <1>19, <1>22, <1>23 DEF t

\* A change of the tries alone.
LEMMA TriesSound ==
    ASSUME NEW s, NEW t, NEW g \in Generations, Sound(s, g), TypesOK(t),
           t.auths = s.auths, t.connects = s.connects, t.conns = s.conns,
           \A x \in ClassIds : /\ t.classes[x].st = s.classes[x].st
                               /\ t.classes[x].max = s.classes[x].max
                               /\ t.classes[x].total = s.classes[x].total
    PROVE  Sound(t, g)
  <1>1. /\ \A b : HoldersOf(t, b) = HoldersOf(s, b)
        /\ \A h : LinksOf(t, h) = LinksOf(s, h)
        /\ \A k : AttachedIn(t, k) = AttachedIn(s, k)
        /\ \A k : LinkedIn(t, k) = LinkedIn(s, k)
    BY DEF HoldersOf, LinksOf, AttachedIn, LinkedIn
  <1>2. BlocksCounted(t) BY <1>1 DEF Sound, Kept, BlocksCounted
  <1>3. ClassesCounted(t) BY <1>1 DEF Sound, Kept, ClassesCounted
  <1>4. BlocksFollow(t, g) BY DEF Sound, Kept, BlocksFollow
  <1>5. ClassesFollow(t, g)
    <2>1. default_class \in ClassIds BY DEF ClassIds, default_class
    <2>2. \A k \in ClassIds : ClassFollows(t.classes[k])
      BY DEF Sound, Kept, ClassesFollow, ClassFollows
    <2> QED BY <2>1, <2>2 DEF Sound, Kept, ClassesFollow, ClassIds
  <1>6. BlocksLinked(t, g)
    <2>1. TypesOK(s) BY DEF Sound, Kept
    <2>2. \A c : SameBut(s, t, c) BY DEF SameBut
    <2> QED BY <2>1, <2>2, LinkedStays DEF Sound
  <1> QED BY <1>2, <1>3, <1>4, <1>5, <1>6 DEF Sound, Kept

\* The state in which attach_conf() has counted the address.
Noted(s, c, k) ==
  State([s.classes EXCEPT ![k] = add_ip_limit(@, Ip[c])], s.auths, s.connects, s.conns)

LEMMA NotedSound ==
    ASSUME NEW s, NEW g \in Generations, Sound(s, g), NEW c \in Clients, NEW k \in ClassIds
    PROVE  LET t == Noted(s, c, k)
           IN  /\ Sound(t, g)
               /\ t.auths = s.auths /\ t.connects = s.connects /\ t.conns = s.conns
               /\ t.classes[k] = add_ip_limit(s.classes[k], Ip[c])
               /\ \A x \in ClassIds \ {k} : t.classes[x] = s.classes[x]
               /\ \A x \in ClassIds : t.classes[x].st = s.classes[x].st
  <1> DEFINE t == Noted(s, c, k)
             class == add_ip_limit(s.classes[k], Ip[c])
  <1>1. TypesOK(s) BY DEF Sound, Kept
  <1>2. s.classes[k] \in ClassRec /\ Ip[c] \in Ips BY <1>1, ClientsHaveAddresses DEF TypesOK
  <1>3. /\ class \in ClassRec /\ class.total = s.classes[k].total
        /\ class.st = s.classes[k].st /\ class.max = s.classes[k].max
    BY <1>2, AddIs
  <1>4. /\ t.classes = [s.classes EXCEPT ![k] = class]
        /\ t.auths = s.auths /\ t.connects = s.connects /\ t.conns = s.conns
    <2>1. t = State([s.classes EXCEPT ![k] = class], s.auths, s.connects, s.conns)
      BY Zenon DEF Noted
    <2> HIDE DEF t, class
    <2> QED BY <2>1, StateIs
  <1> HIDE DEF t, class
  <1>5. TypesOK(t) BY <1>1, <1>3, <1>4 DEF TypesOK
  <1>6. t.classes[k] = class /\ \A x \in ClassIds \ {k} : t.classes[x] = s.classes[x]
    BY <1>1, <1>4 DEF TypesOK
  <1>7. \A x \in ClassIds : /\ t.classes[x].st = s.classes[x].st
                            /\ t.classes[x].max = s.classes[x].max
                            /\ t.classes[x].total = s.classes[x].total
    BY <1>3, <1>6
  <1>8. Sound(t, g) BY <1>4, <1>5, <1>7, TriesSound
  <1> QED BY <1>4, <1>6, <1>7, <1>8 DEF t, class

\* attach_conf(), whatever it decides.
LEMMA AttachIs ==
    ASSUME NEW s, NEW c, NEW b
    PROVE  LET k == s.auths[b].class
               t == attach_conf(s, c, b)
           IN  \/ t = s
               \/ t = Noted(s, c, k)
               \/ /\ t = join_conf(detach_conf(Noted(s, c, k), c), c, b)
                  /\ ~CidrFull(s.classes[k], b[1], Ip[c]) /\ ~ClassFull(s.classes[k], b[1])
  BY Zenon DEF attach_conf, Noted

LEMMA AttachSound ==
    ASSUME NEW s, NEW g \in Generations, Sound(s, g), NEW c \in Clients, NEW a \in Auths
    PROVE  LET t == attach_conf(s, c, <<a, g>>)
           IN  /\ Sound(t, g) /\ t.conns[c].sconf = s.conns[c].sconf
               /\ t.conns[c].st = s.conns[c].st
               /\ \A d \in Clients \ {c} : t.conns[d] = s.conns[d]
  <1> DEFINE b == <<a, g>>
             k == s.auths[b].class
             t == attach_conf(s, c, b)
             n == Noted(s, c, k)
             m == detach_conf(n, c)
  <1>1. TypesOK(s) BY DEF Sound, Kept
  <1>2. b \in BlockIds BY DEF BlockIds
  <1>3. k \in ClassIds BY <1>1, <1>2 DEF TypesOK, BlockRec
  <1>4. Sound(n, g) /\ n.conns = s.conns
    <2> HIDE DEF k
    <2> QED BY <1>3, NotedSound
  <1>5. /\ Sound(m, g) /\ SameBut(n, m, c) /\ m.conns[c].conf = Nobody
        /\ m.conns[c].sconf = n.conns[c].sconf /\ m.conns[c].st = n.conns[c].st
    <2> HIDE DEF n
    <2> QED BY <1>4, DetachSound
  <1> DEFINE j == join_conf(m, c, b)
  <1>6. /\ Sound(j, g) /\ SameBut(m, j, c)
        /\ j.conns[c].sconf = m.conns[c].sconf /\ j.conns[c].st = m.conns[c].st
    <2> HIDE DEF m
    <2> QED BY ZenonT(40), <1>5, JoinSound
  <1>7. t = s \/ t = n \/ t = j
    BY AttachIs
  <1> HIDE DEF t, n, m, j
  <1> QED BY <1>4, <1>5, <1>6, <1>7 DEF SameBut, t

\* attach_server_conf() to the block in force.
LEMMA AttachServerSound ==
    ASSUME NEW s, NEW g \in Generations, Sound(s, g), NEW c \in Clients
    PROVE  LET t == attach_server_conf(s, c, g)
           IN  /\ Sound(t, g) /\ t.conns[c].conf = s.conns[c].conf
               /\ t.conns[c].st = s.conns[c].st /\ SameBut(s, t, c)
               /\ \A x \in ClassIds : /\ t.classes[x].amount = s.classes[x].amount
                                      /\ t.classes[x].bits = s.classes[x].bits
                                      /\ t.classes[x].limits = s.classes[x].limits
               /\ \A x \in ClassIds : t.classes[x].st = "linked" => s.classes[x].st = "linked"
  <1> DEFINE t == attach_server_conf(s, c, g)
             m == detach_server_conf(s, c)
             j == join_server_conf(m, c, g)
  <1>1. CASE s.conns[c].sconf = g
    <2>1. t = s BY <1>1 DEF attach_server_conf
    <2> HIDE DEF t
    <2> QED BY <2>1 DEF SameBut, t
  <1>2. CASE s.conns[c].sconf # g
    <2>1. t = j BY <1>2 DEF attach_server_conf
    <2>2. /\ Sound(m, g) /\ SameBut(s, m, c) /\ m.conns[c].sconf = -1
          /\ m.conns[c].conf = s.conns[c].conf /\ m.conns[c].st = s.conns[c].st
          /\ \A x \in ClassIds : /\ m.classes[x].amount = s.classes[x].amount
                                 /\ m.classes[x].bits = s.classes[x].bits
                                 /\ m.classes[x].limits = s.classes[x].limits
          /\ \A x \in ClassIds : m.classes[x].st = "linked" => s.classes[x].st = "linked"
      BY DetachServerSound
    <2> HIDE DEF m
    <2>3. /\ Sound(j, g) /\ SameBut(m, j, c)
          /\ j.conns[c].conf = m.conns[c].conf /\ j.conns[c].st = m.conns[c].st
          /\ \A x \in ClassIds : /\ j.classes[x].amount = m.classes[x].amount
                                 /\ j.classes[x].bits = m.classes[x].bits
                                 /\ j.classes[x].limits = m.classes[x].limits
          /\ \A x \in ClassIds : j.classes[x].st = m.classes[x].st
      BY <2>2, JoinServerSound
    <2> HIDE DEF j, t
    <2>4. SameBut(s, j, c) BY <2>2, <2>3 DEF SameBut
    <2> QED BY <2>1, <2>2, <2>3, <2>4 DEF t
  <1> QED BY <1>1, <1>2

\* A connection changes its state and keeps its blocks.
LEMMA TurnedSound ==
    ASSUME NEW s, NEW g \in Generations, Sound(s, g), NEW c \in Clients, NEW r \in ConnRec,
           r.conf = s.conns[c].conf, r.sconf = s.conns[c].sconf
    PROVE  LET t == Turned(s, c, r)
           IN  /\ Sound(t, g) /\ SameBut(s, t, c) /\ t.conns[c] = r
               /\ t.classes = s.classes /\ t.auths = s.auths /\ t.connects = s.connects
  <1> DEFINE t == Turned(s, c, r)
  <1>1. Kept(s, g) /\ TypesOK(s) BY DEF Sound, Kept
  <1>2. /\ t.classes = s.classes /\ t.auths = s.auths /\ t.connects = s.connects
        /\ t.conns = [s.conns EXCEPT ![c] = r]
    <2>1. t = State(s.classes, s.auths, s.connects, [s.conns EXCEPT ![c] = r])
      BY DEF Turned
    <2> HIDE DEF t
    <2> QED BY <2>1, StateIs
  <1> HIDE DEF t
  <1>3. TypesOK(t) BY <1>1, <1>2 DEF TypesOK
  <1>4. t.conns[c] = r /\ \A d \in Clients \ {c} : t.conns[d] = s.conns[d]
    BY <1>1, <1>2 DEF TypesOK
  <1>5. SameBut(s, t, c) BY <1>2, <1>4 DEF SameBut
  <1>6. /\ \A b : HoldersOf(t, b) = HoldersOf(s, b)
        /\ \A h : LinksOf(t, h) = LinksOf(s, h)
        /\ \A k : AttachedIn(t, k) = AttachedIn(s, k)
        /\ \A k : LinkedIn(t, k) = LinkedIn(s, k)
    BY <1>1, <1>3, <1>4, <1>5, SetsStay
  <1>7. BlocksCounted(t) /\ ClassesCounted(t)
    BY <1>1, <1>2, <1>6 DEF Kept, BlocksCounted, ClassesCounted
  <1>8. BlocksFollow(t, g) /\ ClassesFollow(t, g) BY <1>1, <1>2 DEF Kept, BlocksFollow, ClassesFollow
  <1>9. BlocksLinked(t, g) BY <1>2 DEF Sound, BlocksLinked
  <1> QED BY <1>2, <1>3, <1>4, <1>5, <1>7, <1>8, <1>9 DEF Sound, Kept, t

LEMMA InSound ==
    ASSUME NEW s, NEW g \in Generations, Sound(s, g), NEW c \in Clients,
           NEW st \in {"gone", "unknown", "user", "remote", "server"}
    PROVE  LET t == In(s, c, st)
           IN  /\ Sound(t, g) /\ SameBut(s, t, c) /\ t.conns[c].st = st
               /\ t.conns[c].conf = s.conns[c].conf /\ t.conns[c].sconf = s.conns[c].sconf
               /\ t.classes = s.classes /\ t.auths = s.auths /\ t.connects = s.connects
  <1> DEFINE r == Being(s.conns[c], st)
             t == In(s, c, st)
  <1>1. s.conns[c] \in ConnRec BY ConnTypes DEF Sound, Kept
  <1>2. r \in ConnRec /\ r.st = st /\ r.conf = s.conns[c].conf /\ r.sconf = s.conns[c].sconf
    BY <1>1, BeingIs
  <1>3. t = Turned(s, c, r) BY DEF In
  <1> HIDE DEF r, t
  <1> QED BY <1>2, <1>3, TurnedSound DEF t

LEMMA CloseSound ==
    ASSUME NEW s, NEW g \in Generations, Sound(s, g), NEW c \in Clients
    PROVE  LET t == close_connection(s, c)
           IN  /\ Sound(t, g) /\ t.conns[c] = NoConn
               /\ \A d \in Clients \ {c} : t.conns[d] = s.conns[d]
  <1> DEFINE m == detach_conf(s, c)
             n == detach_server_conf(m, c)
             t == close_connection(s, c)
  <1>1. Sound(m, g) /\ SameBut(s, m, c) /\ m.conns[c].conf = Nobody BY DetachSound
  <1>2. Sound(n, g) /\ SameBut(m, n, c) /\ n.conns[c].sconf = -1 /\ n.conns[c].conf = m.conns[c].conf
    <2> HIDE DEF m
    <2> QED BY <1>1, DetachServerSound
  <1>3. NoConn \in ConnRec /\ NoConn.conf = Nobody /\ NoConn.sconf = -1 BY DEF NoConn, ConnRec
  <1>4. t = Turned(n, c, NoConn) BY DEF close_connection
  <1> HIDE DEF n, m, t
  <1>5. Sound(t, g) /\ SameBut(n, t, c) /\ t.conns[c] = NoConn
    BY <1>1, <1>2, <1>3, <1>4, TurnedSound
  <1> QED BY <1>1, <1>2, <1>5 DEF SameBut, t

-----------------------------------------------------------------------------
(* Rehash.                                                                  *)

LEMMA DefaultIsNoName == default_class \in ClassIds /\ \A k \in ClassIds :
                           k # default_class => k \in ClassNames \X Generations
  BY DEF ClassIds, default_class

\* find_class() finds a class of the list with that name, or the default one.
LEMMA FoundIs ==
    ASSUME NEW cls, NEW name
    PROVE  LET k == find_class(cls, name)
           IN  k = default_class \/ (k \in DOMAIN cls /\ k[1] = name /\ cls[k].st = "linked")
  BY Zenon DEF find_class

\* What clear_out_old_conf() leaves of a class.
LEMMA MarkedIs ==
    ASSUME NEW cls \in [ClassIds -> ClassRec]
    PROVE  LET m == Marked(cls)
           IN  /\ m \in [ClassIds -> ClassRec]
               /\ \A k \in ClassIds :
                    /\ m[k].st = cls[k].st /\ m[k].total = cls[k].total
                    /\ m[k].limits = cls[k].limits
                    /\ m[k].amount = cls[k].amount /\ m[k].bits = cls[k].bits
                    /\ (k = default_class \/ cls[k].st # "linked") => m[k] = cls[k]
                    /\ (k # default_class /\ cls[k].st = "linked") => m[k].max = -1
  <1> DEFINE m == Marked(cls)
             new(k) == [cls[k] EXCEPT !.max = -1]
  <1>1. ASSUME NEW k \in ClassIds
        PROVE  /\ new(k) \in ClassRec /\ new(k).max = -1
               /\ new(k).st = cls[k].st /\ new(k).total = cls[k].total
               /\ new(k).limits = cls[k].limits
               /\ new(k).amount = cls[k].amount /\ new(k).bits = cls[k].bits
    <2> DEFINE r == cls[k]
    <2>1. r \in ClassRec OBVIOUS
    <2> HIDE DEF r
    <2>2. /\ [r EXCEPT !.max = -1] \in ClassRec /\ [r EXCEPT !.max = -1].max = -1
          /\ [r EXCEPT !.max = -1].st = r.st /\ [r EXCEPT !.max = -1].total = r.total
          /\ [r EXCEPT !.max = -1].limits = r.limits
          /\ [r EXCEPT !.max = -1].amount = r.amount /\ [r EXCEPT !.max = -1].bits = r.bits
      BY <2>1 DEF ClassRec
    <2> QED BY <2>2, Zenon DEF r
  <1>2. m = [k \in ClassIds |-> IF k # default_class /\ cls[k].st = "linked"
                                THEN new(k) ELSE cls[k]]
    BY Zenon DEF Marked
  <1> HIDE DEF m, new
  <1>3. \A k \in ClassIds : m[k] = IF k # default_class /\ cls[k].st = "linked"
                                   THEN new(k) ELSE cls[k]
    BY <1>2
  <1>4. m \in [ClassIds -> ClassRec] BY <1>1, <1>2
  <1> QED BY <1>1, <1>3, <1>4 DEF m

LEMMA UpdatedIs ==
    ASSUME NEW class \in ClassRec, NEW new \in [max : Nat, amount : Nat, bits : DOMAIN Cover \cup {0}]
    PROVE  LET u == Updated(class, new)
           IN  /\ u \in ClassRec /\ u.st = "linked" /\ u.max = new.max /\ new.max \in Nat
               /\ u.total = class.total /\ u.limits = class.limits
               /\ u.amount = new.amount /\ u.bits = new.bits
  BY DEF Updated, ClassRec

LEMMA NoClassIs == NoClass \in ClassRec /\ NoClass.total = 0 /\ NoClass.limits = <<>>
                     /\ NoClass.st = "none" /\ NoClass.amount = 0 /\ NoClass.max = 0
  BY EmptyTrie DEF NoClass, ClassRec

\* add_class() of all classes of the file.
LEMMA AddedIs ==
    ASSUME NEW cls \in [ClassIds -> ClassRec], NEW file \in Configs, NEW g \in Generations,
           \A k \in ClassNames \X Generations : k[2] >= g => cls[k].st = "none" /\ cls[k].total = 0
    PROVE  LET a == add_class(cls, file, g)
           IN  /\ a \in [ClassIds -> ClassRec]
               /\ \A k \in ClassIds :
                    /\ a[k].total = cls[k].total
                    /\ k[1] \notin DOMAIN file.class => a[k] = cls[k]
                    /\ k[1] \in DOMAIN file.class /\ cls[k].st = "linked"
                         => a[k] = Updated(cls[k], file.class[k[1]])
                    /\ cls[k].st # "linked" => \/ a[k] = cls[k]
                                               \/ /\ a[k] = Updated(NoClass, file.class[k[1]])
                                                  /\ k[2] = g /\ k[1] \in DOMAIN file.class
                    /\ k[1] \in DOMAIN file.class /\ a[k].st = "linked" => a[k].max \in Nat
               /\ a[default_class] = cls[default_class]
  <1> DEFINE a == add_class(cls, file, g)
             val(k) == IF k[1] \notin DOMAIN file.class THEN cls[k]
                       ELSE IF cls[k].st = "linked" THEN Updated(cls[k], file.class[k[1]])
                       ELSE IF k[2] = g /\ find_class(cls, k[1]) = default_class
                       THEN Updated(NoClass, file.class[k[1]])
                       ELSE cls[k]
  <1>1. a = [k \in ClassIds |-> val(k)] BY Zenon DEF add_class
  <1>2. \A k \in ClassIds : k[1] \in DOMAIN file.class =>
          file.class[k[1]] \in [max : Nat, amount : Nat, bits : DOMAIN Cover \cup {0}]
    BY FilesComplete
  <1>3. default_class[1] \notin DOMAIN file.class
    BY FilesComplete, NamesFree DEF default_class
  <1>4. ASSUME NEW k \in ClassIds, k[1] \in DOMAIN file.class
        PROVE  /\ Updated(cls[k], file.class[k[1]]) \in ClassRec
               /\ Updated(cls[k], file.class[k[1]]).total = cls[k].total
               /\ Updated(cls[k], file.class[k[1]]).max \in Nat
               /\ Updated(NoClass, file.class[k[1]]) \in ClassRec
               /\ Updated(NoClass, file.class[k[1]]).total = 0
               /\ Updated(NoClass, file.class[k[1]]).max \in Nat
    <2>1. cls[k] \in ClassRec OBVIOUS
    <2> QED BY <1>2, <1>4, <2>1, UpdatedIs, NoClassIs
  <1>5. ASSUME NEW k \in ClassIds, k[2] = g, k[1] \in DOMAIN file.class
        PROVE  cls[k].total = 0 /\ cls[k].st = "none"
    <2>1. k \in ClassNames \X Generations BY <1>3, <1>5, DefaultIsNoName
    <2>2. g >= g BY DEF Generations
    <2> QED BY <1>5, <2>1, <2>2
  <1>6. ASSUME NEW k \in ClassIds
        PROVE  /\ val(k) \in ClassRec
               /\ val(k).total = cls[k].total
               /\ k[1] \notin DOMAIN file.class => val(k) = cls[k]
               /\ k[1] \in DOMAIN file.class /\ cls[k].st = "linked"
                    => val(k) = Updated(cls[k], file.class[k[1]])
               /\ cls[k].st # "linked" => \/ val(k) = cls[k]
                                          \/ /\ val(k) = Updated(NoClass, file.class[k[1]])
                                             /\ k[2] = g /\ k[1] \in DOMAIN file.class
               /\ k[1] \in DOMAIN file.class /\ val(k).st = "linked" => val(k).max \in Nat
    <2>1. CASE k[1] \notin DOMAIN file.class BY <2>1
    <2>2. CASE k[1] \in DOMAIN file.class /\ cls[k].st = "linked" BY <1>4, <2>2
    <2>3. CASE k[1] \in DOMAIN file.class /\ cls[k].st # "linked"
      <3>1. CASE k[2] = g /\ find_class(cls, k[1]) = default_class
        BY <1>4, <1>5, <2>3, <3>1
      <3>2. CASE ~(k[2] = g /\ find_class(cls, k[1]) = default_class)
        BY <2>3, <3>2
      <3> QED BY <3>1, <3>2
    <2> QED BY <2>1, <2>2, <2>3
  <1> HIDE DEF val, a
  <1>7. \A k \in ClassIds : a[k] = val(k) BY <1>1
  <1>8. a \in [ClassIds -> ClassRec] BY <1>1, <1>6
  <1>9. a[default_class] = cls[default_class] BY <1>3, <1>6, <1>7, DefaultIsNoName
  <1> QED BY <1>6, <1>7, <1>8, <1>9 DEF a

LEMMA CheckedIs ==
    ASSUME NEW cls \in [ClassIds -> ClassRec]
    PROVE  LET f == check_class(cls)
           IN  /\ f \in [ClassIds -> ClassRec]
               /\ \A k \in ClassIds :
                    /\ f[k].total = cls[k].total /\ f[k].max = cls[k].max
                    /\ f[k].limits = cls[k].limits
                    /\ f[k].amount = cls[k].amount /\ f[k].bits = cls[k].bits
                    /\ ~(cls[k].st = "linked" /\ cls[k].max < 0) => f[k].st = cls[k].st
                    /\ cls[k].st = "linked" /\ cls[k].max < 0
                         => f[k].st = IF cls[k].total = 0 THEN "freed" ELSE "unlinked"
  <1> DEFINE f == check_class(cls)
             st(k) == IF cls[k].total <= 0 THEN "freed" ELSE "unlinked"
             new(k) == [cls[k] EXCEPT !.st = st(k)]
  <1>1. ASSUME NEW k \in ClassIds
        PROVE  /\ new(k) \in ClassRec /\ new(k).max = cls[k].max
               /\ new(k).st = IF cls[k].total = 0 THEN "freed" ELSE "unlinked"
               /\ new(k).total = cls[k].total /\ new(k).limits = cls[k].limits
               /\ new(k).amount = cls[k].amount /\ new(k).bits = cls[k].bits
    <2> DEFINE r == cls[k]
               x == st(k)
    <2>1. r \in ClassRec OBVIOUS
    <2>2. x = IF cls[k].total = 0 THEN "freed" ELSE "unlinked" BY <2>1, ClassNumbers
    <2>3. x \in {"none", "linked", "unlinked", "freed"} OBVIOUS
    <2> HIDE DEF r, x
    <2>4. /\ [r EXCEPT !.st = x] \in ClassRec /\ [r EXCEPT !.st = x].st = x
          /\ [r EXCEPT !.st = x].max = r.max /\ [r EXCEPT !.st = x].total = r.total
          /\ [r EXCEPT !.st = x].limits = r.limits
          /\ [r EXCEPT !.st = x].amount = r.amount /\ [r EXCEPT !.st = x].bits = r.bits
      BY <2>1, <2>3 DEF ClassRec
    <2>5. new(k) = [r EXCEPT !.st = x] BY Zenon DEF r, x
    <2> HIDE DEF new, st
    <2>6. r = cls[k] BY DEF r
    <2> QED BY <2>2, <2>4, <2>5, <2>6
  <1>2. f = [k \in ClassIds |-> IF cls[k].st = "linked" /\ cls[k].max < 0 THEN new(k) ELSE cls[k]]
    BY Zenon DEF check_class
  <1> HIDE DEF f, new
  <1>3. \A k \in ClassIds : f[k] = IF cls[k].st = "linked" /\ cls[k].max < 0 THEN new(k) ELSE cls[k]
    BY <1>2
  <1>4. f \in [ClassIds -> ClassRec] BY <1>1, <1>2
  <1> QED BY <1>1, <1>3, <1>4 DEF f

\* The classes after read_conf().
LEMMA ReadClasses ==
    ASSUME NEW s, NEW g \in Generations, Kept(s, g - 1), NEW file \in Configs
    PROVE  LET a == add_class(Marked(s.classes), file, g)
               f == check_class(a)
           IN  /\ a \in [ClassIds -> ClassRec] /\ f \in [ClassIds -> ClassRec]
               /\ \A k \in ClassIds : f[k].total = s.classes[k].total
               /\ \A k \in ClassIds : ClassFollows(f[k])
               /\ \A k \in ClassNames \X Generations : k[2] > g => f[k].st = "none"
               /\ \A k \in ClassIds : a[k].st = "linked" /\ a[k].max >= 0 => f[k].st = "linked"
               /\ a[default_class].st = "linked" /\ a[default_class].max >= 0
               /\ \A k \in ClassIds :
                    k[1] \in DOMAIN file.class /\ a[k].st = "linked" => a[k].max >= 0
  <1> DEFINE m == Marked(s.classes)
             a == add_class(m, file, g)
             f == check_class(a)
  <1>1. s.classes \in [ClassIds -> ClassRec] /\ g \in Int BY DEF Kept, TypesOK, Generations
  <1>2. /\ m \in [ClassIds -> ClassRec]
        /\ \A k \in ClassIds :
             /\ m[k].st = s.classes[k].st /\ m[k].total = s.classes[k].total
             /\ (k = default_class \/ s.classes[k].st # "linked") => m[k] = s.classes[k]
    BY <1>1, MarkedIs
  <1> HIDE DEF m
  <1>3. \A k \in ClassIds : ClassFollows(s.classes[k]) BY DEF Kept, ClassesFollow
  <1>4. ASSUME NEW k \in ClassNames \X Generations, k[2] >= g
        PROVE  m[k].st = "none" /\ m[k].total = 0 /\ k \in ClassIds
    <2>1. k[2] > g - 1 /\ k \in ClassIds BY <1>1, <1>4 DEF Generations, ClassIds
    <2>2. s.classes[k].st = "none" BY <2>1 DEF Kept, ClassesFollow
    <2> QED BY <1>2, <1>3, <2>1, <2>2 DEF ClassFollows
  <1>5. /\ a \in [ClassIds -> ClassRec]
        /\ \A k \in ClassIds :
             /\ a[k].total = m[k].total
             /\ k[1] \notin DOMAIN file.class => a[k] = m[k]
             /\ k[1] \in DOMAIN file.class /\ m[k].st = "linked"
                  => a[k] = Updated(m[k], file.class[k[1]])
             /\ m[k].st # "linked" => \/ a[k] = m[k]
                                      \/ /\ a[k] = Updated(NoClass, file.class[k[1]])
                                         /\ k[2] = g /\ k[1] \in DOMAIN file.class
             /\ k[1] \in DOMAIN file.class /\ a[k].st = "linked" => a[k].max \in Nat
        /\ a[default_class] = m[default_class]
    BY <1>2, <1>4, AddedIs
  <1> HIDE DEF a
  <1>6. /\ f \in [ClassIds -> ClassRec]
        /\ \A k \in ClassIds :
             /\ f[k].total = a[k].total /\ f[k].max = a[k].max
             /\ ~(a[k].st = "linked" /\ a[k].max < 0) => f[k].st = a[k].st
             /\ a[k].st = "linked" /\ a[k].max < 0
                  => f[k].st = IF a[k].total = 0 THEN "freed" ELSE "unlinked"
    BY <1>5, CheckedIs
  <1> HIDE DEF f
  <1>7. \A k \in ClassIds : a[k].total \in Nat /\ a[k].max \in Int
    <2>1. \A k \in ClassIds : a[k] \in ClassRec BY <1>5
    <2> QED BY <2>1, ClassNumbers
  <1>8. ASSUME NEW k \in ClassIds PROVE ClassFollows(f[k])
    <2>1. CASE a[k].st = "linked"
      BY <1>6, <1>7, <2>1 DEF ClassFollows
    <2>2. CASE a[k].st # "linked"
      <3>1. f[k].st = a[k].st /\ f[k].max = a[k].max /\ f[k].total = a[k].total BY <1>6, <2>2
      <3>2. m[k].st # "linked"
        <4> SUFFICES ASSUME m[k].st = "linked" PROVE FALSE
          OBVIOUS
        <4>1. CASE k[1] \in DOMAIN file.class
          <5>1. a[k] = Updated(m[k], file.class[k[1]]) BY <1>5, <4>1
          <5> QED BY <2>2, <5>1 DEF Updated
        <4>2. CASE k[1] \notin DOMAIN file.class BY <1>5, <2>2, <4>2
        <4> QED BY <4>1, <4>2
      <3>3. a[k] # Updated(NoClass, file.class[k[1]]) BY <2>2 DEF Updated
      <3>4. a[k] = s.classes[k] BY <1>2, <1>5, <3>2, <3>3
      <3> QED BY <1>3, <3>1, <3>4 DEF ClassFollows
    <2> QED BY <2>1, <2>2
  <1>9. ASSUME NEW k \in ClassNames \X Generations, k[2] > g PROVE f[k].st = "none"
    <2>1. k[2] >= g /\ k[2] # g BY <1>1, <1>9 DEF Generations
    <2>2. m[k].st = "none" /\ k \in ClassIds BY <1>4, <2>1
    <2>3. a[k] = m[k] BY <1>5, <2>1, <2>2
    <2> QED BY <1>6, <2>2, <2>3
  <1>10. a[default_class].st = "linked" /\ a[default_class].max >= 0
    <2>1. s.classes[default_class].st = "linked" BY DEF Kept, ClassesFollow
    <2> QED BY <1>2, <1>3, <1>5, <2>1, DefaultIsNoName DEF ClassFollows
  <1>11. \A k \in ClassIds : f[k].total = s.classes[k].total BY <1>2, <1>5, <1>6
  <1>12. \A k \in ClassIds : a[k].st = "linked" /\ a[k].max >= 0 => f[k].st = "linked"
    BY <1>6, <1>7
  <1>13. \A k \in ClassIds : k[1] \in DOMAIN file.class /\ a[k].st = "linked" => a[k].max >= 0
    BY <1>5
  <1> QED BY <1>5, <1>6, <1>8, <1>9, <1>10, <1>11, <1>12, <1>13 DEF f, a, m

LEMMA DroppedIs ==
    ASSUME NEW D, NEW blocks \in [D -> BlockRec], NEW b \in D
    PROVE  /\ Dropped(blocks)[b] \in BlockRec
           /\ Dropped(blocks)[b].class = blocks[b].class
           /\ Dropped(blocks)[b].users = blocks[b].users
           /\ Dropped(blocks)[b].st = IF blocks[b].st # "legal" THEN blocks[b].st
                                      ELSE IF blocks[b].users = 0 THEN "freed" ELSE "illegal"
  BY DEF Dropped, BlockRec

\* A block that one generation followed, dropped by the next.
LEMMA DroppedFollows ==
    ASSUME NEW old, NEW new, NEW h \in Int, NEW g \in Int, h # g, Follows(old, h, g - 1),
           new.users = old.users,
           new.st = IF old.st # "legal" THEN old.st
                    ELSE IF old.users = 0 THEN "freed" ELSE "illegal"
    PROVE  Follows(new, h, g)
  BY DEF Follows

LEMMA ReadSound ==
    ASSUME NEW s, NEW g \in Generations, Kept(s, g - 1), NEW file \in Configs
    PROVE  LET t == read_conf(s, file, g)
           IN  /\ Sound(t, g) /\ t.conns = s.conns
               /\ t.classes = check_class(add_class(Marked(s.classes), file, g))
               /\ \A k : AttachedIn(t, k) = AttachedIn(s, k)
  <1> DEFINE t == read_conf(s, file, g)
             a == add_class(Marked(s.classes), file, g)
             f == check_class(a)
             block(k) == [st |-> "legal", class |-> k, users |-> 0]
             ka(b) == conf_add_class_to_conf(a, file.auth[b[1]])
             kc == add_server_conf(a, file.connect)
             au == [b \in BlockIds \cup {Nobody} |->
                      IF b[2] = g /\ b # Nobody THEN block(ka(b)) ELSE Dropped(s.auths)[b]]
             sc == [h \in Generations \cup {-1} |->
                      IF h = g THEN block(kc) ELSE Dropped(s.connects)[h]]
  <1>1. TypesOK(s) /\ g \in Int BY DEF Kept, Generations
  <1>2. t = State(f, au, sc, s.conns)
    <2>1. DOMAIN s.auths = BlockIds \cup {Nobody} /\ DOMAIN s.connects = Generations \cup {-1}
      BY <1>1 DEF TypesOK
    <2> QED BY <2>1, Zenon DEF read_conf
  <1>3. /\ a \in [ClassIds -> ClassRec] /\ f \in [ClassIds -> ClassRec]
        /\ \A k \in ClassIds : f[k].total = s.classes[k].total
        /\ \A k \in ClassIds : ClassFollows(f[k])
        /\ \A k \in ClassNames \X Generations : k[2] > g => f[k].st = "none"
        /\ \A k \in ClassIds : a[k].st = "linked" /\ a[k].max >= 0 => f[k].st = "linked"
        /\ a[default_class].st = "linked" /\ a[default_class].max >= 0
        /\ \A k \in ClassIds :
             k[1] \in DOMAIN file.class /\ a[k].st = "linked" => a[k].max >= 0
    BY ReadClasses
  <1> HIDE DEF f, a
  <1>4. \A k \in ClassIds : a[k].max \in Int
    <2>1. \A k \in ClassIds : a[k] \in ClassRec BY <1>3
    <2> QED BY <2>1, ClassNumbers
  <1>5. \A name : LET k == find_class(a, name)
                  IN  k \in ClassIds /\ a[k].st = "linked" /\ (k = default_class \/ k[1] = name)
    <2>1. DOMAIN a = ClassIds BY <1>3
    <2> QED BY <1>3, <2>1, FoundIs, DefaultIsNoName
  <1>6. \A b : ka(b) \in ClassIds /\ f[ka(b)].st = "linked"
    <2> TAKE b
    <2> DEFINE k == find_class(a, file.auth[b[1]])
    <2>1. k \in ClassIds /\ a[k].st = "linked" BY <1>5
    <2>2. ka(b) = IF a[k].max < 0 THEN default_class ELSE k BY DEF conf_add_class_to_conf
    <2> HIDE DEF k, ka
    <2> QED BY <1>3, <1>4, <2>1, <2>2, DefaultIsNoName
  <1>7. kc \in ClassIds /\ f[kc].st = "linked"
    <2>1. kc \in ClassIds /\ a[kc].st = "linked" /\ (kc = default_class \/ kc[1] = file.connect)
      BY <1>5 DEF add_server_conf
    <2> HIDE DEF kc
    <2>2. kc = default_class \/ kc[1] \in DOMAIN file.class
      <3>1. kc # default_class => kc[1] \in ClassNames BY <2>1, DefaultIsNoName
      <3> QED BY <2>1, <3>1, FilesComplete
    <2> QED BY <1>3, <2>1, <2>2
  <1> HIDE DEF ka, kc
  <1>8. /\ \A b \in BlockIds : b[2] = g => au[b] = block(ka(b))
        /\ \A b \in BlockIds \cup {Nobody} : b[2] # g \/ b = Nobody => au[b] = Dropped(s.auths)[b]
        /\ sc[g] = block(kc)
        /\ \A h \in Generations \cup {-1} : h # g => sc[h] = Dropped(s.connects)[h]
    BY NobodyIsNoBlock
  <1>9. \A k \in ClassIds : block(k) \in BlockRec /\ block(k).st = "legal"
                            /\ block(k).class = k /\ block(k).users = 0
    BY DEF BlockRec
  <1>10. /\ s.auths \in [BlockIds \cup {Nobody} -> BlockRec]
         /\ s.connects \in [Generations \cup {-1} -> BlockRec]
    BY <1>1 DEF TypesOK
  <1>11. au \in [BlockIds \cup {Nobody} -> BlockRec]
    <2>1. ASSUME NEW b \in BlockIds \cup {Nobody}
          PROVE  (IF b[2] = g /\ b # Nobody THEN block(ka(b)) ELSE Dropped(s.auths)[b]) \in BlockRec
      <3> HIDE DEF block
      <3> QED BY <1>6, <1>9, <1>10, DroppedIs
    <2> QED BY <2>1
  <1>12. sc \in [Generations \cup {-1} -> BlockRec]
    <2>1. ASSUME NEW h \in Generations \cup {-1}
          PROVE  (IF h = g THEN block(kc) ELSE Dropped(s.connects)[h]) \in BlockRec
      <3> HIDE DEF block
      <3> QED BY <1>7, <1>9, <1>10, DroppedIs
    <2> QED BY <2>1
  <1> HIDE DEF block, au, sc, t
  <1>13. t.classes = f /\ t.auths = au /\ t.connects = sc /\ t.conns = s.conns BY <1>2, StateIs
  <1>14. TypesOK(t) BY <1>1, <1>3, <1>11, <1>12, <1>13 DEF TypesOK
  <1>15. \A b \in BlockIds : b[2] = g => s.auths[b].users = 0
    <2>1. \A b \in BlockIds : Follows(s.auths[b], b[2], g - 1) BY DEF Kept, BlocksFollow
    <2> QED BY <1>1, <2>1 DEF Follows
  <1>16. s.connects[g].users = 0
    <2>1. Follows(s.connects[g], g, g - 1) BY DEF Kept, BlocksFollow
    <2> QED BY <1>1, <2>1 DEF Follows
  <1>17. /\ \A b \in BlockIds : b[2] = g => HoldersOf(s, b) = {}
         /\ LinksOf(s, g) = {}
    <2>1. \A b \in BlockIds : b[2] = g => Cardinality(HoldersOf(s, b)) = 0
      BY <1>15 DEF Kept, BlocksCounted
    <2>2. Cardinality(LinksOf(s, g)) = 0 BY <1>16 DEF Kept, BlocksCounted
    <2> QED BY <2>1, <2>2, SetsFinite, FS_EmptySet
  <1>18. /\ \A b \in BlockIds : b[2] # g => au[b].class = s.auths[b].class
                                            /\ au[b].users = s.auths[b].users
         /\ \A h \in Generations : h # g => sc[h].class = s.connects[h].class
                                            /\ sc[h].users = s.connects[h].users
    BY <1>8, <1>10, DroppedIs
  <1>19. /\ \A b : HoldersOf(t, b) = HoldersOf(s, b)
         /\ \A h : LinksOf(t, h) = LinksOf(s, h)
    BY <1>13 DEF HoldersOf, LinksOf
  <1>20. \A k : AttachedIn(t, k) = AttachedIn(s, k)
    <2>1. ASSUME NEW c \in Clients, s.conns[c].conf # Nobody
          PROVE  au[s.conns[c].conf].class = s.auths[s.conns[c].conf].class
      <3>1. s.conns[c].conf \in BlockIds BY <1>1, <2>1, ConnTypes
      <3>2. c \in HoldersOf(s, s.conns[c].conf) BY DEF HoldersOf
      <3>3. s.conns[c].conf[2] # g BY <1>17, <3>1, <3>2
      <3> QED BY <1>18, <3>1, <3>3
    <2> QED BY <1>13, <2>1 DEF AttachedIn
  <1>21. \A k : LinkedIn(t, k) = LinkedIn(s, k)
    <2>1. ASSUME NEW c \in Clients, s.conns[c].sconf # -1
          PROVE  sc[s.conns[c].sconf].class = s.connects[s.conns[c].sconf].class
      <3>1. s.conns[c].sconf \in Generations BY <1>1, <2>1, ConnTypes
      <3>2. c \in LinksOf(s, s.conns[c].sconf) BY DEF LinksOf
      <3>3. s.conns[c].sconf # g BY <1>17, <3>2
      <3> QED BY <1>18, <3>1, <3>3
    <2> QED BY <1>13, <2>1 DEF LinkedIn
  <1>22. BlocksCounted(t)
    <2>1. ASSUME NEW b \in BlockIds PROVE t.auths[b].users = Cardinality(HoldersOf(t, b))
      <3>1. au[b].users = s.auths[b].users
        <4>1. CASE b[2] = g BY <1>6, <1>8, <1>9, <1>15, <4>1
        <4>2. CASE b[2] # g BY <1>18, <4>2
        <4> QED BY <4>1, <4>2
      <3> QED BY <1>13, <1>19, <3>1 DEF Kept, BlocksCounted
    <2>2. ASSUME NEW h \in Generations PROVE t.connects[h].users = Cardinality(LinksOf(t, h))
      <3>1. sc[h].users = s.connects[h].users
        <4>1. CASE h = g BY <1>7, <1>8, <1>9, <1>16, <4>1
        <4>2. CASE h # g BY <1>18, <4>2
        <4> QED BY <4>1, <4>2
      <3> QED BY <1>13, <1>19, <3>1 DEF Kept, BlocksCounted
    <2> QED BY <2>1, <2>2 DEF BlocksCounted
  <1>23. ClassesCounted(t)
    BY <1>3, <1>13, <1>20, <1>21 DEF Kept, ClassesCounted
  <1>24. BlocksFollow(t, g)
    <2>1. ASSUME NEW b \in BlockIds PROVE Follows(au[b], b[2], g)
      <3>1. b[2] \in Int BY DEF BlockIds, Generations
      <3>2. CASE b[2] = g
        <4>1. au[b].st = "legal" BY <1>6, <1>8, <1>9, <3>2
        <4> QED BY <1>1, <3>2, <4>1 DEF Follows
      <3>3. CASE b[2] # g
        <4>1. au[b] = Dropped(s.auths)[b] BY <1>8, <3>3
        <4>2. /\ au[b].users = s.auths[b].users
              /\ au[b].st = IF s.auths[b].st # "legal" THEN s.auths[b].st
                            ELSE IF s.auths[b].users = 0 THEN "freed" ELSE "illegal"
          BY <1>10, <4>1, DroppedIs
        <4>3. Follows(s.auths[b], b[2], g - 1) BY DEF Kept, BlocksFollow
        <4> QED BY <1>1, <3>1, <3>3, <4>2, <4>3, DroppedFollows
      <3> QED BY <3>2, <3>3
    <2>2. ASSUME NEW h \in Generations PROVE Follows(sc[h], h, g)
      <3>1. h \in Int BY DEF Generations
      <3>2. CASE h = g
        <4>1. sc[h].st = "legal" BY <1>7, <1>8, <1>9, <3>2
        <4> QED BY <1>1, <3>2, <4>1 DEF Follows
      <3>3. CASE h # g
        <4>1. sc[h] = Dropped(s.connects)[h] BY <1>8, <3>3
        <4>2. /\ sc[h].users = s.connects[h].users
              /\ sc[h].st = IF s.connects[h].st # "legal" THEN s.connects[h].st
                            ELSE IF s.connects[h].users = 0 THEN "freed" ELSE "illegal"
          BY <1>10, <4>1, DroppedIs
        <4>3. Follows(s.connects[h], h, g - 1) BY DEF Kept, BlocksFollow
        <4> QED BY <1>1, <3>1, <3>3, <4>2, <4>3, DroppedFollows
      <3> QED BY <3>2, <3>3
    <2> QED BY <1>13, <2>1, <2>2 DEF BlocksFollow
  <1>25. ClassesFollow(t, g)
    <2>1. f[default_class].st = "linked" BY <1>3, DefaultIsNoName
    <2> QED BY <1>3, <1>13, <2>1 DEF ClassesFollow
  <1>26. BlocksLinked(t, g)
    <2>1. ASSUME NEW x \in Auths PROVE f[au[<<x, g>>].class].st = "linked"
      <3> DEFINE b == <<x, g>>
      <3>1. b \in BlockIds /\ b[2] = g BY DEF BlockIds
      <3> HIDE DEF b
      <3>2. au[b].class = ka(b) BY <1>6, <1>8, <1>9, <3>1
      <3> QED BY <1>6, <3>2 DEF b
    <2>2. sc[g].class = kc BY <1>7, <1>8, <1>9
    <2> QED BY <1>7, <1>13, <2>1, <2>2 DEF BlocksLinked
  <1>27. Sound(t, g) BY <1>14, <1>22, <1>23, <1>24, <1>25, <1>26 DEF Sound, Kept
  <1> QED BY <1>13, <1>20, <1>27 DEF t, f, a

-----------------------------------------------------------------------------
(* ClassesHeld.                                                             *)

LimitsInv == generation \in Generations /\ config \in Configs /\ Sound(Now, generation)

\* Before the first configuration file.
Blank(cn) ==
  State([k \in ClassIds |-> IF k = default_class THEN initclass ELSE NoClass],
        [b \in BlockIds \cup {Nobody} |-> NoBlock],
        [g \in Generations \cup {-1} |-> NoBlock], cn)

LEMMA BlankKept == Kept(Blank([c \in Clients |-> NoConn]), -1)
  <1> DEFINE s == Blank([c \in Clients |-> NoConn])
             d == initclass
  <1>1. d \in ClassRec /\ d.st = "linked" /\ d.max = 1 /\ d.total = 0
    BY EmptyTrie DEF initclass, ClassRec
  <1>2. NoBlock \in BlockRec /\ NoBlock.st = "none" /\ NoBlock.users = 0
    BY DefaultIsNoName DEF NoBlock, BlockRec
  <1>3. NoConn \in ConnRec /\ NoConn.conf = Nobody /\ NoConn.sconf = -1 BY DEF NoConn, ConnRec
  <1>4. /\ s.classes = [k \in ClassIds |-> IF k = default_class THEN d ELSE NoClass]
        /\ s.auths = [b \in BlockIds \cup {Nobody} |-> NoBlock]
        /\ s.connects = [g \in Generations \cup {-1} |-> NoBlock]
        /\ s.conns = [c \in Clients |-> NoConn]
    <2>1. s = State([k \in ClassIds |-> IF k = default_class THEN d ELSE NoClass],
                    [b \in BlockIds \cup {Nobody} |-> NoBlock],
                    [g \in Generations \cup {-1} |-> NoBlock], [c \in Clients |-> NoConn])
      BY Zenon DEF Blank
    <2> HIDE DEF s, d
    <2> QED BY <2>1, StateIs
  <1> HIDE DEF s, d
  <1>5. TypesOK(s) BY <1>1, <1>2, <1>3, <1>4, NoClassIs DEF TypesOK
  <1>6. /\ \A b \in BlockIds : HoldersOf(s, b) = {}
        /\ \A h \in Generations : LinksOf(s, h) = {}
        /\ \A k : AttachedIn(s, k) = {} /\ LinkedIn(s, k) = {}
    BY <1>3, <1>4, NobodyIsNoBlock DEF HoldersOf, LinksOf, AttachedIn, LinkedIn
  <1>7. Cardinality({}) = 0 BY FS_EmptySet
  <1>8. BlocksCounted(s) BY <1>2, <1>4, <1>6, <1>7 DEF BlocksCounted
  <1>9. ClassesCounted(s)
    <2>1. \A k \in ClassIds : s.classes[k].total = 0 BY <1>1, <1>4, NoClassIs
    <2>2. \A k : Cardinality(AttachedIn(s, k)) = 0 /\ Cardinality(LinkedIn(s, k)) = 0
      BY <1>6, <1>7
    <2> QED BY <2>1, <2>2 DEF ClassesCounted
  <1>10. BlocksFollow(s, -1)
    <2>1. \A b \in BlockIds : b[2] \in Generations BY DEF BlockIds
    <2>2. \A h \in Generations : h > -1 /\ ~(h = -1) /\ ~(h < -1) BY DEF Generations
    <2> QED BY <1>2, <1>4, <2>1, <2>2 DEF BlocksFollow, Follows
  <1>11. ClassesFollow(s, -1)
    <2>1. \A k \in ClassNames \X Generations : k \in ClassIds /\ k # default_class
      BY NamesFree DEF ClassIds, default_class
    <2>2. \A k \in ClassIds : ClassFollows(s.classes[k])
      BY <1>1, <1>4, NoClassIs DEF ClassFollows
    <2> QED BY <1>1, <1>4, <2>1, <2>2, NoClassIs, DefaultIsNoName DEF ClassesFollow
  <1> QED BY <1>5, <1>8, <1>9, <1>10, <1>11 DEF Kept, s

LEMMA NowIs == /\ Now.classes = classes /\ Now.auths = auths
               /\ Now.connects = connects /\ Now.conns = conns
  BY DEF Now, State

\* After a step that commits t, the shared state has the fields of t.
LEMMA CommitSound ==
    ASSUME NEW t, NEW g, Sound(t, g), Commit(t)
    PROVE  Sound(Now', g)
  <1>1. /\ Now'.classes = t.classes /\ Now'.auths = t.auths
        /\ Now'.connects = t.connects /\ Now'.conns = t.conns
    BY DEF Now, State, Commit
  <1> DEFINE n == Now'
  <1> HIDE DEF n
  <1>2. /\ n.classes = t.classes /\ n.auths = t.auths
        /\ n.connects = t.connects /\ n.conns = t.conns
    BY <1>1 DEF n
  <1>3. Sound(n, g)
    BY <1>2 DEF Sound, Kept, TypesOK, BlocksCounted, ClassesCounted, BlocksFollow, ClassesFollow,
                BlocksLinked, HoldersOf, LinksOf, AttachedIn, LinkedIn
  <1> QED BY <1>3 DEF n

LEMMA LimitsStart == LimitsInit => LimitsInv
  <1> SUFFICES ASSUME LimitsInit PROVE LimitsInv
    OBVIOUS
  <1> DEFINE b == Blank(conns)
             s == read_conf(b, config, 0)
  <1>1. Kept(b, -1) BY BlankKept DEF LimitsInit
  <1>2. 0 \in Generations /\ config \in Configs /\ 0 - 1 = -1
    BY ClientsHaveAddresses DEF Generations, LimitsInit
  <1>3. b.conns = conns BY StateIs DEF Blank
  <1>4. classes = s.classes /\ auths = s.auths /\ connects = s.connects
    BY Zenon DEF LimitsInit, Blank, State, BlockIds
  <1> HIDE DEF b
  <1>5. Sound(s, 0) /\ s.conns = b.conns BY <1>1, <1>2, ReadSound
  <1> HIDE DEF s
  <1> DEFINE n == Now
  <1>6. n.classes = s.classes /\ n.auths = s.auths /\ n.connects = s.connects /\ n.conns = s.conns
    BY <1>3, <1>4, <1>5, NowIs
  <1> HIDE DEF n
  <1>7. Sound(n, 0)
    BY <1>5, <1>6 DEF Sound, Kept, TypesOK, BlocksCounted, ClassesCounted, BlocksFollow, ClassesFollow,
                      BlocksLinked, HoldersOf, LinksOf, AttachedIn, LinkedIn
  <1> QED BY <1>2, <1>7 DEF LimitsInv, LimitsInit, n

LEMMA LimitsStep == LimitsInv /\ [LimitsNext]_limitVars => LimitsInv'
  <1> SUFFICES ASSUME LimitsInv, [LimitsNext]_limitVars PROVE LimitsInv'
    OBVIOUS
  <1> DEFINE n == Now
             g == generation
  <1>1. g \in Generations /\ config \in Configs /\ Sound(n, g) BY DEF LimitsInv
  <1>2. n.conns = conns BY NowIs
  <1> SUFFICES generation' \in Generations /\ config' \in Configs /\ Sound(Now', generation')
    BY DEF LimitsInv
  <1>3. ASSUME UNCHANGED limitVars
        PROVE  generation' \in Generations /\ config' \in Configs /\ Sound(Now', generation')
    <2>1. Now' = Now BY <1>3 DEF Now, State, limitVars
    <2> QED BY <1>1, <1>3, <2>1 DEF limitVars
  <1>4. ASSUME NEW c \in Clients, NEW st \in {"gone", "unknown", "user", "remote", "server"},
               conns' = [conns EXCEPT ![c] = Being(@, st)], UNCHANGED <<classes, auths, connects>>
        PROVE  Sound(Now', g)
    <2> DEFINE t == In(n, c, st)
    <2>1. Commit(t)
      BY <1>2, <1>4, NowIs DEF In, Turned, State, Commit
    <2> HIDE DEF n
    <2>2. Sound(t, g) BY ZenonT(40), <1>1, InSound
    <2> HIDE DEF t, g
    <2> QED BY <2>1, <2>2, CommitSound
  <1>5. ASSUME NEW c \in Clients, add_connection(c)
        PROVE  generation' \in Generations /\ config' \in Configs /\ Sound(Now', generation')
    <2>1. Sound(Now', g) BY <1>4, <1>5 DEF add_connection
    <2> QED BY <1>1, <1>5, <2>1 DEF add_connection
  <1>6. ASSUME NEW c \in Clients, register_local_user(c)
        PROVE  generation' \in Generations /\ config' \in Configs /\ Sound(Now', generation')
    <2>1. PICK a \in Auths :
            LET s == attach_iline(n, c, <<a, g>>)
            IN  Commit(In(s, c, "user")) \/ Commit(close_connection(s, c))
      BY <1>6 DEF register_local_user
    <2> DEFINE s == attach_iline(n, c, <<a, g>>)
    <2>2. s = n \/ s = attach_conf(n, c, <<a, g>>) BY DEF attach_iline
    <2>3. generation' = g /\ config' = config BY <1>6 DEF register_local_user
    <2>4. Commit(In(s, c, "user")) \/ Commit(close_connection(s, c)) BY <2>1
    <2> HIDE DEF n, s, g
    <2>5. Sound(s, g) BY <1>1, <2>2, AttachSound
    <2>6. Sound(In(s, c, "user"), g) BY <1>1, <2>5, InSound
    <2>7. Sound(close_connection(s, c), g) BY <1>1, <2>5, CloseSound
    <2>8. Sound(Now', g) BY <2>4, <2>6, <2>7, CommitSound
    <2> QED BY <1>1, <2>3, <2>8
  <1>7. ASSUME NEW c \in Clients, register_client(c)
        PROVE  generation' \in Generations /\ config' \in Configs /\ Sound(Now', generation')
    <2>1. Sound(Now', g) BY <1>4, <1>7 DEF register_client
    <2> QED BY <1>1, <1>7, <2>1 DEF register_client
  <1>8. ASSUME NEW c \in Clients, NEW st \in {"gone", "unknown", "user", "remote", "server"},
               Commit(attach_server_conf(In(n, c, st), c, g))
        PROVE  Sound(Now', g)
    <2> DEFINE m == In(n, c, st)
    <2> HIDE DEF n
    <2>1. Sound(m, g) BY ZenonT(40), <1>1, InSound
    <2> HIDE DEF m
    <2>2. Sound(attach_server_conf(m, c, g), g) BY <1>1, <2>1, AttachServerSound
    <2>3. Commit(attach_server_conf(m, c, g)) BY <1>8 DEF m, n
    <2> HIDE DEF g
    <2> QED BY <2>2, <2>3, CommitSound
  <1>9. ASSUME NEW c \in Clients, serv_connect(c)
        PROVE  generation' \in Generations /\ config' \in Configs /\ Sound(Now', generation')
    <2>1. Commit(attach_server_conf(In(n, c, "unknown"), c, g)) /\ generation' = g /\ config' = config
      BY <1>9 DEF serv_connect
    <2> HIDE DEF g
    <2>2. Sound(Now', g) BY <1>8, <2>1
    <2> QED BY <1>1, <2>1, <2>2
  <1>10. ASSUME NEW c \in Clients, check_server(c)
         PROVE  generation' \in Generations /\ config' \in Configs /\ Sound(Now', generation')
    <2>1. Commit(attach_server_conf(In(n, c, "server"), c, g)) /\ generation' = g /\ config' = config
      BY <1>10 DEF check_server
    <2> HIDE DEF g
    <2>2. Sound(Now', g) BY <1>8, <2>1
    <2> QED BY <1>1, <2>1, <2>2
  <1>11. ASSUME NEW c \in Clients, exit_client(c)
         PROVE  generation' \in Generations /\ config' \in Configs /\ Sound(Now', generation')
    <2>1. Commit(close_connection(n, c)) /\ generation' = g /\ config' = config
      BY <1>11 DEF exit_client
    <2> HIDE DEF g, n
    <2>2. Sound(close_connection(n, c), g) BY <1>1, CloseSound
    <2>3. Sound(Now', g) BY <2>1, <2>2, CommitSound
    <2> QED BY <1>1, <2>1, <2>3
  <1>12. ASSUME NEW file \in Configs, rehash(file)
         PROVE  generation' \in Generations /\ config' \in Configs /\ Sound(Now', generation')
    <2> DEFINE h == generation + 1
    <2>1. /\ Commit(read_conf(n, file, h)) /\ generation' = h /\ config' = file
          /\ h \in Generations /\ h - 1 = g
      BY <1>1, <1>12, ClientsHaveAddresses DEF rehash, Generations
    <2> HIDE DEF g, n, h
    <2>2. Kept(n, h - 1) BY <1>1, <2>1 DEF Sound
    <2>3. Sound(read_conf(n, file, h), h) BY <2>1, <2>2, ReadSound
    <2>4. Sound(Now', h) BY <2>1, <2>3, CommitSound
    <2> QED BY <2>1, <2>4
  <1> QED
    BY <1>3, <1>5, <1>6, <1>7, <1>9, <1>10, <1>11, <1>12 DEF LimitsNext

LEMMA SoundHolds ==
    ASSUME LimitsInv
    PROVE  ClassesHeld
  <1> DEFINE n == Now
             g == generation
  <1>1. g \in Generations /\ g \in Int /\ Kept(n, g) BY DEF LimitsInv, Sound, Generations
  <1>2. n.classes = classes /\ n.auths = auths /\ n.connects = connects /\ n.conns = conns
    BY NowIs
  <1> HIDE DEF n, g
  <1>3. ASSUME NEW c \in Clients
        PROVE  /\ conns[c].conf # Nobody => auths[conns[c].conf].st \in {"legal", "illegal"}
               /\ conns[c].sconf # -1 => connects[conns[c].sconf].st \in {"legal", "illegal"}
    <2>1. n.conns[c].conf # Nobody => n.auths[n.conns[c].conf].st \in {"legal", "illegal"}
      BY <1>1, HolderCounted
    <2>2. n.conns[c].sconf # -1 => n.connects[n.conns[c].sconf].st \in {"legal", "illegal"}
      BY <1>1, UserCounted
    <2> QED BY <1>2, <2>1, <2>2
  <1>4. ASSUME NEW k \in ClassIds
        PROVE  /\ Held(k) => classes[k].st \in {"linked", "unlinked"}
               /\ classes[k].st = "unlinked" => Held(k)
    <2>1. AttachedTo(k) = AttachedIn(n, k) /\ ServersOf(k) = LinkedIn(n, k)
      BY <1>2 DEF AttachedTo, ServersOf, AttachedIn, LinkedIn, ClassOf
    <2>2. classes[k].total = Cardinality(AttachedIn(n, k)) + Cardinality(LinkedIn(n, k))
      BY <1>1, <1>2 DEF Kept, ClassesCounted
    <2>3. ClassFollows(classes[k]) /\ classes[k] \in ClassRec
      BY <1>1, <1>2 DEF Kept, ClassesFollow, TypesOK
    <2>4. Held(k) <=> classes[k].total # 0
      <3>1. Held(k) <=> AttachedIn(n, k) # {} \/ LinkedIn(n, k) # {} BY <2>1 DEF Held
      <3>2. AttachedIn(n, k) # {} <=> Cardinality(AttachedIn(n, k)) # 0 BY SetsFinite, FS_EmptySet
      <3>3. LinkedIn(n, k) # {} <=> Cardinality(LinkedIn(n, k)) # 0 BY SetsFinite, FS_EmptySet
      <3> QED BY <2>2, <3>1, <3>2, <3>3, SetsFinite
    <2>5. classes[k].st \in {"none", "linked", "unlinked", "freed"} BY <2>3 DEF ClassRec
    <2> QED BY <2>3, <2>4, <2>5 DEF ClassFollows
  <1> QED BY <1>3, <1>4 DEF ClassesHeld

\* Whatever the configuration files change, in any order with connections that
\* come and go: nobody is left with a freed block or class, and a class that no
\* file has any more is freed with its last user (detach_conf(),
\* detach_server_conf(), clear_out_old_conf(), check_class()).
THEOREM ClassesHeldAlways == LimitsSpec => []ClassesHeld
  <1>1. LimitsInv => ClassesHeld BY SoundHolds
  <1> QED BY LimitsStart, LimitsStep, <1>1, PTL DEF LimitsSpec

-----------------------------------------------------------------------------
(* Whom the tries count.                                                    *)

\* The clients of S that the node n of a trie ought to count, and a trie that
\* counts them all.
InNode(tree, S, n) ==
  {c \in S : Covering(tree, Ip[c]) # {} /\ rb_match_ip(tree, Ip[c]) = n}

Covers(tree, S) ==
  /\ \A c \in S : Covering(tree, Ip[c]) # {}
  /\ \A n \in DOMAIN tree : Cardinality(InNode(tree, S, n)) <= tree[n]

LEMMA SizeIs ==
    ASSUME NEW S \in SUBSET Clients
    PROVE  IsFiniteSet(S) /\ Cardinality(S) \in Nat
  BY ClientsHaveAddresses, FS_Subset, FS_CardinalityType

LEMMA SizeLess ==
    ASSUME NEW S \in SUBSET Clients, NEW T \in SUBSET S
    PROVE  Cardinality(T) <= Cardinality(S) /\ Cardinality(T) \in Nat /\ Cardinality(S) \in Nat
  <1>1. T \in SUBSET Clients OBVIOUS
  <1> QED BY <1>1, SizeIs, FS_Subset

LEMMA InNodeIs ==
    ASSUME NEW tree, NEW S \in SUBSET Clients, NEW n
    PROVE  InNode(tree, S, n) \in SUBSET Clients /\ InNode(tree, S, n) \subseteq S
  BY DEF InNode

LEMMA TrieAt ==
    ASSUME NEW tree, Trie(tree), NEW n \in DOMAIN tree
    PROVE  tree[n] \in Nat /\ tree[n] > 0 /\ n \in Nodes
  BY DEF Trie

LEMMA CoversLess ==
    ASSUME NEW tree, Trie(tree), NEW S \in SUBSET Clients, NEW T \in SUBSET S, Covers(tree, S)
    PROVE  Covers(tree, T)
  <1>1. ASSUME NEW n \in DOMAIN tree PROVE Cardinality(InNode(tree, T, n)) <= tree[n]
    <2>1. InNode(tree, T, n) \in SUBSET InNode(tree, S, n) BY DEF InNode
    <2>2. InNode(tree, S, n) \in SUBSET Clients BY InNodeIs
    <2>3. Cardinality(InNode(tree, S, n)) <= tree[n] BY DEF Covers
    <2> QED BY <2>1, <2>2, <2>3, SizeLess, TrieAt
  <1> QED BY <1>1 DEF Covers

\* The place of an address in a trie that differs in nodes that do not matter to it.
LEMMA MatchKept ==
    ASSUME NEW tree, NEW t, NEW ip, Trie(tree), Covering(tree, ip) # {},
           rb_match_ip(tree, ip) \in DOMAIN t,
           \A n \in Covering(t, ip) : n \in DOMAIN tree \/ rb_match_ip(tree, ip) \subseteq n
    PROVE  Covering(t, ip) # {} /\ rb_match_ip(t, ip) = rb_match_ip(tree, ip)
  <1> DEFINE m == rb_match_ip(tree, ip)
  <1>1. m \in Covering(tree, ip) /\ \A n \in Covering(tree, ip) : m \subseteq n BY MatchIs
  <1> HIDE DEF m
  <1>2. m \in Covering(t, ip) BY <1>1 DEF Covering, m
  <1>3. \A n \in Covering(t, ip) : m \subseteq n
    <2> SUFFICES ASSUME NEW n \in Covering(t, ip) PROVE m \subseteq n
      OBVIOUS
    <2>1. CASE n \in DOMAIN tree
      <3>1. n \in Covering(tree, ip) BY <2>1 DEF Covering
      <3> QED BY <1>1, <3>1
    <2>2. CASE n \notin DOMAIN tree BY <2>2 DEF m
    <2> QED BY <2>1, <2>2
  <1>4. rb_match_ip(t, ip) = m BY <1>2, <1>3, MatchUnique
  <1> QED BY <1>2, <1>4 DEF m

\* One client more is counted.
LEMMA CoversGrow ==
    ASSUME NEW tree, Trie(tree), NEW S \in SUBSET Clients, Covers(tree, S),
           NEW c \in Clients, NEW bits \in DOMAIN Cover
    PROVE  Covers(Grow(tree, Ip[c], bits), S \cup {c})
  <1> DEFINE ip == Ip[c]
             t == Grow(tree, ip, bits)
             r == rb_match_ip(tree, ip)
             x == Cover[bits][ip]
             T == S \cup {c}
  <1>1. ip \in Ips BY ClientsHaveAddresses
  <1>2. T \in SUBSET Clients OBVIOUS
  <1>3. CASE Covering(tree, ip) # {}
    <2>1. /\ Trie(t) /\ DOMAIN t = DOMAIN tree
          /\ \A n \in DOMAIN tree : t[n] = IF n = r THEN tree[n] + 1 ELSE tree[n]
      BY <1>3, GrowCovered
    <2> HIDE DEF t
    <2>2. \A i : Covering(t, i) = Covering(tree, i) /\ rb_match_ip(t, i) = rb_match_ip(tree, i)
      <3>1. \A i : Covering(t, i) = Covering(tree, i) BY <2>1 DEF Covering
      <3> QED BY <3>1 DEF rb_match_ip
    <2>3. \A d \in T : Covering(t, Ip[d]) # {} BY <1>3, <2>2 DEF Covers
    <2>4. ASSUME NEW n \in DOMAIN tree PROVE Cardinality(InNode(t, T, n)) <= t[n]
      <3> DEFINE A == InNode(tree, S, n)
                 B == InNode(t, T, n)
      <3>1. A \in SUBSET Clients /\ B \in SUBSET Clients BY <1>2, InNodeIs
      <3>2. Cardinality(A) <= tree[n] BY DEF Covers
      <3>3. tree[n] \in Nat BY TrieAt
      <3>4. CASE n = r
        <4>1. B \subseteq A \cup {c} BY <2>2 DEF InNode
        <4> HIDE DEF A, B
        <4>2. IsFiniteSet(A) /\ Cardinality(A) \in Nat BY <3>1, SizeIs
        <4>3. A \cup {c} \in SUBSET Clients BY <3>1
        <4>4. Cardinality(A \cup {c}) = IF c \in A THEN Cardinality(A) ELSE Cardinality(A) + 1
          BY <4>2, FS_AddElement
        <4>5. Cardinality(B) <= Cardinality(A \cup {c}) /\ Cardinality(B) \in Nat
              /\ Cardinality(A \cup {c}) \in Nat
          BY <4>1, <4>3, SizeLess
        <4>6. t[n] = tree[n] + 1 BY <2>1, <3>4
        <4>7. Cardinality(B) <= t[n] BY <3>2, <3>3, <4>2, <4>4, <4>5, <4>6
        <4> QED BY <4>7 DEF B
      <3>5. CASE n # r
        <4>1. B \subseteq A BY <2>2, <3>5 DEF InNode
        <4>2. t[n] = tree[n] BY <2>1, <3>5
        <4> HIDE DEF A, B
        <4>3. Cardinality(B) <= t[n] BY <3>1, <3>2, <3>3, <4>1, <4>2, SizeLess
        <4> QED BY <4>3 DEF B
      <3> QED BY <3>4, <3>5
    <2> QED BY <2>1, <2>3, <2>4 DEF Covers, t
  <1>4. CASE Covering(tree, ip) = {}
    <2>1. /\ Trie(t) /\ DOMAIN t = DOMAIN tree \cup {x} /\ x \notin DOMAIN tree
          /\ \A n \in DOMAIN tree : t[n] = tree[n]
          /\ t[x] = 1
      BY <1>1, <1>4, GrowNew
    <2>2. x \in Nodes /\ ip \in x BY <1>1, BlocksNest DEF Nodes
    <2> HIDE DEF t, x
    <2>3. ASSUME NEW d \in S
          PROVE  /\ Covering(t, Ip[d]) # {} /\ rb_match_ip(t, Ip[d]) = rb_match_ip(tree, Ip[d])
                 /\ rb_match_ip(tree, Ip[d]) \in DOMAIN tree
      <3> DEFINE m == rb_match_ip(tree, Ip[d])
      <3>1. Covering(tree, Ip[d]) # {} BY DEF Covers
      <3>2. m \in Covering(tree, Ip[d]) BY <3>1, MatchIs
      <3> HIDE DEF m
      <3>3. m \in DOMAIN tree /\ Ip[d] \in m /\ m \in Nodes BY <3>2, TrieAt DEF Covering
      <3>4. ip \notin m BY <1>4, <3>3 DEF Covering
      <3>5. Ip[d] \in x => m \subseteq x
        <4>1. ~(x \subseteq m) BY <2>2, <3>4
        <4> QED BY <2>2, <3>3, <4>1, NodesNest
      <3>6. \A n \in Covering(t, Ip[d]) : n \in DOMAIN tree \/ m \subseteq n
        BY <2>1, <3>5 DEF Covering
      <3> QED BY <2>1, <3>1, <3>3, <3>6, MatchKept DEF m
    <2>4. Covering(t, ip) = {x}
      <3>1. \A n \in DOMAIN tree : ip \notin n BY <1>4 DEF Covering
      <3> QED BY <2>1, <2>2, <3>1 DEF Covering
    <2>5. rb_match_ip(t, ip) = x BY <2>4, MatchUnique
    <2>6. \A d \in T : Covering(t, Ip[d]) # {} BY <2>3, <2>4
    <2>7. ASSUME NEW n \in DOMAIN tree PROVE Cardinality(InNode(t, T, n)) <= t[n]
      <3>1. InNode(t, T, n) \in SUBSET InNode(tree, S, n)
        BY <2>1, <2>3, <2>5 DEF InNode, Covers
      <3>2. Cardinality(InNode(tree, S, n)) <= tree[n] BY DEF Covers
      <3>3. InNode(tree, S, n) \in SUBSET Clients BY InNodeIs
      <3> QED BY <2>1, <3>1, <3>2, <3>3, SizeLess, TrieAt
    <2>8. Cardinality(InNode(t, T, x)) <= t[x]
      <3>1. InNode(t, T, x) \in SUBSET {c} BY <2>1, <2>3 DEF InNode
      <3>2. Cardinality({c}) = 1 BY FS_Singleton
      <3>3. {c} \in SUBSET Clients OBVIOUS
      <3> QED BY <2>1, <3>1, <3>2, <3>3, SizeLess
    <2> QED BY <2>1, <2>6, <2>7, <2>8 DEF Covers, t
  <1> QED BY <1>3, <1>4

\* One client less is counted.
LEMMA CoversShrink ==
    ASSUME NEW tree, Trie(tree), NEW S \in SUBSET Clients, Covers(tree, S), NEW c \in S
    PROVE  Covers(Shrink(tree, Ip[c]), S \ {c})
  <1> DEFINE ip == Ip[c]
             t == Shrink(tree, ip)
             r == rb_match_ip(tree, ip)
             T == S \ {c}
             A == InNode(tree, S, r)
  <1>1. Covering(tree, ip) # {} BY DEF Covers
  <1>2. /\ Trie(t) /\ r \in DOMAIN tree
        /\ DOMAIN t = IF tree[r] = 1 THEN DOMAIN tree \ {r} ELSE DOMAIN tree
        /\ \A n \in DOMAIN t : t[n] = IF n = r THEN tree[n] - 1 ELSE tree[n]
    BY <1>1, ShrinkIs
  <1>3. c \in A BY <1>1 DEF InNode
  <1>4. A \in SUBSET Clients BY InNodeIs
  <1>5. Cardinality(A) <= tree[r] BY <1>2 DEF Covers
  <1>6. r = rb_match_ip(tree, Ip[c]) OBVIOUS
  <1> HIDE DEF t, r
  <1>7. ASSUME NEW d \in T
        PROVE  Covering(t, Ip[d]) # {} /\ rb_match_ip(t, Ip[d]) = rb_match_ip(tree, Ip[d])
    <2> DEFINE m == rb_match_ip(tree, Ip[d])
    <2>1. Covering(tree, Ip[d]) # {} BY DEF Covers
    <2>2. m \in DOMAIN tree BY <2>1, MatchIs DEF Covering
    <2>3. tree[r] = 1 => m # r
      <3> SUFFICES ASSUME tree[r] = 1, m = r PROVE FALSE
        OBVIOUS
      <3>1. {c, d} \in SUBSET A BY <1>3, <2>1 DEF InNode
      <3>2. Cardinality({c, d}) = 2
        <4>1. Cardinality({c}) = 1 /\ IsFiniteSet({c}) BY FS_Singleton
        <4>2. d \notin {c} OBVIOUS
        <4>3. Cardinality({c} \cup {d}) = Cardinality({c}) + 1 BY <4>1, <4>2, FS_AddElement
        <4>4. {c} \cup {d} = {c, d} OBVIOUS
        <4> QED BY <4>1, <4>3, <4>4
      <3> HIDE DEF A
      <3> QED BY <1>4, <1>5, <3>1, <3>2, SizeLess
    <2>4. m \in DOMAIN t BY <1>2, <2>2, <2>3
    <2>5. \A n \in Covering(t, Ip[d]) : n \in DOMAIN tree BY <1>2 DEF Covering
    <2> QED BY <2>1, <2>4, <2>5, MatchKept
  <1>8. ASSUME NEW n \in DOMAIN t PROVE Cardinality(InNode(t, T, n)) <= t[n]
    <2> DEFINE B == InNode(t, T, n)
               C == InNode(tree, S, n)
    <2>1. B \subseteq C \ {c} BY <1>7 DEF InNode, Covers
    <2>2. C \in SUBSET Clients /\ C \ {c} \in SUBSET Clients BY InNodeIs
    <2>3. n \in DOMAIN tree BY <1>2
    <2>4. Cardinality(C) <= tree[n] /\ tree[n] \in Nat BY <2>3, TrieAt DEF Covers
    <2>5. n = r => C = A OBVIOUS
    <2> HIDE DEF B, C, A
    <2>6. /\ Cardinality(B) <= Cardinality(C \ {c}) /\ Cardinality(C \ {c}) <= Cardinality(C)
          /\ Cardinality(B) \in Nat /\ Cardinality(C) \in Nat /\ Cardinality(C \ {c}) \in Nat
      <3>1. B \in SUBSET (C \ {c}) /\ C \ {c} \in SUBSET C BY <2>1
      <3> QED BY <2>2, <3>1, SizeLess
    <2>7. CASE n = r
      <3>1. IsFiniteSet(C) BY <2>2, SizeIs
      <3>2. Cardinality(C \ {c}) = Cardinality(C) - 1 BY <1>3, <2>5, <2>7, <3>1, FS_RemoveElement
      <3>3. t[n] = tree[n] - 1 BY <1>2, <2>7
      <3>4. Cardinality(B) <= t[n] BY <2>4, <2>6, <3>2, <3>3
      <3> QED BY <3>4 DEF B
    <2>8. CASE n # r
      <3>1. t[n] = tree[n] BY <1>2, <2>8
      <3>2. Cardinality(B) <= t[n] BY <2>4, <2>6, <3>1
      <3> QED BY <3>2 DEF B
    <2> QED BY <2>7, <2>8
  <1> QED BY <1>7, <1>8 DEF Covers, t

\* The tries of the classes that are limited count whoever is attached, and
\* a class is limited as the files say.
Tracked(s) ==
  \A k \in ClassIds :
    Limited(s.classes[k]) => Covers(s.classes[k].limits, AttachedIn(s, k))

Settled(s) ==
  \A k \in ClassIds : \A file \in Configs :
    s.classes[k].st = "linked" /\ k[1] \in DOMAIN file.class
    => (Limited(s.classes[k]) <=> Limited(file.class[k[1]]))

\* Only a user has an auth{} block.
OnlyUsers(s) == \A c \in Clients : s.conns[c].conf # Nobody => s.conns[c].st = "user"

Measured(s) == Tracked(s) /\ Settled(s) /\ OnlyUsers(s)

LEMMA AttachedSet == \A s, k : AttachedIn(s, k) \in SUBSET Clients
  BY DEF AttachedIn

LEMMA ClassTrie ==
    ASSUME NEW s, TypesOK(s), NEW k \in ClassIds
    PROVE  s.classes[k] \in ClassRec /\ Trie(s.classes[k].limits)
  <1>1. s.classes[k] \in ClassRec BY DEF TypesOK
  <1>2. s.classes[k].limits \in Tries BY <1>1 DEF ClassRec
  <1> QED BY <1>1, <1>2, TriesAre

\* Nobody joins a class, and the classes keep what they count.
LEMMA TrackedStays ==
    ASSUME NEW s, NEW t, TypesOK(s), Tracked(s), Settled(s),
           \A x \in ClassIds : /\ t.classes[x].amount = s.classes[x].amount
                               /\ t.classes[x].bits = s.classes[x].bits
                               /\ t.classes[x].limits = s.classes[x].limits,
           \A x \in ClassIds : t.classes[x].st = "linked" => s.classes[x].st = "linked",
           \A x \in ClassIds : AttachedIn(t, x) \subseteq AttachedIn(s, x)
    PROVE  Tracked(t) /\ Settled(t)
  <1>1. \A x \in ClassIds : Limited(t.classes[x]) <=> Limited(s.classes[x]) BY DEF Limited
  <1>2. Tracked(t)
    <2> SUFFICES ASSUME NEW k \in ClassIds, Limited(t.classes[k])
                 PROVE  Covers(t.classes[k].limits, AttachedIn(t, k))
      BY DEF Tracked
    <2>1. Covers(s.classes[k].limits, AttachedIn(s, k)) BY <1>1 DEF Tracked
    <2>2. AttachedIn(t, k) \in SUBSET AttachedIn(s, k) OBVIOUS
    <2>3. Covers(s.classes[k].limits, AttachedIn(t, k))
      BY <2>1, <2>2, AttachedSet, ClassTrie, CoversLess
    <2> QED BY <2>3
  <1>3. Settled(t) BY <1>1 DEF Settled
  <1> QED BY <1>2, <1>3

LEMMA DetachMeasured ==
    ASSUME NEW s, NEW g \in Generations, Sound(s, g), Tracked(s), Settled(s), NEW c \in Clients
    PROVE  Tracked(detach_conf(s, c)) /\ Settled(detach_conf(s, c))
  <1> DEFINE b == s.conns[c].conf
             k == s.auths[b].class
             t == detach_conf(s, c)
  <1>1. Kept(s, g) /\ TypesOK(s) /\ g \in Int BY DEF Sound, Kept, Generations
  <1>2. CASE b = Nobody
    <2>1. t = s BY <1>2 DEF detach_conf
    <2> HIDE DEF t
    <2> QED BY <2>1 DEF t
  <1>3. CASE b # Nobody
    <2>1. /\ k \in ClassIds /\ s.classes[k] \in ClassRec /\ c \in AttachedIn(s, k)
          /\ s.auths[b].users > 0
      BY <1>1, <1>3, HolderCounted
    <2>2. /\ TypesOK(t) /\ SameBut(s, t, c)
          /\ t.conns[c].conf = Nobody /\ t.conns[c].sconf = s.conns[c].sconf
          /\ t.classes[k] = ClassLeft(s.classes[k], Ip[c])
          /\ \A x \in ClassIds \ {k} : t.classes[x] = s.classes[x]
      BY <1>1, <1>3, <2>1, DetachIs
    <2> HIDE DEF t
    <2>3. \A x : AttachedIn(t, x) = AttachedIn(s, x) \ {c}
      <3> HIDE DEF b, k
      <3> QED BY <1>1, <2>2, SetsLeave
    <2> HIDE DEF b, k
    <2>4. /\ t.classes[k].amount = s.classes[k].amount /\ t.classes[k].bits = s.classes[k].bits
          /\ t.classes[k].limits = IF Limited(s.classes[k]) THEN Shrink(s.classes[k].limits, Ip[c])
                                   ELSE s.classes[k].limits
          /\ t.classes[k].st = "linked" => s.classes[k].st = "linked"
      BY <2>1, <2>2, ClassLeftIs
    <2>5. \A x \in ClassIds : Limited(t.classes[x]) <=> Limited(s.classes[x])
      BY <2>2, <2>4 DEF Limited
    <2>6. ASSUME NEW x \in ClassIds, Limited(t.classes[x])
          PROVE  Covers(t.classes[x].limits, AttachedIn(t, x))
      <3>1. Covers(s.classes[x].limits, AttachedIn(s, x)) /\ Limited(s.classes[x])
        BY <2>5, <2>6 DEF Tracked
      <3>2. Trie(s.classes[x].limits) /\ AttachedIn(s, x) \in SUBSET Clients
        BY <1>1, AttachedSet, ClassTrie
      <3>3. CASE x = k
        <4>1. Covers(Shrink(s.classes[x].limits, Ip[c]), AttachedIn(s, x) \ {c})
          BY <2>1, <3>1, <3>2, <3>3, CoversShrink
        <4> QED BY <2>3, <2>4, <3>1, <3>3, <4>1
      <3>4. CASE x # k
        <4>1. AttachedIn(s, x) \ {c} \in SUBSET AttachedIn(s, x) OBVIOUS
        <4>2. Covers(s.classes[x].limits, AttachedIn(s, x) \ {c})
          BY <3>1, <3>2, <4>1, CoversLess
        <4> QED BY <2>2, <2>3, <3>4, <4>2
      <3> QED BY <3>3, <3>4
    <2>7. Tracked(t) BY <2>6 DEF Tracked
    <2>8. Settled(t) BY <2>2, <2>4, <2>5 DEF Settled
    <2> QED BY <2>7, <2>8 DEF t
  <1> QED BY <1>2, <1>3

\* attach_conf() has counted the address of c.
LEMMA NotedMeasured ==
    ASSUME NEW s, NEW g \in Generations, Sound(s, g), Measured(s), NEW c \in Clients,
           NEW k \in ClassIds
    PROVE  LET t == Noted(s, c, k)
           IN  /\ Measured(t)
               /\ Limited(t.classes[k]) => Covers(t.classes[k].limits, AttachedIn(t, k) \cup {c})
  <1> DEFINE t == Noted(s, c, k)
  <1>1. TypesOK(s) BY DEF Sound, Kept
  <1>2. /\ t.auths = s.auths /\ t.conns = s.conns
        /\ t.classes[k] = add_ip_limit(s.classes[k], Ip[c])
        /\ \A x \in ClassIds \ {k} : t.classes[x] = s.classes[x]
        /\ \A x \in ClassIds : t.classes[x].st = s.classes[x].st
    BY NotedSound
  <1>3. s.classes[k] \in ClassRec /\ Trie(s.classes[k].limits) BY <1>1, ClassTrie
  <1>4. Ip[c] \in Ips BY ClientsHaveAddresses
  <1> HIDE DEF t
  <1>5. /\ t.classes[k].amount = s.classes[k].amount /\ t.classes[k].bits = s.classes[k].bits
        /\ t.classes[k].limits =
             IF Limited(s.classes[k]) THEN Grow(s.classes[k].limits, Ip[c], s.classes[k].bits)
             ELSE s.classes[k].limits
    BY <1>2, <1>3, <1>4, AddIs
  <1>6. \A x \in ClassIds : Limited(t.classes[x]) <=> Limited(s.classes[x])
    BY <1>2, <1>5 DEF Limited
  <1>7. \A x : AttachedIn(t, x) = AttachedIn(s, x) BY <1>2 DEF AttachedIn
  <1>8. Limited(t.classes[k]) => Covers(t.classes[k].limits, AttachedIn(t, k) \cup {c})
    <2> SUFFICES ASSUME Limited(t.classes[k])
                 PROVE  Covers(t.classes[k].limits, AttachedIn(t, k) \cup {c})
      OBVIOUS
    <2>1. Limited(s.classes[k]) /\ Covers(s.classes[k].limits, AttachedIn(s, k))
      BY <1>6 DEF Measured, Tracked
    <2>2. s.classes[k].bits \in DOMAIN Cover BY <1>3, <2>1 DEF Limited, ClassRec
    <2>3. Covers(Grow(s.classes[k].limits, Ip[c], s.classes[k].bits), AttachedIn(s, k) \cup {c})
      BY <1>3, <2>1, <2>2, AttachedSet, CoversGrow
    <2> QED BY <1>5, <1>7, <2>1, <2>3
  <1>9. ASSUME NEW x \in ClassIds, Limited(t.classes[x])
        PROVE  Covers(t.classes[x].limits, AttachedIn(t, x))
    <2>1. CASE x = k
      <3>1. Trie(t.classes[k].limits)
        <4>1. TypesOK(Noted(s, c, k)) BY NotedSound DEF Sound, Kept
        <4> QED BY <4>1, ClassTrie DEF t
      <3>2. AttachedIn(t, k) \cup {c} \in SUBSET Clients
            /\ AttachedIn(t, k) \in SUBSET (AttachedIn(t, k) \cup {c})
        BY AttachedSet
      <3> QED BY <1>8, <1>9, <2>1, <3>1, <3>2, CoversLess
    <2>2. CASE x # k
      BY <1>2, <1>6, <1>7, <1>9, <2>2 DEF Measured, Tracked
    <2> QED BY <2>1, <2>2
  <1>10. Tracked(t) BY <1>9 DEF Tracked
  <1>11. Settled(t) BY <1>2, <1>6 DEF Settled, Measured
  <1>12. OnlyUsers(t) BY <1>2 DEF OnlyUsers, Measured
  <1> QED BY <1>8, <1>10, <1>11, <1>12 DEF Measured, t

\* A connection takes an auth{} block in force.
LEMMA JoinMeasured ==
    ASSUME NEW s, NEW g \in Generations, Sound(s, g), Measured(s), NEW c \in Clients, NEW a \in Auths,
           s.conns[c].conf = Nobody,
           LET k == s.auths[<<a, g>>].class
           IN  Limited(s.classes[k]) => Covers(s.classes[k].limits, AttachedIn(s, k) \cup {c})
    PROVE  LET t == join_conf(s, c, <<a, g>>)
           IN  Sound(t, g) /\ Tracked(t) /\ Settled(t) /\ SameBut(s, t, c)
  <1> DEFINE b == <<a, g>>
             k == s.auths[b].class
             t == join_conf(s, c, b)
  <1>1. TypesOK(s) /\ b \in BlockIds BY DEF Sound, Kept, BlockIds
  <1>2. /\ Sound(t, g) /\ SameBut(s, t, c)
        /\ t.conns[c].conf = b /\ t.conns[c].sconf = s.conns[c].sconf
        /\ \A x \in ClassIds : t.classes[x].limits = s.classes[x].limits
        /\ \A x \in ClassIds : /\ t.classes[x].amount = s.classes[x].amount
                               /\ t.classes[x].bits = s.classes[x].bits
                               /\ t.classes[x].st = s.classes[x].st
    BY JoinSound
  <1> HIDE DEF t
  <1>3. TypesOK(t) BY <1>2 DEF Sound, Kept
  <1>4. \A x : AttachedIn(t, x) = IF x = k THEN AttachedIn(s, x) \cup {c} ELSE AttachedIn(s, x)
    <2> HIDE DEF b
    <2> QED BY <1>1, <1>2, <1>3, SetsJoin
  <1>5. \A x \in ClassIds : Limited(t.classes[x]) <=> Limited(s.classes[x])
    BY <1>2 DEF Limited
  <1>6. ASSUME NEW x \in ClassIds, Limited(t.classes[x])
        PROVE  Covers(t.classes[x].limits, AttachedIn(t, x))
    <2>1. Limited(s.classes[x]) /\ t.classes[x].limits = s.classes[x].limits
      BY <1>2, <1>5, <1>6
    <2>2. Covers(s.classes[x].limits, AttachedIn(s, x)) BY <2>1 DEF Measured, Tracked
    <2>3. x = k => Covers(s.classes[x].limits, AttachedIn(s, x) \cup {c}) BY <2>1
    <2> HIDE DEF k
    <2> QED BY <1>4, <2>1, <2>2, <2>3
  <1>7. Tracked(t) BY <1>6 DEF Tracked
  <1>8. Settled(t) BY <1>2, <1>5 DEF Settled, Measured
  <1> QED BY <1>2, <1>7, <1>8 DEF t

\* A connection changes its state and keeps its blocks.
LEMMA InMeasured ==
    ASSUME NEW s, NEW g \in Generations, Sound(s, g), Tracked(s), Settled(s), NEW c \in Clients,
           NEW st \in {"gone", "unknown", "user", "remote", "server"},
           \A d \in Clients \ {c} : s.conns[d].conf # Nobody => s.conns[d].st = "user",
           s.conns[c].conf # Nobody => st = "user"
    PROVE  LET t == In(s, c, st)
           IN  /\ Sound(t, g) /\ Measured(t) /\ SameBut(s, t, c)
               /\ t.conns[c].st = st /\ t.conns[c].conf = s.conns[c].conf
  <1> DEFINE r == Being(s.conns[c], st)
             t == In(s, c, st)
  <1>1. s.conns[c] \in ConnRec BY ConnTypes DEF Sound, Kept
  <1>2. r \in ConnRec /\ r.st = st /\ r.conf = s.conns[c].conf /\ r.sconf = s.conns[c].sconf
    BY <1>1, BeingIs
  <1>3. t = Turned(s, c, r) BY DEF In
  <1> HIDE DEF r, t
  <1>4. /\ Sound(t, g) /\ SameBut(s, t, c) /\ t.conns[c] = r /\ t.classes = s.classes
    BY <1>2, <1>3, TurnedSound
  <1>5. /\ Sound(t, g) /\ SameBut(s, t, c) /\ t.conns[c].st = st
        /\ t.conns[c].conf = s.conns[c].conf /\ t.conns[c].sconf = s.conns[c].sconf
        /\ t.classes = s.classes
    BY <1>2, <1>4
  <1>6. TypesOK(s) /\ TypesOK(t) BY <1>5 DEF Sound, Kept
  <1>7. \A x : AttachedIn(t, x) = AttachedIn(s, x) BY <1>5, <1>6, SetsStay
  <1>8. Tracked(t) /\ Settled(t) BY <1>5, <1>6, <1>7, TrackedStays
  <1>9. OnlyUsers(t) BY <1>5 DEF OnlyUsers, SameBut
  <1> QED BY <1>5, <1>8, <1>9 DEF Measured, t

\* The same, of a connection that has no auth{} block.
LEMMA TurnMeasured ==
    ASSUME NEW s, NEW g \in Generations, Sound(s, g), Measured(s), NEW c \in Clients,
           NEW st \in {"gone", "unknown", "user", "remote", "server"}, s.conns[c].conf = Nobody
    PROVE  LET t == In(s, c, st)
           IN  /\ Sound(t, g) /\ Measured(t) /\ SameBut(s, t, c)
               /\ t.conns[c].st = st /\ t.conns[c].conf = Nobody
  <1> DEFINE t == In(s, c, st)
  <1>1. /\ Tracked(s) /\ Settled(s)
        /\ \A d \in Clients \ {c} : s.conns[d].conf # Nobody => s.conns[d].st = "user"
        /\ s.conns[c].conf # Nobody => st = "user"
    BY DEF Measured, OnlyUsers
  <1>2. /\ Sound(t, g) /\ Measured(t) /\ SameBut(s, t, c)
        /\ t.conns[c].st = st /\ t.conns[c].conf = s.conns[c].conf
    BY <1>1, InMeasured
  <1> QED BY <1>2

LEMMA ServerMeasured ==
    ASSUME NEW s, NEW g \in Generations, Sound(s, g), Measured(s), NEW c \in Clients
    PROVE  Measured(attach_server_conf(s, c, g))
  <1> DEFINE t == attach_server_conf(s, c, g)
  <1>1. /\ Sound(t, g) /\ t.conns[c].conf = s.conns[c].conf
        /\ t.conns[c].st = s.conns[c].st /\ SameBut(s, t, c)
        /\ \A x \in ClassIds : /\ t.classes[x].amount = s.classes[x].amount
                               /\ t.classes[x].bits = s.classes[x].bits
                               /\ t.classes[x].limits = s.classes[x].limits
        /\ \A x \in ClassIds : t.classes[x].st = "linked" => s.classes[x].st = "linked"
    BY AttachServerSound
  <1> HIDE DEF t
  <1>2. TypesOK(s) /\ TypesOK(t) BY <1>1 DEF Sound, Kept
  <1>3. \A d \in Clients : t.conns[d].conf = s.conns[d].conf /\ t.conns[d].st = s.conns[d].st
    BY <1>1 DEF SameBut
  <1>4. \A x : AttachedIn(t, x) = AttachedIn(s, x)
    <2>1. \A d \in Clients : s.conns[d].conf # Nobody =>
            t.auths[s.conns[d].conf].class = s.auths[s.conns[d].conf].class
      BY <1>1, <1>2, ConnTypes DEF SameBut
    <2> QED BY <1>3, <2>1 DEF AttachedIn
  <1>5. Tracked(t) /\ Settled(t) BY <1>1, <1>2, <1>4, TrackedStays DEF Measured
  <1>6. OnlyUsers(t) BY <1>3 DEF OnlyUsers, Measured
  <1> QED BY <1>5, <1>6 DEF Measured, t

LEMMA CloseMeasured ==
    ASSUME NEW s, NEW g \in Generations, Sound(s, g), Tracked(s), Settled(s), NEW c \in Clients,
           \A d \in Clients \ {c} : s.conns[d].conf # Nobody => s.conns[d].st = "user"
    PROVE  Measured(close_connection(s, c))
  <1> DEFINE m == detach_conf(s, c)
             n == detach_server_conf(m, c)
             t == close_connection(s, c)
  <1>1. Sound(m, g) /\ SameBut(s, m, c) /\ m.conns[c].conf = Nobody BY DetachSound
  <1>2. Tracked(m) /\ Settled(m) BY DetachMeasured
  <1> HIDE DEF m
  <1>3. /\ Sound(n, g) /\ SameBut(m, n, c) /\ n.conns[c].sconf = -1
        /\ n.conns[c].conf = m.conns[c].conf
        /\ \A x \in ClassIds : /\ n.classes[x].amount = m.classes[x].amount
                               /\ n.classes[x].bits = m.classes[x].bits
                               /\ n.classes[x].limits = m.classes[x].limits
        /\ \A x \in ClassIds : n.classes[x].st = "linked" => m.classes[x].st = "linked"
    BY <1>1, DetachServerSound
  <1>4. NoConn \in ConnRec /\ NoConn.conf = Nobody /\ NoConn.sconf = -1 BY DEF NoConn, ConnRec
  <1>5. t = Turned(n, c, NoConn) BY DEF close_connection, m
  <1> HIDE DEF n, t
  <1>6. TypesOK(m) /\ TypesOK(n) BY <1>1, <1>3 DEF Sound, Kept
  <1>7. \A x : AttachedIn(n, x) = AttachedIn(m, x) BY <1>3, <1>6, LinksLeave
  <1>8. Tracked(n) /\ Settled(n) BY <1>2, <1>3, <1>6, <1>7, TrackedStays
  <1>9. Sound(t, g) /\ SameBut(n, t, c) /\ t.conns[c] = NoConn /\ t.classes = n.classes
    BY <1>1, <1>3, <1>4, <1>5, TurnedSound
  <1>10. TypesOK(t) BY <1>9 DEF Sound, Kept
  <1>11. \A x : AttachedIn(t, x) = AttachedIn(n, x) BY <1>1, <1>3, <1>4, <1>6, <1>9, <1>10, SetsStay
  <1>12. Tracked(t) /\ Settled(t) BY <1>6, <1>8, <1>9, <1>11, TrackedStays
  <1>13. \A d \in Clients \ {c} : t.conns[d] = s.conns[d] BY <1>1, <1>3, <1>9 DEF SameBut
  <1>14. OnlyUsers(t) BY <1>4, <1>9, <1>13 DEF OnlyUsers
  <1> QED BY <1>12, <1>14 DEF Measured, t

\* What a REHASH leaves of what a class counts: all of it; all of it, with the
\* numbers of the file; or, in a new class, nothing.
LEMMA ReadLimits ==
    ASSUME NEW s, NEW g \in Generations, Kept(s, g - 1), NEW file \in Configs, NEW k \in ClassIds
    PROVE  LET new == check_class(add_class(Marked(s.classes), file, g))[k]
               old == s.classes[k]
               said == /\ k[1] \in DOMAIN file.class
                       /\ new.amount = file.class[k[1]].amount
                       /\ new.bits = file.class[k[1]].bits
           IN  \/ /\ new.amount = old.amount /\ new.bits = old.bits /\ new.limits = old.limits
                  /\ new.st = "linked" => old.st = "linked"
               \/ said /\ old.st = "linked" /\ new.limits = old.limits
               \/ said /\ old.total = 0 /\ new.limits = <<>>
  <1> DEFINE m == Marked(s.classes)
             a == add_class(m, file, g)
             f == check_class(a)
             old == s.classes[k]
             given == file.class[k[1]]
  <1>1. s.classes \in [ClassIds -> ClassRec] /\ g \in Int BY DEF Kept, TypesOK, Generations
  <1>2. /\ m \in [ClassIds -> ClassRec]
        /\ \A x \in ClassIds :
             /\ m[x].st = s.classes[x].st /\ m[x].total = s.classes[x].total
             /\ m[x].limits = s.classes[x].limits
             /\ m[x].amount = s.classes[x].amount /\ m[x].bits = s.classes[x].bits
    BY <1>1, MarkedIs
  <1> HIDE DEF m
  <1>3. \A x \in ClassNames \X Generations : x[2] >= g => m[x].st = "none" /\ m[x].total = 0
    <2> SUFFICES ASSUME NEW x \in ClassNames \X Generations, x[2] >= g
                 PROVE  m[x].st = "none" /\ m[x].total = 0
      OBVIOUS
    <2>1. x[2] > g - 1 /\ x \in ClassIds BY <1>1 DEF Generations, ClassIds
    <2>2. s.classes[x].st = "none" /\ ClassFollows(s.classes[x]) BY <2>1 DEF Kept, ClassesFollow
    <2> QED BY <1>2, <2>1, <2>2 DEF ClassFollows
  <1>4. /\ a \in [ClassIds -> ClassRec]
        /\ k[1] \notin DOMAIN file.class => a[k] = m[k]
        /\ k[1] \in DOMAIN file.class /\ m[k].st = "linked" => a[k] = Updated(m[k], given)
        /\ m[k].st # "linked" => \/ a[k] = m[k]
                                 \/ /\ a[k] = Updated(NoClass, given)
                                    /\ k[2] = g /\ k[1] \in DOMAIN file.class
    BY <1>2, <1>3, AddedIs
  <1> HIDE DEF a
  <1>5. /\ f[k].limits = a[k].limits /\ f[k].amount = a[k].amount /\ f[k].bits = a[k].bits
        /\ f[k].st = "linked" => a[k].st = "linked"
    <2>1. /\ f[k].limits = a[k].limits
          /\ f[k].amount = a[k].amount /\ f[k].bits = a[k].bits
          /\ ~(a[k].st = "linked" /\ a[k].max < 0) => f[k].st = a[k].st
      BY <1>4, CheckedIs
    <2> QED BY <2>1
  <1> HIDE DEF f
  <1>6. k[1] \in DOMAIN file.class => given \in [max : Nat, amount : Nat, bits : DOMAIN Cover \cup {0}]
    BY FilesComplete
  <1>7. m[k] \in ClassRec BY <1>2
  <1> HIDE DEF given
  <1>8. CASE a[k] = m[k]
    <2>1. f[k].amount = old.amount /\ f[k].bits = old.bits /\ f[k].limits = old.limits
          /\ (f[k].st = "linked" => old.st = "linked")
      BY <1>2, <1>5, <1>8
    <2> QED BY <2>1 DEF f, a, m
  <1>9. CASE k[1] \in DOMAIN file.class /\ m[k].st = "linked"
    <2>1. a[k].amount = given.amount /\ a[k].bits = given.bits /\ a[k].limits = m[k].limits
      BY <1>4, <1>6, <1>7, <1>9, UpdatedIs
    <2>2. f[k].amount = given.amount /\ f[k].bits = given.bits /\ f[k].limits = old.limits
          /\ old.st = "linked"
      BY <1>2, <1>5, <1>9, <2>1
    <2> QED BY <1>9, <2>2 DEF f, a, m, given
  <1>10. CASE a[k] = Updated(NoClass, given) /\ k[2] = g /\ k[1] \in DOMAIN file.class
    <2>1. a[k].amount = given.amount /\ a[k].bits = given.bits /\ a[k].limits = <<>>
      BY <1>6, <1>10, UpdatedIs, NoClassIs
    <2>2. k \in ClassNames \X Generations
      BY <1>10, FilesComplete, NamesFree, DefaultIsNoName DEF default_class
    <2>3. old.total = 0 BY <1>1, <1>2, <1>3, <1>10, <2>2
    <2>4. f[k].amount = given.amount /\ f[k].bits = given.bits /\ f[k].limits = <<>>
      BY <1>5, <2>1
    <2> QED BY <1>10, <2>3, <2>4 DEF f, a, m, given
  <1> QED BY <1>4, <1>8, <1>9, <1>10

LEMMA ReadMeasured ==
    ASSUME LimitsSteady, NEW s, NEW g \in Generations, Kept(s, g - 1), Measured(s),
           NEW file \in Configs
    PROVE  Measured(read_conf(s, file, g))
  <1> DEFINE t == read_conf(s, file, g)
             f == check_class(add_class(Marked(s.classes), file, g))
             said(k) == /\ k[1] \in DOMAIN file.class
                        /\ f[k].amount = file.class[k[1]].amount
                        /\ f[k].bits = file.class[k[1]].bits
  <1>1. t.conns = s.conns /\ t.classes = f /\ \A k : AttachedIn(t, k) = AttachedIn(s, k)
    BY ReadSound
  <1>2. \A k \in ClassIds :
          \/ /\ f[k].amount = s.classes[k].amount /\ f[k].bits = s.classes[k].bits
             /\ f[k].limits = s.classes[k].limits
             /\ f[k].st = "linked" => s.classes[k].st = "linked"
          \/ said(k) /\ s.classes[k].st = "linked" /\ f[k].limits = s.classes[k].limits
          \/ said(k) /\ s.classes[k].total = 0 /\ f[k].limits = <<>>
    BY ReadLimits
  <1> HIDE DEF t, f
  <1>3. \A k \in ClassIds : said(k) => (Limited(f[k]) <=> Limited(file.class[k[1]])) BY DEF Limited
  <1> HIDE DEF said
  <1>4. ASSUME NEW k \in ClassIds, Limited(f[k])
        PROVE  Covers(f[k].limits, AttachedIn(s, k))
    <2>1. CASE /\ f[k].amount = s.classes[k].amount /\ f[k].bits = s.classes[k].bits
               /\ f[k].limits = s.classes[k].limits
      BY <1>4, <2>1 DEF Measured, Tracked, Limited
    <2>2. CASE said(k) /\ s.classes[k].st = "linked" /\ f[k].limits = s.classes[k].limits
      <3>1. Limited(s.classes[k]) BY <1>3, <1>4, <2>2 DEF Measured, Settled, said
      <3> QED BY <2>2, <3>1 DEF Measured, Tracked
    <2>3. CASE s.classes[k].total = 0 /\ f[k].limits = <<>>
      <3>1. Cardinality(AttachedIn(s, k)) + Cardinality(LinkedIn(s, k)) = 0
        BY <2>3 DEF Kept, ClassesCounted
      <3>2. Cardinality(AttachedIn(s, k)) = 0 BY <3>1, SetsFinite
      <3>3. AttachedIn(s, k) = {} BY <3>2, SetsFinite, FS_EmptySet
      <3> QED BY <2>3, <3>3, EmptyTrie DEF Covers
    <2> QED BY <1>2, <2>1, <2>2, <2>3
  <1>5. Tracked(t) BY <1>1, <1>4 DEF Tracked
  <1>6. ASSUME NEW k \in ClassIds, NEW e \in Configs, f[k].st = "linked", k[1] \in DOMAIN e.class
        PROVE  Limited(f[k]) <=> Limited(e.class[k[1]])
    <2>1. CASE said(k)
      <3>1. k[1] \in DOMAIN file.class \cap DOMAIN e.class BY <1>6, <2>1 DEF said
      <3>2. Limited(file.class[k[1]]) <=> Limited(e.class[k[1]]) BY <3>1 DEF LimitsSteady
      <3> QED BY <1>3, <2>1, <3>2
    <2>2. CASE ~said(k)
      <3>1. /\ s.classes[k].st = "linked"
            /\ f[k].amount = s.classes[k].amount /\ f[k].bits = s.classes[k].bits
        BY <1>2, <1>6, <2>2
      <3>2. Limited(s.classes[k]) <=> Limited(e.class[k[1]])
        BY <1>6, <3>1 DEF Measured, Settled
      <3> QED BY <3>1, <3>2 DEF Limited
    <2> QED BY <2>1, <2>2
  <1>7. Settled(t) BY <1>1, <1>6 DEF Settled
  <1>8. OnlyUsers(t) BY <1>1 DEF Measured, OnlyUsers
  <1> QED BY <1>5, <1>7, <1>8 DEF Measured, t

LEMMA BlankMeasured == Measured(Blank([c \in Clients |-> NoConn]))
  <1> DEFINE s == Blank([c \in Clients |-> NoConn])
  <1>1. /\ s.classes = [k \in ClassIds |-> IF k = default_class THEN initclass ELSE NoClass]
        /\ s.conns = [c \in Clients |-> NoConn]
    BY StateIs DEF Blank
  <1> HIDE DEF s
  <1>2. initclass.amount = 0 /\ NoClass.amount = 0 /\ NoClass.st = "none" BY DEF initclass, NoClass
  <1>3. \A k \in ClassIds : ~Limited(s.classes[k]) BY <1>1, <1>2 DEF Limited
  <1>4. Tracked(s) BY <1>3 DEF Tracked
  <1>5. \A file \in Configs : default_class[1] \notin DOMAIN file.class
    BY FilesComplete, NamesFree DEF default_class
  <1>6. Settled(s) BY <1>1, <1>2, <1>5 DEF Settled
  <1>7. OnlyUsers(s) BY <1>1 DEF OnlyUsers, NoConn
  <1> QED BY <1>4, <1>6, <1>7 DEF Measured, s

-----------------------------------------------------------------------------
(* The tree of the users of the network.                                    *)

\* All nodes have one width.
Even(tree, bits) == \A n \in DOMAIN tree : \E i \in Ips : n = Cover[bits][i]

LEMMA EvenMatch ==
    ASSUME NEW tree, Trie(tree), NEW bits \in DOMAIN Cover, Even(tree, bits), NEW ip,
           Covering(tree, ip) # {}
    PROVE  rb_match_ip(tree, ip) = Cover[bits][ip]
  <1> DEFINE m == rb_match_ip(tree, ip)
  <1>1. m \in DOMAIN tree /\ ip \in m BY MatchIs DEF Covering
  <1> HIDE DEF m
  <1>2. PICK i \in Ips : m = Cover[bits][i] BY <1>1 DEF Even
  <1>3. m = Cover[bits][ip] BY <1>1, <1>2, BlocksNest
  <1> QED BY <1>3 DEF m

\* The clients of an address block are at most what the tree says of an address in it.
LEMMA EvenCount ==
    ASSUME NEW tree, Trie(tree), NEW bits \in DOMAIN Cover, Even(tree, bits),
           NEW S \in SUBSET Clients, Covers(tree, S), NEW ip \in Ips
    PROVE  /\ Cardinality({d \in S : Ip[d] \in Cover[bits][ip]}) <= CountAt(tree, ip)
           /\ Cardinality({d \in S : Ip[d] \in Cover[bits][ip]}) \in Nat /\ CountAt(tree, ip) \in Nat
  <1> DEFINE x == Cover[bits][ip]
             A == {d \in S : Ip[d] \in x}
  <1>1. ASSUME NEW d \in A
        PROVE  /\ Covering(tree, Ip[d]) # {} /\ rb_match_ip(tree, Ip[d]) = x
               /\ x \in DOMAIN tree
    <2>1. Covering(tree, Ip[d]) # {} BY DEF Covers
    <2>2. rb_match_ip(tree, Ip[d]) = Cover[bits][Ip[d]] BY <2>1, EvenMatch
    <2>3. Cover[bits][Ip[d]] = x BY BlocksNest
    <2>4. rb_match_ip(tree, Ip[d]) \in DOMAIN tree BY <2>1, MatchIs DEF Covering
    <2> QED BY <2>1, <2>2, <2>3, <2>4
  <1>2. A \in SUBSET Clients OBVIOUS
  <1>3. ip \in x BY BlocksNest
  <1> HIDE DEF A, x
  <1>4. Cardinality(A) \in Nat BY <1>2, SizeIs
  <1>5. CASE Covering(tree, ip) = {}
    <2>1. x \notin DOMAIN tree BY <1>3, <1>5 DEF Covering
    <2>2. A = {} BY <1>1, <2>1
    <2>3. Cardinality(A) = 0 BY <2>2, FS_EmptySet
    <2>4. CountAt(tree, ip) = 0 BY <1>5 DEF CountAt
    <2> QED BY <2>3, <2>4 DEF A, x
  <1>6. CASE Covering(tree, ip) # {}
    <2>1. rb_match_ip(tree, ip) = x BY <1>6, EvenMatch DEF x
    <2>2. x \in DOMAIN tree BY <1>6, <2>1, MatchIs DEF Covering
    <2>3. CountAt(tree, ip) = tree[x] BY <1>6, <2>1 DEF CountAt
    <2>4. A \in SUBSET InNode(tree, S, x) BY <1>1 DEF InNode, A
    <2>5. InNode(tree, S, x) \in SUBSET Clients BY InNodeIs
    <2>6. Cardinality(InNode(tree, S, x)) <= tree[x] /\ tree[x] \in Nat BY <2>2, TrieAt DEF Covers
    <2>7. Cardinality(A) <= Cardinality(InNode(tree, S, x)) /\ Cardinality(InNode(tree, S, x)) \in Nat
      BY <2>4, <2>5, SizeLess
    <2>8. Cardinality(A) <= CountAt(tree, ip) /\ CountAt(tree, ip) \in Nat BY <1>4, <2>3, <2>6, <2>7
    <2> QED BY <1>4, <2>8 DEF A, x
  <1> QED BY <1>5, <1>6

\* The tree counts the clients of S by blocks of that width.
Counting(tree, bits, S) == Trie(tree) /\ Even(tree, bits) /\ Covers(tree, S)

LEMMA GrewNew ==
    ASSUME NEW tree, NEW ip \in Ips, NEW bits \in DOMAIN Cover, Trie(tree), Covering(tree, ip) = {}
    PROVE  /\ Trie(Grow(tree, ip, bits))
           /\ DOMAIN Grow(tree, ip, bits) = DOMAIN tree \cup {Cover[bits][ip]}
  BY GrowNew

LEMMA CountingGrow ==
    ASSUME NEW tree, NEW bits \in DOMAIN Cover, NEW S \in SUBSET Clients, Counting(tree, bits, S),
           NEW c \in Clients
    PROVE  Counting(Grow(tree, Ip[c], bits), bits, S \cup {c})
  <1> DEFINE t == Grow(tree, Ip[c], bits)
  <1>1. Trie(tree) /\ Even(tree, bits) /\ Covers(tree, S) /\ Ip[c] \in Ips
    BY ClientsHaveAddresses DEF Counting
  <1>2. Covers(t, S \cup {c}) BY <1>1, CoversGrow
  <1>3. Trie(t) /\ DOMAIN t \subseteq DOMAIN tree \cup {Cover[bits][Ip[c]]}
    <2>1. CASE Covering(tree, Ip[c]) # {}
      <3>1. Trie(t) /\ DOMAIN t = DOMAIN tree BY <1>1, <2>1, GrowCovered
      <3> HIDE DEF t
      <3> QED BY <3>1
    <2>2. CASE Covering(tree, Ip[c]) = {}
      <3>1. Trie(t) /\ DOMAIN t = DOMAIN tree \cup {Cover[bits][Ip[c]]} BY <1>1, <2>2, GrewNew
      <3> HIDE DEF t
      <3> QED BY <3>1
    <2> QED BY <2>1, <2>2
  <1> HIDE DEF t
  <1>4. Even(t, bits) BY <1>1, <1>3 DEF Even
  <1> QED BY <1>2, <1>3, <1>4 DEF Counting, t

LEMMA CountingShrink ==
    ASSUME NEW tree, NEW bits, NEW S \in SUBSET Clients, Counting(tree, bits, S), NEW c \in S
    PROVE  Counting(Shrink(tree, Ip[c]), bits, S \ {c})
  <1> DEFINE t == Shrink(tree, Ip[c])
  <1>1. Trie(tree) /\ Even(tree, bits) /\ Covers(tree, S) BY DEF Counting
  <1>2. Covers(t, S \ {c}) BY <1>1, CoversShrink
  <1>3. Covering(tree, Ip[c]) # {} BY <1>1 DEF Covers
  <1>4. Trie(t) /\ DOMAIN t \subseteq DOMAIN tree
    <2>1. LET r == rb_match_ip(tree, Ip[c])
          IN  /\ Trie(t)
              /\ DOMAIN t = IF tree[r] = 1 THEN DOMAIN tree \ {r} ELSE DOMAIN tree
      BY <1>1, <1>3, ShrinkIs
    <2> HIDE DEF t
    <2> QED BY <2>1
  <1> HIDE DEF t
  <1>5. Even(t, bits) BY <1>1, <1>4 DEF Even
  <1> QED BY <1>2, <1>4, <1>5 DEF Counting, t

LEMMA CountingLess ==
    ASSUME NEW tree, NEW bits, NEW S \in SUBSET Clients, NEW T \in SUBSET S, Counting(tree, bits, S)
    PROVE  Counting(tree, bits, T)
  BY CoversLess DEF Counting

\* The tree that a REHASH builds again.
LEMMA CountingAnew ==
    ASSUME NEW bits \in DOMAIN Cover, conns \in [Clients -> ConnRec]
    PROVE  Counting(rehash_global_cidr_tree(bits), bits, Users)
  <1> DEFINE known == {c \in Clients : conns[c].st # "gone"}
             D == {Cover[bits][Ip[c]] : c \in known}
             num(n) == Cardinality({c \in known : Ip[c] \in n})
             t == rehash_global_cidr_tree(bits)
  <1>1. t = [n \in D |-> num(n)] BY DEF rehash_global_cidr_tree
  <1>2. known \in SUBSET Clients /\ \A n : {c \in known : Ip[c] \in n} \in SUBSET Clients
    OBVIOUS
  <1>3. \A n : num(n) \in Nat BY <1>2, SizeIs
  <1>4. Users \in SUBSET known BY DEF Users
  <1>5. \A c \in known : Ip[c] \in Ips BY ClientsHaveAddresses
  <1>6. \A c \in known : Ip[c] \in Cover[bits][Ip[c]] BY <1>5, BlocksNest
  <1>7. ASSUME NEW n \in D PROVE num(n) # 0 /\ n \in Nodes
    <2>1. PICK c \in known : n = Cover[bits][Ip[c]] OBVIOUS
    <2>2. n \in Nodes BY <1>5, <2>1 DEF Nodes
    <2> DEFINE A == {d \in known : Ip[d] \in n}
    <2>3. c \in A BY <1>6, <2>1
    <2>4. IsFiniteSet(A) BY <1>2, SizeIs
    <2> HIDE DEF A
    <2>5. Cardinality(A) # 0 BY <2>3, <2>4, FS_EmptySet
    <2> QED BY <2>2, <2>5 DEF A
  <1>8. IsFiniteSet(D)
    <2> DEFINE h == [c \in known |-> Cover[bits][Ip[c]]]
    <2>1. h \in Surjection(known, D) BY DEF Surjection
    <2>2. IsFiniteSet(known) BY <1>2, SizeIs
    <2> HIDE DEF h, known, D
    <2> QED BY <2>1, <2>2, FS_Surjection
  <1>9. DOMAIN t = D /\ \A n \in D : t[n] = num(n)
    <2> HIDE DEF t, D, num
    <2> QED BY <1>1
  <1>10. Trie(t)
    <2>1. \A n \in D : num(n) \in Nat \ {0} BY <1>3, <1>7
    <2> HIDE DEF t, D, num
    <2>2. t \in [D -> Nat \ {0}] BY <1>1, <2>1
    <2> QED BY <1>7, <1>8, <1>9, <2>2 DEF Trie
  <1>11. Even(t, bits)
    <2>1. \A n \in D : \E i \in Ips : n = Cover[bits][i] BY <1>5
    <2> HIDE DEF t, D
    <2> QED BY <1>9, <2>1 DEF Even
  <1>12. \A c \in known : Cover[bits][Ip[c]] \in D OBVIOUS
  <1> HIDE DEF t, D
  <1>13. Covers(t, known)
    <2>1. \A c \in known : Covering(t, Ip[c]) # {} BY <1>6, <1>9, <1>12 DEF Covering
    <2>2. ASSUME NEW n \in DOMAIN t PROVE Cardinality(InNode(t, known, n)) <= t[n]
      <3>1. \A c \in known : rb_match_ip(t, Ip[c]) = n => Ip[c] \in n
        <4>1. \A c \in known : rb_match_ip(t, Ip[c]) \in Covering(t, Ip[c]) BY <1>10, <2>1, MatchIs
        <4> QED BY <4>1 DEF Covering
      <3> DEFINE A == {c \in known : Ip[c] \in n}
      <3>2. InNode(t, known, n) \in SUBSET A BY <3>1 DEF InNode
      <3>3. A \in SUBSET Clients OBVIOUS
      <3>4. t[n] = Cardinality(A) BY <1>9
      <3> HIDE DEF A
      <3> QED BY <3>2, <3>3, <3>4, SizeLess
    <2> QED BY <2>1, <2>2 DEF Covers
  <1> HIDE DEF known
  <1>14. Covers(t, Users) BY <1>2, <1>4, <1>10, <1>13, CoversLess
  <1> QED BY <1>10, <1>11, <1>14 DEF Counting, t

-----------------------------------------------------------------------------
(* AdmittedUnderLimits.                                                     *)

UsersIn(s) == {c \in Clients : s.conns[c].st \in {"user", "remote"}}

AdmitInv ==
  LimitsInv /\ Measured(Now) /\ Counting(global_tree, config.global_bits, Users)

LEMMA UsersTurn ==
    ASSUME NEW s, NEW t, NEW c \in Clients, \A d \in Clients \ {c} : t.conns[d] = s.conns[d]
    PROVE  UsersIn(t) = IF t.conns[c].st \in {"user", "remote"} THEN UsersIn(s) \cup {c}
                        ELSE UsersIn(s) \ {c}
  BY DEF UsersIn

LEMMA UsersNow == Users = UsersIn(Now) /\ Users \in SUBSET Clients
  BY NowIs DEF Users, UsersIn

LEMMA CommitMeasured ==
    ASSUME NEW t, Measured(t), Commit(t)
    PROVE  Measured(Now') /\ Users' = UsersIn(t)
  <1>1. /\ Now'.classes = t.classes /\ Now'.auths = t.auths /\ Now'.conns = t.conns
    BY DEF Now, State, Commit
  <1>2. Users' = UsersIn(t) BY DEF Commit, Users, UsersIn
  <1> DEFINE n == Now'
  <1> HIDE DEF n
  <1>3. n.classes = t.classes /\ n.auths = t.auths /\ n.conns = t.conns BY <1>1 DEF n
  <1>4. Measured(n) BY <1>3 DEF Measured, Tracked, Settled, OnlyUsers, AttachedIn
  <1> QED BY <1>2, <1>4 DEF n

\* attach_conf() for a connection that has no block yet.
LEMMA AttachMeasured ==
    ASSUME NEW s, NEW g \in Generations, Sound(s, g), Measured(s), NEW c \in Clients, NEW a \in Auths,
           s.conns[c].conf = Nobody
    PROVE  LET t == attach_conf(s, c, <<a, g>>)
               class == s.classes[s.auths[<<a, g>>].class]
           IN  /\ Sound(t, g) /\ Tracked(t) /\ Settled(t)
               /\ \A d \in Clients \ {c} : t.conns[d] = s.conns[d]
               /\ t.conns[c].conf # Nobody =>
                    /\ t.conns[c].conf = <<a, g>>
                    /\ ~CidrFull(class, a, Ip[c]) /\ ~ClassFull(class, a)
  <1> DEFINE b == <<a, g>>
             k == s.auths[b].class
             t == attach_conf(s, c, b)
             n == Noted(s, c, k)
             j == join_conf(n, c, b)
  <1>1. TypesOK(s) /\ b \in BlockIds /\ b[1] = a BY DEF Sound, Kept, BlockIds
  <1>2. k \in ClassIds BY <1>1 DEF TypesOK, BlockRec
  <1>3. Sound(n, g) /\ n.conns = s.conns /\ n.auths = s.auths
    <2> HIDE DEF k
    <2> QED BY <1>2, NotedSound
  <1>4. /\ Measured(n)
        /\ Limited(n.classes[k]) => Covers(n.classes[k].limits, AttachedIn(n, k) \cup {c})
    <2> HIDE DEF k
    <2> QED BY <1>2, NotedMeasured
  <1>5. n.auths[b].class = k /\ n.conns[c].conf = Nobody BY <1>3
  <1>6. detach_conf(n, c) = n BY <1>5 DEF detach_conf
  <1>7. \/ t = s \/ t = n
        \/ t = j /\ ~CidrFull(s.classes[k], a, Ip[c]) /\ ~ClassFull(s.classes[k], a)
    BY <1>1, <1>6, AttachIs
  <1> HIDE DEF n, k
  <1>8. Sound(j, g) /\ Tracked(j) /\ Settled(j) /\ SameBut(n, j, c)
    BY <1>3, <1>4, <1>5, JoinMeasured
  <1>9. j.conns[c].conf = b
    BY <1>3, <1>5, JoinSound
  <1>10. Tracked(s) /\ Settled(s) /\ Tracked(n) /\ Settled(n) BY <1>4 DEF Measured
  <1> HIDE DEF t, j
  <1>11. /\ Sound(t, g) /\ Tracked(t) /\ Settled(t)
         /\ \A d \in Clients \ {c} : t.conns[d] = s.conns[d]
    BY <1>3, <1>7, <1>8, <1>10 DEF SameBut
  <1>12. t.conns[c].conf # Nobody =>
           t.conns[c].conf = b /\ ~CidrFull(s.classes[k], a, Ip[c]) /\ ~ClassFull(s.classes[k], a)
    BY <1>3, <1>7, <1>9
  <1> QED BY <1>11, <1>12 DEF t, k\* A connection that has no block changes its state.
LEMMA TurnStep ==
    ASSUME LimitsInv, Measured(Now), NEW c \in Clients,
           NEW st \in {"gone", "unknown", "user", "remote", "server"},
           conns[c].st = "gone", conns' = [conns EXCEPT ![c] = Being(@, st)],
           UNCHANGED <<classes, auths, connects>>
    PROVE  /\ Measured(Now')
           /\ Users' = IF st \in {"user", "remote"} THEN Users \cup {c} ELSE Users
  <1> DEFINE n == Now
             g == generation
             t == In(n, c, st)
  <1>1. g \in Generations /\ Sound(n, g) /\ Measured(n) BY DEF LimitsInv
  <1>2. n.conns = conns /\ Users = UsersIn(n) BY NowIs, UsersNow
  <1>3. n.conns[c].conf = Nobody /\ c \notin Users BY <1>1, <1>2 DEF Measured, OnlyUsers, Users
  <1>4. Commit(t) BY <1>2, NowIs DEF In, Turned, State, Commit
  <1> HIDE DEF n, g
  <1>5. Measured(t) /\ SameBut(n, t, c) /\ t.conns[c].st = st BY <1>1, <1>3, TurnMeasured
  <1> HIDE DEF t
  <1>6. Measured(Now') /\ Users' = UsersIn(t) BY <1>4, <1>5, CommitMeasured
  <1>7. UsersIn(t) = IF st \in {"user", "remote"} THEN UsersIn(n) \cup {c} ELSE UsersIn(n) \ {c}
    <2>1. \A d \in Clients \ {c} : t.conns[d] = n.conns[d] BY <1>5 DEF SameBut
    <2> QED BY <1>5, <2>1, UsersTurn
  <1> QED BY <1>2, <1>3, <1>6, <1>7

\* A connection without an auth{} block takes the connect{} block in force.
LEMMA LinkStep ==
    ASSUME LimitsInv, Measured(Now), NEW c \in Clients, NEW st \in {"unknown", "server"},
           conns[c].st \in {"gone", "unknown"},
           Commit(attach_server_conf(In(Now, c, st), c, generation))
    PROVE  Measured(Now') /\ Users' = Users
  <1> DEFINE n == Now
             g == generation
             m == In(n, c, st)
             t == attach_server_conf(m, c, g)
  <1>1. g \in Generations /\ Sound(n, g) /\ Measured(n) BY DEF LimitsInv
  <1>2. n.conns = conns /\ Users = UsersIn(n) BY NowIs, UsersNow
  <1>3. n.conns[c].conf = Nobody /\ c \notin Users BY <1>1, <1>2 DEF Measured, OnlyUsers, Users
  <1>4. Commit(t) OBVIOUS
  <1>5. st \in {"gone", "unknown", "user", "remote", "server"} OBVIOUS
  <1> HIDE DEF n, g
  <1>6. Sound(m, g) /\ Measured(m) /\ SameBut(n, m, c) /\ m.conns[c].st = st
    BY <1>1, <1>3, <1>5, TurnMeasured
  <1> HIDE DEF m
  <1>7. Measured(t) BY <1>1, <1>6, ServerMeasured
  <1>8. SameBut(m, t, c) /\ t.conns[c].st = st BY <1>1, <1>6, AttachServerSound
  <1> HIDE DEF t
  <1>9. Measured(Now') /\ Users' = UsersIn(t) BY <1>4, <1>7, CommitMeasured
  <1>10. UsersIn(t) = UsersIn(n) \ {c}
    <2>1. \A d \in Clients \ {c} : t.conns[d] = n.conns[d] BY <1>6, <1>8 DEF SameBut
    <2>2. t.conns[c].st \notin {"user", "remote"} BY <1>8
    <2>3. UsersIn(t) = IF t.conns[c].st \in {"user", "remote"} THEN UsersIn(n) \cup {c}
                       ELSE UsersIn(n) \ {c}
      BY <2>1, UsersTurn
    <2> QED BY <2>2, <2>3
  <1> QED BY <1>2, <1>3, <1>9, <1>10

LEMMA AdmitStart == LimitsSteady /\ LimitsInit => AdmitInv
  <1> SUFFICES ASSUME LimitsSteady, LimitsInit PROVE AdmitInv
    OBVIOUS
  <1> DEFINE b == Blank(conns)
             s == read_conf(b, config, 0)
  <1>1. Kept(b, -1) /\ Measured(b) BY BlankKept, BlankMeasured DEF LimitsInit
  <1>2. 0 \in Generations /\ config \in Configs /\ 0 - 1 = -1
    BY ClientsHaveAddresses DEF Generations, LimitsInit
  <1>3. b.conns = conns BY StateIs DEF Blank
  <1>4. classes = s.classes /\ auths = s.auths /\ connects = s.connects
    BY Zenon DEF LimitsInit, Blank, State, BlockIds
  <1> HIDE DEF b
  <1>5. s.conns = b.conns BY <1>1, <1>2, ReadSound
  <1>6. Measured(s) BY <1>1, <1>2, ReadMeasured
  <1> HIDE DEF s
  <1> DEFINE n == Now
  <1>7. n.classes = s.classes /\ n.auths = s.auths /\ n.conns = s.conns
    BY <1>3, <1>4, <1>5, NowIs
  <1> HIDE DEF n
  <1>8. Measured(n) BY <1>6, <1>7 DEF Measured, Tracked, Settled, OnlyUsers, AttachedIn
  <1>9. Users = {} BY DEF LimitsInit, Users, NoConn
  <1>10. global_tree \in Tries /\ DOMAIN global_tree = {} BY EmptyTrie DEF LimitsInit
  <1>11. Trie(global_tree) BY <1>10, TriesAre
  <1>12. Counting(global_tree, config.global_bits, Users)
    BY <1>9, <1>10, <1>11 DEF Counting, Even, Covers
  <1> QED BY <1>8, <1>12, LimitsStart DEF AdmitInv, n

LEMMA AdmitStep == LimitsSteady /\ AdmitInv /\ [LimitsNext]_limitVars => AdmitInv'
  <1> SUFFICES ASSUME LimitsSteady, AdmitInv, [LimitsNext]_limitVars PROVE AdmitInv'
    OBVIOUS
  <1> DEFINE n == Now
             g == generation
             bits == config.global_bits
             Good == Measured(Now') /\ Counting(global_tree', config'.global_bits, Users')
  <1>1. g \in Generations /\ config \in Configs /\ Sound(n, g) /\ Measured(n)
    BY DEF AdmitInv, LimitsInv
  <1>2. n.conns = conns /\ Users = UsersIn(n) /\ Users \in SUBSET Clients BY NowIs, UsersNow
  <1>3. bits \in DOMAIN Cover /\ Counting(global_tree, bits, Users)
    BY <1>1, FilesComplete DEF AdmitInv
  <1>4. LimitsInv' BY LimitsStep DEF AdmitInv
  <1>5. Tracked(n) /\ Settled(n) /\ OnlyUsers(n) BY <1>1 DEF Measured
  <1> SUFFICES Good
    BY <1>4 DEF AdmitInv
  <1>6. ASSUME UNCHANGED limitVars PROVE Good
    <2>1. Now' = Now /\ Users' = Users /\ global_tree' = global_tree /\ config' = config
      BY <1>6 DEF Now, State, limitVars, Users
    <2> QED BY <1>1, <1>3, <2>1
  <1>7. ASSUME NEW c \in Clients, add_connection(c) PROVE Good
    <2>1. Measured(Now') /\ Users' = Users
      BY <1>1, <1>7, TurnStep DEF add_connection, AdmitInv
    <2> QED BY <1>3, <1>7, <2>1 DEF add_connection
  <1>8. ASSUME NEW c \in Clients, register_local_user(c) PROVE Good
    <2>1. PICK a \in Auths :
            LET s == attach_iline(n, c, <<a, g>>)
            IN  \/ /\ Commit(In(s, c, "user"))
                   /\ global_tree' = Grow(global_tree, Ip[c], bits)
                \/ /\ Commit(close_connection(s, c))
                   /\ global_tree' = global_tree
      BY <1>8 DEF register_local_user
    <2> DEFINE s == attach_iline(n, c, <<a, g>>)
               u == In(s, c, "user")
               z == close_connection(s, c)
    <2>2. s = n \/ s = attach_conf(n, c, <<a, g>>) BY DEF attach_iline
    <2>3. config' = config /\ n.conns[c].st = "unknown"
      BY <1>2, <1>8 DEF register_local_user
    <2>4. n.conns[c].conf = Nobody /\ c \notin Users
      BY <1>2, <1>5, <2>3 DEF OnlyUsers, UsersIn
    <2>5. \/ Commit(u) /\ global_tree' = Grow(global_tree, Ip[c], bits)
          \/ Commit(z) /\ global_tree' = global_tree
      BY <2>1
    <2> HIDE DEF n, g, s
    <2>6. Sound(s, g) /\ Tracked(s) /\ Settled(s) /\ \A d \in Clients \ {c} : s.conns[d] = n.conns[d]
      BY <1>1, <1>5, <2>2, <2>4, AttachMeasured
    <2>7. \A d \in Clients \ {c} : s.conns[d].conf # Nobody => s.conns[d].st = "user"
      BY <1>5, <2>6 DEF OnlyUsers
    <2>8. Measured(u) /\ SameBut(s, u, c) /\ u.conns[c].st = "user"
      BY <1>1, <2>6, <2>7, InMeasured
    <2>9. Measured(z) BY <1>1, <2>6, <2>7, CloseMeasured
    <2>10. z.conns[c] = NoConn /\ \A d \in Clients \ {c} : z.conns[d] = s.conns[d]
      BY <1>1, <2>6, CloseSound
    <2> HIDE DEF u, z
    <2>11. CASE Commit(u) /\ global_tree' = Grow(global_tree, Ip[c], bits)
      <3>1. Measured(Now') /\ Users' = UsersIn(u) BY <2>8, <2>11, CommitMeasured
      <3>2. UsersIn(u) = UsersIn(n) \cup {c}
        <4>1. \A d \in Clients \ {c} : u.conns[d] = n.conns[d] BY <2>6, <2>8 DEF SameBut
        <4> QED BY <2>8, <4>1, UsersTurn
      <3>3. Users' = Users \cup {c} BY <1>2, <3>1, <3>2
      <3> HIDE DEF bits
      <3>4. Counting(Grow(global_tree, Ip[c], bits), bits, Users \cup {c})
        BY <1>2, <1>3, CountingGrow
      <3> QED BY <2>3, <2>11, <3>1, <3>3, <3>4 DEF bits
    <2>12. CASE Commit(z) /\ global_tree' = global_tree
      <3>1. Measured(Now') /\ Users' = UsersIn(z) BY <2>9, <2>12, CommitMeasured
      <3>2. UsersIn(z) = UsersIn(n) \ {c}
        <4>1. \A d \in Clients \ {c} : z.conns[d] = n.conns[d] BY <2>6, <2>10
        <4>2. z.conns[c].st \notin {"user", "remote"} BY <2>10 DEF NoConn
        <4> QED BY <4>1, <4>2, UsersTurn
      <3> QED BY <1>2, <1>3, <2>3, <2>4, <2>12, <3>1, <3>2
    <2> QED BY <2>5, <2>11, <2>12
  <1>9. ASSUME NEW c \in Clients, register_client(c) PROVE Good
    <2>1. Measured(Now') /\ Users' = Users \cup {c}
      BY <1>1, <1>9, TurnStep DEF register_client, AdmitInv
    <2>2. config' = config /\ global_tree' = Grow(global_tree, Ip[c], bits)
      BY <1>9 DEF register_client
    <2> HIDE DEF bits
    <2>3. Counting(Grow(global_tree, Ip[c], bits), bits, Users \cup {c})
      BY <1>2, <1>3, CountingGrow
    <2> QED BY <2>1, <2>2, <2>3 DEF bits
  <1>10. ASSUME NEW c \in Clients, serv_connect(c) PROVE Good
    <2>1. Measured(Now') /\ Users' = Users
      BY <1>1, <1>10, LinkStep DEF serv_connect, AdmitInv
    <2> QED BY <1>3, <1>10, <2>1 DEF serv_connect
  <1>11. ASSUME NEW c \in Clients, check_server(c) PROVE Good
    <2>1. Measured(Now') /\ Users' = Users
      BY <1>1, <1>11, LinkStep DEF check_server, AdmitInv
    <2> QED BY <1>3, <1>11, <2>1 DEF check_server
  <1>12. ASSUME NEW c \in Clients, exit_client(c) PROVE Good
    <2> DEFINE z == close_connection(n, c)
    <2>1. /\ Commit(z) /\ config' = config
          /\ global_tree' = IF c \in Users THEN Shrink(global_tree, Ip[c]) ELSE global_tree
      BY <1>12 DEF exit_client
    <2> HIDE DEF n, g
    <2>2. \A d \in Clients \ {c} : n.conns[d].conf # Nobody => n.conns[d].st = "user"
      BY <1>5 DEF OnlyUsers
    <2>3. Measured(z) BY <1>1, <1>5, <2>2, CloseMeasured
    <2>4. z.conns[c] = NoConn /\ \A d \in Clients \ {c} : z.conns[d] = n.conns[d]
      BY <1>1, CloseSound
    <2> HIDE DEF z
    <2>5. Measured(Now') /\ Users' = UsersIn(z) BY <2>1, <2>3, CommitMeasured
    <2>6. UsersIn(z) = UsersIn(n) \ {c}
      <3>1. z.conns[c].st \notin {"user", "remote"} BY <2>4 DEF NoConn
      <3> QED BY <2>4, <3>1, UsersTurn
    <2>7. Users' = Users \ {c} BY <1>2, <2>5, <2>6
    <2>8. CASE c \in Users
      <3> HIDE DEF bits
      <3>1. Counting(Shrink(global_tree, Ip[c]), bits, Users \ {c}) BY <1>2, <1>3, <2>8, CountingShrink
      <3> QED BY <2>1, <2>5, <2>7, <2>8, <3>1 DEF bits
    <2>9. CASE c \notin Users
      <3>1. Users' = Users BY <2>7, <2>9
      <3> QED BY <1>3, <2>1, <2>5, <2>9, <3>1
    <2> QED BY <2>8, <2>9
  <1>13. ASSUME NEW file \in Configs, rehash(file) PROVE Good
    <2> DEFINE h == generation + 1
               t == read_conf(n, file, h)
    <2>1. /\ Commit(t) /\ config' = file
          /\ h \in Generations /\ h - 1 = g
          /\ global_tree' = IF file.global_bits = bits THEN global_tree
                            ELSE rehash_global_cidr_tree(file.global_bits)
      BY <1>1, <1>13, ClientsHaveAddresses DEF rehash, Generations
    <2> HIDE DEF g, n, h
    <2>2. Kept(n, h - 1) /\ TypesOK(n) BY <1>1, <2>1 DEF Sound, Kept
    <2>3. Measured(t) BY <1>1, <2>1, <2>2, ReadMeasured
    <2>4. t.conns = n.conns BY <2>1, <2>2, ReadSound
    <2> HIDE DEF t
    <2>5. Measured(Now') /\ Users' = UsersIn(t) BY <2>1, <2>3, CommitMeasured
    <2>6. Users' = Users BY <1>2, <2>4, <2>5 DEF UsersIn
    <2>7. file.global_bits \in DOMAIN Cover BY FilesComplete
    <2>8. conns \in [Clients -> ConnRec] BY <1>2, <2>2 DEF TypesOK
    <2>9. Counting(rehash_global_cidr_tree(file.global_bits), file.global_bits, Users)
      BY <2>7, <2>8, CountingAnew
    <2> QED BY <1>3, <2>1, <2>5, <2>6, <2>9
  <1> QED
    BY <1>6, <1>7, <1>8, <1>9, <1>10, <1>11, <1>12, <1>13 DEF LimitsNext

\* What attach_iline() and attach_conf() look at leaves room for c.
LEMMA Room ==
    ASSUME AdmitInv, NEW c \in Clients, NEW a \in Auths,
           a \notin ExemptLimits, ~TooMany(c),
           LET class == classes[auths[<<a, generation>>].class]
           IN  ~CidrFull(class, a, Ip[c]) /\ ~ClassFull(class, a)
    PROVE  RoomFor(c, <<a, generation>>)
  <1> DEFINE n == Now
             g == generation
             b == <<a, g>>
             k == auths[b].class
             class == classes[k]
             S == AttachedTo(k)
  <1>1. /\ g \in Generations /\ config \in Configs /\ Kept(n, g) /\ TypesOK(n) /\ Tracked(n)
        /\ Counting(global_tree, config.global_bits, Users)
    BY DEF AdmitInv, LimitsInv, Sound, Kept, Measured
  <1>2. n.classes = classes /\ n.auths = auths /\ n.conns = conns BY NowIs
  <1>3. b \in BlockIds BY <1>1 DEF BlockIds
  <1>4. k \in ClassIds BY <1>1, <1>2, <1>3 DEF TypesOK, BlockRec
  <1>5. ~CidrFull(class, a, Ip[c]) /\ ~ClassFull(class, a) OBVIOUS
  <1> HIDE DEF b
  <1>6. S = AttachedIn(n, k) /\ S \in SUBSET Clients
    BY <1>2 DEF AttachedTo, ClassOf, AttachedIn
  <1> HIDE DEF k
  <1>7. class \in ClassRec /\ Trie(class.limits) BY <1>1, <1>2, <1>4, ClassTrie
  <1>8. class.max \in Int /\ class.amount \in Nat BY <1>7 DEF ClassRec
  <1>9. class.total = Cardinality(S) + Cardinality(LinkedIn(n, k))
    BY <1>1, <1>2, <1>4, <1>6 DEF Kept, ClassesCounted
  <1>10. Cardinality(S) \in Nat /\ Cardinality(LinkedIn(n, k)) \in Nat BY <1>6, SetsFinite
  <1> HIDE DEF n, S, class
  <1>11. class.max > 0 => Cardinality(S) < class.max
    <2>1. class.max > 0 => ~(class.total >= class.max) BY <1>5 DEF ClassFull
    <2> QED BY <1>8, <1>9, <1>10, <2>1
  <1>12. ASSUME Limited(class)
         PROVE  /\ \A d \in S : Covering(class.limits, Ip[d]) # {}
                /\ \A m \in Covering(class.limits, Ip[c]) :
                     m = rb_match_ip(class.limits, Ip[c])
                     => Cardinality(InNode(class.limits, S, m)) < class.amount
    <2>1. Covers(class.limits, S)
      BY <1>1, <1>2, <1>4, <1>6, <1>12 DEF Tracked, class
    <2>2. ~(CountAt(class.limits, Ip[c]) >= class.amount) BY <1>5, <1>12 DEF CidrFull
    <2>3. ASSUME NEW m \in Covering(class.limits, Ip[c]), m = rb_match_ip(class.limits, Ip[c])
          PROVE  Cardinality(InNode(class.limits, S, m)) < class.amount
      <3>1. m \in DOMAIN class.limits BY DEF Covering
      <3>2. CountAt(class.limits, Ip[c]) = class.limits[m] BY <2>3 DEF CountAt
      <3>3. class.limits[m] \in Nat BY <1>7, <3>1, TrieAt
      <3>4. Cardinality(InNode(class.limits, S, m)) <= class.limits[m] BY <2>1, <3>1 DEF Covers
      <3>5. Cardinality(InNode(class.limits, S, m)) \in Nat
        BY <1>6, InNodeIs, SizeIs
      <3> QED BY <1>8, <2>2, <3>2, <3>3, <3>4, <3>5
    <2> QED BY <2>1, <2>3 DEF Covers
  <1>13. \A m : CountedIn(k, m) = InNode(class.limits, S, m) BY DEF CountedIn, InNode, S, class
  <1>14. Cardinality({d \in Users : Ip[d] \in Cover[config.global_bits][Ip[c]]}) < config.global_count
    <2> DEFINE bits == config.global_bits
               N == Cardinality({d \in Users : Ip[d] \in Cover[bits][Ip[c]]})
    <2>1. bits \in DOMAIN Cover /\ config.global_count \in Nat BY <1>1, FilesComplete
    <2>2. Ip[c] \in Ips /\ Users \in SUBSET Clients BY ClientsHaveAddresses, UsersNow
    <2>3. ~(CountAt(global_tree, Ip[c]) >= config.global_count) BY DEF TooMany
    <2>4. Trie(global_tree) /\ Even(global_tree, bits) /\ Covers(global_tree, Users)
      BY <1>1 DEF Counting
    <2> HIDE DEF bits
    <2>5. N <= CountAt(global_tree, Ip[c]) /\ N \in Nat /\ CountAt(global_tree, Ip[c]) \in Nat
      BY <2>1, <2>2, <2>4, EvenCount
    <2> HIDE DEF N
    <2>6. N < config.global_count BY <2>1, <2>3, <2>5
    <2> QED BY <2>6 DEF N, bits
  <1>15. RoomFor(c, b)
    BY <1>11, <1>12, <1>13, <1>14 DEF RoomFor, k, S, class
  <1> QED BY <1>15 DEF b

\* What a step has to do to admit a client.
Admits(c) ==
  conns[c].conf = Nobody /\ conns'[c].conf # Nobody /\ conns'[c].conf[1] \notin ExemptLimits

LEMMA AdmitsUnderLimits ==
    ASSUME AdmitInv, LimitsNext, NEW c \in Clients, Admits(c)
    PROVE  RoomFor(c, conns'[c].conf)
  <1> DEFINE n == Now
             g == generation
  <1>1. g \in Generations /\ config \in Configs /\ Sound(n, g) /\ Measured(n)
    BY DEF AdmitInv, LimitsInv
  <1>2. n.conns = conns /\ n.classes = classes /\ n.auths = auths BY NowIs
  <1>3. \A d \in Clients : conns[d] \in ConnRec BY <1>1, <1>2, ConnTypes DEF Sound, Kept
  <1>4. conns[c].conf = Nobody /\ conns'[c].conf # Nobody /\ conns'[c].conf[1] \notin ExemptLimits
    BY DEF Admits
  <1>5. DOMAIN conns = Clients BY <1>1, <1>2 DEF Sound, Kept, TypesOK
  <1>6. ASSUME NEW d \in Clients, NEW st \in {"gone", "unknown", "user", "remote", "server"},
               conns' = [conns EXCEPT ![d] = Being(@, st)]
        PROVE  FALSE
    <2>1. Being(conns[d], st).conf = conns[d].conf BY <1>3, BeingIs
    <2>2. conns'[c].conf = conns[c].conf BY <1>5, <1>6, <2>1
    <2> QED BY <1>4, <2>2
  <1>7. \A d \in Clients : ~add_connection(d) /\ ~register_client(d)
    BY <1>6 DEF add_connection, register_client
  <1>8. ASSUME NEW d \in Clients, NEW st \in {"unknown", "server"}, conns[d].conf = Nobody,
               Commit(attach_server_conf(In(n, d, st), d, g))
        PROVE  FALSE
    <2> DEFINE m == In(n, d, st)
               t == attach_server_conf(m, d, g)
    <2>1. st \in {"gone", "unknown", "user", "remote", "server"} OBVIOUS
    <2>2. n.conns[d].conf = Nobody BY <1>2, <1>8
    <2>3. conns' = t.conns BY <1>8 DEF Commit
    <2> HIDE DEF n, g
    <2>4. Sound(m, g) /\ SameBut(n, m, d) /\ m.conns[d].conf = Nobody
      BY <1>1, <2>1, <2>2, TurnMeasured
    <2> HIDE DEF m
    <2>5. SameBut(m, t, d) /\ t.conns[d].conf = m.conns[d].conf BY <1>1, <2>4, AttachServerSound
    <2> HIDE DEF t
    <2> QED BY <1>2, <1>4, <2>3, <2>4, <2>5 DEF SameBut
  <1>9. \A d \in Clients : conns[d].st # "user" => conns[d].conf = Nobody
    BY <1>1, <1>2 DEF Measured, OnlyUsers
  <1>10. \A d \in Clients : ~serv_connect(d) /\ ~check_server(d)
    <2>1. ASSUME NEW d \in Clients, serv_connect(d) PROVE FALSE
      <3>1. conns[d].conf = Nobody /\ Commit(attach_server_conf(In(n, d, "unknown"), d, g))
        BY <1>9, <2>1 DEF serv_connect
      <3> HIDE DEF n, g
      <3> QED BY <1>8, <3>1
    <2>2. ASSUME NEW d \in Clients, check_server(d) PROVE FALSE
      <3>1. conns[d].conf = Nobody /\ Commit(attach_server_conf(In(n, d, "server"), d, g))
        BY <1>9, <2>2 DEF check_server
      <3> HIDE DEF n, g
      <3> QED BY <1>8, <3>1
    <2> QED BY <2>1, <2>2
  <1>11. ASSUME NEW d \in Clients, exit_client(d) PROVE FALSE
    <2> DEFINE z == close_connection(n, d)
    <2>1. conns' = z.conns BY <1>11 DEF exit_client, Commit
    <2> HIDE DEF n, g
    <2>2. z.conns[d] = NoConn /\ \A e \in Clients \ {d} : z.conns[e] = n.conns[e]
      BY <1>1, CloseSound
    <2> HIDE DEF z
    <2> QED BY <1>2, <1>4, <2>1, <2>2 DEF NoConn
  <1>12. ASSUME NEW file \in Configs, rehash(file) PROVE FALSE
    <2> DEFINE h == generation + 1
               t == read_conf(n, file, h)
    <2>1. Commit(t) /\ h \in Generations /\ h - 1 = g
      BY <1>1, <1>12, ClientsHaveAddresses DEF rehash, Generations
    <2>2. conns' = t.conns BY <2>1 DEF Commit
    <2> HIDE DEF g, n, h
    <2>3. Kept(n, h - 1) BY <1>1, <2>1 DEF Sound
    <2>4. t.conns = n.conns BY <2>1, <2>3, ReadSound
    <2> HIDE DEF t
    <2> QED BY <1>2, <1>4, <2>2, <2>4
  <1>13. ASSUME NEW d \in Clients, register_local_user(d)
         PROVE  RoomFor(c, conns'[c].conf)
    <2>1. PICK a \in Auths :
            LET s == attach_iline(n, d, <<a, g>>)
            IN  Commit(In(s, d, "user")) \/ Commit(close_connection(s, d))
      BY <1>13 DEF register_local_user
    <2> DEFINE s == attach_iline(n, d, <<a, g>>)
               j == attach_conf(n, d, <<a, g>>)
               u == In(s, d, "user")
               z == close_connection(s, d)
    <2>2. s = n \/ (s = j /\ (a \in ExemptLimits \/ ~TooMany(d))) BY DEF attach_iline
    <2>3. n.conns[d].conf = Nobody BY <1>2, <1>9, <1>13 DEF register_local_user
    <2>4. conns' = u.conns \/ conns' = z.conns BY <2>1 DEF Commit
    <2> HIDE DEF n, g, s
    <2>5. /\ Sound(j, g) /\ Tracked(j) /\ Settled(j)
          /\ \A e \in Clients \ {d} : j.conns[e] = n.conns[e]
          /\ j.conns[d].conf # Nobody =>
               /\ j.conns[d].conf = <<a, g>>
               /\ ~CidrFull(n.classes[n.auths[<<a, g>>].class], a, Ip[d])
               /\ ~ClassFull(n.classes[n.auths[<<a, g>>].class], a)
      BY <1>1, <2>3, AttachMeasured
    <2> HIDE DEF j
    <2>6. Sound(s, g) /\ Tracked(s) /\ Settled(s) /\ \A e \in Clients \ {d} : s.conns[e] = n.conns[e]
      BY <1>1, <2>2, <2>5 DEF Measured
    <2>7. \A e \in Clients \ {d} : s.conns[e].conf # Nobody => s.conns[e].st = "user"
      BY <1>1, <2>6 DEF Measured, OnlyUsers
    <2>8. SameBut(s, u, d) /\ u.conns[d].conf = s.conns[d].conf
      BY <1>1, <2>6, <2>7, InMeasured
    <2>9. z.conns[d] = NoConn /\ \A e \in Clients \ {d} : z.conns[e] = s.conns[e]
      BY <1>1, <2>6, CloseSound
    <2> HIDE DEF u, z
    <2>10. c = d /\ conns' = u.conns
      BY <1>2, <1>4, <2>4, <2>6, <2>8, <2>9 DEF SameBut, NoConn
    <2>11. conns'[c].conf = s.conns[d].conf BY <2>8, <2>10
    <2>12. s = j BY <1>4, <2>2, <2>3, <2>11
    <2>13. /\ conns'[c].conf = <<a, g>>
           /\ ~CidrFull(n.classes[n.auths[<<a, g>>].class], a, Ip[d])
           /\ ~ClassFull(n.classes[n.auths[<<a, g>>].class], a)
      BY <1>4, <2>5, <2>11, <2>12
    <2>14. a \notin ExemptLimits BY <1>4, <2>13
    <2>15. ~TooMany(c) BY <1>4, <2>2, <2>3, <2>10, <2>11, <2>14
    <2>16. RoomFor(c, <<a, generation>>)
      BY <1>2, <2>10, <2>13, <2>14, <2>15, Room DEF g
    <2> QED BY <2>13, <2>16 DEF g
  <1> QED
    BY <1>7, <1>10, <1>11, <1>12, <1>13 DEF LimitsNext

\* The limits hold for every number of clients, classes, address blocks and
\* configuration files, as long as no file turns the counting by CIDR block of
\* a class on or off: a client is admitted to a block without exceed_limit only
\* while the clients really there are fewer than the limits of its class, of
\* its CIDR block and of the network (attach_iline(), attach_conf(),
\* add_ip_limit(), detach_conf(), rehash_global_cidr_tree()).
THEOREM AdmittedAlways ==
    ASSUME LimitsSteady
    PROVE  LimitsSpec => AdmittedUnderLimits
  <1>1. LimitsInit => AdmitInv BY AdmitStart
  <1>2. AdmitInv /\ [LimitsNext]_limitVars => AdmitInv' BY AdmitStep
  <1>3. AdmitInv /\ [LimitsNext]_limitVars =>
          [\A c \in Clients :
             (conns[c].conf = Nobody /\ conns'[c].conf # Nobody /\ conns'[c].conf[1] \notin ExemptLimits)
             => RoomFor(c, conns'[c].conf)]_limitVars
    BY AdmitsUnderLimits DEF Admits
  <1> QED BY <1>1, <1>2, <1>3, PTL DEF LimitsSpec, AdmittedUnderLimits

-----------------------------------------------------------------------------
(* Bans: the inductive invariant behind ListWhole.                          *)

Ask == [type : {"add", "del"}, ban : Bans] \cup [type : {"list"}]

Reply == [type : {"C"}] \cup [type : {"ban"}, ban : Bans]
           \cup [type : {"F"}, of : SUBSET Bans]

PipesOK ==
    /\ requests \in Seq(Ask) /\ replies \in Seq(Reply)
    /\ db \subseteq Bans /\ bandb_pending \subseteq Bans

\* The replies i..j of s are bans, and these.
Lines(s, i, j, bans) ==
    /\ \A k \in i..j : s[k].type = "ban"
    /\ bans = {s[k].ban : k \in i..j}

\* The "F" at i of s ends a list: what follows the last "C" before it, or, if
\* the server has read that, what is pending and what is still to be read.
Framed(s, pending, i) ==
    \/ \E j \in 1..(i - 1) : s[j].type = "C" /\ Lines(s, j + 1, i - 1, s[i].of)
    \/ \E bans \in SUBSET Bans : Lines(s, 1, i - 1, bans) /\ pending \cup bans = s[i].of

FramesWhole ==
    \A i \in 1..Len(replies) :
       replies[i].type = "F" => Framed(replies, bandb_pending, i)

FrameInv == PipesOK /\ FramesWhole

-----------------------------------------------------------------------------
(* BannedLeave.                                                            *)

\* Nobody whom a ban matches is there at the start, when nobody is, and no
\* step lets one in or places a ban without the check of the users or its
\* event.
THEOREM BannedUsersLeave == BansSpec => []BannedLeave
  <1>1. BansInit => BannedLeave
    BY DEF BansInit, BannedLeave
  <1>2. BannedLeave /\ [BansNext]_banVars => BannedLeave'
    <2> SUFFICES ASSUME BannedLeave, [BansNext]_banVars
                 PROVE  BannedLeave'
      OBVIOUS
    <2> USE DEF BannedLeave, InForce, OfKind, Hit
    <2>1. ASSUME NEW b \in Bans, NEW admin \in BOOLEAN, place_permanent(b, admin)
          PROVE  BannedLeave'
      BY <2>1 DEF place_permanent, CheckAgainst, Remaining
    <2>2. ASSUME NEW b \in Bans, NEW admin \in BOOLEAN, remove_permanent(b, admin)
          PROVE  BannedLeave'
      BY <2>2 DEF remove_permanent
    <2>3. ASSUME NEW b \in Bans, place_temporary(b)
          PROVE  BannedLeave'
      BY <2>3 DEF place_temporary, CheckAgainst, Remaining
    <2>4. ASSUME NEW b \in Bans, remove_temporary(b) \/ expire_temp(b)
          PROVE  BannedLeave'
      BY <2>4 DEF remove_temporary, expire_temp
    <2>5. ASSUME NEW c \in People, user_registers(c)
          PROVE  BannedLeave'
      BY <2>5 DEF user_registers
    <2>6. CASE check_klines_event
      BY <2>6 DEF check_klines_event, Remaining
    <2>7. CASE bandb_rehash_bans
      BY <2>7 DEF bandb_rehash_bans, commandVars
    <2>8. CASE parse_request
      BY <2>8 DEF parse_request
    <2>9. CASE bandb_restart_cb
      BY <2>9 DEF bandb_restart_cb
    <2>10. CASE bandb_parse
      BY <2>10 DEF bandb_parse, bandb_handle_finish, Remaining
    <2>11. CASE UNCHANGED banVars
      BY <2>11 DEF banVars
    <2> QED BY <2>1, <2>2, <2>3, <2>4, <2>5, <2>6, <2>7, <2>8, <2>9, <2>10, <2>11
            DEF BansNext
  <1> QED BY <1>1, <1>2, PTL DEF BansSpec

-----------------------------------------------------------------------------
(* ListWhole.                                                              *)

\* A finite set as a sequence: every element of it, and no other.
LEMMA SetToSeqWhole ==
    ASSUME NEW S, IsFiniteSet(S)
    PROVE  SetToSeq(S) \in Seq(S) /\ {SetToSeq(S)[i] : i \in 1..Len(SetToSeq(S))} = S
  <1> DEFINE n == Cardinality(S)
             f == SetToSeq(S)
  <1>1. n \in Nat /\ ExistsBijection(1..n, S)
    BY FS_CardinalityType
  <1>2. PICK g \in [1..n -> S] : IsInjective(g)
    BY <1>1 DEF ExistsBijection, Bijection, Injection, IsInjective
  <1>3. f \in [1..n -> S] /\ IsInjective(f)
    BY <1>2 DEF SetToSeq
  <1>4. f \in Injection(1..n, S)
    BY <1>3 DEF Injection, IsInjective
  <1>5. IsFiniteSet(1..n) /\ Cardinality(1..n) = n
    BY <1>1, FS_Interval, SMT
  <1>6. f \in Surjection(1..n, S)
    BY <1>4, <1>5, FS_Injection
  <1>7. {f[i] : i \in 1..n} = S
    BY <1>3, <1>6 DEF Surjection
  <1>8. f \in Seq(S) /\ Len(f) = n
    BY <1>1, <1>3
  <1> QED BY <1>7, <1>8

\* What list_bans writes: "C", a line for each ban of the table, "F".
LEMMA ListBans ==
    ASSUME db \subseteq Bans
    PROVE  \E n \in Nat :
             /\ list_bans \in Seq(Reply) /\ Len(list_bans) = n + 2
             /\ list_bans[1].type = "C"
             /\ Lines(list_bans, 2, n + 1, db)
             /\ list_bans[n + 2] = [type |-> "F", of |-> db]
  <1> DEFINE S == {Line(b) : b \in db}
             f == SetToSeq(S)
             n == Len(f)
             first == <<[type |-> "C"]>>
             last == <<[type |-> "F", of |-> db]>>
  <1>1. IsFiniteSet(S)
    <2>1. IsFiniteSet(db) BY BansFinite, FS_Subset
    <2>2. [b \in db |-> Line(b)] \in Surjection(db, S)
      BY DEF Surjection
    <2> QED BY <2>1, <2>2, FS_Surjection
  <1>2. f \in Seq(S) /\ {f[i] : i \in 1..n} = S
    BY <1>1, SetToSeqWhole
  <1>3. S \subseteq Reply BY DEF Reply, Line
  <1>4. f \in Seq(Reply) BY <1>2, <1>3, SeqMonotonic
  <1>5. first \in Seq(Reply) /\ last \in Seq(Reply) BY DEF Reply
  <1>6. list_bans = (first \o f) \o last BY DEF list_bans
  <1>7. n \in Nat BY <1>4
  <1> HIDE DEF f, n
  <1>8. /\ first \o f \in Seq(Reply) /\ Len(first \o f) = n + 1
        /\ (first \o f)[1] = [type |-> "C"]
        /\ \A k \in 2..(n + 1) : (first \o f)[k] = f[k - 1]
    BY <1>4, <1>5, <1>7 DEF n
  <1>9. /\ list_bans \in Seq(Reply) /\ Len(list_bans) = n + 2
        /\ list_bans[1] = [type |-> "C"]
        /\ \A k \in 2..(n + 1) : list_bans[k] = f[k - 1]
        /\ list_bans[n + 2] = [type |-> "F", of |-> db]
    BY <1>5, <1>6, <1>7, <1>8
  <1>10. \A k \in 2..(n + 1) : list_bans[k] \in S
    <2> TAKE k \in 2..(n + 1)
    <2>1. k - 1 \in 1..n BY <1>7
    <2>2. f[k - 1] \in S BY <1>2, <2>1
    <2> QED BY <1>9, <2>2
  <1>11. \A b \in db : \E k \in 2..(n + 1) : list_bans[k] = Line(b)
    <2> TAKE b \in db
    <2>1. PICK i \in 1..n : f[i] = Line(b) BY <1>2
    <2>2. i + 1 \in 2..(n + 1) /\ list_bans[i + 1] = f[i]
      BY <1>7, <1>9, <2>1
    <2> QED BY <2>1, <2>2
  <1>12. Lines(list_bans, 2, n + 1, db)
    <2>1. \A k \in 2..(n + 1) : list_bans[k].type = "ban" /\ list_bans[k].ban \in db
      BY <1>10 DEF Line
    <2>2. \A b \in db : \E k \in 2..(n + 1) : list_bans[k].ban = b
      <3> TAKE b \in db
      <3>1. PICK k \in 2..(n + 1) : list_bans[k] = Line(b) BY <1>11
      <3>2. list_bans[k].ban = b BY <3>1 DEF Line
      <3> QED BY <3>2
    <2> QED BY <2>1, <2>2 DEF Lines
  <1> QED BY <1>7, <1>9, <1>12

\* Whether an "F" ends a list depends on what comes before it only.
LEMMA FramedPrefix ==
    ASSUME NEW s, NEW t, NEW pending, NEW i \in Nat,
           \A k \in 1..i : s[k] = t[k], Framed(s, pending, i), i # 0
    PROVE  Framed(t, pending, i)
  <1>1. i \in 1..i /\ s[i] = t[i] OBVIOUS
  <1>2. CASE \E j \in 1..(i - 1) : s[j].type = "C" /\ Lines(s, j + 1, i - 1, s[i].of)
    <2>1. PICK j \in 1..(i - 1) : s[j].type = "C" /\ Lines(s, j + 1, i - 1, s[i].of)
      BY <1>2
    <2>2. \A k \in (j + 1)..(i - 1) : s[k] = t[k] BY <2>1
    <2>3. Lines(t, j + 1, i - 1, t[i].of) BY <1>1, <2>1, <2>2 DEF Lines
    <2> QED BY <2>1, <2>3 DEF Framed
  <1>3. CASE \E bans \in SUBSET Bans : Lines(s, 1, i - 1, bans) /\ pending \cup bans = s[i].of
    <2>1. PICK bans \in SUBSET Bans : Lines(s, 1, i - 1, bans) /\ pending \cup bans = s[i].of
      BY <1>3
    <2>2. \A k \in 1..(i - 1) : s[k] = t[k] OBVIOUS
    <2>3. Lines(t, 1, i - 1, bans) BY <2>1, <2>2 DEF Lines
    <2> QED BY <1>1, <2>1, <2>3 DEF Framed
  <1> QED BY <1>2, <1>3 DEF Framed

\* The helper answers "list": the new "F" follows its own "C".
LEMMA ListingFrames ==
    ASSUME FrameInv, replies' = replies \o list_bans, bandb_pending' = bandb_pending
    PROVE  replies' \in Seq(Reply) /\ FramesWhole'
  <1> DEFINE m == Len(replies)
  <1>1. PICK n \in Nat :
             /\ list_bans \in Seq(Reply) /\ Len(list_bans) = n + 2
             /\ list_bans[1].type = "C"
             /\ Lines(list_bans, 2, n + 1, db)
             /\ list_bans[n + 2] = [type |-> "F", of |-> db]
    BY ListBans DEF FrameInv, PipesOK
  <1>2. replies \in Seq(Reply) /\ m \in Nat BY DEF FrameInv, PipesOK
  <1>3. /\ replies' \in Seq(Reply) /\ Len(replies') = m + n + 2
        /\ \A k \in 1..m : replies'[k] = replies[k]
        /\ \A k \in 1..(n + 2) : replies'[m + k] = list_bans[k]
    <2>1. /\ replies' \in Seq(Reply) /\ Len(replies') = m + (n + 2)
          /\ \A k \in 1..(m + (n + 2)) :
                replies'[k] = IF k <= m THEN replies[k] ELSE list_bans[k - m]
      <3>1. list_bans \in Seq(Reply) /\ Len(list_bans) = n + 2 BY <1>1
      <3>2. /\ replies' \in Seq(Reply) /\ Len(replies') = Len(replies) + Len(list_bans)
            /\ \A k \in 1..(Len(replies) + Len(list_bans)) :
                  replies'[k] = IF k <= Len(replies) THEN replies[k] ELSE list_bans[k - Len(replies)]
        BY <1>2, <3>1, ConcatProperties, Zenon
      <3> QED BY <3>1, <3>2, Zenon
    <2>2. ASSUME NEW k \in 1..(n + 2) PROVE replies'[m + k] = list_bans[k]
      <3>1. m + k \in 1..(m + (n + 2)) /\ ~(m + k <= m) /\ (m + k) - m = k BY <1>2
      <3> QED BY <2>1, <3>1
    <2>3. ASSUME NEW k \in 1..m PROVE replies'[k] = replies[k]
      <3>1. k \in 1..(m + (n + 2)) /\ k <= m BY <1>2
      <3> QED BY <2>1, <3>1
    <2> QED BY <1>2, <2>1, <2>2, <2>3
  <1> HIDE DEF m
  <1>4. ASSUME NEW i \in 1..m, replies'[i].type = "F"
        PROVE  Framed(replies', bandb_pending', i)
    <2>1. replies[i].type = "F" BY <1>3, <1>4
    <2>2. Framed(replies, bandb_pending, i) BY <1>2, <2>1 DEF FrameInv, FramesWhole, m
    <2>3. i \in Nat /\ i # 0 /\ \A k \in 1..i : replies[k] = replies'[k] BY <1>2, <1>3
    <2> QED BY <2>2, <2>3, FramedPrefix
  <1>5. ASSUME NEW k \in 1..(n + 2), replies'[m + k].type = "F"
        PROVE  Framed(replies', bandb_pending', m + k)
    <2>1. list_bans[k].type = "F" BY <1>3, <1>5
    <2>2. k = n + 2
      <3>1. \A j \in 2..(n + 1) : list_bans[j].type = "ban" BY <1>1 DEF Lines
      <3> QED BY <1>1, <2>1, <3>1
    <2>3. m + 1 \in 1..((m + k) - 1) /\ replies'[m + 1].type = "C" BY <1>1, <1>2, <1>3, <2>2
    <2>4. replies'[m + k].of = db
      <3>1. replies'[m + k] = list_bans[n + 2] BY <1>3, <2>2
      <3> QED BY <1>1, <3>1
    <2>5. Lines(replies', (m + 1) + 1, (m + k) - 1, db)
      <3>1. \A j \in ((m + 1) + 1)..((m + k) - 1) :
               j - m \in 2..(n + 1) /\ replies'[j] = list_bans[j - m]
        <4> TAKE j \in ((m + 1) + 1)..((m + k) - 1)
        <4>1. j - m \in 2..(n + 1) /\ j - m \in 1..(n + 2) /\ m + (j - m) = j BY <1>2, <2>2
        <4> QED BY <1>3, <4>1
      <3>2. \A j \in 2..(n + 1) :
               m + j \in ((m + 1) + 1)..((m + k) - 1) /\ replies'[m + j] = list_bans[j]
        <4> TAKE j \in 2..(n + 1)
        <4>1. m + j \in ((m + 1) + 1)..((m + k) - 1) /\ j \in 1..(n + 2) BY <1>2, <2>2
        <4> QED BY <1>3, <4>1
      <3>3. \A j \in ((m + 1) + 1)..((m + k) - 1) :
               replies'[j].type = "ban" /\ replies'[j].ban \in db
        BY <1>1, <3>1 DEF Lines
      <3>4. \A b \in db : \E j \in ((m + 1) + 1)..((m + k) - 1) : replies'[j].ban = b
        <4> TAKE b \in db
        <4>1. PICK j \in 2..(n + 1) : list_bans[j].ban = b BY <1>1 DEF Lines
        <4> QED BY <3>2, <4>1
      <3> QED BY <3>3, <3>4 DEF Lines
    <2>6. \E j \in 1..((m + k) - 1) :
             replies'[j].type = "C" /\ Lines(replies', j + 1, (m + k) - 1, replies'[m + k].of)
      BY <2>3, <2>4, <2>5, Zenon
    <2> QED BY <2>6 DEF Framed
  <1>6. ASSUME NEW i \in 1..Len(replies'), replies'[i].type = "F"
        PROVE  Framed(replies', bandb_pending', i)
    <2>1. CASE i \in 1..m BY <1>4, <1>6, <2>1
    <2>2. CASE i \notin 1..m
      <3>1. i - m \in 1..(n + 2) /\ m + (i - m) = i BY <1>2, <1>3, <2>2
      <3> QED BY <1>5, <1>6, <3>1
    <2> QED BY <2>1, <2>2
  <1> QED BY <1>3, <1>6 DEF FramesWhole

\* The helper dies: what is left of the pipe is a prefix of it.
LEMMA RestartFrames ==
    ASSUME FrameInv, NEW n \in 0..Len(replies), replies' = SubSeq(replies, 1, n),
           bandb_pending' = bandb_pending
    PROVE  replies' \in Seq(Reply) /\ FramesWhole'
  <1>1. replies \in Seq(Reply) BY DEF FrameInv, PipesOK
  <1>2. /\ replies' \in Seq(Reply) /\ Len(replies') = n
        /\ \A k \in 1..n : replies'[k] = replies[k]
    BY <1>1
  <1>3. ASSUME NEW i \in 1..n, replies'[i].type = "F"
        PROVE  Framed(replies', bandb_pending', i)
    <2>1. Framed(replies, bandb_pending, i)
      BY <1>1, <1>2, <1>3 DEF FrameInv, FramesWhole
    <2>2. i \in Nat /\ i # 0 /\ \A k \in 1..i : replies[k] = replies'[k] BY <1>1, <1>2
    <2> QED BY <2>1, <2>2, FramedPrefix
  <1> QED BY <1>2, <1>3 DEF FramesWhole

\* The server reads a reply.  A ban moves from the pipe to what is pending;
\* after "C" nothing is pending, and "F" ends its own list only.
LEMMA ParseFrames ==
    ASSUME FrameInv, bandb_parse
    PROVE  replies' \in Seq(Reply) /\ bandb_pending' \subseteq Bans /\ FramesWhole'
  <1> DEFINE r == Head(replies)
  <1>1. replies \in Seq(Reply) /\ bandb_pending \subseteq Bans /\ replies # <<>>
    BY DEF FrameInv, PipesOK, bandb_parse
  <1>2. /\ replies' \in Seq(Reply) /\ Len(replies') = Len(replies) - 1
        /\ \A k \in 1..Len(replies') : replies'[k] = replies[k + 1]
        /\ r = replies[1] /\ r \in Reply
    BY <1>1 DEF bandb_parse
  <1>3. \/ r.type = "ban" /\ r.ban \in Bans /\ bandb_pending' = bandb_pending \cup {r.ban}
        \/ r.type = "C" /\ bandb_pending' = {}
        \/ r.type = "F" /\ bandb_pending' = {}
    BY <1>2 DEF bandb_parse, bandb_handle_finish, Reply
  <1>4. ASSUME NEW i \in 1..Len(replies'), replies'[i].type = "F"
        PROVE  Framed(replies', bandb_pending', i)
    <2>1. /\ i + 1 \in 1..Len(replies) /\ replies[i + 1] = replies'[i]
          /\ i \in Nat /\ Len(replies) \in Nat
      BY <1>1, <1>2, <1>4
    <2>2. Framed(replies, bandb_pending, i + 1)
      BY <1>4, <2>1 DEF FrameInv, FramesWhole
    <2>3. \A j \in Nat : \A bans : Lines(replies, j + 1, i, bans) /\ j >= 1 => Lines(replies', j, i - 1, bans)
      <3> TAKE j \in Nat
      <3> TAKE bans
      <3> HAVE Lines(replies, j + 1, i, bans) /\ j >= 1
      <3>1. \A k \in j..(i - 1) : k + 1 \in (j + 1)..i /\ replies'[k] = replies[k + 1]
        BY <1>2, <2>1
      <3>2. \A k \in (j + 1)..i : k - 1 \in j..(i - 1) /\ replies'[k - 1] = replies[k]
        <4> TAKE k \in (j + 1)..i
        <4>1. k - 1 \in j..(i - 1) /\ (k - 1) + 1 = k BY <2>1
        <4> QED BY <3>1, <4>1
      <3>3. \A k \in j..(i - 1) : replies'[k].type = "ban" /\ replies'[k].ban \in bans
        BY <3>1 DEF Lines
      <3>4. \A b \in bans : \E k \in j..(i - 1) : replies'[k].ban = b
        <4> TAKE b \in bans
        <4>1. PICK k \in (j + 1)..i : replies[k].ban = b BY DEF Lines
        <4> QED BY <3>2, <4>1
      <3> QED BY <3>3, <3>4 DEF Lines
    <2>4. CASE \E j \in 1..((i + 1) - 1) :
                 replies[j].type = "C" /\ Lines(replies, j + 1, (i + 1) - 1, replies[i + 1].of)
      <3>1. PICK j \in 1..i : replies[j].type = "C" /\ Lines(replies, j + 1, i, replies[i + 1].of)
        BY <2>1, <2>4
      <3>2. CASE j = 1
        <4>1. Lines(replies', 1, i - 1, replies'[i].of) BY <2>1, <2>3, <3>1, <3>2
        <4>2. bandb_pending' = {} BY <1>2, <1>3, <3>1, <3>2
        <4>3. replies'[i].of \in SUBSET Bans BY <1>2, <1>4 DEF Reply
        <4> QED BY <4>1, <4>2, <4>3 DEF Framed
      <3>3. CASE j # 1
        <4>1. j - 1 \in 1..(i - 1) /\ (j - 1) + 1 = j BY <2>1, <3>3
        <4>2. replies'[j - 1].type = "C" BY <1>2, <2>1, <3>1, <4>1
        <4>3. Lines(replies', (j - 1) + 1, i - 1, replies'[i].of) BY <2>1, <2>3, <3>1, <4>1
        <4> QED BY <4>1, <4>2, <4>3 DEF Framed
      <3> QED BY <3>2, <3>3
    <2>5. CASE \E bans \in SUBSET Bans :
                 Lines(replies, 1, (i + 1) - 1, bans) /\ bandb_pending \cup bans = replies[i + 1].of
      <3>1. PICK bans \in SUBSET Bans :
                 Lines(replies, 1, i, bans) /\ bandb_pending \cup bans = replies'[i].of
        BY <2>1, <2>5
      <3>2. r.type = "ban" /\ r.ban \in bans
        BY <1>2, <2>1, <3>1 DEF Lines
      <3> DEFINE rest == {replies[k].ban : k \in 2..i}
      <3>3. Lines(replies, 1 + 1, i, rest) BY <3>1 DEF Lines
      <3>4. bans = rest \cup {r.ban}
        BY <1>2, <2>1, <3>1 DEF Lines
      <3> HIDE DEF rest
      <3>5. Lines(replies', 1, i - 1, rest) BY <2>3, <3>3
      <3>6. bandb_pending' = bandb_pending \cup {r.ban} BY <1>3, <3>2
      <3>7. bandb_pending' \cup rest = replies'[i].of /\ rest \in SUBSET Bans
        BY <3>1, <3>4, <3>6
      <3> QED BY <3>5, <3>7 DEF Framed
    <2> QED BY <2>2, <2>4, <2>5 DEF Framed
  <1> QED BY <1>1, <1>2, <1>3, <1>4 DEF FramesWhole

\* Every step keeps the pipes well formed and every list in them whole.
LEMMA FrameStep == FrameInv /\ [BansNext]_banVars => FrameInv'
  <1> SUFFICES ASSUME FrameInv, [BansNext]_banVars
               PROVE  FrameInv'
    OBVIOUS
  <1>1. /\ requests \in Seq(Ask) /\ replies \in Seq(Reply)
        /\ db \subseteq Bans /\ bandb_pending \subseteq Bans /\ FramesWhole
    BY DEF FrameInv, PipesOK
  <1>2. ASSUME NEW r \in Ask, bandb_write(r) PROVE requests' \in Seq(Ask)
    BY <1>1, <1>2 DEF bandb_write
  <1>3. ASSUME UNCHANGED commandVars, requests' \in Seq(Ask) PROVE FrameInv'
    BY <1>1, <1>3 DEF commandVars, FrameInv, PipesOK, FramesWhole
  <1>4. ASSUME NEW b \in Bans, NEW admin \in BOOLEAN,
               place_permanent(b, admin) \/ remove_permanent(b, admin)
        PROVE  FrameInv'
    <2>1. [type |-> "add", ban |-> b] \in Ask /\ [type |-> "del", ban |-> b] \in Ask
      BY DEF Ask
    <2> QED BY <1>2, <1>3, <1>4, <2>1 DEF place_permanent, remove_permanent
  <1>5. ASSUME NEW b \in Bans, place_temporary(b) \/ remove_temporary(b) \/ expire_temp(b)
        PROVE  FrameInv'
    BY <1>1, <1>3, <1>5 DEF place_temporary, remove_temporary, expire_temp
  <1>6. ASSUME (\E c \in People : user_registers(c)) \/ check_klines_event
        PROVE  FrameInv'
    BY <1>1, <1>3, <1>6 DEF user_registers, check_klines_event
  <1>7. CASE bandb_rehash_bans
    <2>1. [type |-> "list"] \in Ask BY DEF Ask
    <2> QED BY <1>2, <1>3, <1>7, <2>1 DEF bandb_rehash_bans
  <1>8. CASE parse_request
    <2> DEFINE r == Head(requests)
    <2>1. r \in Ask /\ requests' \in Seq(Ask) BY <1>1, <1>8 DEF parse_request
    <2>2. db' \subseteq Bans
      BY <1>1, <1>8, <2>1 DEF parse_request, Deleted, Ask
    <2>3. bandb_pending' = bandb_pending BY <1>8 DEF parse_request
    <2>4. CASE r.type = "list"
      <3>1. replies' = replies \o list_bans BY <1>8, <2>4 DEF parse_request
      <3> QED BY <1>1, <2>1, <2>2, <2>3, <3>1, ListingFrames DEF FrameInv, PipesOK
    <2>5. CASE r.type # "list"
      <3>1. replies' = replies BY <1>8, <2>5 DEF parse_request
      <3> QED BY <1>1, <2>1, <2>2, <2>3, <3>1 DEF FrameInv, PipesOK, FramesWhole
    <2> QED BY <2>4, <2>5
  <1>9. CASE bandb_restart_cb
    <2>1. PICK n \in 0..Len(replies) : replies' = SubSeq(replies, 1, n)
      BY <1>9 DEF bandb_restart_cb
    <2>2. requests' = <<>> /\ bandb_pending' = bandb_pending /\ db' = db
      BY <1>9 DEF bandb_restart_cb
    <2>3. replies' \in Seq(Reply) /\ FramesWhole' BY <2>1, <2>2, RestartFrames
    <2> QED BY <1>1, <2>2, <2>3 DEF FrameInv, PipesOK
  <1>10. CASE bandb_parse
    <2>1. requests' = requests /\ db' = db BY <1>10 DEF bandb_parse
    <2> QED BY <1>1, <1>10, <2>1, ParseFrames DEF FrameInv, PipesOK
  <1>11. CASE UNCHANGED banVars
    BY <1>1, <1>3, <1>11 DEF banVars, commandVars
  <1> QED BY <1>4, <1>5, <1>6, <1>7, <1>8, <1>9, <1>10, <1>11 DEF BansNext

\* A list is applied whole or not at all, however often the helper dies
\* between the lines of one (bandb_handle_clear, bandb_handle_finish).
THEOREM ListsWhole == BansSpec => []ListWhole
  <1>1. BansInit => FrameInv
    BY DEF BansInit, FrameInv, PipesOK, FramesWhole, Ask
  <1>2. FrameInv => ListWhole
    <2> SUFFICES ASSUME FrameInv, replies # <<>>, Head(replies).type = "F"
                 PROVE  bandb_pending = Head(replies).of
      BY DEF ListWhole
    <2>1. replies \in Seq(Reply) /\ 1 \in 1..Len(replies) /\ Head(replies) = replies[1]
      BY DEF FrameInv, PipesOK
    <2>2. Framed(replies, bandb_pending, 1) BY <2>1 DEF FrameInv, FramesWhole
    <2>3. PICK bans \in SUBSET Bans :
             Lines(replies, 1, 1 - 1, bans) /\ bandb_pending \cup bans = replies[1].of
      BY <2>2 DEF Framed
    <2>4. bans = {} BY <2>3 DEF Lines
    <2> QED BY <2>1, <2>3, <2>4
  <1> QED BY <1>1, <1>2, FrameStep, PTL DEF BansSpec

=============================================================================
