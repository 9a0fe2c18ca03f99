----------------------------- MODULE AuthProofs -----------------------------
(* The blacklists are never freed in use, callbacks find what asked for them, *)
(* and answers go to the question asked, for any number of connections,       *)
(* blacklists, slots, restarts and rehashes.                                  *)
EXTENDS Auth, ListsProofs

-----------------------------------------------------------------------------
(* The list of blacklists.  A chain of nodes may be off the list (the head is *)
(* lost when a node is deleted twice), so nothing is said of what the head    *)
(* reaches: links are symmetric, lead to blacklists in use, and descend.      *)

Memory == [node: [Rbls -> Rbl], list: List]

\* An entry of rbl_queries.
Query == [r: Rbls, queryid: 0..MaxId]

Symmetric(m) ==
    \A x, y \in Rbls : m.node[x].next = y <=> m.node[y].prev = x

Descends(m, rank) ==
    \A x, y \in Rbls : m.node[x].next = y => rank[y] < rank[x]

Loose(m) ==
    \A x \in Rbls : m.node[x].st # "used" => m.node[x].next = NULL /\ m.node[x].prev = NULL

EndsUsed(m) ==
    /\ m.list.head # NULL => m.node[m.list.head].st = "used" /\ m.node[m.list.head].prev = NULL
    /\ m.list.tail # NULL => m.node[m.list.tail].st = "used" /\ m.node[m.list.tail].next = NULL

Linked(m) ==
    /\ m \in Memory /\ Symmetric(m) /\ Loose(m) /\ EndsUsed(m)
    /\ \E rank \in [Rbls -> Int] : Descends(m, rank)

\* The structures of m and k differ in their links only.
SameButLinks(m, k) ==
    \A x \in Rbls : /\ k.node[x].st = m.node[x].st
                    /\ k.node[x].refcount = m.node[x].refcount
                    /\ k.node[x].freeing = m.node[x].freeing

LEMMA NullRbl == NULL \notin Rbls /\ NULL \notin Clients
  BY ConstAssumption

\* A structure with other neighbours.
LEMMA NextSet ==
    ASSUME NEW b \in Rbl, NEW x \in Pointers
    PROVE  LET c == [b EXCEPT !.next = x]
           IN  /\ c \in Rbl /\ c.next = x /\ c.prev = b.prev
               /\ c.st = b.st /\ c.refcount = b.refcount /\ c.freeing = b.freeing
  BY DEF Rbl

LEMMA PrevSet ==
    ASSUME NEW b \in Rbl, NEW x \in Pointers
    PROVE  LET c == [b EXCEPT !.prev = x]
           IN  /\ c \in Rbl /\ c.prev = x /\ c.next = b.next
               /\ c.st = b.st /\ c.refcount = b.refcount /\ c.freeing = b.freeing
  BY DEF Rbl

\* What rb_dlinkDelete() does to each node.
LEMMA DeleteShape ==
    ASSUME NEW m \in Memory, NEW r \in Rbls
    PROVE  LET k == rb_dlinkDelete(m, r)
               n == m.node[r].next
               p == m.node[r].prev
           IN  /\ k \in Memory /\ SameButLinks(m, k)
               /\ k.node[r].next = NULL /\ k.node[r].prev = NULL
               /\ \A x \in Rbls \ {r} :
                    /\ k.node[x].next = IF x = p THEN n ELSE m.node[x].next
                    /\ k.node[x].prev = IF x = n THEN p ELSE m.node[x].prev
               /\ k.list.head = IF p = NULL THEN n ELSE m.list.head
               /\ k.list.tail = IF n = NULL THEN p ELSE m.list.tail
  <1> DEFINE n == m.node[r].next
             p == m.node[r].prev
             after == IF n = NULL THEN m.node ELSE [m.node EXCEPT ![n] = [@ EXCEPT !.prev = p]]
             both  == IF p = NULL THEN after ELSE [after EXCEPT ![p] = [@ EXCEPT !.next = n]]
             last == [both EXCEPT ![r] = [[@ EXCEPT !.next = NULL] EXCEPT !.prev = NULL]]
             k == rb_dlinkDelete(m, r)
  <1>1. /\ m.node \in [Rbls -> Rbl] /\ m.list \in List /\ n \in Pointers /\ p \in Pointers
    BY DEF Memory, Rbl
  <1>2. k.node = last
    BY DEF rb_dlinkDelete
  <1>3. /\ k.list = [head |-> IF p = NULL THEN n ELSE m.list.head,
                     tail |-> IF n = NULL THEN p ELSE m.list.tail,
                     length |-> m.list.length - 1]
        /\ k = [node |-> last, list |-> k.list]
    BY DEF rb_dlinkDelete
  <1>4. k.list \in List
    <2>1. /\ m.list.head \in Pointers /\ m.list.tail \in Pointers /\ m.list.length - 1 \in Int
          /\ NULL \in Pointers
      BY <1>1 DEF List, Pointers
    <2> HIDE DEF n, p, k
    <2> QED BY <1>1, <1>3, <2>1 DEF List
  <1>5. /\ after \in [Rbls -> Rbl]
        /\ \A x \in Rbls : /\ after[x].st = m.node[x].st /\ after[x].next = m.node[x].next
                           /\ after[x].refcount = m.node[x].refcount
                           /\ after[x].freeing = m.node[x].freeing
                           /\ after[x].prev = IF x = n THEN p ELSE m.node[x].prev
    BY <1>1, NullRbl DEF Rbl, Pointers
  <1> HIDE DEF after
  <1>6. /\ both \in [Rbls -> Rbl]
        /\ \A x \in Rbls : /\ both[x].st = m.node[x].st
                           /\ both[x].refcount = m.node[x].refcount
                           /\ both[x].freeing = m.node[x].freeing
                           /\ both[x].next = IF x = p THEN n ELSE m.node[x].next
                           /\ both[x].prev = IF x = n THEN p ELSE m.node[x].prev
    BY <1>1, <1>5, NullRbl DEF Rbl, Pointers
  <1> HIDE DEF both
  <1>7. /\ last \in [Rbls -> Rbl]
        /\ last[r].next = NULL /\ last[r].prev = NULL
        /\ \A x \in Rbls : /\ last[x].st = m.node[x].st
                           /\ last[x].refcount = m.node[x].refcount
                           /\ last[x].freeing = m.node[x].freeing
                           /\ x # r => last[x].next = both[x].next /\ last[x].prev = both[x].prev
    <2> DEFINE b == [both[r] EXCEPT !.next = NULL]
               c == [b EXCEPT !.prev = NULL]
    <2>1. both[r] \in Rbl /\ NULL \in Pointers BY <1>6 DEF Pointers
    <2>2. /\ b \in Rbl /\ b.next = NULL /\ b.st = both[r].st
          /\ b.refcount = both[r].refcount /\ b.freeing = both[r].freeing
      BY <2>1, NextSet
    <2> HIDE DEF b
    <2>3. /\ c \in Rbl /\ c.next = NULL /\ c.prev = NULL /\ c.st = both[r].st
          /\ c.refcount = both[r].refcount /\ c.freeing = both[r].freeing
      BY <2>1, <2>2, PrevSet
    <2>4. last = [both EXCEPT ![r] = c] BY Zenon DEF b
    <2> HIDE DEF c, last
    <2> QED BY <1>6, <2>3, <2>4
  <1> HIDE DEF last, k, n, p
  <1>8. k \in Memory BY <1>3, <1>4, <1>7 DEF Memory
  <1>9. /\ k.list.head = IF p = NULL THEN n ELSE m.list.head
        /\ k.list.tail = IF n = NULL THEN p ELSE m.list.tail
    BY <1>3
  <1>10. SameButLinks(m, k) BY <1>2, <1>7 DEF SameButLinks
  <1>11. \A x \in Rbls \ {r} :
                    /\ k.node[x].next = IF x = p THEN n ELSE m.node[x].next
                    /\ k.node[x].prev = IF x = n THEN p ELSE m.node[x].prev
    BY <1>2, <1>6, <1>7
  <1>12. k.node[r].next = NULL /\ k.node[r].prev = NULL BY <1>2, <1>7
  <1> QED BY <1>8, <1>9, <1>10, <1>11, <1>12 DEF k, n, p
\* The memory with other structures.
LEMMA NodeSet ==
    ASSUME NEW m \in Memory, NEW f \in [Rbls -> Rbl]
    PROVE  LET k == [m EXCEPT !.node = f]
           IN  k \in Memory /\ k.list = m.list /\ k.node = f
  BY DEF Memory

\* A structure with another flag, state or count.
LEMMA FlagSet ==
    ASSUME NEW b \in Rbl
    PROVE  LET c == [b EXCEPT !.st = "freed"]
               d == [b EXCEPT !.freeing = TRUE]
               e == [b EXCEPT !.refcount = b.refcount - 1]
               n == [NewRbl EXCEPT !.st = "used"]
           IN  /\ c \in Rbl /\ c.st = "freed" /\ c.refcount = b.refcount
               /\ c.freeing = b.freeing /\ c.next = b.next /\ c.prev = b.prev
               /\ d \in Rbl /\ d.st = b.st /\ d.refcount = b.refcount
               /\ d.freeing /\ d.next = b.next /\ d.prev = b.prev
               /\ e \in Rbl /\ e.st = b.st /\ e.refcount = b.refcount - 1
               /\ e.freeing = b.freeing /\ e.next = b.next /\ e.prev = b.prev
               /\ n \in Rbl /\ n.st = "used" /\ n.refcount = 0
               /\ n.next = NULL /\ n.prev = NULL
  <1> DEFINE c == [b EXCEPT !.st = "freed"]
             d == [b EXCEPT !.freeing = TRUE]
             e == [b EXCEPT !.refcount = b.refcount - 1]
             n == [NewRbl EXCEPT !.st = "used"]
  <1>1. /\ c \in Rbl /\ c.st = "freed" /\ c.refcount = b.refcount
        /\ c.freeing = b.freeing /\ c.next = b.next /\ c.prev = b.prev
    BY DEF Rbl
  <1>2. /\ d \in Rbl /\ d.st = b.st /\ d.refcount = b.refcount
        /\ d.freeing /\ d.next = b.next /\ d.prev = b.prev
    BY DEF Rbl
  <1>3. /\ e \in Rbl /\ e.st = b.st /\ e.refcount = b.refcount - 1
        /\ e.freeing = b.freeing /\ e.next = b.next /\ e.prev = b.prev
    <2>1. b.refcount - 1 \in Int BY DEF Rbl
    <2> QED BY <2>1 DEF Rbl
  <1>4. /\ n \in Rbl /\ n.st = "used" /\ n.refcount = 0 /\ n.next = NULL /\ n.prev = NULL
    <2>1. NewRbl \in Rbl /\ NewRbl.refcount = 0 /\ NewRbl.next = NULL /\ NewRbl.prev = NULL
      BY DEF Rbl, NewRbl, Pointers
    <2> QED BY <2>1 DEF Rbl
  <1> QED BY <1>1, <1>2, <1>3, <1>4

LEMMA FreedShape ==
    ASSUME NEW node \in [Rbls -> Rbl], NEW r \in Rbls
    PROVE  LET f == Freed(node, r)
           IN  /\ f \in [Rbls -> Rbl]
               /\ f[r].st = "freed" /\ f[r].refcount = node[r].refcount
               /\ f[r].next = node[r].next /\ f[r].prev = node[r].prev
               /\ \A x \in Rbls \ {r} : f[x] = node[x]
  <1> DEFINE b == [node[r] EXCEPT !.st = "freed"]
  <1>1. node[r] \in Rbl OBVIOUS
  <1>2. /\ b \in Rbl
        /\ b.st = "freed" /\ b.refcount = node[r].refcount /\ b.next = node[r].next
        /\ b.prev = node[r].prev
    BY <1>1, FlagSet
  <1>3. Freed(node, r) = [node EXCEPT ![r] = b] BY Zenon DEF Freed
  <1> HIDE DEF b
  <1> QED BY <1>2, <1>3

LEMMA FreeingShape ==
    ASSUME NEW node \in [Rbls -> Rbl], NEW r \in Rbls
    PROVE  LET f == Freeing(node, r)
           IN  /\ f \in [Rbls -> Rbl]
               /\ f[r].freeing /\ f[r].st = node[r].st
               /\ f[r].refcount = node[r].refcount /\ f[r].next = node[r].next
               /\ f[r].prev = node[r].prev
               /\ \A x \in Rbls \ {r} : f[x] = node[x]
  <1> DEFINE b == [node[r] EXCEPT !.freeing = TRUE]
  <1>1. node[r] \in Rbl OBVIOUS
  <1>2. /\ b \in Rbl
        /\ b.freeing /\ b.st = node[r].st /\ b.refcount = node[r].refcount
        /\ b.next = node[r].next /\ b.prev = node[r].prev
    BY <1>1, FlagSet
  <1>3. Freeing(node, r) = [node EXCEPT ![r] = b] BY Zenon DEF Freeing
  <1> HIDE DEF b
  <1> QED BY <1>2, <1>3

LEMMA DroppedShape ==
    ASSUME NEW node \in [Rbls -> Rbl], NEW r \in Rbls
    PROVE  LET f == Dropped(node, r)
           IN  /\ f \in [Rbls -> Rbl]
               /\ f[r].refcount = node[r].refcount - 1 /\ f[r].st = node[r].st
               /\ f[r].next = node[r].next /\ f[r].prev = node[r].prev
               /\ f[r].freeing = node[r].freeing
               /\ \A x \in Rbls \ {r} : f[x] = node[x]
  <1> DEFINE b == [node[r] EXCEPT !.refcount = node[r].refcount - 1]
  <1>1. node[r] \in Rbl OBVIOUS
  <1>2. /\ b \in Rbl
        /\ b.refcount = node[r].refcount - 1 /\ b.st = node[r].st
        /\ b.next = node[r].next /\ b.prev = node[r].prev /\ b.freeing = node[r].freeing
    BY <1>1, FlagSet
  <1>3. Dropped(node, r) = [node EXCEPT ![r] = b] BY Zenon DEF Dropped
  <1> HIDE DEF b
  <1> QED BY <1>2, <1>3

LEMMA CreatedShape ==
    ASSUME NEW node \in [Rbls -> Rbl], NEW r \in Rbls
    PROVE  LET f == Created(node, r)
           IN  /\ f \in [Rbls -> Rbl]
               /\ f[r].st = "used" /\ f[r].refcount = 0 /\ f[r].next = NULL
               /\ f[r].prev = NULL
               /\ \A x \in Rbls \ {r} : f[x] = node[x]
  <1> DEFINE b == [NewRbl EXCEPT !.st = "used"]
  <1>1. node[r] \in Rbl OBVIOUS
  <1>2. /\ b \in Rbl
        /\ b.st = "used" /\ b.refcount = 0 /\ b.next = NULL /\ b.prev = NULL
    BY <1>1, FlagSet
  <1>3. Created(node, r) = [node EXCEPT ![r] = b] BY Zenon DEF Created
  <1> HIDE DEF b
  <1> QED BY <1>2, <1>3

\* A node is not linked to itself.
LEMMA NoLoop ==
    ASSUME NEW m, Linked(m), NEW r \in Rbls
    PROVE  m.node[r].next # r /\ m.node[r].prev # r
  <1>1. PICK rank \in [Rbls -> Int] : Descends(m, rank) BY DEF Linked
  <1>2. m.node[r].next # r BY <1>1 DEF Descends
  <1> QED BY <1>2 DEF Linked, Symmetric

\* rb_dlinkDelete() leaves a list that is linked, with the node off it.
LEMMA DeleteLinked ==
    ASSUME NEW m, Linked(m), NEW r \in Rbls
    PROVE  LET k == rb_dlinkDelete(m, r)
           IN  /\ Linked(k) /\ SameButLinks(m, k)
               /\ k.node[r].next = NULL /\ k.node[r].prev = NULL
               /\ k.list.head # r /\ k.list.tail # r
  <1> DEFINE k == rb_dlinkDelete(m, r)
             n == m.node[r].next
             p == m.node[r].prev
  <1>1. /\ m \in Memory /\ Symmetric(m) /\ Loose(m) /\ EndsUsed(m)
        /\ n # r /\ p # r
    BY NoLoop DEF Linked
  <1>2. n \in Pointers /\ p \in Pointers /\ m.list.head \in Pointers /\ m.list.tail \in Pointers
    BY <1>1 DEF Memory, Rbl, List
  <1>3. /\ k \in Memory /\ SameButLinks(m, k)
        /\ k.node[r].next = NULL /\ k.node[r].prev = NULL
        /\ \A x \in Rbls \ {r} : /\ k.node[x].next = IF x = p THEN n ELSE m.node[x].next
                                 /\ k.node[x].prev = IF x = n THEN p ELSE m.node[x].prev
        /\ k.list.head = IF p = NULL THEN n ELSE m.list.head
        /\ k.list.tail = IF n = NULL THEN p ELSE m.list.tail
    BY <1>1, DeleteShape
  <1>4. /\ \A y \in Rbls : n = y <=> m.node[y].prev = r
        /\ \A x \in Rbls : m.node[x].next = r <=> p = x
    BY <1>1 DEF Symmetric
  <1>5. Symmetric(k)
    <2> HIDE DEF k
    <2> SUFFICES ASSUME NEW x \in Rbls, NEW y \in Rbls
                 PROVE  k.node[x].next = y <=> k.node[y].prev = x
      BY DEF Symmetric
    <2>1. m.node[x].next = y <=> m.node[y].prev = x BY <1>1 DEF Symmetric
    <2> HIDE DEF n, p
    <2>2. CASE x = r \/ y = r BY <1>1, <1>2, <1>3, <1>4, <2>1, <2>2, NullRbl
    <2>3. CASE x # r /\ y # r BY <1>1, <1>2, <1>3, <1>4, <2>1, <2>3, NullRbl
    <2> QED BY <2>2, <2>3
  <1>6. PICK rank \in [Rbls -> Int] : Descends(m, rank) BY DEF Linked
  <1>7. Descends(k, rank)
    <2> HIDE DEF k
    <2> SUFFICES ASSUME NEW x \in Rbls, NEW y \in Rbls, k.node[x].next = y
                 PROVE  rank[y] < rank[x]
      BY DEF Descends
    <2>1. m.node[x].next = y => rank[y] < rank[x] BY <1>6 DEF Descends
    <2>2. n = y => rank[y] < rank[r] BY <1>6 DEF Descends
    <2>3. p = x => rank[r] < rank[x] BY <1>4, <1>6 DEF Descends
    <2> HIDE DEF n, p
    <2> QED BY <1>3, <2>1, <2>2, <2>3, NullRbl
  <1>8. ASSUME NEW x \in Rbls, m.node[x].st # "used"
        PROVE  m.node[x].next = NULL /\ m.node[x].prev = NULL
    BY <1>1, <1>8 DEF Loose
  <1>9. Loose(k)
    <2> HIDE DEF k
    <2> SUFFICES ASSUME NEW x \in Rbls, k.node[x].st # "used"
                 PROVE  k.node[x].next = NULL /\ k.node[x].prev = NULL
      BY DEF Loose
    <2>1. m.node[x].next = NULL /\ m.node[x].prev = NULL
      BY <1>3, <1>8 DEF SameButLinks
    <2>2. x # p BY <1>4, <2>1, NullRbl
    <2>3. x # n BY <1>4, <2>1, NullRbl
    <2> HIDE DEF n, p
    <2> QED BY <1>3, <2>1, <2>2, <2>3
  <1>10. /\ k.list.head # r /\ k.list.tail # r
         /\ EndsUsed(k)
    <2>1. /\ n # NULL => n \in Rbls /\ m.node[n].st = "used"
          /\ p # NULL => p \in Rbls /\ m.node[p].st = "used"
      BY <1>2, <1>4, <1>8, NullRbl DEF Pointers
    <2>2. /\ k.list.head # NULL => m.node[k.list.head].st = "used" /\ k.node[k.list.head].prev = NULL
          /\ k.list.head # r /\ k.list.head \in Pointers
      <3> HIDE DEF k, n, p
      <3>1. CASE p = NULL BY <1>1, <1>2, <1>3, <2>1, <3>1
      <3>2. CASE p # NULL
        <4>1. k.list.head = m.list.head BY <1>3, <3>2
        <4>2. m.list.head # NULL => m.node[m.list.head].st = "used" /\ m.node[m.list.head].prev = NULL
          BY <1>1 DEF EndsUsed
        <4>3. m.list.head # r BY <3>2, <4>2, NullRbl DEF p
        <4>4. m.list.head # NULL => m.list.head # n BY <1>2, <1>4, <4>2, NullRbl DEF Pointers
        <4> QED BY <1>2, <1>3, <4>1, <4>2, <4>3, <4>4 DEF Pointers
      <3> QED BY <3>1, <3>2
    <2>3. /\ k.list.tail # NULL => m.node[k.list.tail].st = "used" /\ k.node[k.list.tail].next = NULL
          /\ k.list.tail # r /\ k.list.tail \in Pointers
      <3> HIDE DEF k, n, p
      <3>1. CASE n = NULL BY <1>1, <1>2, <1>3, <2>1, <3>1
      <3>2. CASE n # NULL
        <4>1. k.list.tail = m.list.tail BY <1>3, <3>2
        <4>2. m.list.tail # NULL => m.node[m.list.tail].st = "used" /\ m.node[m.list.tail].next = NULL
          BY <1>1 DEF EndsUsed
        <4>3. m.list.tail # r BY <3>2, <4>2, NullRbl DEF n
        <4>4. m.list.tail # NULL => m.list.tail # p BY <1>2, <1>4, <4>2, NullRbl DEF Pointers
        <4> QED BY <1>2, <1>3, <4>1, <4>2, <4>3, <4>4 DEF Pointers
      <3> QED BY <3>1, <3>2
    <2> HIDE DEF k, n, p
    <2>4. EndsUsed(k)
      BY <1>3, <2>2, <2>3 DEF EndsUsed, SameButLinks, Pointers
    <2> QED BY <2>2, <2>3, <2>4
  <1> HIDE DEF k
  <1>11. Linked(k) BY <1>3, <1>5, <1>6, <1>7, <1>9, <1>10 DEF Linked
  <1> QED BY <1>3, <1>10, <1>11 DEF k

-----------------------------------------------------------------------------
(* Reference counts.  u[r] is the set of clients with a lookup in r.          *)

Counted(m, u) ==
    \A r \in Rbls : /\ m.node[r].refcount = Cardinality(u[r])
                    /\ u[r] # {} => m.node[r].st = "used"

\* What is out of use in m is out of use in k.
Shrinks(m, k) == \A x \in Rbls : m.node[x].st # "used" => k.node[x].st # "used"

LEMMA UsersFinite ==
    ASSUME NEW u \in [Rbls -> SUBSET Clients], NEW r \in Rbls
    PROVE  /\ IsFiniteSet(u[r]) /\ Cardinality(u[r]) \in Nat
           /\ Cardinality(u[r]) = 0 <=> u[r] = {}
  <1>1. u[r] \subseteq Clients OBVIOUS
  <1>2. IsFiniteSet(u[r]) BY <1>1, ConstAssumption, FS_Subset
  <1> QED BY <1>2, FS_CardinalityType, FS_EmptySet

\* Nothing that Linked speaks of changes.
LEMMA SameLinks ==
    ASSUME NEW m, Linked(m), NEW k \in Memory, k.list = m.list,
           \A x \in Rbls : /\ k.node[x].st = m.node[x].st
                           /\ k.node[x].next = m.node[x].next
                           /\ k.node[x].prev = m.node[x].prev
    PROVE  Linked(k)
  <1>1. /\ m \in Memory /\ Symmetric(m) /\ Loose(m) /\ EndsUsed(m)
        /\ \E rank \in [Rbls -> Int] : Descends(m, rank)
    BY DEF Linked
  <1>2. m.list.head \in Pointers /\ m.list.tail \in Pointers
    BY <1>1 DEF Memory, List
  <1>3. Symmetric(k) BY <1>1 DEF Symmetric
  <1>4. Loose(k) BY <1>1 DEF Loose
  <1>5. EndsUsed(k) BY <1>1, <1>2 DEF EndsUsed, Pointers
  <1>6. \E rank \in [Rbls -> Int] : Descends(k, rank) BY <1>1 DEF Descends
  <1> QED BY <1>3, <1>4, <1>5, <1>6 DEF Linked

\* rbl_destroy() frees what nobody looks up, and unlinks it.
LEMMA DestroyHolds ==
    ASSUME NEW m, Linked(m), NEW r \in Rbls, NEW u \in [Rbls -> SUBSET Clients], Counted(m, u)
    PROVE  LET k == rbl_destroy(m, r)
           IN  Linked(k) /\ Counted(k, u) /\ Shrinks(m, k)
  <1> DEFINE k == rbl_destroy(m, r)
             d == rb_dlinkDelete(m, r)
  <1>1. CASE m.node[r].refcount > 0
    <2>1. k = m BY <1>1 DEF rbl_destroy
    <2> QED BY <2>1 DEF Shrinks
  <1>2. CASE ~(m.node[r].refcount > 0)
    <2>1. /\ Linked(d) /\ SameButLinks(m, d) /\ d.node[r].next = NULL /\ d.node[r].prev = NULL
          /\ d.list.head # r /\ d.list.tail # r
      BY DeleteLinked
    <2>2. k = [d EXCEPT !.node = Freed(d.node, r)] BY <1>2, Zenon DEF rbl_destroy
    <2> HIDE DEF d, k
    <2>3. /\ d \in Memory /\ Symmetric(d) /\ Loose(d) /\ EndsUsed(d)
          /\ \E rank \in [Rbls -> Int] : Descends(d, rank)
      BY <2>1 DEF Linked
    <2>4. d.node \in [Rbls -> Rbl] /\ d.list \in List BY <2>3 DEF Memory
    <2>5. k \in Memory /\ k.list = d.list /\ k.node = Freed(d.node, r)
      BY <2>2, <2>3, <2>4, FreedShape, NodeSet
    <2>6. /\ k.node[r].st = "freed" /\ k.node[r].refcount = d.node[r].refcount
          /\ k.node[r].next = d.node[r].next /\ k.node[r].prev = d.node[r].prev
          /\ \A x \in Rbls \ {r} : k.node[x] = d.node[x]
      <3> DEFINE node == d.node
      <3>1. node \in [Rbls -> Rbl] /\ k.node = Freed(node, r) BY <2>4, <2>5
      <3> HIDE DEF node
      <3>2. /\ k.node[r].st = "freed" /\ k.node[r].refcount = node[r].refcount
            /\ k.node[r].next = node[r].next /\ k.node[r].prev = node[r].prev
            /\ \A x \in Rbls \ {r} : k.node[x] = node[x]
        BY <3>1, FreedShape
      <3> QED BY <3>2 DEF node
    <2>7. \A x \in Rbls : /\ k.node[x].next = d.node[x].next /\ k.node[x].prev = d.node[x].prev
                          /\ k.node[x].refcount = m.node[x].refcount
                          /\ x # r => k.node[x].st = m.node[x].st
      BY <2>1, <2>6 DEF SameButLinks
    <2>8. Symmetric(k) BY <2>3, <2>7 DEF Symmetric
    <2>9. \E rank \in [Rbls -> Int] : Descends(k, rank) BY <2>3, <2>7 DEF Descends
    <2>10. Loose(k) BY <2>1, <2>3, <2>6 DEF Loose
    <2>11. EndsUsed(k)
      <3>1. d.list.head \in Pointers /\ d.list.tail \in Pointers BY <2>4 DEF List
      <3> QED BY <2>1, <2>3, <2>5, <2>6, <3>1 DEF EndsUsed, Pointers
    <2>12. Linked(k) BY <2>5, <2>8, <2>9, <2>10, <2>11 DEF Linked
    <2>13. u[r] = {}
      <3>1. m.node[r].refcount = Cardinality(u[r]) BY DEF Counted
      <3> QED BY <1>2, <3>1, UsersFinite
    <2>14. Counted(k, u) BY <2>7, <2>13 DEF Counted
    <2>15. Shrinks(m, k) BY <2>6, <2>7 DEF Shrinks
    <2> QED BY <2>12, <2>14, <2>15 DEF k
  <1> QED BY <1>1, <1>2

\* rbl_detach_rbl_from_query(): one client fewer has a lookup in r.
LEMMA DetachHolds ==
    ASSUME NEW m, Linked(m), NEW r \in Rbls, NEW u \in [Rbls -> SUBSET Clients], Counted(m, u),
           NEW c \in u[r]
    PROVE  LET k == rbl_detach(m, r)
           IN  Linked(k) /\ Counted(k, [u EXCEPT ![r] = u[r] \ {c}])
  <1> DEFINE v == [u EXCEPT ![r] = u[r] \ {c}]
             less == [m EXCEPT !.node = Dropped(m.node, r)]
             k == rbl_detach(m, r)
  <1>1. m \in Memory /\ m.node \in [Rbls -> Rbl] /\ m.list \in List BY DEF Linked, Memory
  <1>2. less \in Memory /\ less.list = m.list /\ less.node = Dropped(m.node, r)
    BY <1>1, DroppedShape, NodeSet
  <1>3. k = less \/ k = rbl_destroy(less, r) BY DEF rbl_detach
  <1> HIDE DEF less, k
  <1>4. /\ less.node[r].refcount = m.node[r].refcount - 1
        /\ less.node[r].st = m.node[r].st
        /\ less.node[r].next = m.node[r].next /\ less.node[r].prev = m.node[r].prev
        /\ \A x \in Rbls \ {r} : less.node[x] = m.node[x]
    BY <1>1, <1>2, DroppedShape
  <1>5. Linked(less)
    <2>1. \A x \in Rbls : /\ less.node[x].st = m.node[x].st
                          /\ less.node[x].next = m.node[x].next
                          /\ less.node[x].prev = m.node[x].prev
      BY <1>4
    <2> QED BY <1>2, <2>1, SameLinks
  <1>6. v \in [Rbls -> SUBSET Clients] /\ v[r] = u[r] \ {c} /\ \A x \in Rbls \ {r} : v[x] = u[x]
    OBVIOUS
  <1> HIDE DEF v
  <1>7. Cardinality(v[r]) = Cardinality(u[r]) - 1
    <2> DEFINE S == u[r]
    <2>1. IsFiniteSet(S) /\ c \in S BY UsersFinite
    <2> HIDE DEF S
    <2>2. Cardinality(S \ {c}) = Cardinality(S) - 1 BY <2>1, FS_RemoveElement
    <2> QED BY <1>6, <2>2 DEF S
  <1>8. Counted(less, v)
    BY <1>4, <1>6, <1>7 DEF Counted
  <1>9. Linked(k) /\ Counted(k, v)
    BY <1>3, <1>5, <1>6, <1>8, DestroyHolds
  <1> QED BY <1>9 DEF k, v

\* A blacklist {} block puts a structure that was not in use on the list.
LEMMA BlockHolds ==
    ASSUME NEW m, Linked(m), NEW r \in Rbls, NEW u \in [Rbls -> SUBSET Clients], Counted(m, u),
           m.node[r].st # "used"
    PROVE  LET k == blacklist_block(m, r)
           IN  /\ Linked(k) /\ Counted(k, u)
               /\ \A x \in Rbls \ {r} : k.node[x].st = m.node[x].st
  <1> DEFINE d == [m EXCEPT !.node = Created(m.node, r)]
             k == rb_dlinkAdd(d, r)
             h == d.list.head
             node == [d.node EXCEPT ![r] = [[@ EXCEPT !.next = h] EXCEPT !.prev = NULL]]
             last == IF h = NULL THEN node ELSE [node EXCEPT ![h] = [@ EXCEPT !.prev = r]]
  <1>1. blacklist_block(m, r) = k BY Zenon DEF blacklist_block
  <1>2. /\ m \in Memory /\ Symmetric(m) /\ Loose(m) /\ EndsUsed(m)
        /\ m.node \in [Rbls -> Rbl] /\ m.list \in List
    BY DEF Linked, Memory
  <1>3. d \in Memory /\ d.list = m.list /\ d.node = Created(m.node, r)
    BY <1>2, CreatedShape, NodeSet
  <1>4. /\ k.node = last
        /\ k.list = [head |-> r,
                     tail |-> IF h = NULL /\ d.list.tail = NULL THEN r ELSE d.list.tail,
                     length |-> d.list.length + 1]
        /\ k = [node |-> last, list |-> k.list]
    BY DEF rb_dlinkAdd
  <1> HIDE DEF d, k
  <1>5. /\ d.node \in [Rbls -> Rbl] /\ d.node[r].st = "used" /\ d.node[r].refcount = 0
        /\ \A x \in Rbls \ {r} : d.node[x] = m.node[x]
    BY <1>2, <1>3, CreatedShape
  <1>6. h = m.list.head /\ h \in Pointers /\ h # r /\ m.list.tail # r /\ m.list.tail \in Pointers
    <2>1. m.list.head \in Pointers /\ m.list.tail \in Pointers BY <1>2 DEF List
    <2> QED BY <1>2, <1>3, <2>1, NullRbl DEF EndsUsed
  <1> HIDE DEF h
  <1>7. /\ node \in [Rbls -> Rbl]
        /\ node[r].next = h /\ node[r].prev = NULL /\ node[r].st = "used" /\ node[r].refcount = 0
        /\ \A x \in Rbls \ {r} : node[x] = m.node[x]
    <2> DEFINE b == [d.node[r] EXCEPT !.next = h]
               c == [b EXCEPT !.prev = NULL]
    <2>1. d.node[r] \in Rbl /\ NULL \in Pointers BY <1>5 DEF Pointers
    <2>2. b \in Rbl /\ b.next = h /\ b.st = "used" /\ b.refcount = 0
      BY <1>5, <1>6, <2>1, NextSet
    <2> HIDE DEF b
    <2>3. c \in Rbl /\ c.next = h /\ c.prev = NULL /\ c.st = "used" /\ c.refcount = 0
      BY <2>1, <2>2, PrevSet
    <2>4. node = [d.node EXCEPT ![r] = c] BY Zenon DEF b
    <2> HIDE DEF c, node
    <2> QED BY <1>5, <2>3, <2>4
  <1> HIDE DEF node
  <1>8. /\ last \in [Rbls -> Rbl]
        /\ last[r] = node[r]
        /\ \A x \in Rbls \ {r} :
             /\ last[x].st = m.node[x].st /\ last[x].refcount = m.node[x].refcount
             /\ last[x].next = m.node[x].next
             /\ last[x].prev = IF x = h THEN r ELSE m.node[x].prev
    <2>1. CASE h = NULL BY <1>7, <2>1, NullRbl
    <2>2. CASE h # NULL
      <3> DEFINE b == [node[h] EXCEPT !.prev = r]
      <3>1. h \in Rbls /\ node[h] \in Rbl /\ r \in Pointers BY <1>6, <1>7, <2>2 DEF Pointers
      <3>2. /\ b \in Rbl /\ b.prev = r /\ b.next = node[h].next /\ b.st = node[h].st
            /\ b.refcount = node[h].refcount
        BY <3>1, PrevSet
      <3>3. last = [node EXCEPT ![h] = b] BY <2>2
      <3> HIDE DEF b, last
      <3> QED BY <1>6, <1>7, <3>1, <3>2, <3>3
    <2> QED BY <2>1, <2>2
  <1> HIDE DEF last
  <1>9. /\ k.list \in List /\ k.list.head = r
        /\ k.list.tail = IF h = NULL /\ m.list.tail = NULL THEN r ELSE m.list.tail
    BY <1>2, <1>3, <1>4, <1>6 DEF List, Pointers
  <1>10. k \in Memory BY <1>4, <1>8, <1>9 DEF Memory
  <1>11. m.node[r].next = NULL /\ m.node[r].prev = NULL BY <1>2 DEF Loose
  <1>12. h # NULL => h \in Rbls /\ m.node[h].prev = NULL /\ m.node[h].st = "used"
    BY <1>2, <1>6 DEF EndsUsed, Pointers
  <1>13. Symmetric(k)
    <2> SUFFICES ASSUME NEW x \in Rbls, NEW y \in Rbls
                 PROVE  k.node[x].next = y <=> k.node[y].prev = x
      BY DEF Symmetric
    <2>1. m.node[x].next = y <=> m.node[y].prev = x BY <1>2 DEF Symmetric
    <2> QED BY <1>4, <1>6, <1>7, <1>8, <1>11, <1>12, <2>1, NullRbl
  <1>14. Loose(k) BY <1>2, <1>4, <1>7, <1>8, <1>12, NullRbl DEF Loose
  <1>15. EndsUsed(k)
    <2>1. m.list.tail # NULL => m.list.tail \in Rbls /\ m.node[m.list.tail].st = "used"
                                /\ m.node[m.list.tail].next = NULL
      BY <1>2, <1>6 DEF EndsUsed, Pointers
    <2> QED BY <1>4, <1>6, <1>7, <1>8, <1>9, <2>1 DEF EndsUsed
  <1>16. \E rank \in [Rbls -> Int] : Descends(k, rank)
    <2>1. PICK rank \in [Rbls -> Int] : Descends(m, rank) BY DEF Linked
    <2> DEFINE up == [rank EXCEPT ![r] = IF h = NULL THEN 0 ELSE rank[h] + 1]
    <2>2. up \in [Rbls -> Int] /\ (h # NULL => up[r] = rank[h] + 1)
          /\ \A x \in Rbls \ {r} : up[x] = rank[x]
      BY <1>12
    <2> HIDE DEF up
    <2>3. Descends(k, up)
      <3> SUFFICES ASSUME NEW x \in Rbls, NEW y \in Rbls, k.node[x].next = y
                   PROVE  up[y] < up[x]
        BY DEF Descends
      <3>1. m.node[x].next = y => rank[y] < rank[x] BY <2>1 DEF Descends
      <3>2. CASE x = r
        <4>1. y = h /\ y # r /\ h # NULL BY <1>4, <1>6, <1>7, <1>8, <3>2, NullRbl
        <4> QED BY <2>2, <3>2, <4>1
      <3>3. CASE x # r
        <4>1. m.node[x].next = y BY <1>4, <1>8, <3>3
        <4>2. y # r BY <1>2, <1>11, <4>1, NullRbl DEF Symmetric
        <4> QED BY <2>2, <3>1, <3>3, <4>1, <4>2
      <3> QED BY <3>2, <3>3
    <2> QED BY <2>2, <2>3
  <1>17. Linked(k) BY <1>10, <1>13, <1>14, <1>15, <1>16 DEF Linked
  <1>18. u[r] = {} BY DEF Counted
  <1>19. Counted(k, u)
    <2>1. Cardinality(u[r]) = 0 BY <1>18, FS_EmptySet
    <2> SUFFICES ASSUME NEW x \in Rbls
                 PROVE  /\ k.node[x].refcount = Cardinality(u[x])
                        /\ u[x] # {} => k.node[x].st = "used"
      BY DEF Counted
    <2>2. CASE x = r BY <1>4, <1>7, <1>8, <1>18, <2>1, <2>2
    <2>3. CASE x # r
      <3>1. /\ m.node[x].refcount = Cardinality(u[x])
            /\ u[x] # {} => m.node[x].st = "used"
        BY DEF Counted
      <3> QED BY <1>4, <1>8, <2>3, <3>1
    <2> QED BY <2>2, <2>3
  <1> QED BY <1>1, <1>4, <1>8, <1>17, <1>19

-----------------------------------------------------------------------------
(* The loops over lists of blacklists.                                        *)

LEMMA DestroyType ==
    ASSUME NEW m \in Memory, NEW r \in Rbls
    PROVE  rbl_destroy(m, r) \in Memory
  <1> DEFINE d == rb_dlinkDelete(m, r)
  <1>1. d \in Memory BY DeleteShape
  <1>2. rbl_destroy(m, r) \in {m, [d EXCEPT !.node = Freed(d.node, r)]}
    BY Zenon DEF rbl_destroy
  <1> HIDE DEF d
  <1>3. d.node \in [Rbls -> Rbl] BY <1>1 DEF Memory
  <1>4. Freed(d.node, r) \in [Rbls -> Rbl] BY <1>3, FreedShape
  <1> DEFINE f == Freed(d.node, r)
  <1> HIDE DEF f
  <1>5. [d EXCEPT !.node = f] \in Memory BY <1>1, <1>4, NodeSet DEF f
  <1> QED BY <1>2, <1>5 DEF f

LEMMA DetachType ==
    ASSUME NEW m \in Memory, NEW r \in Rbls
    PROVE  rbl_detach(m, r) \in Memory
  <1> DEFINE less == [m EXCEPT !.node = Dropped(m.node, r)]
  <1>1. m.node \in [Rbls -> Rbl] BY DEF Memory
  <1>2. less \in Memory BY <1>1, DroppedShape, NodeSet
  <1>3. rbl_detach(m, r) \in {less, rbl_destroy(less, r)} BY DEF rbl_detach
  <1> HIDE DEF less
  <1> QED BY <1>2, <1>3, DestroyType

LEMMA ClearOneType ==
    ASSUME NEW m \in Memory, NEW r \in Rbls
    PROVE  rbl_clear_one(m, r) \in Memory
  <1> DEFINE off == IF r \in ToSet(Walk(m)) THEN rb_dlinkDelete(m, r) ELSE m
             k == [off EXCEPT !.node = Freeing(off.node, r)]
  <1>1. off \in Memory BY DeleteShape
  <1>2. rbl_clear_one(m, r) = rbl_destroy(k, r) BY Zenon DEF rbl_clear_one
  <1> HIDE DEF off
  <1>3. off.node \in [Rbls -> Rbl] BY <1>1 DEF Memory
  <1>4. k \in Memory BY <1>1, <1>3, FreeingShape, NodeSet
  <1> HIDE DEF k
  <1> QED BY <1>2, <1>4, DestroyType

LEMMA BlockType ==
    ASSUME NEW m \in Memory, NEW r \in Rbls
    PROVE  blacklist_block(m, r) \in Memory
  <1> DEFINE d == [m EXCEPT !.node = Created(m.node, r)]
             k == rb_dlinkAdd(d, r)
             h == d.list.head
             b == [d.node[r] EXCEPT !.next = h]
             c == [b EXCEPT !.prev = NULL]
             node == [d.node EXCEPT ![r] = c]
             last == IF h = NULL THEN node ELSE [node EXCEPT ![h] = [@ EXCEPT !.prev = r]]
  <1>1. blacklist_block(m, r) = k BY Zenon DEF blacklist_block
  <1>2. m.node \in [Rbls -> Rbl] /\ m.list \in List BY DEF Memory
  <1>3. d \in Memory BY <1>2, CreatedShape, NodeSet
  <1>4. k = [node |-> last,
             list |-> [head |-> r,
                       tail |-> IF h = NULL /\ d.list.tail = NULL THEN r ELSE d.list.tail,
                       length |-> d.list.length + 1]]
    BY Zenon DEF rb_dlinkAdd
  <1> HIDE DEF d, k
  <1>5. d.node \in [Rbls -> Rbl] /\ d.list \in List /\ h \in Pointers /\ NULL \in Pointers
    BY <1>3 DEF Memory, List, Pointers
  <1> HIDE DEF h
  <1>6. b \in Rbl BY <1>5, NextSet
  <1> HIDE DEF b
  <1>7. c \in Rbl BY <1>5, <1>6, PrevSet
  <1> HIDE DEF c
  <1>8. node \in [Rbls -> Rbl] BY <1>5, <1>7
  <1> HIDE DEF node
  <1>9. last \in [Rbls -> Rbl]
    <2>1. CASE h = NULL BY <1>8, <2>1
    <2>2. CASE h # NULL
      <3> DEFINE e == [node[h] EXCEPT !.prev = r]
      <3>1. node[h] \in Rbl /\ r \in Pointers BY <1>5, <1>8, <2>2 DEF Pointers
      <3>2. e \in Rbl BY <3>1, PrevSet
      <3>3. last = [node EXCEPT ![h] = e] BY <2>2
      <3> HIDE DEF e, last
      <3> QED BY <1>8, <3>2, <3>3
    <2> QED BY <2>1, <2>2
  <1> HIDE DEF last
  <1>10. k \in Memory BY <1>4, <1>5, <1>9 DEF Memory, List, Pointers
  <1> QED BY <1>1, <1>10

\* DetachAll() goes through the states after each lookup of qs.
LEMMA DetachSteps ==
    ASSUME NEW m \in Memory,
           NEW qs \in Seq(Query)
    PROVE  \E f : /\ f[0] = m
                  /\ \A i \in 1..Len(qs) : f[i] = rbl_detach(f[i - 1], qs[i].r)
                  /\ DetachAll(m, qs) = f[Len(qs)]
  <1> DEFINE n == Len(qs)
             g == [p \in (1..n) \X Memory |-> rbl_detach(p[2], qs[p[1]].r)]
             d == CHOOSE f : f = [i \in 0..Len(qs) |->
                                    IF i = 0 THEN m ELSE rbl_detach(f[i - 1], qs[i].r)]
  <1>1. n \in Nat /\ \A i \in 1..n : qs[i].r \in Rbls
    <2>1. \A q \in Query : q.r \in Rbls BY DEF Query
    <2> QED BY <2>1
  <1>2. DetachAll(m, qs) = d[Len(qs)] BY Zenon DEF DetachAll
  <1> HIDE DEF n
  <1>3. ASSUME NEW p \in (1..n) \X Memory PROVE rbl_detach(p[2], qs[p[1]].r) \in Memory
    BY <1>1, DetachType
  <1>4. Stepping(g, n, Memory) BY <1>3 DEF Stepping
  <1>5. ASSUME NEW i \in 1..n, NEW k \in Memory PROVE g[<<i, k>>] = rbl_detach(k, qs[i].r)
    OBVIOUS
  <1> HIDE DEF g
  <1>6. PICK f : Stepped(f, g, n, Memory, m) BY <1>1, <1>4, Recursion
  <1>7. ASSUME NEW i \in 0..n
        PROVE  f[i] = IF i = 0 THEN m ELSE rbl_detach(f[i - 1], qs[i].r)
    <2>1. CASE i = 0 BY <1>6, <2>1 DEF Stepped
    <2>2. CASE i # 0
      <3>1. i \in 1..n /\ i - 1 \in 0..n BY <1>1, <2>2
      <3>2. f[i - 1] \in Memory BY <1>6, <3>1 DEF Stepped
      <3> QED BY <1>5, <1>6, <2>2, <3>1, <3>2 DEF Stepped
    <2> QED BY <2>1, <2>2
  <1>8. f = [i \in 0..Len(qs) |-> IF i = 0 THEN m ELSE rbl_detach(f[i - 1], qs[i].r)]
    BY <1>6, <1>7 DEF n, Stepped
  <1>9. d = [i \in 0..Len(qs) |-> IF i = 0 THEN m ELSE rbl_detach(d[i - 1], qs[i].r)]
    BY <1>8, Zenon
  <1> HIDE DEF d
  <1>10. d[0] = m /\ \A i \in 1..n : d[i] = rbl_detach(d[i - 1], qs[i].r)
    BY <1>1, <1>9 DEF n
  <1> QED BY <1>2, <1>10 DEF n

\* blacklist_blocks() goes through the states after each block of rs.
LEMMA BlockSteps ==
    ASSUME NEW m \in Memory,
           NEW rs \in Seq(Rbls)
    PROVE  \E f : /\ f[0] = m
                  /\ \A i \in 1..Len(rs) : f[i] = blacklist_block(f[i - 1], rs[i])
                  /\ blacklist_blocks(m, rs) = f[Len(rs)]
  <1> DEFINE n == Len(rs)
             g == [p \in (1..n) \X Memory |-> blacklist_block(p[2], rs[p[1]])]
             d == CHOOSE f : f = [i \in 0..Len(rs) |->
                                    IF i = 0 THEN m ELSE blacklist_block(f[i - 1], rs[i])]
  <1>1. n \in Nat /\ \A i \in 1..n : rs[i] \in Rbls
    OBVIOUS
  <1>2. blacklist_blocks(m, rs) = d[Len(rs)] BY Zenon DEF blacklist_blocks
  <1> HIDE DEF n
  <1>3. ASSUME NEW p \in (1..n) \X Memory PROVE blacklist_block(p[2], rs[p[1]]) \in Memory
    BY <1>1, BlockType
  <1>4. Stepping(g, n, Memory) BY <1>3 DEF Stepping
  <1>5. ASSUME NEW i \in 1..n, NEW k \in Memory PROVE g[<<i, k>>] = blacklist_block(k, rs[i])
    OBVIOUS
  <1> HIDE DEF g
  <1>6. PICK f : Stepped(f, g, n, Memory, m) BY <1>1, <1>4, Recursion
  <1>7. ASSUME NEW i \in 0..n
        PROVE  f[i] = IF i = 0 THEN m ELSE blacklist_block(f[i - 1], rs[i])
    <2>1. CASE i = 0 BY <1>6, <2>1 DEF Stepped
    <2>2. CASE i # 0
      <3>1. i \in 1..n /\ i - 1 \in 0..n BY <1>1, <2>2
      <3>2. f[i - 1] \in Memory BY <1>6, <3>1 DEF Stepped
      <3> QED BY <1>5, <1>6, <2>2, <3>1, <3>2 DEF Stepped
    <2> QED BY <2>1, <2>2
  <1>8. f = [i \in 0..Len(rs) |-> IF i = 0 THEN m ELSE blacklist_block(f[i - 1], rs[i])]
    BY <1>6, <1>7 DEF n, Stepped
  <1>9. d = [i \in 0..Len(rs) |-> IF i = 0 THEN m ELSE blacklist_block(d[i - 1], rs[i])]
    BY <1>8, Zenon
  <1> HIDE DEF d
  <1>10. d[0] = m /\ \A i \in 1..n : d[i] = blacklist_block(d[i - 1], rs[i])
    BY <1>1, <1>9 DEF n
  <1> QED BY <1>2, <1>10 DEF n

\* rbl_clear_rbllists() goes through the states after each node of the list.
LEMMA ClearSteps ==
    ASSUME NEW m \in Memory, Walk(m) \in Seq(Rbls)
    PROVE  \E f : /\ f[0] = m
                  /\ \A i \in 1..Len(Walk(m)) : f[i] = rbl_clear_one(f[i - 1], Walk(m)[i])
                  /\ rbl_clear_rbllists(m) = f[Len(Walk(m))]
  <1> DEFINE n == Len(Walk(m))
             g == [p \in (1..n) \X Memory |-> rbl_clear_one(p[2], Walk(m)[p[1]])]
             d == CHOOSE f : f = [i \in 0..Len(Walk(m)) |->
                                    IF i = 0 THEN m ELSE rbl_clear_one(f[i - 1], Walk(m)[i])]
  <1>1. n \in Nat /\ \A i \in 1..n : Walk(m)[i] \in Rbls
    OBVIOUS
  <1>2. rbl_clear_rbllists(m) = d[Len(Walk(m))] BY Zenon DEF rbl_clear_rbllists
  <1> HIDE DEF n
  <1>3. ASSUME NEW p \in (1..n) \X Memory PROVE rbl_clear_one(p[2], Walk(m)[p[1]]) \in Memory
    BY <1>1, ClearOneType
  <1>4. Stepping(g, n, Memory) BY <1>3 DEF Stepping
  <1>5. ASSUME NEW i \in 1..n, NEW k \in Memory PROVE g[<<i, k>>] = rbl_clear_one(k, Walk(m)[i])
    OBVIOUS
  <1> HIDE DEF g
  <1>6. PICK f : Stepped(f, g, n, Memory, m) BY <1>1, <1>4, Recursion
  <1>7. ASSUME NEW i \in 0..n
        PROVE  f[i] = IF i = 0 THEN m ELSE rbl_clear_one(f[i - 1], Walk(m)[i])
    <2>1. CASE i = 0 BY <1>6, <2>1 DEF Stepped
    <2>2. CASE i # 0
      <3>1. i \in 1..n /\ i - 1 \in 0..n BY <1>1, <2>2
      <3>2. f[i - 1] \in Memory BY <1>6, <3>1 DEF Stepped
      <3> QED BY <1>5, <1>6, <2>2, <3>1, <3>2 DEF Stepped
    <2> QED BY <2>1, <2>2
  <1>8. f = [i \in 0..Len(Walk(m)) |-> IF i = 0 THEN m ELSE rbl_clear_one(f[i - 1], Walk(m)[i])]
    BY <1>6, <1>7 DEF n, Stepped
  <1>9. d = [i \in 0..Len(Walk(m)) |-> IF i = 0 THEN m ELSE rbl_clear_one(d[i - 1], Walk(m)[i])]
    BY <1>8, Zenon
  <1> HIDE DEF d
  <1>10. d[0] = m /\ \A i \in 1..n : d[i] = rbl_clear_one(d[i - 1], Walk(m)[i])
    BY <1>1, <1>9 DEF n
  <1> QED BY <1>2, <1>10 DEF n

-----------------------------------------------------------------------------
(* Walks.                                                                     *)

\* One step of RB_DLINK_FOREACH after the nodes of s.
After(m, s) == IF s = <<>> THEN m.list.head ELSE m.node[s[Len(s)]].next
Visited(m, s) == IF After(m, s) = NULL THEN s ELSE Append(s, After(m, s))

LEMMA WalkSteps ==
    ASSUME NEW m \in Memory
    PROVE  \E f : /\ f[0] = <<>>
                  /\ \A i \in 1..Cardinality(Rbls) : f[i] = Visited(m, f[i - 1])
                  /\ Walk(m) = f[Cardinality(Rbls)]
  <1> DEFINE n == Cardinality(Rbls)
             D == Seq(Rbls)
             g == [p \in (1..n) \X D |-> Visited(m, p[2])]
             d == CHOOSE f : f = [i \in 0..Cardinality(Rbls) |->
                    IF i = 0 THEN <<>>
                    ELSE IF (IF f[i - 1] = <<>> THEN m.list.head
                             ELSE m.node[f[i - 1][Len(f[i - 1])]].next) = NULL THEN f[i - 1]
                         ELSE Append(f[i - 1], IF f[i - 1] = <<>> THEN m.list.head
                                               ELSE m.node[f[i - 1][Len(f[i - 1])]].next)]
  <1>1. n \in Nat BY ConstAssumption, FS_CardinalityType
  <1>2. Walk(m) = d[Cardinality(Rbls)] BY Zenon DEF Walk
  <1> HIDE DEF n
  <1>3. ASSUME NEW s \in D PROVE Visited(m, s) \in D
    <2>1. After(m, s) \in Pointers
      <3>1. CASE s = <<>> BY <3>1 DEF After, Memory, List
      <3>2. CASE s # <<>>
        <4>1. s[Len(s)] \in Rbls BY <3>2
        <4> QED BY <3>2, <4>1 DEF After, Memory, Rbl
      <3> QED BY <3>1, <3>2
    <2> QED BY <2>1 DEF Visited, Pointers
  <1>4. <<>> \in D OBVIOUS
  <1> HIDE DEF D
  <1>5. Stepping(g, n, D) BY <1>3 DEF Stepping
  <1>6. ASSUME NEW i \in 1..n, NEW s \in D PROVE g[<<i, s>>] = Visited(m, s)
    OBVIOUS
  <1> HIDE DEF g
  <1>7. PICK f : Stepped(f, g, n, D, <<>>) BY <1>1, <1>4, <1>5, Recursion
  <1>8. ASSUME NEW i \in 0..n
        PROVE  f[i] = IF i = 0 THEN <<>> ELSE Visited(m, f[i - 1])
    <2>1. CASE i = 0 BY <1>7, <2>1 DEF Stepped
    <2>2. CASE i # 0
      <3>1. i \in 1..n /\ i - 1 \in 0..n BY <1>1, <2>2
      <3>2. f[i - 1] \in D BY <1>7, <3>1 DEF Stepped
      <3> QED BY <1>6, <1>7, <2>2, <3>1, <3>2 DEF Stepped
    <2> QED BY <2>1, <2>2
  <1>9. f = [i \in 0..Cardinality(Rbls) |-> IF i = 0 THEN <<>> ELSE Visited(m, f[i - 1])]
    BY <1>7, <1>8 DEF Stepped, n
  <1>10. d = [i \in 0..Cardinality(Rbls) |-> IF i = 0 THEN <<>> ELSE Visited(m, d[i - 1])]
    BY <1>9, Zenon DEF Visited, After
  <1> HIDE DEF d
  <1>11. d[0] = <<>> /\ \A i \in 1..n : d[i] = Visited(m, d[i - 1])
    BY <1>1, <1>10 DEF n
  <1> QED BY <1>2, <1>11 DEF n

\* A walk meets every node once, and only blacklists in use.
LEMMA WalkHolds ==
    ASSUME NEW m, Linked(m)
    PROVE  /\ Walk(m) \in Seq(Rbls) /\ Distinct(Walk(m))
           /\ \A i \in 1..Len(Walk(m)) : m.node[Walk(m)[i]].st = "used"
  <1> DEFINE n == Cardinality(Rbls)
  <1>1. /\ m \in Memory /\ Symmetric(m) /\ Loose(m) /\ EndsUsed(m) BY DEF Linked
  <1>2. PICK rank \in [Rbls -> Int] : Descends(m, rank) BY DEF Linked
  <1>3. PICK f : /\ f[0] = <<>>
                 /\ \A i \in 1..n : f[i] = Visited(m, f[i - 1])
                 /\ Walk(m) = f[n]
    BY <1>1, WalkSteps
  <1>4. n \in Nat BY ConstAssumption, FS_CardinalityType
  <1> HIDE DEF n
  <1> DEFINE Good(s) == /\ s \in Seq(Rbls)
                        /\ \A i \in 1..Len(s) : m.node[s[i]].st = "used"
                        /\ \A i, j \in 1..Len(s) : i < j => rank[s[j]] < rank[s[i]]
             S == {i \in 0..n : Good(f[i])}
  <1>5. Good(<<>>) OBVIOUS
  <1>6. ASSUME NEW s, Good(s) PROVE Good(Visited(m, s))
    <2> DEFINE y == After(m, s)
    <2>1. CASE y = NULL BY <1>6, <2>1 DEF Visited
    <2>2. CASE y # NULL
      <3>1. /\ y \in Rbls /\ m.node[y].st = "used"
            /\ s # <<>> => rank[y] < rank[s[Len(s)]]
        <4>1. CASE s = <<>>
          <5>1. y = m.list.head BY <4>1 DEF After
          <5>2. y \in Rbls BY <1>1, <2>2, <5>1 DEF Memory, List, Pointers
          <5> QED BY <1>1, <2>2, <4>1, <5>1, <5>2 DEF EndsUsed
        <4>2. CASE s # <<>>
          <5> DEFINE x == s[Len(s)]
          <5>1. x \in Rbls /\ y = m.node[x].next BY <1>6, <4>2 DEF After
          <5>2. m.node[x] \in Rbl BY <1>1, <5>1 DEF Memory
          <5> HIDE DEF x, y
          <5>3. y \in Rbls BY <2>2, <5>1, <5>2 DEF Rbl, Pointers
          <5>4. m.node[y].prev = x BY <1>1, <5>1, <5>3 DEF Symmetric
          <5>5. m.node[y].st = "used" BY <1>1, <5>1, <5>3, <5>4, NullRbl DEF Loose
          <5>6. rank[y] < rank[x] BY <1>2, <5>1, <5>3 DEF Descends
          <5> QED BY <5>3, <5>5, <5>6 DEF x
        <4> QED BY <4>1, <4>2
      <3> DEFINE t == Append(s, y)
      <3>2. Visited(m, s) = t BY <2>2 DEF Visited
      <3> HIDE DEF y
      <3>3. /\ s \in Seq(Rbls) /\ t \in Seq(Rbls) /\ Len(t) = Len(s) + 1 /\ t[Len(s) + 1] = y
            /\ \A i \in 1..Len(s) : t[i] = s[i]
        BY <1>6, <3>1
      <3>4. ASSUME NEW i \in 1..Len(t) PROVE m.node[t[i]].st = "used"
        BY <1>6, <3>1, <3>3
      <3>5. ASSUME NEW i \in 1..Len(t), NEW j \in 1..Len(t), i < j
            PROVE  rank[t[j]] < rank[t[i]]
        <4>1. CASE j <= Len(s) BY <1>6, <3>3, <3>5, <4>1
        <4>2. CASE j = Len(s) + 1
          <5>1. i \in 1..Len(s) /\ Len(s) \in 1..Len(s) /\ s # <<>> BY <3>3, <3>5, <4>2
          <5>2. rank[y] < rank[s[Len(s)]] BY <3>1, <5>1
          <5>3. i = Len(s) \/ rank[s[Len(s)]] < rank[s[i]] BY <1>6, <5>1
          <5>4. rank[y] \in Int /\ rank[s[Len(s)]] \in Int /\ rank[s[i]] \in Int
            BY <3>1, <3>3, <5>1
          <5>5. rank[y] < rank[s[i]] BY <5>2, <5>3, <5>4
          <5> QED BY <3>3, <4>2, <5>1, <5>5
        <4> QED BY <3>3, <4>1, <4>2
      <3> HIDE DEF t
      <3>6. Good(t) BY <3>3, <3>4, <3>5
      <3> QED BY <3>2, <3>6
    <2> QED BY <2>1, <2>2
  <1> HIDE DEF Good
  <1>7. 0 \in S BY <1>3, <1>4, <1>5
  <1>8. ASSUME NEW i \in 0..(n - 1), i \in S PROVE i + 1 \in S
    <2>1. i + 1 \in 1..n /\ i + 1 \in 0..n /\ (i + 1) - 1 = i BY <1>4
    <2>2. f[i + 1] = Visited(m, f[i]) BY <1>3, <2>1
    <2> QED BY <1>6, <1>8, <2>1, <2>2
  <1>9. n \in S
    <2>1. n \in 0..n BY <1>4
    <2> HIDE DEF S
    <2> QED BY <1>4, <1>7, <1>8, <2>1, UpTo
  <1>10. Good(Walk(m)) BY <1>3, <1>9
  <1>11. Distinct(Walk(m))
    <2> DEFINE w == Walk(m)
    <2>1. /\ w \in Seq(Rbls)
          /\ \A i, j \in 1..Len(w) : i < j => rank[w[j]] < rank[w[i]]
      BY <1>10 DEF Good
    <2> HIDE DEF w
    <2>2. ASSUME NEW i \in 1..Len(w), NEW j \in 1..Len(w), w[i] = w[j] PROVE i = j
      <3>1. rank[w[i]] \in Int /\ rank[w[i]] = rank[w[j]] BY <2>1, <2>2
      <3>2. ~(i < j) /\ ~(j < i) BY <2>1, <3>1
      <3>3. i \in Int /\ j \in Int BY <2>1
      <3> QED BY <3>2, <3>3
    <2>3. Distinct(w) BY <2>2 DEF Distinct
    <2> QED BY <2>3 DEF w
  <1> QED BY <1>10, <1>11 DEF Good

-----------------------------------------------------------------------------
(* What the loops keep.                                                       *)

LEMMA ClearOneHolds ==
    ASSUME NEW m, Linked(m), NEW r \in Rbls, NEW u \in [Rbls -> SUBSET Clients], Counted(m, u)
    PROVE  LET k == rbl_clear_one(m, r)
           IN  Linked(k) /\ Counted(k, u) /\ Shrinks(m, k)
  <1> DEFINE off == IF r \in ToSet(Walk(m)) THEN rb_dlinkDelete(m, r) ELSE m
             d == [off EXCEPT !.node = Freeing(off.node, r)]
             k == rbl_clear_one(m, r)
  <1>1. k = rbl_destroy(d, r) BY Zenon DEF rbl_clear_one
  <1>2. Linked(off) /\ SameButLinks(m, off)
    BY DeleteLinked DEF SameButLinks
  <1> HIDE DEF off, k
  <1>3. off \in Memory /\ off.node \in [Rbls -> Rbl] BY <1>2 DEF Linked, Memory
  <1>4. d \in Memory /\ d.list = off.list /\ d.node = Freeing(off.node, r)
    BY <1>3, FreeingShape, NodeSet
  <1> HIDE DEF d
  <1>5. \A x \in Rbls : /\ d.node[x].st = off.node[x].st
                        /\ d.node[x].refcount = off.node[x].refcount
                        /\ d.node[x].next = off.node[x].next
                        /\ d.node[x].prev = off.node[x].prev
    <2> DEFINE node == off.node
    <2>1. node \in [Rbls -> Rbl] /\ d.node = Freeing(node, r) BY <1>3, <1>4
    <2> HIDE DEF node
    <2>2. /\ d.node[r].st = node[r].st /\ d.node[r].refcount = node[r].refcount
          /\ d.node[r].next = node[r].next /\ d.node[r].prev = node[r].prev
          /\ \A x \in Rbls \ {r} : d.node[x] = node[x]
      BY <2>1, FreeingShape
    <2> QED BY <2>2 DEF node
  <1>6. Linked(d) BY <1>2, <1>4, <1>5, SameLinks
  <1>7. Counted(d, u) BY <1>2, <1>5 DEF Counted, SameButLinks
  <1>8. Shrinks(m, d) BY <1>2, <1>5 DEF Shrinks, SameButLinks
  <1>9. Linked(k) /\ Counted(k, u) /\ Shrinks(d, k)
    BY <1>1, <1>6, <1>7, DestroyHolds
  <1>10. Shrinks(m, k) BY <1>8, <1>9 DEF Shrinks
  <1> QED BY <1>9, <1>10 DEF k

\* rbl_clear_rbllists() takes nothing away that a lookup points to.
LEMMA ClearHolds ==
    ASSUME NEW m, Linked(m), NEW u \in [Rbls -> SUBSET Clients], Counted(m, u)
    PROVE  LET k == rbl_clear_rbllists(m)
           IN  Linked(k) /\ Counted(k, u) /\ Shrinks(m, k)
  <1> DEFINE w == Walk(m)
             n == Len(w)
  <1>1. w \in Seq(Rbls) /\ m \in Memory BY WalkHolds DEF Linked
  <1>2. PICK f : /\ f[0] = m /\ \A i \in 1..n : f[i] = rbl_clear_one(f[i - 1], w[i])
                 /\ rbl_clear_rbllists(m) = f[n]
    BY <1>1, ClearSteps
  <1> HIDE DEF w
  <1>3. n \in Nat /\ \A i \in 1..n : w[i] \in Rbls BY <1>1
  <1> HIDE DEF n
  <1> DEFINE S == {i \in 0..n : Linked(f[i]) /\ Counted(f[i], u) /\ Shrinks(m, f[i])}
  <1>4. 0 \in S BY <1>2, <1>3 DEF Shrinks
  <1>5. ASSUME NEW i \in 0..(n - 1), i \in S PROVE i + 1 \in S
    <2>1. i + 1 \in 1..n /\ i + 1 \in 0..n /\ (i + 1) - 1 = i BY <1>3
    <2>2. f[i + 1] = rbl_clear_one(f[i], w[i + 1]) /\ w[i + 1] \in Rbls BY <1>2, <1>3, <2>1
    <2>3. Linked(f[i]) /\ Counted(f[i], u) /\ Shrinks(m, f[i]) BY <1>5
    <2> DEFINE a == f[i]
               k == f[i + 1]
    <2> HIDE DEF a, k
    <2>4. Linked(k) /\ Counted(k, u) /\ Shrinks(a, k)
      BY <2>2, <2>3, ClearOneHolds DEF a, k
    <2>5. Shrinks(m, k) BY <2>3, <2>4 DEF Shrinks, a
    <2> QED BY <2>1, <2>4, <2>5 DEF k
  <1>6. n \in S
    <2>1. n \in 0..n BY <1>3
    <2> HIDE DEF S
    <2> QED BY <1>3, <1>4, <1>5, <2>1, UpTo
  <1> QED BY <1>2, <1>6

\* The blocks of a new configuration are put on the list.
LEMMA BlocksHold ==
    ASSUME NEW m, Linked(m), NEW u \in [Rbls -> SUBSET Clients], Counted(m, u),
           NEW rs \in Seq(Rbls), Distinct(rs),
           \A i \in 1..Len(rs) : m.node[rs[i]].st # "used"
    PROVE  LET k == blacklist_blocks(m, rs) IN Linked(k) /\ Counted(k, u)
  <1> DEFINE n == Len(rs)
  <1>1. n \in Nat /\ (\A i \in 1..n : rs[i] \in Rbls) /\ m \in Memory BY DEF Linked
  <1>2. PICK f : /\ f[0] = m /\ \A i \in 1..n : f[i] = blacklist_block(f[i - 1], rs[i])
                 /\ blacklist_blocks(m, rs) = f[n]
    BY <1>1, BlockSteps
  <1>3. \A i, j \in 1..n : rs[i] = rs[j] => i = j BY DEF Distinct
  <1> HIDE DEF n
  <1> DEFINE Free(k, i) == \A j \in 1..n : j > i => k.node[rs[j]].st # "used"
             S == {i \in 0..n : Linked(f[i]) /\ Counted(f[i], u) /\ Free(f[i], i)}
  <1>4. 0 \in S
    <2>1. Free(m, 0) BY DEF n
    <2> QED BY <1>1, <1>2, <2>1
  <1>5. ASSUME NEW i \in 0..(n - 1), i \in S PROVE i + 1 \in S
    <2>1. i + 1 \in 1..n /\ i + 1 \in 0..n /\ (i + 1) - 1 = i /\ i + 1 > i /\ i \in Nat BY <1>1
    <2> DEFINE a == f[i]
               k == f[i + 1]
               r == rs[i + 1]
    <2>2. k = blacklist_block(a, r) /\ r \in Rbls BY <1>1, <1>2, <2>1
    <2>3. Linked(a) /\ Counted(a, u) /\ Free(a, i) BY <1>5
    <2> HIDE DEF a, k
    <2>4. a.node[r].st # "used" BY <2>1, <2>3
    <2> HIDE DEF r
    <2>5. Linked(k) /\ Counted(k, u) /\ \A x \in Rbls \ {r} : k.node[x].st = a.node[x].st
      BY <2>2, <2>3, <2>4, BlockHolds
    <2>6. Free(k, i + 1)
      <3> SUFFICES ASSUME NEW j \in 1..n, j > i + 1 PROVE k.node[rs[j]].st # "used"
        OBVIOUS
      <3>1. rs[j] # r BY <1>3, <2>1 DEF r
      <3>2. j > i BY <2>1
      <3>3. a.node[rs[j]].st # "used" BY <2>3, <3>2
      <3> QED BY <1>1, <2>5, <3>1, <3>3
    <2> QED BY <2>1, <2>5, <2>6 DEF k
  <1>6. n \in S
    <2>1. n \in 0..n BY <1>1
    <2> HIDE DEF S
    <2> QED BY <1>1, <1>4, <1>5, <2>1, UpTo
  <1> QED BY <1>2, <1>6

\* All lookups of a client end.
LEMMA DetachAllHolds ==
    ASSUME NEW m, Linked(m), NEW u \in [Rbls -> SUBSET Clients], Counted(m, u), NEW c \in Clients,
           NEW qs \in Seq(Query),
           \A i, j \in 1..Len(qs) : qs[i].r = qs[j].r => i = j,
           \A x \in Rbls : c \in u[x] <=> \E i \in 1..Len(qs) : qs[i].r = x
    PROVE  LET k == DetachAll(m, qs)
           IN  Linked(k) /\ Counted(k, [x \in Rbls |-> u[x] \ {c}])
  <1> DEFINE n == Len(qs)
  <1>1. \A q \in Query : q.r \in Rbls BY DEF Query
  <1>3. n \in Nat /\ (\A i \in 1..n : qs[i].r \in Rbls) /\ m \in Memory
    BY <1>1 DEF Linked
  <1>4. PICK f : /\ f[0] = m /\ \A i \in 1..n : f[i] = rbl_detach(f[i - 1], qs[i].r)
                 /\ DetachAll(m, qs) = f[n]
    BY <1>3, DetachSteps
  <1> HIDE DEF n
  <1> DEFINE Left(i) == [x \in Rbls |-> IF \E j \in 1..i : qs[j].r = x THEN u[x] \ {c} ELSE u[x]]
             S == {i \in 0..n : Linked(f[i]) /\ Counted(f[i], Left(i))}
  <1>5. 0 \in S
    <2>1. Left(0) = u OBVIOUS
    <2> HIDE DEF Left
    <2> QED BY <1>3, <1>4, <2>1
  <1>6. ASSUME NEW i \in 0..(n - 1), i \in S PROVE i + 1 \in S
    <2>1. i + 1 \in 1..n /\ i + 1 \in 0..n /\ (i + 1) - 1 = i /\ i \in Nat BY <1>3
    <2> DEFINE a == f[i]
               k == f[i + 1]
               r == qs[i + 1].r
               v == Left(i)
    <2>2. k = rbl_detach(a, r) /\ r \in Rbls BY <1>3, <1>4, <2>1
    <2>3. Linked(a) /\ Counted(a, v) BY <1>6
    <2>4. v \in [Rbls -> SUBSET Clients] OBVIOUS
    <2>5. v[r] = u[r] /\ c \in v[r]
      <3>1. ~\E j \in 1..i : qs[j].r = r
        <4>1. ASSUME NEW j \in 1..i, qs[j].r = r PROVE FALSE
          <5>1. j \in 1..n /\ j # i + 1 BY <2>1, <1>3
          <5> QED BY <2>1, <4>1, <5>1 DEF n
        <4> QED BY <4>1
      <3>2. c \in u[r] BY <2>1, <2>2 DEF n
      <3> HIDE DEF r
      <3> QED BY <2>2, <3>1, <3>2
    <2>6. Left(i + 1) = [v EXCEPT ![r] = v[r] \ {c}]
      <3>1. \A x \in Rbls : (\E j \in 1..(i + 1) : qs[j].r = x) <=> (r = x \/ \E j \in 1..i : qs[j].r = x)
        <4> SUFFICES ASSUME NEW x \in Rbls
                     PROVE (\E j \in 1..(i + 1) : qs[j].r = x) <=> (r = x \/ \E j \in 1..i : qs[j].r = x)
          OBVIOUS
        <4>1. 1..(i + 1) = 1..i \cup {i + 1} BY <2>1
        <4> QED BY <4>1
      <3> DEFINE e == [v EXCEPT ![r] = v[r] \ {c}]
      <3>2. e \in [Rbls -> SUBSET Clients] /\ e[r] = u[r] \ {c} /\ \A x \in Rbls \ {r} : e[x] = v[x]
        BY <2>2, <2>4, <2>5
      <3>3. Left(i + 1) \in [Rbls -> SUBSET Clients] OBVIOUS
      <3>4. ASSUME NEW x \in Rbls PROVE Left(i + 1)[x] = e[x]
        <4>1. CASE x = r
          <5> HIDE DEF e, r
          <5>1. \E j \in 1..(i + 1) : qs[j].r = x BY <3>1, <4>1
          <5> QED BY <3>2, <4>1, <5>1
        <4>2. CASE x # r
          <5>1. e[x] = v[x] BY <3>2, <4>2
          <5>2. (\E j \in 1..(i + 1) : qs[j].r = x) <=> \E j \in 1..i : qs[j].r = x
            BY <3>1, <4>2
          <5> HIDE DEF e, r
          <5> QED BY <5>1, <5>2
        <4> QED BY <4>1, <4>2
      <3> HIDE DEF e, Left
      <3> QED BY <3>2, <3>3, <3>4 DEF e
    <2> HIDE DEF a, k, r, v, Left
    <2>7. Linked(k) /\ Counted(k, [v EXCEPT ![r] = v[r] \ {c}])
      BY <2>2, <2>3, <2>4, <2>5, DetachHolds
    <2> QED BY <2>1, <2>6, <2>7 DEF k
  <1>7. n \in S
    <2>1. n \in 0..n BY <1>3
    <2> HIDE DEF S
    <2> QED BY <1>3, <1>5, <1>6, <2>1, UpTo
  <1>8. Left(n) = [x \in Rbls |-> u[x] \ {c}]
    <2>1. ASSUME NEW x \in Rbls PROVE Left(n)[x] = u[x] \ {c}
      BY DEF n
    <2> QED BY <2>1
  <1> HIDE DEF Left
  <1> QED BY <1>4, <1>7, <1>8

\* rbl_attach_rbl_to_query(), for each of the blacklists that are asked.
LEMMA AttachHolds ==
    ASSUME NEW m, Linked(m), NEW u \in [Rbls -> SUBSET Clients], Counted(m, u), NEW c \in Clients,
           NEW rs \in Seq(Rbls), Distinct(rs),
           \A i \in 1..Len(rs) : m.node[rs[i]].st = "used",
           \A x \in Rbls : c \notin u[x]
    PROVE  LET k == rbl_attach(m, rs)
           IN  /\ Linked(k)
               /\ Counted(k, [x \in Rbls |-> IF x \in ToSet(rs) THEN u[x] \cup {c} ELSE u[x]])
  <1> DEFINE k == rbl_attach(m, rs)
             v == [x \in Rbls |-> IF x \in ToSet(rs) THEN u[x] \cup {c} ELSE u[x]]
             Times(x) == Cardinality({i \in DOMAIN rs : rs[i] = x})
             b(x) == [m.node[x] EXCEPT !.refcount = m.node[x].refcount + Times(x)]
  <1>1. m \in Memory /\ m.node \in [Rbls -> Rbl] /\ m.list \in List BY DEF Linked, Memory
  <1>2. ASSUME NEW x \in Rbls
        PROVE  /\ x \in ToSet(rs) => Times(x) = 1
               /\ x \notin ToSet(rs) => Times(x) = 0
    <2>1. CASE x \in ToSet(rs)
      <3>1. PICK i \in 1..Len(rs) : rs[i] = x BY <2>1 DEF ToSet
      <3>2. {j \in DOMAIN rs : rs[j] = x} = {i}
        BY <3>1 DEF Distinct
      <3>3. Cardinality({i}) = 1 BY FS_Singleton
      <3> QED BY <2>1, <3>2, <3>3
    <2>2. CASE x \notin ToSet(rs)
      <3>1. {j \in DOMAIN rs : rs[j] = x} = {} BY <2>2 DEF ToSet
      <3> QED BY <2>2, <3>1, FS_EmptySet
    <2> QED BY <2>1, <2>2
  <1>3. k = [node |-> [x \in Rbls |-> b(x)], list |-> m.list] BY Zenon DEF rbl_attach
  <1> HIDE DEF Times, k
  <1>4. ASSUME NEW x \in Rbls
        PROVE  /\ b(x) \in Rbl /\ b(x).refcount = m.node[x].refcount + Times(x)
               /\ b(x).st = m.node[x].st
               /\ b(x).next = m.node[x].next /\ b(x).prev = m.node[x].prev
    <2> DEFINE e == m.node[x]
               t == e.refcount + Times(x)
    <2>1. e \in Rbl /\ Times(x) \in Int BY <1>1, <1>2
    <2>2. t \in Int BY <2>1 DEF Rbl
    <2> HIDE DEF e, t
    <2> DEFINE a == [e EXCEPT !.refcount = t]
    <2>3. a \in Rbl /\ a.refcount = t /\ a.st = e.st /\ a.next = e.next /\ a.prev = e.prev
      BY <2>1, <2>2 DEF Rbl
    <2> HIDE DEF a
    <2>4. b(x) = a BY Zenon DEF a, e, t
    <2> HIDE DEF b
    <2> QED BY <2>3, <2>4 DEF e, t
  <1> HIDE DEF b
  <1>5. /\ k.node = [x \in Rbls |-> b(x)] /\ k.list = m.list /\ k \in Memory
    BY <1>1, <1>3, <1>4 DEF Memory
  <1>6. \A x \in Rbls : /\ k.node[x].refcount = m.node[x].refcount + Times(x)
                        /\ k.node[x].st = m.node[x].st
                        /\ k.node[x].next = m.node[x].next /\ k.node[x].prev = m.node[x].prev
    BY <1>4, <1>5
  <1>7. Linked(k) BY <1>5, <1>6, SameLinks
  <1>8. Counted(k, v)
    <2> SUFFICES ASSUME NEW x \in Rbls
                 PROVE  /\ k.node[x].refcount = Cardinality(v[x])
                        /\ v[x] # {} => k.node[x].st = "used"
      BY DEF Counted
    <2>1. /\ m.node[x].refcount = Cardinality(u[x])
          /\ u[x] # {} => m.node[x].st = "used"
      BY DEF Counted
    <2> DEFINE U == u[x]
    <2>2. IsFiniteSet(U) /\ c \notin U /\ Cardinality(U) \in Nat BY UsersFinite
    <2>3. CASE x \in ToSet(rs)
      <3>1. v[x] = U \cup {c} BY <2>3
      <3>2. m.node[x].st = "used" BY <2>3 DEF ToSet
      <3> HIDE DEF U, v
      <3>3. Cardinality(U \cup {c}) = Cardinality(U) + 1 BY <2>2, FS_AddElement
      <3> QED BY <1>2, <1>6, <2>1, <2>3, <3>1, <3>2, <3>3 DEF U
    <2>4. CASE x \notin ToSet(rs)
      <3>1. v[x] = U BY <2>4
      <3> HIDE DEF U, v
      <3> QED BY <1>2, <1>6, <2>1, <2>2, <2>4, <3>1 DEF U
    <2> QED BY <2>3, <2>4
  <1> QED BY <1>7, <1>8 DEF k

-----------------------------------------------------------------------------
(* The table of lookups.                                                      *)

DnsState == [table: [Ids -> Request \cup {NoRequest}], id: Ids, asked: SUBSET Question]

LEMMA NoRequestNone == NoRequest \notin Request
  BY NullRbl DEF Request, NoRequest

\* assign_dns_id() returns a free slot, or none.
LEMMA AssignFree ==
    ASSUME NEW d \in DnsState
    PROVE  \/ assign_dns_id(d) = 0
           \/ assign_dns_id(d) \in Ids /\ d.table[assign_dns_id(d)] = NoRequest
  <1> DEFINE free == {i \in Ids : d.table[i] = NoRequest}
             steps(i) == IF i > d.id THEN i - d.id ELSE i - d.id + MaxId
             Best(i) == \A j \in free : steps(i) <= steps(j)
  <1>1. CASE free = {} BY <1>1 DEF assign_dns_id
  <1>2. CASE free # {}
    <2>1. \A i \in free : steps(i) \in Nat BY ConstAssumption DEF DnsState, Ids
    <2>2. \E i \in free : Best(i)
      <3> SUFFICES ASSUME ~\E i \in free : Best(i) PROVE FALSE OBVIOUS
      <3> HIDE DEF free, steps
      <3> DEFINE T == {n \in Nat : \E i \in free : steps(i) = n}
      <3>1. T # {} /\ T \subseteq Nat BY <1>2, <2>1
      <3>2. PICK x \in T : \A y \in T : ~(<<y, x>> \in OpToRel(<, Nat))
        <4> HIDE DEF T
        <4> QED BY <3>1, NatLessThanWellFounded, WFMin
      <3>3. PICK i \in free : steps(i) = x BY <3>2
      <3>4. PICK j \in free : ~(steps(i) <= steps(j)) BY <3>3
      <3>5. steps(j) \in T /\ steps(j) < x BY <2>1, <3>3, <3>4
      <3>6. <<steps(j), x>> \in OpToRel(<, Nat)
        <4>1. <<steps(j), x>> \in Nat \X Nat BY <3>1, <3>5
        <4>2. <<steps(j), x>>[1] < <<steps(j), x>>[2] BY <3>5
        <4> QED BY <4>1, <4>2, Zenon DEF OpToRel
      <3> QED BY <3>2, <3>5, <3>6
    <2>3. assign_dns_id(d) = CHOOSE i \in free : Best(i) BY <1>2, Zenon DEF assign_dns_id
    <2> HIDE DEF Best
    <2>4. assign_dns_id(d) \in free BY <2>2, <2>3
    <2> QED BY <2>4
  <1> QED BY <1>1, <1>2

\* A lookup takes a free slot, if there is one, for its request.
LEMMA LookupHolds ==
    ASSUME NEW d \in DnsState, NEW req \in Request
    PROVE  LET e == lookup(d, req)
           IN  /\ e \in DnsState
               /\ \/ e.table = d.table /\ e.asked = d.asked
                  \/ \E i \in Ids : /\ d.table[i] = NoRequest
                                    /\ e.table = [d.table EXCEPT ![i] = req]
                                    /\ e.asked = d.asked \cup {[id |-> i, req |-> req]}
  <1> DEFINE e == lookup(d, req)
             i == assign_dns_id(d)
  <1>1. d.table \in [Ids -> Request \cup {NoRequest}] /\ d.id \in Ids /\ d.asked \subseteq Question
    BY DEF DnsState
  <1>2. CASE i = 0
    <2>1. e = [d EXCEPT !.id = NextId(d.id)] BY <1>2 DEF lookup
    <2>2. NextId(d.id) \in Ids BY <1>1, ConstAssumption DEF NextId, Ids
    <2> DEFINE x == NextId(d.id)
    <2> HIDE DEF x
    <2>3. e = [d EXCEPT !.id = x] BY <2>1, Zenon DEF x
    <2>4. x \in Ids BY <2>2 DEF x
    <2> HIDE DEF e
    <2>5. e \in DnsState /\ e.table = d.table /\ e.asked = d.asked
      BY <2>3, <2>4 DEF DnsState
    <2> QED BY <2>5 DEF e
  <1>3. CASE i # 0
    <2>1. i \in Ids /\ d.table[i] = NoRequest BY <1>3, AssignFree
    <2>2. e = [table |-> [d.table EXCEPT ![i] = req], id |-> i,
               asked |-> d.asked \cup {[id |-> i, req |-> req]}]
      BY <1>3 DEF lookup
    <2> HIDE DEF e, i
    <2>3. [id |-> i, req |-> req] \in Question BY <2>1 DEF Question
    <2>4. e \in DnsState BY <1>1, <2>1, <2>2, <2>3 DEF DnsState
    <2>5. /\ e.table = [d.table EXCEPT ![i] = req]
          /\ e.asked = d.asked \cup {[id |-> i, req |-> req]}
      BY <2>2
    <2> QED BY <2>1, <2>4, <2>5 DEF e
  <1> QED BY <1>2, <1>3

\* lookups() goes through the states after each request of reqs.
LEMMA LookupSteps ==
    ASSUME NEW d \in DnsState, NEW reqs \in Seq(Request)
    PROVE  \E f : /\ f[0] = d
                  /\ \A i \in 1..Len(reqs) : f[i] = lookup(f[i - 1], reqs[i])
                  /\ lookups(d, reqs) = f[Len(reqs)]
  <1> DEFINE n == Len(reqs)
             g == [p \in (1..n) \X DnsState |-> lookup(p[2], reqs[p[1]])]
             e == CHOOSE f : f = [i \in 0..Len(reqs) |->
                                    IF i = 0 THEN d ELSE lookup(f[i - 1], reqs[i])]
  <1>1. n \in Nat /\ \A i \in 1..n : reqs[i] \in Request
    OBVIOUS
  <1>2. lookups(d, reqs) = e[Len(reqs)] BY Zenon DEF lookups
  <1> HIDE DEF n
  <1>3. ASSUME NEW p \in (1..n) \X DnsState PROVE lookup(p[2], reqs[p[1]]) \in DnsState
    BY <1>1, LookupHolds
  <1>4. Stepping(g, n, DnsState) BY <1>3 DEF Stepping
  <1>5. ASSUME NEW i \in 1..n, NEW k \in DnsState PROVE g[<<i, k>>] = lookup(k, reqs[i])
    OBVIOUS
  <1> HIDE DEF g
  <1>6. PICK f : Stepped(f, g, n, DnsState, d) BY <1>1, <1>4, Recursion
  <1>7. ASSUME NEW i \in 0..n
        PROVE  f[i] = IF i = 0 THEN d ELSE lookup(f[i - 1], reqs[i])
    <2>1. CASE i = 0 BY <1>6, <2>1 DEF Stepped
    <2>2. CASE i # 0
      <3>1. i \in 1..n /\ i - 1 \in 0..n BY <1>1, <2>2
      <3>2. f[i - 1] \in DnsState BY <1>6, <3>1 DEF Stepped
      <3> QED BY <1>5, <1>6, <2>2, <3>1, <3>2 DEF Stepped
    <2> QED BY <2>1, <2>2
  <1>8. f = [i \in 0..Len(reqs) |-> IF i = 0 THEN d ELSE lookup(f[i - 1], reqs[i])]
    BY <1>6, <1>7 DEF n, Stepped
  <1>9. e = [i \in 0..Len(reqs) |-> IF i = 0 THEN d ELSE lookup(e[i - 1], reqs[i])]
    BY <1>8, Zenon
  <1> HIDE DEF e
  <1>10. e[0] = d /\ \A i \in 1..n : e[i] = lookup(e[i - 1], reqs[i])
    BY <1>1, <1>9 DEF n
  <1> QED BY <1>2, <1>10 DEF n

\* e is d after the first n lookups of reqs: slots that were free hold one of
\* them each, and the questions asked since stand in their slots.
Asked(d, e, reqs, n) ==
    /\ e \in DnsState
    /\ \A i \in Ids : \/ e.table[i] = d.table[i]
                      \/ d.table[i] = NoRequest /\ \E j \in 1..n : e.table[i] = reqs[j]
    /\ \A j \in 1..n, i, k \in Ids : e.table[i] = reqs[j] /\ e.table[k] = reqs[j] => i = k
    /\ \A q \in e.asked : q \in d.asked \/ e.table[q.id] = q.req

\* None of reqs stands in a slot.
Unasked(d, reqs) == \A i \in Ids, j \in 1..Len(reqs) : d.table[i] # reqs[j]

LEMMA AskOne ==
    ASSUME NEW d \in DnsState, NEW reqs \in Seq(Request), Distinct(reqs), Unasked(d, reqs),
           NEW n \in Nat, n + 1 \in 1..Len(reqs), NEW e, Asked(d, e, reqs, n)
    PROVE  Asked(d, lookup(e, reqs[n + 1]), reqs, n + 1)
  <1> DEFINE r == reqs[n + 1]
             x == lookup(e, r)
  <1>1. /\ e \in DnsState /\ r \in Request
        /\ e.table \in [Ids -> Request \cup {NoRequest}] /\ e.asked \subseteq Question
    BY DEF Asked, DnsState
  <1>2. 1..(n + 1) = 1..n \cup {n + 1} /\ 1..n \subseteq 1..Len(reqs) /\ n + 1 \notin 1..n
    OBVIOUS
  <1>3. \A j \in 1..n : reqs[j] # r BY <1>2 DEF Distinct
  <1>4. /\ x \in DnsState
        /\ \/ x.table = e.table /\ x.asked = e.asked
           \/ \E i \in Ids : /\ e.table[i] = NoRequest
                             /\ x.table = [e.table EXCEPT ![i] = r]
                             /\ x.asked = e.asked \cup {[id |-> i, req |-> r]}
    BY <1>1, LookupHolds
  <1>5. \A i \in Ids : e.table[i] # r
    BY <1>3 DEF Asked, Unasked
  <1>6. /\ \A i \in Ids : \/ e.table[i] = d.table[i]
                          \/ d.table[i] = NoRequest /\ \E j \in 1..n : e.table[i] = reqs[j]
        /\ \A j \in 1..n, i, k \in Ids : e.table[i] = reqs[j] /\ e.table[k] = reqs[j] => i = k
        /\ \A q \in e.asked : q \in d.asked \/ e.table[q.id] = q.req
    BY DEF Asked
  <1>7. \A j \in 1..n : reqs[j] # NoRequest BY <1>2, NoRequestNone
  <1>8. r # NoRequest BY <1>1, NoRequestNone
  <1> HIDE DEF x
  <1>9. CASE x.table = e.table /\ x.asked = e.asked
    <2>1. \A j \in 1..(n + 1), i, k \in Ids : x.table[i] = reqs[j] /\ x.table[k] = reqs[j] => i = k
      BY <1>2, <1>5, <1>6, <1>9
    <2> QED BY <1>2, <1>4, <1>6, <1>9, <2>1 DEF Asked, x
  <1>10. CASE \E i \in Ids : /\ e.table[i] = NoRequest
                             /\ x.table = [e.table EXCEPT ![i] = r]
                             /\ x.asked = e.asked \cup {[id |-> i, req |-> r]}
    <2>1. PICK s \in Ids : /\ e.table[s] = NoRequest
                           /\ x.table = [e.table EXCEPT ![s] = r]
                           /\ x.asked = e.asked \cup {[id |-> s, req |-> r]}
      BY <1>10
    <2> HIDE DEF r
    <2>2. x.table[s] = r /\ \A i \in Ids \ {s} : x.table[i] = e.table[i] BY <1>1, <2>1
    <2>3. ASSUME NEW i \in Ids
          PROVE  \/ x.table[i] = d.table[i]
                 \/ d.table[i] = NoRequest /\ \E j \in 1..(n + 1) : x.table[i] = reqs[j]
      <3>1. CASE i # s BY <1>2, <1>6, <2>2, <3>1
      <3>2. CASE i = s
        <4>1. d.table[s] = NoRequest BY <1>6, <1>7, <2>1
        <4>2. x.table[i] = reqs[n + 1] BY <2>2, <3>2 DEF r
        <4> QED BY <1>2, <3>2, <4>1, <4>2
      <3> QED BY <3>1, <3>2
    <2>4. ASSUME NEW j \in 1..(n + 1), NEW i \in Ids, NEW k \in Ids,
                 x.table[i] = reqs[j], x.table[k] = reqs[j]
          PROVE  i = k
      <3>1. CASE j = n + 1 BY <1>5, <2>2, <2>4, <3>1 DEF r
      <3>2. CASE j \in 1..n BY <1>3, <1>6, <2>2, <2>4, <3>2
      <3> QED BY <1>2, <3>1, <3>2
    <2>5. ASSUME NEW q \in x.asked PROVE q \in d.asked \/ x.table[q.id] = q.req
      <3>1. CASE q \in e.asked
        <4>1. q \in Question BY <1>1, <3>1
        <4>2. q.id \in Ids /\ q.req \in Request BY <4>1 DEF Question
        <4> QED BY <1>6, <2>1, <2>2, <3>1, <4>2, NoRequestNone
      <3>2. CASE q = [id |-> s, req |-> r] BY <2>2, <3>2
      <3> QED BY <2>1, <3>1, <3>2
    <2> QED BY <1>4, <2>3, <2>4, <2>5 DEF Asked, x, r
  <1> QED BY <1>4, <1>9, <1>10

\* The lookups of a new client.
LEMMA LookupsHold ==
    ASSUME NEW d \in DnsState, NEW reqs \in Seq(Request), Distinct(reqs), Unasked(d, reqs)
    PROVE  Asked(d, lookups(d, reqs), reqs, Len(reqs))
  <1> DEFINE n == Len(reqs)
  <1>1. n \in Nat OBVIOUS
  <1>2. PICK f : /\ f[0] = d /\ \A i \in 1..n : f[i] = lookup(f[i - 1], reqs[i])
                 /\ lookups(d, reqs) = f[n]
    BY LookupSteps
  <1> HIDE DEF n
  <1> DEFINE S == {i \in 0..n : Asked(d, f[i], reqs, i)}
  <1>3. 0 \in S BY <1>1, <1>2 DEF Asked
  <1>4. ASSUME NEW i \in 0..(n - 1), i \in S PROVE i + 1 \in S
    <2>1. i + 1 \in 1..n /\ i + 1 \in 0..n /\ (i + 1) - 1 = i /\ i \in Nat BY <1>1
    <2>2. f[i + 1] = lookup(f[i], reqs[i + 1]) BY <1>2, <2>1
    <2>3. Asked(d, f[i], reqs, i) BY <1>4
    <2>4. Asked(d, lookup(f[i], reqs[i + 1]), reqs, i + 1)
      BY <2>1, <2>3, AskOne DEF n
    <2> QED BY <2>1, <2>2, <2>4
  <1>5. n \in S
    <2>1. n \in 0..n BY <1>1
    <2> HIDE DEF S
    <2> QED BY <1>1, <1>3, <1>4, <2>1, UpTo
  <1> QED BY <1>2, <1>5 DEF n

\* SlotOf() finds a request, if it has a slot.
LEMMA SlotFound ==
    ASSUME NEW d \in DnsState, NEW req,
           \A i, k \in Ids : d.table[i] = req /\ d.table[k] = req => i = k
    PROVE  /\ SlotOf(d, req) \in 0..MaxId
           /\ \A i \in Ids : SlotOf(d, req) = i <=> d.table[i] = req
  <1>0. Ids \subseteq 0..MaxId /\ 0 \notin Ids /\ 0 \in 0..MaxId BY ConstAssumption DEF Ids
  <1>1. CASE \E i \in Ids : d.table[i] = req
    <2>1. SlotOf(d, req) = CHOOSE i \in Ids : d.table[i] = req BY <1>1 DEF SlotOf
    <2> QED BY <1>0, <1>1, <2>1
  <1>2. CASE ~\E i \in Ids : d.table[i] = req
    <2>1. SlotOf(d, req) = 0 BY <1>2 DEF SlotOf
    <2> QED BY <1>0, <1>2, <2>1
  <1> QED BY <1>1, <1>2

\* The blocks of a configuration, in some order.
LEMMA InSomeOrder ==
    ASSUME NEW T \in SUBSET Rbls
    PROVE  /\ SetToSeq(T) \in Seq(Rbls) /\ Distinct(SetToSeq(T))
           /\ \A i \in 1..Len(SetToSeq(T)) : SetToSeq(T)[i] \in T
  <1> DEFINE n == Cardinality(T)
             s == SetToSeq(T)
  <1>1. IsFiniteSet(T) BY ConstAssumption, FS_Subset
  <1>2. n \in Nat /\ ExistsBijection(1..n, T)
    BY <1>1, FS_CardinalityType
  <1> HIDE DEF n
  <1>3. PICK f \in [1..n -> T] : IsInjective(f)
    <2>1. PICK f \in Bijection(1..n, T) : TRUE BY <1>2 DEF ExistsBijection
    <2>2. f \in [1..n -> T] /\ \A a, b \in 1..n : f[a] = f[b] => a = b
      BY <2>1 DEF Bijection, Injection, IsInjective
    <2> QED BY <2>2 DEF IsInjective
  <1>4. s \in [1..n -> T] /\ IsInjective(s)
    BY <1>3, Zenon DEF SetToSeq, n
  <1> HIDE DEF s
  <1>5. s \in Seq(T) /\ Len(s) = n BY <1>2, <1>4
  <1>6. Distinct(s) BY <1>4, <1>5 DEF Distinct, IsInjective
  <1>7. s \in Seq(Rbls) BY <1>5
  <1> QED BY <1>4, <1>5, <1>6, <1>7 DEF s

-----------------------------------------------------------------------------
(* The inductive invariant.                                                   *)

\* The clients with a lookup in each blacklist.
UsersOf == [r \in Rbls |-> {c \in Clients : \E q \in ToSet(auth[c].rbl_queries) : q.r = r}]

\* An AuthRequest that is dead has nothing, one that lives waits for what it
\* has asked, and for no blacklist twice.
Proper(a) ==
    /\ a \in AuthRequest
    /\ ~a.live => a = NoAuth
    /\ a.dns_query # 0 => "DNS" \in a.pending
    /\ a.rbl_queries # <<>> => "RBL" \in a.pending
    /\ \A i, j \in 1..Len(a.rbl_queries) : a.rbl_queries[i].r = a.rbl_queries[j].r => i = j

Requests == \A c \in Clients : Proper(auth[c]) /\ (auth[c].live => client[c] = "auth")

\* A request waits for slot i, for its host name or for blacklist r.
Waits(a, i, r) ==
    IF r = NULL THEN a.dns_query = i ELSE [r |-> r, queryid |-> i] \in ToSet(a.rbl_queries)

SlotsRight ==
    \A i \in Ids, c \in Clients, r \in Pointers :
        querytable[i] = [c |-> c, r |-> r] <=> Waits(auth[c], i, r)

IInv ==
    /\ TypeOK /\ Requests /\ SlotsRight /\ AnswersRight
    /\ Linked(Mem) /\ Counted(Mem, UsersOf)

LEMMA NoAuthProper == Proper(NoAuth) /\ ~NoAuth.live /\ NoAuth.pending = {}
                      /\ NoAuth.dns_query = 0 /\ NoAuth.rbl_queries = <<>> /\ NoAuth.authF = FALSE
  <1>1. <<>> \in Seq(Query) /\ 0 \in 0..MaxId BY ConstAssumption
  <1>2. NoAuth \in AuthRequest BY <1>1 DEF NoAuth, AuthRequest, Query
  <1> QED BY <1>2 DEF Proper, NoAuth

\* A request that waits for a slot lives.
LEMMA WaitsLive ==
    ASSUME NEW a, Proper(a), NEW i \in Ids, NEW r \in Pointers, Waits(a, i, r)
    PROVE  a.live /\ IF r = NULL THEN "DNS" \in a.pending ELSE "RBL" \in a.pending
  <1>1. 0 \notin Ids BY DEF Ids
  <1>2. ToSet(<<>>) = {} BY DEF ToSet
  <1>3. CASE r = NULL
    <2>1. a.dns_query # 0 BY <1>1, <1>3 DEF Waits
    <2> QED BY <1>3, <2>1, NoAuthProper DEF Proper
  <1>4. CASE r # NULL
    <2>1. a.rbl_queries # <<>> BY <1>2, <1>4 DEF Waits
    <2> QED BY <1>4, <2>1, NoAuthProper DEF Proper
  <1> QED BY <1>3, <1>4

LEMMA CallbacksRight ==
    ASSUME Requests, SlotsRight
    PROVE  CallbacksLive
  <1> SUFFICES ASSUME NEW i \in Ids, NEW c \in Clients, NEW r \in Pointers
               PROVE  querytable[i] = [c |-> c, r |-> r] <=>
                        /\ auth[c].live
                        /\ IF r = NULL THEN "DNS" \in auth[c].pending /\ auth[c].dns_query = i
                           ELSE "RBL" \in auth[c].pending
                                /\ [r |-> r, queryid |-> i] \in ToSet(auth[c].rbl_queries)
    BY DEF CallbacksLive
  <1>1. querytable[i] = [c |-> c, r |-> r] <=> Waits(auth[c], i, r) BY DEF SlotsRight
  <1>2. Proper(auth[c]) BY DEF Requests
  <1>3. Waits(auth[c], i, r) =>
          auth[c].live /\ IF r = NULL THEN "DNS" \in auth[c].pending ELSE "RBL" \in auth[c].pending
    BY <1>2, WaitsLive
  <1> QED BY <1>1, <1>3 DEF Waits

\* release_auth_client() gives nothing up that the request still waits for.
LEMMA ReleaseHolds ==
    ASSUME TypeOK, Requests, NEW c \in Clients, NEW a, Proper(a), client[c] = "auth",
           release_auth_client(c, a)
    PROVE  /\ client' \in [Clients -> {"none", "auth", "read", "exited"}]
           /\ auth' \in [Clients -> AuthRequest] /\ Requests'
           /\ auth'[c].dns_query = a.dns_query /\ auth'[c].rbl_queries = a.rbl_queries
           /\ \A x \in Clients \ {c} : auth'[x] = auth[x]
  <1> DEFINE b == IF Released(a) THEN NoAuth ELSE a
  <1>1. /\ client \in [Clients -> {"none", "auth", "read", "exited"}]
        /\ auth \in [Clients -> AuthRequest]
    BY DEF TypeOK
  <1>2. auth' = [auth EXCEPT ![c] = b] BY DEF release_auth_client
  <1>3. client' = [client EXCEPT ![c] = IF Released(a) THEN "read" ELSE "auth"]
    BY <1>1 DEF release_auth_client
  <1>4. Proper(b) /\ b.dns_query = a.dns_query /\ b.rbl_queries = a.rbl_queries
    BY NoAuthProper DEF Released, Proper
  <1>5. b.live => ~Released(a) BY NoAuthProper
  <1> HIDE DEF b
  <1>6. b \in AuthRequest BY <1>4 DEF Proper
  <1>7. /\ auth' \in [Clients -> AuthRequest] /\ auth'[c] = b
        /\ \A x \in Clients \ {c} : auth'[x] = auth[x] /\ client'[x] = client[x]
        /\ client' \in [Clients -> {"none", "auth", "read", "exited"}]
        /\ client'[c] = IF Released(a) THEN "read" ELSE "auth"
    BY <1>1, <1>2, <1>3, <1>6
  <1>8. Requests'
    <2> SUFFICES ASSUME NEW x \in Clients
                 PROVE  Proper(auth'[x]) /\ (auth'[x].live => client'[x] = "auth")
      BY DEF Requests
    <2>1. CASE x = c BY <1>4, <1>5, <1>7, <2>1
    <2>2. CASE x # c BY <1>7, <2>2 DEF Requests
    <2> QED BY <2>1, <2>2
  <1> QED BY <1>4, <1>7, <1>8

\* Slots S of client c are cleared, and c waits for them no more.
LEMMA SlotsCleared ==
    ASSUME TypeOK, SlotsRight, NEW c \in Clients, NEW S,
           \A i \in Ids : querytable'[i] = IF i \in S THEN NoRequest ELSE querytable[i],
           \A i \in Ids : i \in S => querytable[i] = NoRequest \/ querytable[i].c = c,
           \A x \in Clients \ {c} : auth'[x] = auth[x],
           \A i \in Ids, r \in Pointers : Waits(auth'[c], i, r) <=> Waits(auth[c], i, r) /\ i \notin S
    PROVE  SlotsRight'
  <1> SUFFICES ASSUME NEW i \in Ids, NEW x \in Clients, NEW r \in Pointers
               PROVE  querytable'[i] = [c |-> x, r |-> r] <=> Waits(auth'[x], i, r)
    BY DEF SlotsRight
  <1>1. querytable[i] = [c |-> x, r |-> r] <=> Waits(auth[x], i, r) BY DEF SlotsRight
  <1>2. [c |-> x, r |-> r] # NoRequest BY NullRbl DEF NoRequest
  <1>3. CASE i \in S
    <2>1. querytable'[i] # [c |-> x, r |-> r] BY <1>2, <1>3
    <2>2. CASE x = c BY <1>3, <2>1, <2>2
    <2>3. CASE x # c
      <3>1. querytable[i] # [c |-> x, r |-> r] BY <1>2, <1>3, <2>3
      <3> QED BY <1>1, <2>1, <2>3, <3>1
    <2> QED BY <2>2, <2>3
  <1>4. CASE i \notin S BY <1>1, <1>4
  <1> QED BY <1>3, <1>4

LEMMA MemIs ==
    ASSUME NEW m \in Memory, SetMem(m)
    PROVE  Mem' = m /\ rbl' \in [Rbls -> Rbl] /\ rbl_lists' \in List
  BY DEF SetMem, Mem, Memory

LEMMA MemType ==
    ASSUME TypeOK
    PROVE  Mem \in Memory /\ Mem.node = rbl /\ Mem.list = rbl_lists
  BY DEF TypeOK, Mem, Memory

LEMMA InitHolds == Init => IInv
  <1> SUFFICES ASSUME Init PROVE IInv OBVIOUS
  <1>1. 1 \in Ids /\ 0 \notin Ids BY ConstAssumption DEF Ids
  <1>2. NewRbl \in Rbl BY DEF NewRbl, Rbl, Pointers
  <1>3. NoAuth \in AuthRequest BY NoAuthProper DEF Proper
  <1>4. TypeOK BY <1>1, <1>2, <1>3 DEF Init, TypeOK, List, Pointers
  <1>5. Requests BY NoAuthProper DEF Init, Requests
  <1>6. ToSet(<<>>) = {} BY DEF ToSet
  <1>7. SlotsRight
    <2> SUFFICES ASSUME NEW i \in Ids, NEW c \in Clients, NEW r \in Pointers
                 PROVE  querytable[i] = [c |-> c, r |-> r] <=> Waits(auth[c], i, r)
      BY DEF SlotsRight
    <2>1. [c |-> c, r |-> r] # NoRequest BY NullRbl DEF NoRequest
    <2>2. ~Waits(auth[c], i, r) BY <1>1, <1>6, NoAuthProper DEF Init, Waits
    <2> QED BY <2>1, <2>2 DEF Init
  <1>8. AnswersRight BY DEF Init, AnswersRight
  <1>9. \A r \in Rbls : rbl[r] = NewRbl BY DEF Init
  <1>10. Linked(Mem)
    <2>1. /\ Mem \in Memory /\ Mem.node = rbl /\ Mem.list = rbl_lists
          /\ rbl_lists.head = NULL /\ rbl_lists.tail = NULL
      BY <1>4, MemType DEF Init
    <2>2. \A r \in Rbls : rbl[r].next = NULL /\ rbl[r].prev = NULL BY <1>9 DEF NewRbl
    <2>3. Symmetric(Mem) BY <2>1, <2>2, NullRbl DEF Symmetric
    <2>4. Loose(Mem) /\ EndsUsed(Mem) BY <2>1, <2>2 DEF Loose, EndsUsed
    <2>5. [r \in Rbls |-> 0] \in [Rbls -> Int] OBVIOUS
    <2>6. Descends(Mem, [r \in Rbls |-> 0]) BY <2>1, <2>2, NullRbl DEF Descends
    <2> QED BY <2>1, <2>3, <2>4, <2>5, <2>6 DEF Linked
  <1>11. Counted(Mem, UsersOf)
    <2> SUFFICES ASSUME NEW r \in Rbls
                 PROVE  /\ Mem.node[r].refcount = Cardinality(UsersOf[r])
                        /\ UsersOf[r] # {} => Mem.node[r].st = "used"
      BY DEF Counted
    <2>1. UsersOf[r] = {} BY <1>6, NoAuthProper DEF Init, UsersOf
    <2>2. Mem.node[r].refcount = 0 BY <1>4, <1>9, MemType DEF NewRbl
    <2> QED BY <2>1, <2>2, FS_EmptySet
  <1> QED BY <1>4, <1>5, <1>7, <1>8, <1>10, <1>11 DEF IInv

-----------------------------------------------------------------------------
(* Steps.                                                                     *)

\* Nothing that Linked and Counted speak of changes.
LEMMA ListsUnchanged ==
    ASSUME IInv, UNCHANGED <<rbl, rbl_lists>>,
           \A x \in Clients : auth'[x].rbl_queries = auth[x].rbl_queries
    PROVE  (Linked(Mem) /\ Counted(Mem, UsersOf))'
  <1>1. Mem' = Mem BY DEF Mem
  <1>2. UsersOf' = UsersOf BY DEF UsersOf
  <1> QED BY <1>1, <1>2 DEF IInv

\* What c's request waits for is unchanged, and so is the table.
LEMMA SlotsUnchanged ==
    ASSUME SlotsRight, querytable' = querytable,
           \A x \in Clients : /\ auth'[x].dns_query = auth[x].dns_query
                              /\ auth'[x].rbl_queries = auth[x].rbl_queries
    PROVE  SlotsRight'
  <1> SUFFICES ASSUME NEW i \in Ids, NEW x \in Clients, NEW r \in Pointers
               PROVE  querytable'[i] = [c |-> x, r |-> r] <=> Waits(auth'[x], i, r)
    BY DEF SlotsRight
  <1>1. querytable[i] = [c |-> x, r |-> r] <=> Waits(auth[x], i, r) BY DEF SlotsRight
  <1> QED BY <1>1 DEF Waits

\* A request with parts of its own.
LEMMA WaitingFields ==
    ASSUME NEW p \in SUBSET {"DNS", "Auth", "RBL"}, NEW n \in 0..MaxId, NEW f \in BOOLEAN,
           NEW qs \in Seq(Query)
    PROVE  LET a == Waiting(p, n, f, qs)
           IN  /\ a \in AuthRequest /\ a.live /\ a.pending = p /\ a.dns_query = n
               /\ a.authF = f /\ a.rbl_queries = qs
  BY DEF Waiting, AuthRequest, Query

LEMMA RequestFields ==
    ASSUME NEW a \in AuthRequest
    PROVE  /\ a.live \in BOOLEAN /\ a.pending \in SUBSET {"DNS", "Auth", "RBL"}
           /\ a.dns_query \in 0..MaxId /\ a.authF \in BOOLEAN /\ a.rbl_queries \in Seq(Query)
  BY DEF AuthRequest, Query

LEMMA ReadAuthHolds ==
    ASSUME IInv, NEW c \in Clients, read_auth(c)
    PROVE  IInv'
  <1> DEFINE a == auth[c]
             b == Waiting(a.pending \ {"Auth"}, a.dns_query, FALSE, a.rbl_queries)
  <1>1. /\ TypeOK /\ Requests /\ SlotsRight /\ AnswersRight BY DEF IInv
  <1>2. /\ a.authF /\ release_auth_client(c, b)
        /\ UNCHANGED <<querytable, id, asked, rbl, rbl_lists, cancelled, restarts, rehashes>>
    BY DEF read_auth
  <1>3. Proper(a) /\ (a.live => client[c] = "auth") BY <1>1 DEF Requests
  <1>4. a.live BY <1>2, <1>3, NoAuthProper DEF Proper
  <1>5. a \in AuthRequest BY <1>3 DEF Proper
  <1> HIDE DEF a
  <1>6. /\ b \in AuthRequest /\ b.live /\ b.pending = a.pending \ {"Auth"}
        /\ b.dns_query = a.dns_query /\ b.rbl_queries = a.rbl_queries
    <2> DEFINE p == a.pending \ {"Auth"}
    <2>1. /\ p \in SUBSET {"DNS", "Auth", "RBL"} /\ a.dns_query \in 0..MaxId
          /\ a.rbl_queries \in Seq(Query) /\ FALSE \in BOOLEAN
      BY <1>5, RequestFields
    <2>2. b = Waiting(p, a.dns_query, FALSE, a.rbl_queries) OBVIOUS
    <2> HIDE DEF p, b
    <2>3. /\ b \in AuthRequest /\ b.live /\ b.pending = p
          /\ b.dns_query = a.dns_query /\ b.rbl_queries = a.rbl_queries
      BY <2>1, <2>2 DEF Waiting, AuthRequest, Query
    <2> QED BY <2>3 DEF p
  <1> HIDE DEF b
  <1>7. Proper(b) BY <1>3, <1>6 DEF Proper
  <1>8. /\ client' \in [Clients -> {"none", "auth", "read", "exited"}]
        /\ auth' \in [Clients -> AuthRequest] /\ Requests'
        /\ auth'[c].dns_query = b.dns_query /\ auth'[c].rbl_queries = b.rbl_queries
        /\ \A x \in Clients \ {c} : auth'[x] = auth[x]
    BY <1>1, <1>2, <1>3, <1>4, <1>7, ReleaseHolds
  <1>9. \A x \in Clients : /\ auth'[x].dns_query = auth[x].dns_query
                           /\ auth'[x].rbl_queries = auth[x].rbl_queries
    BY <1>6, <1>8 DEF a
  <1>10. TypeOK' BY <1>1, <1>2, <1>8 DEF TypeOK
  <1>11. SlotsRight' BY <1>1, <1>2, <1>9, SlotsUnchanged
  <1>12. AnswersRight' BY <1>1, <1>2 DEF AnswersRight
  <1>13. (Linked(Mem) /\ Counted(Mem, UsersOf))' BY <1>2, <1>9, ListsUnchanged
  <1> QED BY <1>8, <1>10, <1>11, <1>12, <1>13 DEF IInv

LEMMA RestartHolds ==
    ASSUME IInv, restart_resolver_cb
    PROVE  IInv'
  <1>1. /\ TypeOK /\ Requests /\ SlotsRight BY DEF IInv
  <1>2. /\ restarts' = restarts + 1 /\ asked' = {}
        /\ UNCHANGED <<client, auth, querytable, id, rbl, rbl_lists, cancelled, rehashes>>
    BY DEF restart_resolver_cb
  <1>3. TypeOK' BY <1>1, <1>2 DEF TypeOK
  <1>4. Requests' BY <1>1, <1>2 DEF Requests
  <1>5. SlotsRight' BY <1>1, <1>2, SlotsUnchanged
  <1>6. AnswersRight' BY <1>2 DEF AnswersRight
  <1>7. (Linked(Mem) /\ Counted(Mem, UsersOf))' BY <1>2, ListsUnchanged
  <1> QED BY <1>3, <1>4, <1>5, <1>6, <1>7 DEF IInv

LEMMA StutterHolds ==
    ASSUME IInv, UNCHANGED vars
    PROVE  IInv'
  <1>1. /\ TypeOK /\ Requests /\ SlotsRight /\ AnswersRight BY DEF IInv
  <1>2. UNCHANGED <<client, auth, querytable, id, asked, rbl, rbl_lists, cancelled, restarts,
                    rehashes>>
    BY DEF vars
  <1>3. TypeOK' BY <1>1, <1>2 DEF TypeOK
  <1>4. Requests' BY <1>1, <1>2 DEF Requests
  <1>5. SlotsRight' BY <1>1, <1>2, SlotsUnchanged
  <1>6. AnswersRight' BY <1>1, <1>2 DEF AnswersRight
  <1>7. (Linked(Mem) /\ Counted(Mem, UsersOf))' BY <1>2, ListsUnchanged
  <1> QED BY <1>3, <1>4, <1>5, <1>6, <1>7 DEF IInv

LEMMA ReadConfHolds ==
    ASSUME IInv, read_conf
    PROVE  IInv'
  <1> DEFINE unused == {r \in Rbls : rbl[r].st = "unused"}
  <1>1. /\ TypeOK /\ Requests /\ SlotsRight /\ AnswersRight /\ Linked(Mem) /\ Counted(Mem, UsersOf)
    BY DEF IInv
  <1>2. PICK new \in SUBSET unused :
             SetMem(blacklist_blocks(rbl_clear_rbllists(Mem), SetToSeq(new)))
    BY DEF read_conf
  <1>3. /\ rehashes' = rehashes + 1
        /\ UNCHANGED <<client, auth, querytable, id, asked, cancelled, restarts>>
    BY DEF read_conf
  <1> DEFINE m == rbl_clear_rbllists(Mem)
             s == SetToSeq(new)
             k == blacklist_blocks(m, s)
  <1>4. UsersOf \in [Rbls -> SUBSET Clients] BY DEF UsersOf
  <1>5. Linked(m) /\ Counted(m, UsersOf) /\ Shrinks(Mem, m) BY <1>1, <1>4, ClearHolds
  <1>6. new \in SUBSET Rbls OBVIOUS
  <1>7. s \in Seq(Rbls) /\ Distinct(s) /\ \A i \in 1..Len(s) : s[i] \in new BY <1>6, InSomeOrder
  <1> HIDE DEF m, s
  <1>8. \A r \in Rbls : Mem.node[r] = rbl[r] BY <1>1, MemType
  <1>9. \A i \in 1..Len(s) : m.node[s[i]].st # "used"
    BY <1>5, <1>7, <1>8 DEF Shrinks
  <1>10. Linked(k) /\ Counted(k, UsersOf) BY <1>4, <1>5, <1>7, <1>9, BlocksHold
  <1>11. SetMem(k) BY <1>2 DEF m, s
  <1> HIDE DEF k
  <1>12. Mem' = k /\ rbl' \in [Rbls -> Rbl] /\ rbl_lists' \in List
    BY <1>10, <1>11, MemIs DEF Linked
  <1>13. UsersOf' = UsersOf BY <1>3 DEF UsersOf
  <1>14. (Linked(Mem) /\ Counted(Mem, UsersOf))' BY <1>10, <1>12, <1>13
  <1>15. TypeOK' BY <1>1, <1>3, <1>12 DEF TypeOK
  <1>16. Requests' BY <1>1, <1>3 DEF Requests
  <1>17. SlotsRight' BY <1>1, <1>3, SlotsUnchanged
  <1>18. AnswersRight' BY <1>1, <1>3 DEF AnswersRight
  <1> QED BY <1>14, <1>15, <1>16, <1>17, <1>18 DEF IInv

\* What a callback leaves of the invariant, after its slot was cleared.
Answered ==
    /\ client' \in [Clients -> {"none", "auth", "read", "exited"}]
    /\ auth' \in [Clients -> AuthRequest] /\ Requests' /\ SlotsRight'
    /\ rbl' \in [Rbls -> Rbl] /\ rbl_lists' \in List
    /\ (Linked(Mem) /\ Counted(Mem, UsersOf))'

LEMMA DnsCallbackHolds ==
    ASSUME IInv, NEW n \in Ids, NEW c \in Clients, querytable[n] = [c |-> c, r |-> NULL],
           querytable' = [querytable EXCEPT ![n] = NoRequest], auth_dns_callback(c)
    PROVE  Answered
  <1> DEFINE a == auth[c]
             p == a.pending \ {"DNS"}
             b == Waiting(p, 0, a.authF, a.rbl_queries)
  <1>1. TypeOK /\ Requests /\ SlotsRight BY DEF IInv
  <1>2. release_auth_client(c, b) /\ UNCHANGED <<rbl, rbl_lists>> BY DEF auth_dns_callback
  <1>3. Proper(a) /\ (a.live => client[c] = "auth") BY <1>1 DEF Requests
  <1>4. NULL \in Pointers BY DEF Pointers
  <1>5. Waits(a, n, NULL) BY <1>1, <1>4 DEF SlotsRight
  <1>6. a.live BY <1>3, <1>4, <1>5, WaitsLive
  <1>7. a.dns_query = n BY <1>5 DEF Waits
  <1>8. a \in AuthRequest BY <1>3 DEF Proper
  <1>9. /\ p \in SUBSET {"DNS", "Auth", "RBL"} /\ 0 \in 0..MaxId
        /\ a.rbl_queries \in Seq(Query) /\ a.authF \in BOOLEAN
    BY <1>8, RequestFields, ConstAssumption
  <1>10. "RBL" \in a.pending => "RBL" \in p OBVIOUS
  <1> HIDE DEF a, p
  <1>11. /\ b \in AuthRequest /\ b.live /\ b.pending = p /\ b.dns_query = 0
         /\ b.rbl_queries = a.rbl_queries
    BY <1>9 DEF Waiting, AuthRequest, Query
  <1> HIDE DEF b
  <1>12. Proper(b) BY <1>3, <1>10, <1>11 DEF Proper
  <1>13. /\ client' \in [Clients -> {"none", "auth", "read", "exited"}]
         /\ auth' \in [Clients -> AuthRequest] /\ Requests'
         /\ auth'[c].dns_query = b.dns_query /\ auth'[c].rbl_queries = b.rbl_queries
         /\ \A x \in Clients \ {c} : auth'[x] = auth[x]
    BY <1>1, <1>2, <1>3, <1>6, <1>12, ReleaseHolds
  <1>14. SlotsRight'
    <2> DEFINE S == {n}
    <2>1. \A i \in Ids : querytable'[i] = IF i \in S THEN NoRequest ELSE querytable[i]
      BY <1>1 DEF TypeOK
    <2>2. \A i \in Ids : i \in S => querytable[i] = NoRequest \/ querytable[i].c = c
      OBVIOUS
    <2>3. ASSUME NEW i \in Ids, NEW r \in Pointers
          PROVE  Waits(auth'[c], i, r) <=> Waits(auth[c], i, r) /\ i \notin S
      <3>1. 0 \notin Ids BY DEF Ids
      <3>2. CASE r = NULL BY <1>7, <1>11, <1>13, <3>1, <3>2 DEF Waits, a
      <3>3. CASE r # NULL
        <4>1. Waits(auth'[c], i, r) <=> Waits(auth[c], i, r)
          BY <1>11, <1>13, <3>3 DEF Waits, a
        <4>2. Waits(auth[c], i, r) <=> querytable[i] = [c |-> c, r |-> r]
          BY <1>1 DEF SlotsRight
        <4>3. i = n => querytable[i] # [c |-> c, r |-> r] BY <3>3
        <4> QED BY <4>1, <4>2, <4>3
      <3> QED BY <3>2, <3>3
    <2> HIDE DEF S
    <2> QED BY <1>1, <1>13, <2>1, <2>2, <2>3, SlotsCleared
  <1>15. \A x \in Clients : auth'[x].rbl_queries = auth[x].rbl_queries
    BY <1>11, <1>13 DEF a
  <1>16. (Linked(Mem) /\ Counted(Mem, UsersOf))' BY <1>2, <1>15, ListsUnchanged
  <1>17. rbl' \in [Rbls -> Rbl] /\ rbl_lists' \in List BY <1>1, <1>2 DEF TypeOK
  <1> QED BY <1>13, <1>14, <1>16, <1>17 DEF Answered

LEMMA RblCallbackHolds ==
    ASSUME IInv, NEW n \in Ids, NEW c \in Clients, NEW r \in Rbls,
           querytable[n] = [c |-> c, r |-> r],
           querytable' = [querytable EXCEPT ![n] = NoRequest], rbl_dns_callback(c, r)
    PROVE  Answered
  <1> DEFINE a == auth[c]
             qs == a.rbl_queries
             gone == {q \in ToSet(qs) : q.r = r}
             left == Without(qs, gone)
             p == IF left = <<>> THEN a.pending \ {"RBL"} ELSE a.pending
             b == Waiting(p, a.dns_query, a.authF, left)
             k == rbl_detach(Mem, r)
  <1>1. TypeOK /\ Requests /\ SlotsRight /\ Linked(Mem) /\ Counted(Mem, UsersOf) BY DEF IInv
  <1>2. release_auth_client(c, b) /\ SetMem(k) BY Zenon DEF rbl_dns_callback
  <1>3. Proper(a) /\ (a.live => client[c] = "auth") BY <1>1 DEF Requests
  <1>4. r \in Pointers /\ r # NULL BY NullRbl DEF Pointers
  <1>5. Waits(a, n, r) BY <1>1, <1>4 DEF SlotsRight
  <1>6. a.live BY <1>3, <1>4, <1>5, WaitsLive
  <1>7. [r |-> r, queryid |-> n] \in ToSet(qs) BY <1>4, <1>5 DEF Waits
  <1>8. a \in AuthRequest BY <1>3 DEF Proper
  <1>9. /\ a.pending \in SUBSET {"DNS", "Auth", "RBL"} /\ a.dns_query \in 0..MaxId
        /\ qs \in Seq(Query) /\ a.authF \in BOOLEAN
    BY <1>8, RequestFields
  <1>10. /\ \A i, j \in 1..Len(qs) : qs[i].r = qs[j].r => i = j
         /\ a.dns_query # 0 => "DNS" \in a.pending
         /\ qs # <<>> => "RBL" \in a.pending
    BY <1>3 DEF Proper
  <1>11. ToSet(qs) = {qs[i] : i \in 1..Len(qs)} BY <1>9 DEF ToSet
  <1>12. qs # <<>>
    <2>1. Len(qs) # 0 BY <1>7, <1>9, <1>11
    <2> QED BY <2>1
  <1> HIDE DEF a, qs, k
  <1>13. Distinct(qs) BY <1>10 DEF Distinct
  <1>14. left \in Seq(Query) /\ ToSet(left) = ToSet(qs) \ gone /\ Distinct(left)
    BY <1>9, <1>13, WithoutElements, WithoutDistinct
  <1>15. \A q \in ToSet(left) : q \in ToSet(qs) /\ q.r # r BY <1>14
  <1>16. ASSUME NEW q \in ToSet(qs), q.r # r PROVE q \in ToSet(left) BY <1>14, <1>16
  <1> HIDE DEF left
  <1>17. ToSet(left) = {left[i] : i \in 1..Len(left)} BY <1>14 DEF ToSet
  <1>18. ASSUME NEW q \in ToSet(qs), NEW s \in ToSet(qs), q.r = s.r PROVE q = s
    BY <1>10, <1>11, <1>18
  <1>19. \A i, j \in 1..Len(left) : left[i].r = left[j].r => i = j
    <2> SUFFICES ASSUME NEW i \in 1..Len(left), NEW j \in 1..Len(left), left[i].r = left[j].r
                 PROVE  i = j
      OBVIOUS
    <2>1. left[i] \in ToSet(qs) /\ left[j] \in ToSet(qs) BY <1>15, <1>17
    <2>2. left[i] = left[j] BY <1>18, <2>1
    <2> QED BY <1>14, <2>2 DEF Distinct
  <1>20. /\ p \in SUBSET {"DNS", "Auth", "RBL"}
         /\ a.dns_query # 0 => "DNS" \in p
         /\ left # <<>> => "RBL" \in p
    BY <1>9, <1>10, <1>12
  <1> HIDE DEF p
  <1>21. /\ b \in AuthRequest /\ b.live /\ b.pending = p /\ b.dns_query = a.dns_query
         /\ b.rbl_queries = left
    BY <1>9, <1>14, <1>20, WaitingFields
  <1> HIDE DEF b
  <1>22. Proper(b) BY <1>19, <1>20, <1>21 DEF Proper
  <1>23. /\ client' \in [Clients -> {"none", "auth", "read", "exited"}]
         /\ auth' \in [Clients -> AuthRequest] /\ Requests'
         /\ auth'[c].dns_query = b.dns_query /\ auth'[c].rbl_queries = b.rbl_queries
         /\ \A x \in Clients \ {c} : auth'[x] = auth[x]
    <2>1. client[c] = "auth" BY <1>3, <1>6 DEF a
    <2> QED BY <1>1, <1>2, <1>22, <2>1, ReleaseHolds
  <1>24. SlotsRight'
    <2> DEFINE S == {n}
    <2>1. \A i \in Ids : querytable'[i] = IF i \in S THEN NoRequest ELSE querytable[i]
      BY <1>1 DEF TypeOK
    <2>2. \A i \in Ids : i \in S => querytable[i] = NoRequest \/ querytable[i].c = c
      OBVIOUS
    <2>3. ASSUME NEW i \in Ids, NEW x \in Pointers
          PROVE  Waits(auth'[c], i, x) <=> Waits(auth[c], i, x) /\ i \notin S
      <3>1. Waits(auth[c], i, x) <=> querytable[i] = [c |-> c, r |-> x]
        BY <1>1 DEF SlotsRight
      <3>2. i = n /\ x # r => ~Waits(auth[c], i, x) BY <3>1
      <3>3. CASE x = NULL
        <4>1. Waits(auth'[c], i, x) <=> Waits(auth[c], i, x)
          BY <1>21, <1>23, <3>3 DEF Waits, a
        <4> QED BY <1>4, <3>2, <3>3, <4>1
      <3>4. CASE x # NULL
        <4> DEFINE q == [r |-> x, queryid |-> i]
        <4>1. /\ Waits(auth[c], i, x) <=> q \in ToSet(qs)
              /\ Waits(auth'[c], i, x) <=> q \in ToSet(left)
          BY <1>21, <1>23, <3>4 DEF Waits, a, qs
        <4>2. CASE x = r
          <5>1. q \notin ToSet(left) BY <1>15, <4>2
          <5>2. q \in ToSet(qs) => i = n
            <6>1. q.r = [r |-> r, queryid |-> n].r BY <4>2
            <6>2. q \in ToSet(qs) => q = [r |-> r, queryid |-> n] BY <1>7, <1>18, <6>1
            <6>3. q.queryid = i OBVIOUS
            <6> QED BY <6>2, <6>3
          <5> QED BY <4>1, <5>1, <5>2
        <4>3. CASE x # r
          <5>1. q.r # r BY <4>3
          <5>2. q \in ToSet(left) <=> q \in ToSet(qs)
            <6> HIDE DEF q
            <6> QED BY <1>15, <1>16, <5>1
          <5> QED BY <3>2, <4>1, <4>3, <5>2
        <4> QED BY <4>2, <4>3
      <3> QED BY <3>3, <3>4
    <2> HIDE DEF S
    <2> QED BY <1>1, <1>23, <2>1, <2>2, <2>3, SlotsCleared
  <1>25. UsersOf \in [Rbls -> SUBSET Clients] BY DEF UsersOf
  <1>26. c \in UsersOf[r]
    <2>1. [r |-> r, queryid |-> n].r = r OBVIOUS
    <2>2. \E q \in ToSet(auth[c].rbl_queries) : q.r = r BY <1>7, <2>1 DEF qs, a
    <2> QED BY <2>2 DEF UsersOf
  <1>27. UsersOf' = [UsersOf EXCEPT ![r] = UsersOf[r] \ {c}]
    <2> DEFINE v == [UsersOf EXCEPT ![r] = UsersOf[r] \ {c}]
               Uses(y, x) == \E q \in ToSet(auth[y].rbl_queries) : q.r = x
               UsesNext(y, x) == \E q \in ToSet(auth'[y].rbl_queries) : q.r = x
    <2>1. v \in [Rbls -> SUBSET Clients] /\ v[r] = UsersOf[r] \ {c}
          /\ \A x \in Rbls \ {r} : v[x] = UsersOf[x]
      BY <1>25
    <2>2. UsersOf' = [x \in Rbls |-> {y \in Clients : UsesNext(y, x)}] BY DEF UsersOf
    <2>3. UsersOf = [x \in Rbls |-> {y \in Clients : Uses(y, x)}] BY DEF UsersOf
    <2>4. ASSUME NEW x \in Rbls, NEW y \in Clients
          PROVE  UsesNext(y, x) <=> Uses(y, x) /\ ~(y = c /\ x = r)
      <3>1. CASE y # c BY <1>23, <3>1
      <3>2. CASE y = c
        <4>1. auth[y].rbl_queries = qs /\ auth'[y].rbl_queries = left
          BY <1>21, <1>23, <3>2 DEF qs, a
        <4> QED BY <1>15, <1>16, <3>2, <4>1
      <3> QED BY <3>1, <3>2
    <2> HIDE DEF v, Uses, UsesNext
    <2>5. ASSUME NEW x \in Rbls PROVE UsersOf'[x] = v[x]
      <3>1. /\ UsersOf'[x] = {y \in Clients : UsesNext(y, x)}
            /\ UsersOf[x] = {y \in Clients : Uses(y, x)}
        BY <2>2, <2>3
      <3>2. CASE x = r
        <4>1. v[x] = {y \in Clients : Uses(y, x)} \ {c} BY <2>1, <3>1, <3>2
        <4> QED BY <2>4, <3>1, <3>2, <4>1
      <3>3. CASE x # r
        <4>1. v[x] = {y \in Clients : Uses(y, x)} BY <2>1, <3>1, <3>3
        <4> QED BY <2>4, <3>1, <3>3, <4>1
      <3> QED BY <3>2, <3>3
    <2>6. UsersOf' = [x \in Rbls |-> UsersOf'[x]] BY <2>2
    <2>7. v = [x \in Rbls |-> v[x]] BY <2>1
    <2> QED BY <2>5, <2>6, <2>7 DEF v
  <1> DEFINE u == UsersOf
  <1>28. Linked(k) /\ Counted(k, [u EXCEPT ![r] = u[r] \ {c}])
    <2>1. u \in [Rbls -> SUBSET Clients] /\ Counted(Mem, u) /\ c \in u[r] BY <1>1, <1>25, <1>26
    <2> HIDE DEF u
    <2> QED BY <1>1, <2>1, DetachHolds DEF k
  <1>29. Mem' = k /\ rbl' \in [Rbls -> Rbl] /\ rbl_lists' \in List
    BY <1>2, <1>28, MemIs DEF Linked
  <1>30. (Linked(Mem) /\ Counted(Mem, UsersOf))'
    <2> DEFINE v == [u EXCEPT ![r] = u[r] \ {c}]
    <2>1. UsersOf' = v BY <1>27
    <2>2. Linked(k) /\ Counted(k, v) BY <1>28
    <2> HIDE DEF v
    <2> QED BY <1>29, <2>1, <2>2
  <1> QED BY <1>23, <1>24, <1>29, <1>30 DEF Answered

LEMMA ResultsHold ==
    ASSUME IInv, NEW q \in asked, results_callback(q)
    PROVE  IInv'
  <1> DEFINE n == q.id
             req == querytable[n]
  <1>1. TypeOK /\ Requests /\ SlotsRight /\ AnswersRight BY DEF IInv
  <1>2. /\ asked' = asked \ {q} /\ querytable' = [querytable EXCEPT ![n] = NoRequest]
        /\ UNCHANGED <<id, cancelled, restarts, rehashes>>
        /\ \/ req = NoRequest /\ UNCHANGED <<client, auth, rbl, rbl_lists>>
           \/ req # NoRequest /\ req.r = NULL /\ auth_dns_callback(req.c)
           \/ req # NoRequest /\ req.r # NULL /\ rbl_dns_callback(req.c, req.r)
    BY DEF results_callback
  <1>3. q \in Question BY <1>1 DEF TypeOK
  <1>4. n \in Ids /\ q.req \in Request BY <1>3 DEF Question
  <1>5. req \in Request \cup {NoRequest} /\ querytable \in [Ids -> Request \cup {NoRequest}]
    BY <1>1, <1>4 DEF TypeOK
  <1>6. Answered
    <2>1. CASE req = NoRequest
      <3>1. UNCHANGED <<client, auth, rbl, rbl_lists>> BY <1>2, <2>1
      <3>2. querytable' = querytable BY <1>2, <1>4, <1>5, <2>1
      <3>3. SlotsRight' BY <1>1, <3>1, <3>2, SlotsUnchanged
      <3>4. Requests' BY <1>1, <3>1 DEF Requests
      <3>5. (Linked(Mem) /\ Counted(Mem, UsersOf))' BY <3>1, ListsUnchanged
      <3> QED BY <1>1, <3>1, <3>3, <3>4, <3>5 DEF Answered, TypeOK
    <2>2. CASE req # NoRequest
      <3>1. req \in Request BY <1>5, <2>2
      <3> DEFINE c == req.c
                 r == req.r
      <3>2. c \in Clients /\ r \in Pointers /\ req = [c |-> c, r |-> r] BY <3>1 DEF Request
      <3> HIDE DEF n
      <3>3. CASE r = NULL
        <4>1. auth_dns_callback(c) BY <1>2, <2>2, <3>3
        <4>2. querytable[n] = [c |-> c, r |-> NULL] BY <3>2, <3>3
        <4> HIDE DEF c
        <4> QED BY <1>2, <1>4, <3>2, <4>1, <4>2, DnsCallbackHolds
      <3>4. CASE r # NULL
        <4>1. rbl_dns_callback(c, r) BY <1>2, <2>2, <3>4
        <4>2. querytable[n] = [c |-> c, r |-> r] BY <3>2
        <4>3. r \in Rbls BY <3>2, <3>4 DEF Pointers
        <4> HIDE DEF c, r
        <4> QED BY <1>2, <1>4, <3>2, <4>1, <4>2, <4>3, RblCallbackHolds
      <3> QED BY <3>3, <3>4
    <2> QED BY <2>1, <2>2
  <1>7. querytable' \in [Ids -> Request \cup {NoRequest}] BY <1>2, <1>5
  <1>8. TypeOK' BY <1>1, <1>2, <1>6, <1>7 DEF TypeOK, Answered
  <1>9. AnswersRight'
    <2> SUFFICES ASSUME NEW p \in asked \ {q} PROVE querytable'[p.id] = p.req \/ p.id \in cancelled
      BY <1>2 DEF AnswersRight
    <2>1. p \in Question BY <1>1 DEF TypeOK
    <2>2. /\ querytable[p.id] = p.req \/ p.id \in cancelled
          /\ querytable[n] = q.req \/ n \in cancelled
      BY <1>1 DEF AnswersRight
    <2>3. p.id \in Ids /\ p = [id |-> p.id, req |-> p.req] /\ q = [id |-> q.id, req |-> q.req]
      BY <1>3, <2>1 DEF Question
    <2>4. CASE p.id # n BY <1>2, <1>5, <2>2, <2>3, <2>4
    <2>5. CASE p.id = n BY <2>2, <2>3, <2>5
    <2> QED BY <2>4, <2>5
  <1> QED BY <1>6, <1>8, <1>9 DEF IInv, Answered

\* The lookups of a request are cancelled, in the table and in the blacklists.
LEMMA CancelsHold ==
    ASSUME IInv, NEW c \in Clients, Cancels(auth[c]),
           SetMem(DetachAll(Mem, auth[c].rbl_queries)),
           auth'[c].dns_query = 0, auth'[c].rbl_queries = <<>>,
           \A x \in Clients \ {c} : auth'[x] = auth[x]
    PROVE  /\ querytable' \in [Ids -> Request \cup {NoRequest}] /\ id' \in Ids
           /\ asked' \subseteq Question /\ cancelled' \subseteq Ids
           /\ rbl' \in [Rbls -> Rbl] /\ rbl_lists' \in List
           /\ SlotsRight' /\ AnswersRight' /\ (Linked(Mem) /\ Counted(Mem, UsersOf))'
  <1> DEFINE a == auth[c]
             qs == a.rbl_queries
             S == Slots(a)
             k == DetachAll(Mem, qs)
             open == {q \in asked : q.id \in S}
  <1>1. TypeOK /\ Requests /\ SlotsRight /\ AnswersRight /\ Linked(Mem) /\ Counted(Mem, UsersOf)
    BY DEF IInv
  <1>2. Proper(a) BY <1>1 DEF Requests
  <1>3. a \in AuthRequest BY <1>2 DEF Proper
  <1>4. qs \in Seq(Query) BY <1>3, RequestFields
  <1>5. ToSet(qs) = {qs[i] : i \in 1..Len(qs)} BY <1>4 DEF ToSet
  <1>6. \A q \in ToSet(qs) : /\ q.r \in Rbls /\ q.queryid \in 0..MaxId
                             /\ q = [r |-> q.r, queryid |-> q.queryid]
    <2>1. \A q \in ToSet(qs) : q \in Query BY <1>4, <1>5
    <2> HIDE DEF qs
    <2> QED BY <2>1 DEF Query
  <1>7. /\ querytable' = [i \in Ids |-> IF i \in S THEN NoRequest ELSE querytable[i]]
        /\ id' = id /\ asked' = asked /\ cancelled' = cancelled \cup {q.id : q \in open}
    <2> DEFINE t == [i \in Ids |-> IF i \in S THEN NoRequest ELSE querytable[i]]
    <2>1. SetDns(cancel_lookups(Dns, S)) /\ cancelled' = cancelled \cup {q.id : q \in open}
      BY DEF Cancels
    <2>2. cancel_lookups(Dns, S) = [Dns EXCEPT !.table = t] BY DEF cancel_lookups, Dns
    <2> HIDE DEF t
    <2>3. /\ [Dns EXCEPT !.table = t].table = t /\ [Dns EXCEPT !.table = t].id = id
          /\ [Dns EXCEPT !.table = t].asked = asked
      BY DEF Dns
    <2> QED BY <2>1, <2>2, <2>3 DEF SetDns, t
  <1>8. querytable \in [Ids -> Request \cup {NoRequest}] /\ asked \subseteq Question
        /\ cancelled \subseteq Ids /\ id \in Ids
    BY <1>1 DEF TypeOK
  <1>9. \A q \in asked : q.id \in Ids /\ q.req \in Request BY <1>8 DEF Question
  <1> HIDE DEF S
  <1>10. /\ querytable' \in [Ids -> Request \cup {NoRequest}] /\ id' \in Ids
         /\ asked' \subseteq Question /\ cancelled' \subseteq Ids
    BY <1>7, <1>8, <1>9
  <1>11. AnswersRight'
    <2> SUFFICES ASSUME NEW q \in asked PROVE querytable'[q.id] = q.req \/ q.id \in cancelled'
      BY <1>7 DEF AnswersRight
    <2>1. querytable[q.id] = q.req \/ q.id \in cancelled BY <1>1 DEF AnswersRight
    <2>2. CASE q.id \in S
      <3>1. q \in open BY <2>2
      <3> QED BY <1>7, <3>1
    <2>3. CASE q.id \notin S BY <1>7, <1>9, <2>1, <2>3
    <2> QED BY <2>2, <2>3
  <1>12. SlotsRight'
    <2>1. \A i \in Ids : querytable'[i] = IF i \in S THEN NoRequest ELSE querytable[i] BY <1>7
    <2>2. ASSUME NEW i \in Ids, i \in S PROVE querytable[i] = NoRequest \/ querytable[i].c = c
      <3>1. i = a.dns_query \/ \E q \in ToSet(qs) : i = q.queryid BY <2>2 DEF S, Slots
      <3>2. CASE i = a.dns_query
        <4>1. Waits(a, i, NULL) /\ NULL \in Pointers BY <3>2 DEF Waits, Pointers
        <4>2. querytable[i] = [c |-> c, r |-> NULL] BY <1>1, <4>1 DEF SlotsRight
        <4> QED BY <4>2
      <3>3. CASE \E q \in ToSet(qs) : i = q.queryid
        <4>1. PICK q \in ToSet(qs) : i = q.queryid BY <3>3
        <4>2. q.r \in Pointers /\ q.r # NULL /\ q = [r |-> q.r, queryid |-> i]
          BY <1>6, <4>1, NullRbl DEF Pointers
        <4>3. Waits(a, i, q.r) BY <4>1, <4>2 DEF Waits
        <4>4. querytable[i] = [c |-> c, r |-> q.r] BY <1>1, <4>2, <4>3 DEF SlotsRight
        <4> QED BY <4>4
      <3> QED BY <3>1, <3>2, <3>3
    <2>3. ASSUME NEW i \in Ids, NEW r \in Pointers
          PROVE  Waits(auth'[c], i, r) <=> Waits(auth[c], i, r) /\ i \notin S
      <3>1. ~Waits(auth'[c], i, r)
        <4>1. ToSet(<<>>) = {} /\ 0 \notin Ids BY DEF ToSet, Ids
        <4> QED BY <4>1 DEF Waits
      <3>2. Waits(auth[c], i, r) => i \in S
        <4>1. [r |-> r, queryid |-> i].queryid = i OBVIOUS
        <4> QED BY <4>1 DEF Waits, S, Slots
      <3> QED BY <3>1, <3>2
    <2> QED BY <1>1, <2>1, <2>2, <2>3, SlotsCleared
  <1> DEFINE u == UsersOf
             v == [x \in Rbls |-> u[x] \ {c}]
  <1>13. u \in [Rbls -> SUBSET Clients] /\ Counted(Mem, u) BY <1>1 DEF UsersOf
  <1>14. \A x \in Rbls : c \in u[x] <=> \E i \in 1..Len(qs) : qs[i].r = x
    <2>1. \A x \in Rbls : c \in u[x] <=> \E q \in ToSet(qs) : q.r = x BY DEF UsersOf
    <2> HIDE DEF qs, u
    <2> QED BY <1>5, <2>1
  <1>15. \A i, j \in 1..Len(qs) : qs[i].r = qs[j].r => i = j BY <1>2 DEF Proper
  <1>16. UsersOf' = v
    <2> DEFINE Uses(y, x) == \E q \in ToSet(auth[y].rbl_queries) : q.r = x
               UsesNext(y, x) == \E q \in ToSet(auth'[y].rbl_queries) : q.r = x
    <2>1. UsersOf' = [x \in Rbls |-> {y \in Clients : UsesNext(y, x)}] BY DEF UsersOf
    <2>2. u = [x \in Rbls |-> {y \in Clients : Uses(y, x)}] BY DEF UsersOf
    <2>3. ASSUME NEW x \in Rbls, NEW y \in Clients
          PROVE  UsesNext(y, x) <=> Uses(y, x) /\ y # c
      <3>1. ToSet(<<>>) = {} BY DEF ToSet
      <3>2. CASE y # c BY <3>2
      <3>3. CASE y = c BY <3>1, <3>3
      <3> QED BY <3>2, <3>3
    <2> HIDE DEF Uses, UsesNext, u
    <2>4. ASSUME NEW x \in Rbls PROVE UsersOf'[x] = u[x] \ {c}
      <3>1. UsersOf'[x] = {y \in Clients : UsesNext(y, x)} /\ u[x] = {y \in Clients : Uses(y, x)}
        BY <2>1, <2>2
      <3> QED BY <2>3, <3>1
    <2>5. UsersOf' = [x \in Rbls |-> UsersOf'[x]] BY <2>1
    <2> QED BY <2>4, <2>5
  <1>17. Linked(k) /\ Counted(k, v)
    <2> DEFINE m == Mem
    <2>1. Linked(m) /\ Counted(m, u) /\ u \in [Rbls -> SUBSET Clients] BY <1>1, <1>13
    <2> HIDE DEF m, u, qs
    <2>2. LET y == DetachAll(m, qs)
          IN  Linked(y) /\ Counted(y, [x \in Rbls |-> u[x] \ {c}])
      BY <1>4, <1>14, <1>15, <2>1, DetachAllHolds
    <2> QED BY <2>2, Zenon DEF m
  <1>18. SetMem(k) OBVIOUS
  <1> HIDE DEF k, v
  <1>19. Mem' = k /\ rbl' \in [Rbls -> Rbl] /\ rbl_lists' \in List
    BY <1>17, <1>18, MemIs DEF Linked
  <1>20. (Linked(Mem) /\ Counted(Mem, UsersOf))' BY <1>16, <1>17, <1>19
  <1> QED BY <1>10, <1>11, <1>12, <1>19, <1>20

LEMMA TimeoutHolds ==
    ASSUME IInv, NEW c \in Clients, timeout_auth_queries(c)
    PROVE  IInv'
  <1>1. TypeOK /\ Requests BY DEF IInv
  <1>2. /\ auth[c].live /\ release_auth_client(c, NoAuth) /\ Cancels(auth[c])
        /\ SetMem(DetachAll(Mem, auth[c].rbl_queries)) /\ UNCHANGED <<restarts, rehashes>>
    BY DEF timeout_auth_queries
  <1>3. client[c] = "auth" BY <1>1, <1>2 DEF Requests
  <1>4. /\ client' \in [Clients -> {"none", "auth", "read", "exited"}]
        /\ auth' \in [Clients -> AuthRequest] /\ Requests'
        /\ auth'[c].dns_query = 0 /\ auth'[c].rbl_queries = <<>>
        /\ \A x \in Clients \ {c} : auth'[x] = auth[x]
    BY <1>1, <1>2, <1>3, NoAuthProper, ReleaseHolds
  <1>5. /\ querytable' \in [Ids -> Request \cup {NoRequest}] /\ id' \in Ids
        /\ asked' \subseteq Question /\ cancelled' \subseteq Ids
        /\ rbl' \in [Rbls -> Rbl] /\ rbl_lists' \in List
        /\ SlotsRight' /\ AnswersRight' /\ (Linked(Mem) /\ Counted(Mem, UsersOf))'
    BY <1>2, <1>4, CancelsHold
  <1>6. TypeOK' BY <1>1, <1>2, <1>4, <1>5 DEF TypeOK
  <1> QED BY <1>4, <1>5, <1>6 DEF IInv

LEMMA ExitHolds ==
    ASSUME IInv, NEW c \in Clients, exit_unknown_client(c)
    PROVE  IInv'
  <1>1. TypeOK /\ Requests BY DEF IInv
  <1>2. /\ client' = [client EXCEPT ![c] = "exited"] /\ auth' = [auth EXCEPT ![c] = NoAuth]
        /\ Cancels(auth[c]) /\ SetMem(DetachAll(Mem, auth[c].rbl_queries))
        /\ UNCHANGED <<restarts, rehashes>>
    BY DEF exit_unknown_client, delete_auth_queries
  <1>3. NoAuth \in AuthRequest BY NoAuthProper DEF Proper
  <1>4. /\ client' \in [Clients -> {"none", "auth", "read", "exited"}]
        /\ auth' \in [Clients -> AuthRequest] /\ auth'[c] = NoAuth
        /\ \A x \in Clients \ {c} : auth'[x] = auth[x] /\ client'[x] = client[x]
    BY <1>1, <1>2, <1>3 DEF TypeOK
  <1>5. Requests'
    <2> SUFFICES ASSUME NEW x \in Clients
                 PROVE  Proper(auth'[x]) /\ (auth'[x].live => client'[x] = "auth")
      BY DEF Requests
    <2>1. CASE x = c BY <1>4, <2>1, NoAuthProper
    <2>2. CASE x # c BY <1>1, <1>4, <2>2 DEF Requests
    <2> QED BY <2>1, <2>2
  <1>6. /\ querytable' \in [Ids -> Request \cup {NoRequest}] /\ id' \in Ids
        /\ asked' \subseteq Question /\ cancelled' \subseteq Ids
        /\ rbl' \in [Rbls -> Rbl] /\ rbl_lists' \in List
        /\ SlotsRight' /\ AnswersRight' /\ (Linked(Mem) /\ Counted(Mem, UsersOf))'
    BY <1>2, <1>4, NoAuthProper, CancelsHold
  <1>7. TypeOK' BY <1>1, <1>2, <1>4, <1>6 DEF TypeOK
  <1> QED BY <1>5, <1>6, <1>7 DEF IInv

\* The requests and the entries of rbl_queries of a new client, as start_auth()
\* makes them from the blacklists.
ReqsOf(c, rs) ==
    [i \in 1..(Len(rs) + 1) |-> [c |-> c, r |-> IF i <= Len(rs) THEN rs[i] ELSE NULL]]

QueriesOf(c, rs, d) ==
    [i \in 1..Len(rs) |-> [r |-> rs[Len(rs) + 1 - i],
                           queryid |-> SlotOf(d, [c |-> c, r |-> rs[Len(rs) + 1 - i]])]]

LEMMA ReqsHold ==
    ASSUME NEW c \in Clients, NEW rs \in Seq(Rbls), Distinct(rs)
    PROVE  /\ ReqsOf(c, rs) \in Seq(Request) /\ Len(ReqsOf(c, rs)) = Len(rs) + 1
           /\ Distinct(ReqsOf(c, rs))
           /\ \A j \in 1..(Len(rs) + 1) :
                \E r \in ToSet(rs) \cup {NULL} : ReqsOf(c, rs)[j] = [c |-> c, r |-> r]
           /\ \A r \in ToSet(rs) \cup {NULL} :
                \E j \in 1..(Len(rs) + 1) : ReqsOf(c, rs)[j] = [c |-> c, r |-> r]
  <1> DEFINE n == Len(rs)
             s == ReqsOf(c, rs)
             p(i) == IF i <= n THEN rs[i] ELSE NULL
  <1>1. n \in Nat /\ (\A i \in 1..n : rs[i] \in Rbls) /\ ToSet(rs) = {rs[i] : i \in 1..n}
    BY DEF ToSet
  <1>2. s = [i \in 1..(n + 1) |-> [c |-> c, r |-> p(i)]] BY DEF ReqsOf
  <1>3. \A i, j \in 1..n : rs[i] = rs[j] => i = j BY DEF Distinct
  <1> HIDE DEF n, s
  <1>4. \A i \in 1..(n + 1) : i \in 1..n \/ i = n + 1 BY <1>1
  <1>5. p(n + 1) = NULL /\ n + 1 \in 1..(n + 1) /\ \A i \in 1..n : p(i) = rs[i] /\ i \in 1..(n + 1)
    BY <1>1
  <1> HIDE DEF p
  <1>6. \A i \in 1..(n + 1) : p(i) \in Pointers /\ p(i) \in ToSet(rs) \cup {NULL}
    BY <1>1, <1>4, <1>5 DEF Pointers
  <1>7. \A i, j \in 1..(n + 1) : p(i) = p(j) => i = j
    BY <1>1, <1>3, <1>4, <1>5, NullRbl
  <1>8. \A i \in 1..(n + 1) : s[i] = [c |-> c, r |-> p(i)] BY <1>2
  <1>9. s \in [1..(n + 1) -> Request] BY <1>2, <1>6 DEF Request
  <1>10. s \in Seq(Request) /\ Len(s) = n + 1
    <2>1. n + 1 \in Nat BY <1>1
    <2> QED BY <1>9, <2>1
  <1>11. Distinct(s)
    <2> SUFFICES ASSUME NEW i \in 1..(n + 1), NEW j \in 1..(n + 1), s[i] = s[j] PROVE i = j
      BY <1>10 DEF Distinct
    <2>1. [c |-> c, r |-> p(i)].r = [c |-> c, r |-> p(j)].r BY <1>8
    <2>2. p(i) = p(j) BY <2>1
    <2> QED BY <1>7, <2>2
  <1>12. \A j \in 1..(n + 1) : \E r \in ToSet(rs) \cup {NULL} : s[j] = [c |-> c, r |-> r]
    BY <1>6, <1>8
  <1>13. ASSUME NEW r \in ToSet(rs) \cup {NULL}
         PROVE  \E j \in 1..(n + 1) : s[j] = [c |-> c, r |-> r]
    <2>1. CASE r = NULL BY <1>5, <1>8, <2>1
    <2>2. CASE r # NULL
      <3>1. PICK i \in 1..n : r = rs[i] BY <1>1, <2>2
      <3> QED BY <1>5, <1>8, <3>1
    <2> QED BY <2>1, <2>2
  <1> QED BY <1>10, <1>11, <1>12, <1>13 DEF n, s

LEMMA QueriesHold ==
    ASSUME NEW c \in Clients, NEW rs \in Seq(Rbls), Distinct(rs), NEW d,
           \A r \in Rbls : SlotOf(d, [c |-> c, r |-> r]) \in 0..MaxId
    PROVE  LET qs == QueriesOf(c, rs, d)
           IN  /\ qs \in Seq(Query)
               /\ \A i, j \in 1..Len(qs) : qs[i].r = qs[j].r => i = j
               /\ \A q : q \in ToSet(qs) <=>
                    \E r \in ToSet(rs) : q = [r |-> r, queryid |-> SlotOf(d, [c |-> c, r |-> r])]
               /\ rs = <<>> => qs = <<>>
  <1> DEFINE n == Len(rs)
             qs == QueriesOf(c, rs, d)
             E(r) == [r |-> r, queryid |-> SlotOf(d, [c |-> c, r |-> r])]
  <1>1. n \in Nat /\ (\A i \in 1..n : rs[i] \in Rbls) /\ ToSet(rs) = {rs[i] : i \in 1..n}
    BY DEF ToSet
  <1>2. qs = [i \in 1..n |-> E(rs[(n + 1) - i])] BY DEF QueriesOf
  <1>3. \A i, j \in 1..n : rs[i] = rs[j] => i = j BY DEF Distinct
  <1>4. rs = <<>> => n = 0 OBVIOUS
  <1>5. \A r \in Rbls : E(r) \in Query /\ E(r).r = r BY DEF Query
  <1> HIDE DEF n, qs, E
  <1>6. \A i \in 1..n : (n + 1) - i \in 1..n /\ (n + 1) - ((n + 1) - i) = i BY <1>1
  <1>7. \A i \in 1..n : qs[i] = E(rs[(n + 1) - i]) BY <1>2
  <1>8. qs \in [1..n -> Query] BY <1>1, <1>2, <1>5, <1>6
  <1>9. qs \in Seq(Query) /\ Len(qs) = n /\ ToSet(qs) = {qs[i] : i \in 1..n}
    BY <1>1, <1>8 DEF ToSet
  <1>10. ASSUME NEW i \in 1..n, NEW j \in 1..n, qs[i].r = qs[j].r PROVE i = j
    <2>1. rs[(n + 1) - i] = rs[(n + 1) - j] BY <1>1, <1>5, <1>6, <1>7, <1>10
    <2>2. (n + 1) - i = (n + 1) - j BY <1>3, <1>6, <2>1
    <2> QED BY <1>6, <2>2
  <1>11. ASSUME NEW q PROVE q \in ToSet(qs) <=> \E r \in ToSet(rs) : q = E(r)
    <2>1. ASSUME q \in ToSet(qs) PROVE \E r \in ToSet(rs) : q = E(r)
      <3>1. PICK i \in 1..n : q = qs[i] BY <1>9, <2>1
      <3>2. q = E(rs[(n + 1) - i]) BY <1>7, <3>1
      <3>3. rs[(n + 1) - i] \in ToSet(rs) BY <1>1, <1>6
      <3> QED BY <3>2, <3>3
    <2>2. ASSUME NEW r \in ToSet(rs), q = E(r) PROVE q \in ToSet(qs)
      <3>1. PICK i \in 1..n : r = rs[i] BY <1>1
      <3>2. qs[(n + 1) - i] = E(r) BY <1>6, <1>7, <3>1
      <3> QED BY <1>6, <1>9, <2>2, <3>2
    <2> QED BY <2>1, <2>2
  <1>12. n = 0 => qs = <<>> BY <1>9
  <1> QED BY <1>4, <1>9, <1>10, <1>11, <1>12 DEF qs, E

LEMMA ToAsk ==
    ASSUME Linked(Mem)
    PROVE  /\ rbls_to_ask \in Seq(Rbls) /\ Distinct(rbls_to_ask)
           /\ \A i \in 1..Len(rbls_to_ask) : Mem.node[rbls_to_ask[i]].st = "used"
  <1>1. CASE rbl_lists.length = 0
    <2>1. rbls_to_ask = <<>> BY <1>1 DEF rbls_to_ask
    <2> QED BY <2>1 DEF Distinct
  <1>2. CASE rbl_lists.length # 0
    <2>1. rbls_to_ask = Walk(Mem) BY <1>2 DEF rbls_to_ask
    <2> QED BY <2>1, WalkHolds
  <1> QED BY <1>1, <1>2

LEMMA StartHolds ==
    ASSUME IInv, NEW c \in Clients, start_auth(c)
    PROVE  IInv'
  <1> DEFINE rs == rbls_to_ask
             reqs == ReqsOf(c, rs)
             d == lookups(Dns, reqs)
             qs == QueriesOf(c, rs, d)
             slot == SlotOf(d, [c |-> c, r |-> NULL])
             Pend(ident) == {"DNS"} \cup (IF ident \in {"open", "dead"} THEN {"Auth"} ELSE {})
                              \cup (IF rs = <<>> THEN {} ELSE {"RBL"})
             k == rbl_attach(Mem, rs)
  <1>1. TypeOK /\ Requests /\ SlotsRight /\ AnswersRight /\ Linked(Mem) /\ Counted(Mem, UsersOf)
    BY DEF IInv
  <1>2. /\ client[c] = "none" /\ client' = [client EXCEPT ![c] = "auth"] /\ SetMem(k)
        /\ UNCHANGED <<cancelled, rehashes>>
    BY Zenon DEF start_auth
  <1>3. PICK ident \in IdentStart, lost \in 0..(Len(rs) + 1) :
          /\ restarts' = restarts + (IF lost > 0 THEN 1 ELSE 0)
          /\ querytable' = d.table /\ id' = d.id
          /\ asked' = IF lost = 0 THEN d.asked
                      ELSE {q \in d.asked : \E i \in (lost + 1)..(Len(rs) + 1) : q.req = reqs[i]}
          /\ auth' = [auth EXCEPT ![c] = Waiting(Pend(ident), slot, ident = "open", qs)]
    BY Zenon DEF start_auth, ReqsOf, QueriesOf
  <1>4. /\ restarts' \in Nat /\ asked' \subseteq d.asked BY <1>1, <1>3 DEF TypeOK
  <1>5. /\ rs \in Seq(Rbls) /\ Distinct(rs) /\ \A i \in 1..Len(rs) : Mem.node[rs[i]].st = "used"
    BY <1>1, ToAsk
  <1> HIDE DEF rs
  <1>6. ToSet(rs) = {rs[i] : i \in 1..Len(rs)} /\ ToSet(rs) \subseteq Rbls BY <1>5 DEF ToSet
  <1>7. /\ reqs \in Seq(Request) /\ Len(reqs) = Len(rs) + 1 /\ Distinct(reqs)
        /\ \A j \in 1..Len(reqs) : \E r \in ToSet(rs) \cup {NULL} : reqs[j] = [c |-> c, r |-> r]
        /\ \A r \in ToSet(rs) \cup {NULL} : \E j \in 1..Len(reqs) : reqs[j] = [c |-> c, r |-> r]
    <2>1. /\ reqs \in Seq(Request) /\ Len(reqs) = Len(rs) + 1 /\ Distinct(reqs)
          /\ \A j \in 1..(Len(rs) + 1) :
               \E r \in ToSet(rs) \cup {NULL} : reqs[j] = [c |-> c, r |-> r]
          /\ \A r \in ToSet(rs) \cup {NULL} :
               \E j \in 1..(Len(rs) + 1) : reqs[j] = [c |-> c, r |-> r]
      BY <1>5, ReqsHold, Zenon
    <2> HIDE DEF reqs
    <2> QED BY <2>1
  <1> HIDE DEF reqs
  <1>8. Proper(auth[c]) /\ ~auth[c].live BY <1>1, <1>2 DEF Requests
  <1>9. \A i \in Ids, r \in Pointers : ~Waits(auth[c], i, r) BY <1>8, WaitsLive
  <1>10. \A i \in Ids, r \in Pointers : querytable[i] # [c |-> c, r |-> r]
    BY <1>1, <1>9 DEF SlotsRight
  <1>11. ToSet(rs) \cup {NULL} \subseteq Pointers BY <1>6 DEF Pointers
  <1>12. Dns \in DnsState /\ Dns.table = querytable /\ Dns.asked = asked
    BY <1>1 DEF TypeOK, Dns, DnsState
  <1>13. Unasked(Dns, reqs) BY <1>7, <1>10, <1>11, <1>12 DEF Unasked
  <1>14. Asked(Dns, d, reqs, Len(reqs)) BY <1>7, <1>12, <1>13, LookupsHold
  <1> HIDE DEF d
  <1>15. /\ d \in DnsState
         /\ \A i \in Ids : \/ d.table[i] = querytable[i]
                           \/ /\ querytable[i] = NoRequest
                              /\ \E j \in 1..Len(reqs) : d.table[i] = reqs[j]
         /\ \A j \in 1..Len(reqs), i, x \in Ids : d.table[i] = reqs[j] /\ d.table[x] = reqs[j] => i = x
         /\ \A q \in d.asked : q \in asked \/ d.table[q.id] = q.req
    BY <1>12, <1>14 DEF Asked
  <1>16. ASSUME NEW i \in Ids, NEW r \in Pointers, d.table[i] = [c |-> c, r |-> r]
         PROVE  r \in ToSet(rs) \cup {NULL}
    <2>1. PICK j \in 1..Len(reqs) : d.table[i] = reqs[j] BY <1>10, <1>15, <1>16
    <2>2. PICK x \in ToSet(rs) \cup {NULL} : reqs[j] = [c |-> c, r |-> x] BY <1>7
    <2>3. [c |-> c, r |-> x].r = [c |-> c, r |-> r].r BY <1>16, <2>1, <2>2
    <2> QED BY <2>3
  <1>17. ASSUME NEW r \in Pointers
         PROVE  /\ SlotOf(d, [c |-> c, r |-> r]) \in 0..MaxId
                /\ \A i \in Ids : SlotOf(d, [c |-> c, r |-> r]) = i
                                    <=> d.table[i] = [c |-> c, r |-> r]
    <2> DEFINE req == [c |-> c, r |-> r]
    <2>1. ASSUME NEW i \in Ids, NEW x \in Ids, d.table[i] = req, d.table[x] = req PROVE i = x
      <3>1. r \in ToSet(rs) \cup {NULL} BY <1>16, <2>1
      <3>2. PICK j \in 1..Len(reqs) : reqs[j] = req BY <1>7, <3>1
      <3> QED BY <1>15, <2>1, <3>2
    <2> HIDE DEF req
    <2>2. /\ SlotOf(d, req) \in 0..MaxId
          /\ \A i \in Ids : SlotOf(d, req) = i <=> d.table[i] = req
      BY <1>15, <2>1, SlotFound
    <2> QED BY <2>2 DEF req
  <1>18. Rbls \subseteq Pointers /\ NULL \in Pointers BY DEF Pointers
  <1>19. /\ qs \in Seq(Query)
         /\ \A i, j \in 1..Len(qs) : qs[i].r = qs[j].r => i = j
         /\ \A q : q \in ToSet(qs) <=>
               \E r \in ToSet(rs) : q = [r |-> r, queryid |-> SlotOf(d, [c |-> c, r |-> r])]
         /\ rs = <<>> => qs = <<>>
    <2>1. \A r \in Rbls : SlotOf(d, [c |-> c, r |-> r]) \in 0..MaxId BY <1>17, <1>18
    <2> QED BY <1>5, <2>1, QueriesHold, Zenon
  <1> HIDE DEF qs
  <1>20. slot \in 0..MaxId /\ \A i \in Ids : slot = i <=> d.table[i] = [c |-> c, r |-> NULL]
    BY <1>17, <1>18
  <1> HIDE DEF slot
  <1> DEFINE p == Pend(ident)
             b == Waiting(p, slot, ident = "open", qs)
  <1>21. /\ p \in SUBSET {"DNS", "Auth", "RBL"} /\ "DNS" \in p
         /\ qs # <<>> => "RBL" \in p
    BY <1>19
  <1>22. (ident = "open") \in BOOLEAN BY Zenon
  <1> HIDE DEF p
  <1>23. /\ b \in AuthRequest /\ b.live /\ b.pending = p /\ b.dns_query = slot
         /\ b.rbl_queries = qs
    <2> DEFINE f == ident = "open"
    <2>1. f \in BOOLEAN BY <1>22
    <2> HIDE DEF f
    <2>2. LET a == Waiting(p, slot, f, qs)
          IN  /\ a \in AuthRequest /\ a.live /\ a.pending = p /\ a.dns_query = slot
              /\ a.rbl_queries = qs
      BY <1>19, <1>20, <1>21, <2>1 DEF Waiting, AuthRequest, Query
    <2> QED BY <2>2, Zenon DEF f
  <1>24. auth' = [auth EXCEPT ![c] = b] BY <1>3 DEF p
  <1> HIDE DEF b
  <1>25. Proper(b) BY <1>19, <1>21, <1>23 DEF Proper
  <1>26. /\ auth' \in [Clients -> AuthRequest] /\ auth'[c] = b
         /\ client' \in [Clients -> {"none", "auth", "read", "exited"}] /\ client'[c] = "auth"
         /\ \A x \in Clients \ {c} : auth'[x] = auth[x] /\ client'[x] = client[x]
    BY <1>1, <1>2, <1>23, <1>24 DEF TypeOK
  <1>27. Requests'
    <2> SUFFICES ASSUME NEW x \in Clients
                 PROVE  Proper(auth'[x]) /\ (auth'[x].live => client'[x] = "auth")
      BY DEF Requests
    <2>1. CASE x = c BY <1>25, <1>26, <2>1
    <2>2. CASE x # c BY <1>1, <1>26, <2>2 DEF Requests
    <2> QED BY <2>1, <2>2
  <1>28. SlotsRight'
    <2> SUFFICES ASSUME NEW i \in Ids, NEW x \in Clients, NEW r \in Pointers
                 PROVE  d.table[i] = [c |-> x, r |-> r] <=> Waits(auth'[x], i, r)
      BY <1>3 DEF SlotsRight
    <2>1. CASE x # c
      <3>1. querytable[i] = [c |-> x, r |-> r] <=> Waits(auth[x], i, r) BY <1>1 DEF SlotsRight
      <3>2. [c |-> x, r |-> r] # NoRequest BY NullRbl DEF NoRequest
      <3>3. \A j \in 1..Len(reqs) : reqs[j] # [c |-> x, r |-> r]
        <4>1. \A j \in 1..Len(reqs) : reqs[j].c = c BY <1>7
        <4>2. [c |-> x, r |-> r].c = x OBVIOUS
        <4> QED BY <2>1, <4>1, <4>2
      <3>4. d.table[i] = [c |-> x, r |-> r] <=> querytable[i] = [c |-> x, r |-> r]
        BY <1>15, <3>2, <3>3
      <3> QED BY <1>26, <2>1, <3>1, <3>4
    <2>2. CASE x = c /\ r = NULL
      <3>1. Waits(auth'[x], i, r) <=> slot = i BY <1>23, <1>26, <2>2 DEF Waits
      <3> QED BY <1>20, <2>2, <3>1
    <2>3. CASE x = c /\ r # NULL
      <3> DEFINE q == [r |-> r, queryid |-> i]
      <3>1. Waits(auth'[x], i, r) <=> q \in ToSet(qs) BY <1>23, <1>26, <2>3 DEF Waits
      <3>2. q \in ToSet(qs) <=> r \in ToSet(rs) /\ SlotOf(d, [c |-> c, r |-> r]) = i
        <4>1. q.r = r /\ q.queryid = i OBVIOUS
        <4>2. ASSUME q \in ToSet(qs) PROVE r \in ToSet(rs) /\ SlotOf(d, [c |-> c, r |-> r]) = i
          <5>1. PICK y \in ToSet(rs) : q = [r |-> y, queryid |-> SlotOf(d, [c |-> c, r |-> y])]
            BY <1>19, <4>2
          <5>2. q.r = y /\ q.queryid = SlotOf(d, [c |-> c, r |-> y]) BY <5>1
          <5>3. r = y BY <4>1, <5>2
          <5> QED BY <4>1, <5>2, <5>3
        <4>3. ASSUME r \in ToSet(rs), SlotOf(d, [c |-> c, r |-> r]) = i PROVE q \in ToSet(qs)
          <5>1. q = [r |-> r, queryid |-> SlotOf(d, [c |-> c, r |-> r])] BY <4>3
          <5> QED BY <1>19, <4>3, <5>1
        <4> QED BY <4>2, <4>3
      <3>3. SlotOf(d, [c |-> c, r |-> r]) = i <=> d.table[i] = [c |-> c, r |-> r] BY <1>17
      <3>4. d.table[i] = [c |-> c, r |-> r] => r \in ToSet(rs) BY <1>16, <2>3
      <3> QED BY <2>3, <3>1, <3>2, <3>3, <3>4
    <2> QED BY <2>1, <2>2, <2>3
  <1>29. d.table \in [Ids -> Request \cup {NoRequest}] /\ d.id \in Ids /\ d.asked \subseteq Question
    BY <1>15 DEF DnsState
  <1>30. AnswersRight'
    <2> SUFFICES ASSUME NEW q \in asked' PROVE querytable'[q.id] = q.req \/ q.id \in cancelled
      BY <1>2 DEF AnswersRight
    <2>1. q \in d.asked /\ querytable' = d.table BY <1>3, <1>4
    <2>2. q.id \in Ids /\ q.req \in Request BY <1>29, <2>1 DEF Question
    <2>3. CASE q \in asked
      <3>1. querytable[q.id] = q.req \/ q.id \in cancelled BY <1>1, <2>3 DEF AnswersRight
      <3>2. q.req # NoRequest BY <2>2, NoRequestNone
      <3> QED BY <1>15, <2>1, <2>2, <3>1, <3>2
    <2>4. CASE d.table[q.id] = q.req BY <2>1, <2>4
    <2> QED BY <1>15, <2>1, <2>3, <2>4
  <1> DEFINE u == UsersOf
             v == [x \in Rbls |-> IF x \in ToSet(rs) THEN u[x] \cup {c} ELSE u[x]]
  <1>31. u \in [Rbls -> SUBSET Clients] /\ Counted(Mem, u) BY <1>1 DEF UsersOf
  <1>32. \A x \in Rbls : c \notin u[x]
    <2>1. auth[c].rbl_queries = <<>> BY <1>8, NoAuthProper DEF Proper
    <2>2. ToSet(<<>>) = {} BY DEF ToSet
    <2> QED BY <2>1, <2>2 DEF UsersOf
  <1>33. UsersOf' = v
    <2> DEFINE Uses(y, x) == \E q \in ToSet(auth[y].rbl_queries) : q.r = x
               UsesNext(y, x) == \E q \in ToSet(auth'[y].rbl_queries) : q.r = x
    <2>1. UsersOf' = [x \in Rbls |-> {y \in Clients : UsesNext(y, x)}] BY DEF UsersOf
    <2>2. u = [x \in Rbls |-> {y \in Clients : Uses(y, x)}] BY DEF UsersOf
    <2>3. ASSUME NEW x \in Rbls PROVE UsesNext(c, x) <=> x \in ToSet(rs)
      <3>1. UsesNext(c, x) <=> \E q \in ToSet(qs) : q.r = x BY <1>23, <1>26
      <3>2. ASSUME NEW q \in ToSet(qs), q.r = x PROVE x \in ToSet(rs)
        <4>1. PICK y \in ToSet(rs) : q = [r |-> y, queryid |-> SlotOf(d, [c |-> c, r |-> y])]
          BY <1>19
        <4>2. q.r = y BY <4>1
        <4> QED BY <3>2, <4>2
      <3>3. ASSUME x \in ToSet(rs) PROVE \E q \in ToSet(qs) : q.r = x
        <4> DEFINE q == [r |-> x, queryid |-> SlotOf(d, [c |-> c, r |-> x])]
        <4>1. q \in ToSet(qs) BY <1>19, <3>3
        <4>2. q.r = x OBVIOUS
        <4> QED BY <4>1, <4>2
      <3> QED BY <3>1, <3>2, <3>3
    <2>4. ASSUME NEW x \in Rbls, NEW y \in Clients \ {c} PROVE UsesNext(y, x) <=> Uses(y, x)
      BY <1>26
    <2> HIDE DEF Uses, UsesNext, u
    <2>5. ASSUME NEW x \in Rbls
          PROVE  UsersOf'[x] = IF x \in ToSet(rs) THEN u[x] \cup {c} ELSE u[x]
      <3>1. UsersOf'[x] = {y \in Clients : UsesNext(y, x)} /\ u[x] = {y \in Clients : Uses(y, x)}
        BY <2>1, <2>2
      <3>2. c \notin u[x] BY <1>32
      <3>3. CASE x \in ToSet(rs)
        <4>1. UsersOf'[x] = u[x] \cup {c} BY <2>3, <2>4, <3>1, <3>3
        <4> QED BY <3>3, <4>1
      <3>4. CASE x \notin ToSet(rs)
        <4>1. UsersOf'[x] = u[x] BY <2>3, <2>4, <3>1, <3>2, <3>4
        <4> QED BY <3>4, <4>1
      <3> QED BY <3>3, <3>4
    <2>6. UsersOf' = [x \in Rbls |-> UsersOf'[x]] BY <2>1
    <2> QED BY <2>5, <2>6
  <1>34. Linked(k) /\ Counted(k, v)
    <2> DEFINE m == Mem
    <2>1. /\ Linked(m) /\ Counted(m, u) /\ u \in [Rbls -> SUBSET Clients]
          /\ \A i \in 1..Len(rs) : m.node[rs[i]].st = "used"
          /\ \A x \in Rbls : c \notin u[x]
      BY <1>1, <1>5, <1>31, <1>32
    <2> HIDE DEF u, m
    <2>2. LET y == rbl_attach(m, rs)
          IN  Linked(y) /\ Counted(y, [x \in Rbls |-> IF x \in ToSet(rs) THEN u[x] \cup {c} ELSE u[x]])
      BY <1>5, <2>1, AttachHolds
    <2> QED BY <2>2, Zenon DEF m
  <1> HIDE DEF k, v
  <1>35. Mem' = k /\ rbl' \in [Rbls -> Rbl] /\ rbl_lists' \in List
    BY <1>2, <1>34, MemIs DEF Linked
  <1>36. (Linked(Mem) /\ Counted(Mem, UsersOf))' BY <1>33, <1>34, <1>35
  <1>37. TypeOK' BY <1>1, <1>2, <1>3, <1>4, <1>26, <1>29, <1>35 DEF TypeOK
  <1> QED BY <1>27, <1>28, <1>30, <1>36, <1>37 DEF IInv

\* IInv is inductive.
LEMMA NextHolds == IInv /\ [Next]_vars => IInv'
  <1> SUFFICES ASSUME IInv, [Next]_vars PROVE IInv' OBVIOUS
  <1>1. ASSUME NEW c \in Clients, start_auth(c) PROVE IInv' BY <1>1, StartHolds
  <1>2. ASSUME NEW c \in Clients, read_auth(c) PROVE IInv' BY <1>2, ReadAuthHolds
  <1>3. ASSUME NEW c \in Clients, timeout_auth_queries(c) PROVE IInv' BY <1>3, TimeoutHolds
  <1>4. ASSUME NEW c \in Clients, exit_unknown_client(c) PROVE IInv' BY <1>4, ExitHolds
  <1>5. ASSUME NEW q \in asked, results_callback(q) PROVE IInv' BY <1>5, ResultsHold
  <1>6. CASE restart_resolver_cb BY <1>6, RestartHolds
  <1>7. CASE read_conf BY <1>7, ReadConfHolds
  <1>8. CASE UNCHANGED vars BY <1>8, StutterHolds
  <1> QED BY <1>1, <1>2, <1>3, <1>4, <1>5, <1>6, <1>7, <1>8 DEF Next

LEMMA Inductive == Spec => []IInv
  <1> QED BY InitHolds, NextHolds, PTL DEF Spec

\* What RblsHeld says follows.
LEMMA HeldBy ==
    ASSUME IInv
    PROVE  RblsHeld
  <1>1. TypeOK /\ Linked(Mem) /\ Counted(Mem, UsersOf) BY DEF IInv
  <1>2. Mem.node = rbl /\ Mem.list = rbl_lists BY <1>1, MemType
  <1>3. rbl_lists.head \in Pointers /\ rbl_lists.tail \in Pointers BY <1>1 DEF TypeOK, List
  <1>4. EndsUsed(Mem) BY <1>1 DEF Linked
  <1>5. \A r \in {rbl_lists.head, rbl_lists.tail} \ {NULL} : rbl[r].st = "used"
    BY <1>2, <1>4 DEF EndsUsed
  <1>6. ASSUME NEW r \in Rbls
        PROVE  LET users == {c \in Clients : \E q \in ToSet(auth[c].rbl_queries) : q.r = r}
               IN /\ rbl[r].refcount = Cardinality(users)
                  /\ users # {} => rbl[r].st = "used"
    <2> DEFINE users == {c \in Clients : \E q \in ToSet(auth[c].rbl_queries) : q.r = r}
    <2>1. UsersOf[r] = users BY DEF UsersOf
    <2> HIDE DEF users
    <2>2. rbl[r].refcount = Cardinality(users) /\ (users # {} => rbl[r].st = "used")
      BY <1>1, <1>2, <2>1 DEF Counted
    <2> QED BY <2>2 DEF users
  <1> QED BY <1>5, <1>6 DEF RblsHeld

-----------------------------------------------------------------------------
(* Theorems.                                                                  *)

\* Every piece of state has its type, whatever order the callbacks of s_auth.c
\* and dns.c come in: a slot given by assign_dns_id() is one of the table.
THEOREM AuthTypeOK == Spec => []TypeOK
  <1>1. IInv => TypeOK BY DEF IInv
  <1> QED BY <1>1, Inductive, PTL

\* No callback of the resolver into a freed AuthRequest and no lookup forgotten:
\* a slot of querytable is in use exactly if a live request waits for it
\* (delete_auth_queries(), rbl_cancel_lookups(), results_callback()).
THEOREM AuthCallbacksLive == Spec => []CallbacksLive
  <1>1. IInv => CallbacksLive BY CallbacksRight DEF IInv
  <1> QED BY <1>1, Inductive, PTL

\* A blacklist is not freed while a lookup points to it, the reference count is
\* the number of its lookups, and the list does not lead to freed memory, though
\* rbl_destroy() deletes nodes that are off the list already.
THEOREM AuthRblsHeld == Spec => []RblsHeld
  <1>1. IInv => RblsHeld BY HeldBy
  <1> QED BY <1>1, Inductive, PTL

\* The answer to a question goes to the callback that asked it, unless its slot
\* was freed by cancel_lookup() with the question open (assign_dns_id(),
\* results_callback(), restart_resolver_cb()).
THEOREM AuthAnswersRight == Spec => []AnswersRight
  <1>1. IInv => AnswersRight BY DEF IInv
  <1> QED BY <1>1, Inductive, PTL

=============================================================================
