--------------------------- MODULE SSLProcProofs ---------------------------
(* Theorems about SSLProc, for any clients, helpers, ports and bounds.         *)
(*                                                                            *)
(* None of the three properties is inductive.  A helper is freed when its     *)
(* counter is 0, so NothingFreedInUse needs CountsRight; a counter can be     *)
(* given back only by those it counted, so CountsRight needs that a client    *)
(* that is new or freed points to no helper (ClientOK); and a descriptor has  *)
(* one holder only because the client that is about to be given away has      *)
(* none, which follows from Placed: what a helper has of a client, the client *)
(* knows, unless it is freed.  The handlers take a state e of the server to   *)
(* another, and a helper is asked before the client is told of it, so the     *)
(* invariant of the helpers is stated about e and about the clients cs as     *)
(* they will be (HelpersOK).                                                  *)
(*                                                                            *)
(* What a helper has is counted (Copies).  Most steps leave it with no more   *)
(* than before (Lighter); only a command that is queued adds to it (QueueOK). *)
EXTENDS SSLProc, ListsProofs, FiniteSetTheorems, FunctionTheorems, TLAPS

-----------------------------------------------------------------------------
(* The inductive invariant, of clients cs, listeners ls and helpers e.      *)

ClientOK(x) ==
    /\ x.st \in {"unused", "freed"} => x.ssl = NULL /\ x.listener = NULL
    /\ x.st \in {"unused", "freed", "unknown", "connecting", "handshake"} => x.link = "plain"
    /\ x.link = "plain" => x.z = NULL
    /\ x.st = "connecting" => x.ssl = NULL

ClientsOK(cs) == cs \in [Clients -> Client] /\ \A c \in Clients : ClientOK(cs[c])

Secures(cs, k) == {c \in Clients : cs[c].ssl = k}
Zips_at(cs, k) == {c \in Clients : cs[c].link = "zip" /\ cs[c].z = k}
Came(cs, l) == {c \in Clients : cs[c].listener = l}

ListenerOK(cs, ls, l) ==
    /\ ls[l].ref_count = Cardinality(Came(cs, l))
    /\ ls[l].st = "none" => ls[l].ref_count = 0
    /\ ls[l].st = "closed" => ls[l].ref_count # 0

ListenersOK(cs, ls) ==
    ls \in [Ports -> Listener] /\ \A l \in Ports : ListenerOK(cs, ls, l)

InUse(e) == {k \in Ctls : e.ctl[k].st \in {"live", "dead"}}
Known(e) == {k \in Ctls : e.ctl[k].st # "unused"}

\* A helper's counter counts those who will give it back, and they may.
Counted(cs, e) ==
    /\ \A k \in Ctls :
         e.ctl[k].cli_count = Cardinality(Secures(cs, k)) + Cardinality(Zips_at(cs, k))
    /\ \A c \in Clients : /\ cs[c].ssl # NULL => cs[c].ssl \in InUse(e)
                          /\ (cs[c].link = "zip" /\ cs[c].z # NULL) => cs[c].z \in InUse(e)
    /\ e.count = Cardinality(LiveOnes(e))

Listed(e) ==
    /\ Distinct(e.list) /\ ToSet(e.list) = InUse(e)
    /\ Known(e) = 1..Begun(e)

\* A connection is in one place, and its client knows where.
Single(e) ==
    \A id \in Ids, k \in Ctls :
       /\ Copies(e.ctl[k], id) \in Nat
       /\ Copies(e.ctl[k], id) <= 1
       /\ \A h \in Ctls : h # k => Copies(e.ctl[k], id) = 0 \/ Copies(e.ctl[h], id) = 0

Fits(x, what, k) ==
    /\ x.st # "unused"
    /\ x.st # "freed" => IF what = "Z" THEN x.link = "zip" /\ x.z = k ELSE x.ssl = k

Placed(cs, e) ==
    \A c \in Clients, what \in {"A", "C", "Z"}, k \in Ctls :
       Copies(e.ctl[k], <<c, what>>) > 0 => Fits(cs[c], what, k)

TypesOK(e) == e.ctl \in [Ctls -> Ctl] /\ e.list \in Seq(Ctls) /\ e.count \in Int

HelpersOK(cs, e) ==
    TypesOK(e) /\ Counted(cs, e) /\ Listed(e) /\ Single(e) /\ Placed(cs, e)

AllOK(e) == ClientsOK(e.cl) /\ ListenersOK(e.cl, e.lis) /\ HelpersOK(e.cl, e)

-----------------------------------------------------------------------------
(* Parts of the state.                                                      *)

\* The fields of a state of the server.
LEMMA ServerIs ==
    ASSUME NEW cs, NEW unk, NEW cts, NEW list, NEW count, NEW sp, NEW wait, NEW ev, NEW ok, NEW ls
    PROVE  LET e == Server(cs, unk, cts, list, count, sp, wait, ev, ok, ls)
           IN  /\ e.cl = cs /\ e.unk = unk /\ e.ctl = cts /\ e.list = list /\ e.count = count
               /\ e.spin = sp /\ e.lis = ls
  BY DEF Server

\* Replacing clients and listeners leaves the helpers alone.
LEMMA LocalsIs ==
    ASSUME NEW e, NEW cs, NEW unk, NEW ls
    PROVE  LET f == Locals(e, cs, unk, ls)
           IN  /\ f.cl = cs /\ f.lis = ls
               /\ f.ctl = e.ctl /\ f.list = e.list /\ f.count = e.count
  BY ServerIs DEF Locals

\* Replacing helpers leaves clients and listeners alone.
LEMMA DaemonsIs ==
    ASSUME NEW e, NEW cts, NEW list, NEW count
    PROVE  LET f == Daemons(e, cts, list, count)
           IN  /\ f.cl = e.cl /\ f.lis = e.lis
               /\ f.ctl = cts /\ f.list = list /\ f.count = count
  BY ServerIs DEF Daemons

\* Helpers and clients are the same.
Same(e, f) == /\ f.cl = e.cl /\ f.lis = e.lis
              /\ f.ctl = e.ctl /\ f.list = e.list /\ f.count = e.count

\* Timers and keys are neither.
LEMMA TimersIs == ASSUME NEW e, NEW sp, NEW wait, NEW ev PROVE Same(e, Timers(e, sp, wait, ev))
  BY ServerIs DEF Timers, Same

LEMMA SecuredIs == ASSUME NEW e, NEW ok PROVE Same(e, Secured(e, ok))
  BY ServerIs DEF Secured, Same

\* The helpers of e are those of f.
LEMMA SameOK ==
    ASSUME NEW cs, NEW e, NEW f, HelpersOK(cs, e),
           f.ctl = e.ctl, f.list = e.list, f.count = e.count
    PROVE  HelpersOK(cs, f)
  BY DEF HelpersOK, TypesOK, Counted, Listed, Single, Placed, InUse, Known, Begun, LiveOnes
-----------------------------------------------------------------------------
(* How often a queue has a connection.                                      *)

\* A command asks for new keys, or to take one connection.
LEMMA TakeIs ==
    /\ Keys \in Cmd
    /\ \A id \in Ids : Take(id) \in Cmd /\ Take(id) # Keys
    /\ \A id, x \in Ids : Take(id) = Take(x) => id = x
    /\ \A m \in Cmd : m.cmd = "K" => m = Keys
    /\ \A m \in Cmd : m.cmd # "K" => m.id \in Ids /\ m = Take(m.id)
  BY DEF Cmd, Keys, Take

Spots(q, id) == {i \in DOMAIN q : q[i] = Take(id)}

\* The commands of a queue that ask for a connection are finitely many.
LEMMA TimesNat ==
    ASSUME NEW q \in Seq(Cmd), NEW id
    PROVE  IsFiniteSet(Spots(q, id)) /\ Times(q, id) = Cardinality(Spots(q, id)) /\ Times(q, id) \in Nat
  <1>1. Len(q) \in Nat /\ DOMAIN q = 1..Len(q) OBVIOUS
  <1>2. IsFiniteSet(1..Len(q)) BY <1>1, FS_Interval
  <1>3. Spots(q, id) \subseteq 1..Len(q) BY <1>1 DEF Spots
  <1>4. IsFiniteSet(Spots(q, id)) BY <1>2, <1>3, FS_Subset
  <1>5. Times(q, id) = Cardinality(Spots(q, id)) BY DEF Times, Spots
  <1> QED BY <1>4, <1>5, FS_CardinalityType

LEMMA TimesNone == ASSUME NEW id PROVE Times(<<>>, id) = 0
  <1>1. {i \in DOMAIN <<>> : <<>>[i] = Take(id)} = {} OBVIOUS
  <1> QED BY <1>1, FS_EmptySet DEF Times

\* A command is queued.
LEMMA TimesAppend ==
    ASSUME NEW q \in Seq(Cmd), NEW m \in Cmd, NEW id
    PROVE  Times(Append(q, m), id) = IF m = Take(id) THEN Times(q, id) + 1 ELSE Times(q, id)
  <1> DEFINE r == Append(q, m)
             n == Len(q) + 1
  <1>1. /\ Len(q) \in Nat /\ DOMAIN q = 1..Len(q) /\ DOMAIN r = 1..n /\ r[n] = m
        /\ \A i \in 1..Len(q) : r[i] = q[i] /\ i # n
        /\ \A i \in 1..n : i # n => i \in 1..Len(q)
    OBVIOUS
  <1>2. r \in Seq(Cmd) OBVIOUS
  <1> HIDE DEF r
  <1>3. n \notin Spots(q, id) BY <1>1 DEF Spots
  <1>4. CASE m = Take(id)
    <2>1. Spots(r, id) = Spots(q, id) \cup {n} BY <1>1, <1>4 DEF Spots
    <2> HIDE DEF n
    <2>2. Cardinality(Spots(r, id)) = Cardinality(Spots(q, id)) + 1
      BY <1>3, <2>1, TimesNat, FS_AddElement
    <2> QED BY <1>2, <1>4, <2>2, TimesNat DEF r
  <1>5. CASE m # Take(id)
    <2>1. Spots(r, id) = Spots(q, id) BY <1>1, <1>5 DEF Spots
    <2> QED BY <1>2, <1>5, <2>1, TimesNat DEF r
  <1> QED BY <1>4, <1>5

\* f maps S to T one to one.
OneToOne(f, S, T) ==
    /\ f \in [S -> T]
    /\ \A a, b \in S : f[a] = f[b] => a = b
    /\ \A t \in T : \E s \in S : f[s] = t

\* Sets that correspond have as many elements.
LEMMA SameSize ==
    ASSUME NEW f, NEW S, NEW T, OneToOne(f, S, T), IsFiniteSet(S)
    PROVE  IsFiniteSet(T) /\ Cardinality(T) = Cardinality(S)
  <1>1. f \in Injection(S, T) BY Fun_IsInj DEF OneToOne
  <1>2. f \in Surjection(S, T) BY Fun_IsSurj DEF OneToOne
  <1>3. ExistsBijection(S, T) BY <1>1, <1>2 DEF ExistsBijection, Bijection
  <1> QED BY <1>3, FS_Bijection

LEMMA DisjointSize ==
    ASSUME NEW S, NEW T, IsFiniteSet(S), IsFiniteSet(T), S \cap T = {}
    PROVE  Cardinality(S \cup T) = Cardinality(S) + Cardinality(T)
  <1>1. Cardinality(S \cup T) = Cardinality(S) + Cardinality(T) - Cardinality(S \cap T)
    BY FS_Union
  <1>2. Cardinality(S \cap T) = 0 BY FS_EmptySet
  <1>3. Cardinality(S) \in Nat /\ Cardinality(T) \in Nat BY FS_CardinalityType
  <1> QED BY <1>1, <1>2, <1>3

\* The first command is read.
LEMMA TimesTail ==
    ASSUME NEW q \in Seq(Cmd), q # <<>>, NEW id
    PROVE  /\ Tail(q) \in Seq(Cmd) /\ Head(q) \in Cmd
           /\ Times(q, id) = IF Head(q) = Take(id) THEN Times(Tail(q), id) + 1 ELSE Times(Tail(q), id)
  <1> DEFINE r == Tail(q)
             n == Len(q) - 1
             T == {i \in DOMAIN q : q[i] = Take(id) /\ i # 1}
  <1>1. /\ n \in Nat /\ DOMAIN q = 1..(n + 1) /\ DOMAIN r = 1..n /\ Head(q) = q[1] /\ 1 \in DOMAIN q
        /\ \A i \in 1..n : r[i] = q[i + 1] /\ i + 1 \in 1..(n + 1) /\ i + 1 # 1
        /\ \A i \in 1..(n + 1) : i # 1 => i - 1 \in 1..n /\ (i - 1) + 1 = i
        /\ \A i, j \in 1..n : i + 1 = j + 1 => i = j
    OBVIOUS
  <1>2. r \in Seq(Cmd) /\ Head(q) \in Cmd OBVIOUS
  <1> DEFINE f == [i \in Spots(r, id) |-> i + 1]
  <1> HIDE DEF r, n
  <1>3. OneToOne(f, Spots(r, id), T)
    <2>1. f \in [Spots(r, id) -> T] BY <1>1 DEF Spots
    <2>2. \A i, j \in Spots(r, id) : f[i] = f[j] => i = j BY <1>1 DEF Spots
    <2>3. ASSUME NEW t \in T PROVE \E i \in Spots(r, id) : f[i] = t
      <3>1. t - 1 \in Spots(r, id) /\ (t - 1) + 1 = t BY <1>1 DEF Spots
      <3> QED BY <3>1
    <2> QED BY <2>1, <2>2, <2>3 DEF OneToOne
  <1>4. Cardinality(T) = Cardinality(Spots(r, id)) /\ IsFiniteSet(T)
    <2> HIDE DEF f, T
    <2> QED BY <1>2, <1>3, TimesNat, SameSize
  <1>5. CASE Head(q) = Take(id)
    <2>1. Spots(q, id) = T \cup {1} /\ 1 \notin T BY <1>1, <1>5 DEF Spots
    <2> HIDE DEF T
    <2>2. Cardinality(Spots(q, id)) = Cardinality(T) + 1 BY <1>4, <2>1, FS_AddElement
    <2> QED BY <1>2, <1>4, <1>5, <2>2, TimesNat DEF r
  <1>6. CASE Head(q) # Take(id)
    <2>1. Spots(q, id) = T BY <1>1, <1>6 DEF Spots
    <2> QED BY <1>2, <1>4, <1>6, <2>1, TimesNat DEF r
  <1> QED BY <1>2, <1>5, <1>6 DEF r

\* Commands are added behind others.
LEMMA TimesBoth ==
    ASSUME NEW q \in Seq(Cmd), NEW r \in Seq(Cmd), NEW id
    PROVE  q \o r \in Seq(Cmd) /\ Times(q \o r, id) = Times(q, id) + Times(r, id)
  <1> DEFINE s == q \o r
             m == Len(q)
             n == Len(r)
             T == {i \in DOMAIN s : s[i] = Take(id) /\ i > m}
             f == [i \in Spots(r, id) |-> i + m]
  <1>1. /\ m \in Nat /\ n \in Nat /\ DOMAIN q = 1..m /\ DOMAIN r = 1..n /\ DOMAIN s = 1..(m + n)
        /\ \A i \in 1..m : s[i] = q[i] /\ i \in 1..(m + n) /\ ~(i > m)
        /\ \A i \in 1..n : s[i + m] = r[i] /\ i + m \in 1..(m + n) /\ i + m > m
        /\ \A i \in 1..(m + n) : i > m => i - m \in 1..n /\ (i - m) + m = i
        /\ \A i \in 1..(m + n) : ~(i > m) => i \in 1..m
        /\ \A i, j \in 1..n : i + m = j + m => i = j
    OBVIOUS
  <1>2. s \in Seq(Cmd) OBVIOUS
  <1> HIDE DEF s, m, n
  <1>3. OneToOne(f, Spots(r, id), T)
    <2>1. f \in [Spots(r, id) -> T] BY <1>1 DEF Spots
    <2>2. \A i, j \in Spots(r, id) : f[i] = f[j] => i = j BY <1>1 DEF Spots
    <2>3. ASSUME NEW t \in T PROVE \E i \in Spots(r, id) : f[i] = t
      <3>1. t - m \in Spots(r, id) /\ (t - m) + m = t BY <1>1 DEF Spots
      <3> QED BY <3>1
    <2> QED BY <2>1, <2>2, <2>3 DEF OneToOne
  <1>4. Cardinality(T) = Cardinality(Spots(r, id)) /\ IsFiniteSet(T)
    <2> HIDE DEF f, T
    <2> QED BY <1>3, TimesNat, SameSize
  <1>5. Spots(s, id) = Spots(q, id) \cup T BY <1>1 DEF Spots
  <1>6. Spots(q, id) \cap T = {} BY <1>1 DEF Spots
  <1> HIDE DEF T
  <1>7. Cardinality(Spots(s, id)) = Cardinality(Spots(q, id)) + Cardinality(T)
    <2>1. IsFiniteSet(Spots(q, id)) BY TimesNat
    <2> DEFINE P == Spots(q, id)
    <2> HIDE DEF P
    <2>2. Cardinality(P \cup T) = Cardinality(P) + Cardinality(T) BY <1>4, <1>6, <2>1, DisjointSize DEF P
    <2> QED BY <1>5, <2>2 DEF P
  <1> QED BY <1>2, <1>4, <1>7, TimesNat DEF s

\* The commands at the places S.
LEMMA AtIs ==
    ASSUME NEW q \in Seq(Cmd), NEW S \in SUBSET DOMAIN q, NEW id
    PROVE  At(q, S) \in Seq(Cmd) /\ Times(At(q, S), id) = Cardinality(Spots(q, id) \cap S)
  <1> DEFINE all == [i \in DOMAIN q |-> i]
             ps == Without(all, DOMAIN q \ S)
             r == At(q, S)
             T == Spots(q, id) \cap S
             f == [n \in Spots(r, id) |-> ps[n]]
  <1>1. Len(q) \in Nat /\ DOMAIN q = 1..Len(q) /\ q \in [1..Len(q) -> Cmd] OBVIOUS
  <1>2. all \in Seq(DOMAIN q) /\ Len(all) = Len(q) /\ \A i \in DOMAIN q : all[i] = i
    BY <1>1
  <1>3. Distinct(all) /\ ToSet(all) = DOMAIN q BY <1>1, <1>2 DEF Distinct, ToSet
  <1>4. r = [n \in DOMAIN ps |-> q[ps[n]]] BY DEF At
  <1> DEFINE D == DOMAIN q
  <1> HIDE DEF all
  <1>5. ps \in Seq(D) /\ ToSet(ps) = S
    <2>1. ps \in Seq(D) /\ ToSet(ps) = ToSet(all) \ (D \ S) BY <1>2, WithoutElements
    <2> QED BY <1>3, <2>1
  <1>6. Distinct(ps) BY <1>2, <1>3, WithoutDistinct
  <1> HIDE DEF ps, r
  <1>7. Len(ps) \in Nat /\ DOMAIN ps = 1..Len(ps) /\ \A n \in 1..Len(ps) : ps[n] \in D BY <1>5
  <1>8. r \in Seq(Cmd) /\ Len(r) = Len(ps) /\ DOMAIN r = 1..Len(ps)
    <2>1. r \in [1..Len(ps) -> Cmd] BY <1>1, <1>4, <1>7
    <2> QED BY <1>7, <2>1, SeqDef
  <1>9. \A n \in 1..Len(ps) : r[n] = q[ps[n]] BY <1>4, <1>7
  <1>10. S = {ps[n] : n \in 1..Len(ps)} BY <1>5, <1>7 DEF ToSet
  <1>11. \A a, b \in 1..Len(ps) : ps[a] = ps[b] => a = b BY <1>6 DEF Distinct
  <1>12. OneToOne(f, Spots(r, id), T)
    <2>1. f \in [Spots(r, id) -> T] BY <1>7, <1>8, <1>9, <1>10 DEF Spots
    <2>2. \A i, j \in Spots(r, id) : f[i] = f[j] => i = j BY <1>8, <1>11 DEF Spots
    <2>3. ASSUME NEW t \in T PROVE \E i \in Spots(r, id) : f[i] = t
      <3>1. PICK n \in 1..Len(ps) : t = ps[n] BY <1>10
      <3>2. n \in Spots(r, id) BY <1>8, <1>9, <3>1 DEF Spots
      <3> QED BY <3>1, <3>2
    <2> QED BY <2>1, <2>2, <2>3 DEF OneToOne
  <1>13. Cardinality(T) = Cardinality(Spots(r, id))
    <2> HIDE DEF f, T
    <2> QED BY <1>8, <1>12, TimesNat, SameSize
  <1> QED BY <1>8, <1>13, TimesNat DEF r

\* Each command is sent or left.
LEMMA TimesSplit ==
    ASSUME NEW q \in Seq(Cmd), NEW S \in SUBSET DOMAIN q, NEW id
    PROVE  /\ At(q, S) \in Seq(Cmd) /\ At(q, DOMAIN q \ S) \in Seq(Cmd)
           /\ Times(At(q, S), id) + Times(At(q, DOMAIN q \ S), id) = Times(q, id)
  <1> DEFINE P == Spots(q, id)
             R == DOMAIN q \ S
  <1>1. R \in SUBSET DOMAIN q OBVIOUS
  <1> DEFINE A == P \cap S
             B == P \cap R
  <1>2. P = A \cup B /\ A \cap B = {} BY DEF Spots
  <1>3. IsFiniteSet(P) /\ Cardinality(P) = Times(q, id) BY TimesNat
  <1>4. IsFiniteSet(A) /\ IsFiniteSet(B) BY <1>3, FS_Subset
  <1>5. Times(At(q, S), id) = Cardinality(A) BY AtIs
  <1> HIDE DEF R
  <1>6. Times(At(q, R), id) = Cardinality(B) BY <1>1, AtIs
  <1> HIDE DEF A, B, P
  <1>7. Cardinality(P) = Cardinality(A) + Cardinality(B)
    <2> QED BY <1>2, <1>4, DisjointSize
  <1> QED BY <1>1, <1>3, <1>5, <1>6, <1>7, AtIs DEF R

-----------------------------------------------------------------------------
(* One helper.                                                              *)

\* The copies of a connection at h, without the queues.
Carried(h, id) == IF h.conn[id] = "none" THEN 0 ELSE 1

\* What a helper has of a connection.
LEMMA CopiesAre ==
    ASSUME NEW h \in Ctl, NEW id \in Ids
    PROVE  /\ Copies(h, id) = (Times(h.writeq, id) + Times(h.inq, id)) + Carried(h, id)
           /\ Times(h.writeq, id) \in Nat /\ Times(h.inq, id) \in Nat /\ Carried(h, id) \in {0, 1}
           /\ Copies(h, id) \in Nat
  <1>1. h.writeq \in Seq(Cmd) /\ h.inq \in Seq(Cmd) BY DEF Ctl
  <1>2. Times(h.writeq, id) \in Nat /\ Times(h.inq, id) \in Nat BY <1>1, TimesNat
  <1>3. Carried(h, id) \in {0, 1} BY DEF Carried
  <1>4. Copies(h, id) = (Times(h.writeq, id) + Times(h.inq, id)) + Carried(h, id)
    BY DEF Copies, Carried
  <1> QED BY <1>2, <1>3, <1>4

\* g has no more connections than h had, and counts as many.
Lighter(h, g) == /\ g \in Ctl /\ g.cli_count = h.cli_count
                 /\ \A id \in Ids : Copies(g, id) <= Copies(h, id)

\* Nothing more in the queues and connections of g.
LEMMA LighterIf ==
    ASSUME NEW h \in Ctl, NEW g \in Ctl, g.cli_count = h.cli_count,
           \A id \in Ids : Times(g.writeq, id) + Times(g.inq, id) <= Times(h.writeq, id) + Times(h.inq, id),
           \A id \in Ids : Carried(g, id) <= Carried(h, id)
    PROVE  Lighter(h, g)
  <1>1. ASSUME NEW id \in Ids PROVE Copies(g, id) <= Copies(h, id)
    <2>1. Times(g.writeq, id) + Times(g.inq, id) <= Times(h.writeq, id) + Times(h.inq, id) OBVIOUS
    <2>2. Carried(g, id) <= Carried(h, id) OBVIOUS
    <2> QED BY <2>1, <2>2, CopiesAre
  <1> QED BY <1>1 DEF Lighter

LEMMA LighterTwice ==
    ASSUME NEW h \in Ctl, NEW g, NEW f, Lighter(h, g), Lighter(g, f)
    PROVE  Lighter(h, f)
  <1>1. \A id \in Ids : /\ Copies(h, id) \in Nat /\ Copies(g, id) \in Nat /\ Copies(f, id) \in Nat
                        /\ Copies(g, id) <= Copies(h, id) /\ Copies(f, id) <= Copies(g, id)
    BY CopiesAre DEF Lighter
  <1>2. \A id \in Ids : Copies(f, id) <= Copies(h, id) BY <1>1
  <1> QED BY <1>2 DEF Lighter

\* A process that is gone or new carries nothing.
LEMMA NothingCarried ==
    /\ NoConns \in [Ids -> Stages]
    /\ \A h, id : id \in Ids /\ h.conn = NoConns => Carried(h, id) = 0
  BY DEF NoConns, Carried, Stages

\* The process dies.
LEMMA GoneIs ==
    ASSUME NEW h \in Ctl
    PROVE  Lighter(h, Gone(h)) /\ Gone(h).st = h.st
  <1> DEFINE g == Gone(h)
  <1>1. /\ g.cli_count = h.cli_count /\ g.writeq = h.writeq /\ g.inq = <<>> /\ g.conn = NoConns
        /\ g.st = h.st
    BY DEF Gone
  <1>2. g \in Ctl BY NothingCarried DEF Gone, Ctl
  <1> HIDE DEF g
  <1>3. \A id \in Ids : Times(g.writeq, id) + Times(g.inq, id) <= Times(h.writeq, id) + Times(h.inq, id)
    BY <1>1, TimesNone, CopiesAre
  <1>4. \A id \in Ids : Carried(g, id) <= Carried(h, id) BY <1>1, NothingCarried, CopiesAre
  <1> QED BY <1>1, <1>2, <1>3, <1>4, LighterIf DEF g

\* The server kills the helper.
LEMMA KilledIs ==
    ASSUME NEW h \in Ctl
    PROVE  Lighter(h, Killed(h)) /\ Killed(h).st = "dead"
  <1> DEFINE g == Killed(h)
  <1>1. /\ g.cli_count = h.cli_count /\ g.writeq = h.writeq /\ g.inq = <<>> /\ g.conn = NoConns
        /\ g.st = "dead"
    BY DEF Killed
  <1>2. g \in Ctl BY NothingCarried DEF Killed, Ctl
  <1> HIDE DEF g
  <1>3. \A id \in Ids : Times(g.writeq, id) + Times(g.inq, id) <= Times(h.writeq, id) + Times(h.inq, id)
    BY <1>1, TimesNone, CopiesAre
  <1>4. \A id \in Ids : Carried(g, id) <= Carried(h, id) BY <1>1, NothingCarried, CopiesAre
  <1> QED BY <1>1, <1>2, <1>3, <1>4, LighterIf DEF g

\* The helper is freed.
LEMMA FreedIs ==
    ASSUME NEW h \in Ctl
    PROVE  Lighter(h, Freed(h)) /\ Freed(h).st = "freed"
  <1> DEFINE g == Freed(h)
  <1>1. /\ g.cli_count = h.cli_count /\ g.writeq = <<>> /\ g.inq = h.inq /\ g.conn = h.conn
        /\ g.st = "freed"
    BY DEF Freed
  <1>2. g \in Ctl BY DEF Freed, Ctl
  <1> HIDE DEF g
  <1>3. \A id \in Ids : Times(g.writeq, id) + Times(g.inq, id) <= Times(h.writeq, id) + Times(h.inq, id)
    BY <1>1, TimesNone, CopiesAre
  <1>4. \A id \in Ids : Carried(g, id) <= Carried(h, id) BY <1>1, CopiesAre DEF Carried
  <1> QED BY <1>1, <1>2, <1>3, <1>4, LighterIf DEF g

\* Some commands are sent, in their order: nothing is lost or doubled.
LEMMA SentIs ==
    ASSUME NEW h \in Ctl, NEW S \in SUBSET DOMAIN h.writeq
    PROVE  Lighter(h, Sent(h, S)) /\ Sent(h, S).st = h.st
  <1> DEFINE g == Sent(h, S)
             q == h.writeq
             a == At(q, S)
             b == At(q, DOMAIN q \ S)
  <1>1. /\ g.cli_count = h.cli_count /\ g.writeq = b /\ g.inq = h.inq \o a /\ g.conn = h.conn
        /\ g.st = h.st
    BY DEF Sent
  <1>2. q \in Seq(Cmd) /\ h.inq \in Seq(Cmd) BY DEF Ctl
  <1>3. a \in Seq(Cmd) /\ b \in Seq(Cmd) /\ \A id : Times(a, id) + Times(b, id) = Times(q, id)
    BY <1>2, TimesSplit
  <1> HIDE DEF a, b
  <1>4. h.inq \o a \in Seq(Cmd) /\ \A id : Times(h.inq \o a, id) = Times(h.inq, id) + Times(a, id)
    BY <1>2, <1>3, TimesBoth
  <1>5. g \in Ctl BY <1>3, <1>4 DEF Sent, Ctl, a, b
  <1> HIDE DEF g
  <1>6. ASSUME NEW id \in Ids
        PROVE  Times(g.writeq, id) + Times(g.inq, id) <= Times(q, id) + Times(h.inq, id)
    <2>1. Times(a, id) \in Nat /\ Times(b, id) \in Nat /\ Times(h.inq, id) \in Nat
      BY <1>2, <1>3, TimesNat
    <2> QED BY <1>1, <1>3, <1>4, <2>1
  <1>7. \A id \in Ids : Carried(g, id) <= Carried(h, id) BY <1>1, CopiesAre DEF Carried
  <1> QED BY <1>1, <1>5, <1>6, <1>7, LighterIf DEF g

\* The replies are read.
LEMMA HeardIs ==
    ASSUME NEW h \in Ctl
    PROVE  Lighter(h, Heard(h)) /\ Heard(h).st = h.st
  <1> DEFINE g == Heard(h)
             q == <<>>
  <1>1. /\ g.cli_count = h.cli_count /\ g.writeq = h.writeq /\ g.inq = h.inq /\ g.conn = h.conn
        /\ g.st = h.st /\ g \in Ctl
    <2>1. q \in Seq(Reply) OBVIOUS
    <2>2. g = [h EXCEPT !.outq = q] BY DEF Heard
    <2> HIDE DEF q
    <2> QED BY <2>1, <2>2 DEF Ctl
  <1> HIDE DEF g
  <1>2. \A id \in Ids : Copies(g, id) <= Copies(h, id) BY <1>1, CopiesAre DEF Copies
  <1> QED BY <1>1, <1>2 DEF g, Lighter

\* The helper replies.
LEMMA SayingIs ==
    ASSUME NEW h \in Ctl, NEW m \in Reply
    PROVE  Lighter(h, Saying(h, m)) /\ Saying(h, m).st = h.st
  <1> DEFINE g == Saying(h, m)
  <1>1. /\ g.cli_count = h.cli_count /\ g.writeq = h.writeq /\ g.inq = h.inq /\ g.conn = h.conn
        /\ g.st = h.st
    BY DEF Saying, Ctl
  <1>2. Append(h.outq, m) \in Seq(Reply) BY DEF Ctl
  <1>3. g \in Ctl BY <1>2 DEF Saying, Ctl
  <1> HIDE DEF g
  <1>4. \A id \in Ids : Copies(g, id) <= Copies(h, id) BY <1>1, CopiesAre DEF Copies
  <1> QED BY <1>1, <1>3, <1>4 DEF g, Lighter

LEMMA CarryingFields ==
    ASSUME NEW h \in Ctl, NEW id \in Ids, NEW s \in Stages
    PROVE  LET g == Carrying(h, id, s)
           IN  /\ g.cli_count = h.cli_count /\ g.writeq = h.writeq /\ g.inq = h.inq /\ g.st = h.st
               /\ g \in Ctl /\ \A x \in Ids : g.conn[x] = IF x = id THEN s ELSE h.conn[x]
  <1> DEFINE n == [h.conn EXCEPT ![id] = s]
  <1>1. /\ n \in [Ids -> Stages]
        /\ \A x \in Ids : n[x] = IF x = id THEN s ELSE h.conn[x]
    BY DEF Ctl
  <1> HIDE DEF n
  <1>2. LET g == [h EXCEPT !.conn = n]
        IN  /\ g.cli_count = h.cli_count /\ g.writeq = h.writeq /\ g.inq = h.inq /\ g.st = h.st
            /\ g.conn = n /\ g \in Ctl
    BY <1>1 DEF Ctl
  <1>3. Carrying(h, id, s) = [h EXCEPT !.conn = n] BY DEF n, Carrying
  <1> QED BY <1>1, <1>2, <1>3

\* A connection that is carried changes its stage.
LEMMA CarryingIs ==
    ASSUME NEW h \in Ctl, NEW id \in Ids, NEW s \in Stages,
           h.conn[id] # "none"
    PROVE  Lighter(h, Carrying(h, id, s)) /\ Carrying(h, id, s).st = h.st
  <1> DEFINE g == Carrying(h, id, s)
  <1>1. /\ g.cli_count = h.cli_count /\ g.writeq = h.writeq /\ g.inq = h.inq /\ g.st = h.st
        /\ g \in Ctl /\ \A x \in Ids : g.conn[x] = IF x = id THEN s ELSE h.conn[x]
    BY CarryingFields
  <1> HIDE DEF g
  <1>2. \A x \in Ids : Times(g.writeq, x) + Times(g.inq, x) <= Times(h.writeq, x) + Times(h.inq, x)
    BY <1>1, CopiesAre
  <1>3. \A x \in Ids : Carried(g, x) <= Carried(h, x)
    <2>1. h.conn \in [Ids -> Stages] BY DEF Ctl
    <2> QED BY <1>1, <2>1 DEF Carried
  <1> QED BY <1>1, <1>2, <1>3, LighterIf DEF g

LEMMA DeadIs == BadKeys \in Reply /\ \A id \in Ids : Dead(id) \in Reply
  BY DEF BadKeys, Dead, Reply

\* close_conn() of a connection that is carried.
LEMMA CloseIs ==
    ASSUME NEW h \in Ctl, NEW id \in Ids, NEW w \in BOOLEAN, h.conn[id] # "none"
    PROVE  Lighter(h, close_conn(h, id, w)) /\ close_conn(h, id, w).st = h.st
  <1>1. CASE w
    <2> DEFINE g == Carrying(h, id, "shut")
    <2>1. Lighter(h, g) /\ g.st = h.st BY CarryingIs DEF Stages
    <2>2. close_conn(h, id, w) = Saying(g, Dead(id)) BY <1>1 DEF close_conn
    <2> HIDE DEF g
    <2>3. Lighter(g, Saying(g, Dead(id))) /\ Saying(g, Dead(id)).st = g.st
      BY <2>1, DeadIs, SayingIs DEF Lighter
    <2> QED BY <2>1, <2>2, <2>3, LighterTwice
  <1>2. CASE ~w
    <2>1. close_conn(h, id, w) = Carrying(h, id, "none") BY <1>2 DEF close_conn
    <2> QED BY <2>1, CarryingIs DEF Stages
  <1> QED BY <1>1, <1>2

\* A command is read.
LEMMA ReadingIs ==
    ASSUME NEW h \in Ctl, h.inq # <<>>
    PROVE  LET g == Reading(h)
           IN  /\ Lighter(h, g) /\ g.st = h.st
               /\ Head(h.inq) \in Cmd
               /\ g.writeq = h.writeq /\ g.conn = h.conn /\ g.inq = Tail(h.inq)
  <1> DEFINE q == Tail(h.inq)
             g == [h EXCEPT !.inq = q]
  <1>1. h.inq \in Seq(Cmd) BY DEF Ctl
  <1>2. q \in Seq(Cmd) /\ Head(h.inq) \in Cmd /\ \A id : Times(q, id) <= Times(h.inq, id)
    <2>1. ASSUME NEW id
          PROVE  q \in Seq(Cmd) /\ Head(h.inq) \in Cmd /\ Times(q, id) <= Times(h.inq, id)
      <3>1. q \in Seq(Cmd) /\ Head(h.inq) \in Cmd
            /\ Times(h.inq, id) = IF Head(h.inq) = Take(id) THEN Times(q, id) + 1 ELSE Times(q, id)
        BY <1>1, TimesTail
      <3>2. Times(q, id) \in Nat BY <3>1, TimesNat
      <3> QED BY <3>1, <3>2
    <2> QED BY <2>1
  <1> HIDE DEF q
  <1>3. /\ g.cli_count = h.cli_count /\ g.writeq = h.writeq /\ g.inq = q /\ g.conn = h.conn
        /\ g.st = h.st /\ g \in Ctl
    BY <1>2 DEF Ctl
  <1> HIDE DEF g
  <1>4. \A id \in Ids : Times(g.writeq, id) + Times(g.inq, id) <= Times(h.writeq, id) + Times(h.inq, id)
    <2>1. \A id \in Ids : Times(g.inq, id) \in Nat BY <1>3, CopiesAre
    <2> QED BY <1>2, <1>3, <2>1, CopiesAre
  <1>5. \A id \in Ids : Carried(g, id) <= Carried(h, id) BY <1>3, CopiesAre DEF Carried
  <1>6. Lighter(h, g) BY <1>3, <1>4, <1>5, LighterIf
  <1> QED BY <1>2, <1>3, <1>6 DEF Reading, q, g

\* A command that is read becomes a connection.
LEMMA TakenIs ==
    ASSUME NEW h \in Ctl, h.inq # <<>>, NEW id \in Ids, Head(h.inq) = Take(id), Copies(h, id) <= 1
    PROVE  Lighter(h, take(Reading(h), id)) /\ take(Reading(h), id).st = h.st
  <1> DEFINE r == Reading(h)
             s == IF id[2] = "Z" THEN "open" ELSE "shaking"
             g == Carrying(r, id, s)
  <1>1. Lighter(h, r) /\ r.st = h.st /\ r.writeq = h.writeq /\ r.conn = h.conn /\ r.inq = Tail(h.inq)
    BY ReadingIs
  <1> HIDE DEF r
  <1>2. r \in Ctl /\ r.cli_count = h.cli_count BY <1>1 DEF Lighter
  <1>3. s \in Stages BY DEF Stages
  <1> HIDE DEF s
  <1>4. /\ g.cli_count = r.cli_count /\ g.writeq = r.writeq /\ g.inq = r.inq /\ g.st = r.st
        /\ g \in Ctl /\ \A x \in Ids : g.conn[x] = IF x = id THEN s ELSE r.conn[x]
    BY <1>2, <1>3, CarryingFields
  <1> HIDE DEF g
  <1>5. ASSUME NEW x \in Ids PROVE Copies(g, x) <= Copies(h, x)
    <2>1. Times(h.inq, x) = IF Take(id) = Take(x) THEN Times(r.inq, x) + 1 ELSE Times(r.inq, x)
      <3>1. h.inq \in Seq(Cmd) BY DEF Ctl
      <3> QED BY <1>1, <3>1, TimesTail
    <2>2. h.conn \in [Ids -> Stages] BY DEF Ctl
    <2>3. CASE x = id
      <3>1. Times(h.inq, x) = Times(r.inq, x) + 1 BY <2>1, <2>3
      <3>2. Carried(g, x) \in {0, 1} /\ Carried(h, x) \in {0, 1} BY <1>4, CopiesAre
      <3>3. /\ Copies(h, x) = (Times(h.writeq, x) + Times(h.inq, x)) + Carried(h, x)
            /\ Times(h.writeq, x) \in Nat /\ Times(h.inq, x) \in Nat
        BY CopiesAre
      <3>4. Copies(g, x) = (Times(g.writeq, x) + Times(g.inq, x)) + Carried(g, x)
        BY <1>4, CopiesAre
      <3>5. Times(r.inq, x) \in Nat BY <1>2, CopiesAre
      <3> QED BY <1>1, <1>4, <2>3, <3>1, <3>2, <3>3, <3>4, <3>5
    <2>4. CASE x # id
      <3>1. Times(h.inq, x) = Times(r.inq, x) BY <2>1, <2>4, TakeIs
      <3>2. Carried(g, x) = Carried(h, x) BY <1>1, <1>4, <2>2, <2>4 DEF Carried
      <3>3. Copies(g, x) = Copies(h, x) BY <1>1, <1>4, <3>1, <3>2, CopiesAre
      <3> QED BY <3>3, CopiesAre
    <2> QED BY <2>3, <2>4
  <1>6. take(r, id) = g BY DEF take, g, s
  <1> QED BY <1>1, <1>2, <1>4, <1>5, <1>6 DEF Lighter, r

LEMMA LighterSelf == ASSUME NEW h \in Ctl PROVE Lighter(h, h)
  BY CopiesAre DEF Lighter

\* A helper that is started has nothing.
LEMMA StartedIs ==
    ASSUME NEW ok
    PROVE  LET g == Started(ok)
           IN  /\ g \in Ctl /\ g.st = "live" /\ g.cli_count = 0
               /\ \A id \in Ids : Copies(g, id) = 0
  <1> DEFINE q == IF ok THEN <<Keys>> ELSE <<>>
             g == Started(ok)
  <1>1. q \in Seq(Cmd) /\ \A id \in Ids : Times(q, id) = 0
    <2>1. <<Keys>> = Append(<<>>, Keys) /\ <<>> \in Seq(Cmd) /\ <<Keys>> \in Seq(Cmd) BY TakeIs
    <2>2. \A id \in Ids : Times(<<Keys>>, id) = 0
      <3>1. ASSUME NEW id \in Ids PROVE Times(<<Keys>>, id) = 0
        <4> DEFINE z == <<>>
        <4>1. Keys # Take(id) /\ Keys \in Cmd /\ z \in Seq(Cmd) BY TakeIs
        <4> HIDE DEF z
        <4>2. Times(Append(z, Keys), id) = Times(z, id) BY <4>1, TimesAppend
        <4> QED BY <2>1, <4>2, TimesNone DEF z
      <3> QED BY <3>1
    <2>3. CASE ok BY <2>1, <2>2, <2>3
    <2>4. CASE ~ok BY <2>1, <2>4, TimesNone
    <2> QED BY <2>3, <2>4
  <1>2. g = [st |-> "live", cli_count |-> 0, writeq |-> <<>>, proc |-> "up", inq |-> q,
             outq |-> <<>>, conn |-> NoConns]
    BY DEF Started
  <1> HIDE DEF q, g
  <1>3. /\ g \in Ctl /\ g.st = "live" /\ g.cli_count = 0
        /\ g.writeq = <<>> /\ g.inq = q /\ g.conn = NoConns
    BY <1>1, <1>2, NothingCarried DEF Ctl
  <1>4. ASSUME NEW id \in Ids PROVE Copies(g, id) = 0
    <2>1. Carried(g, id) = 0 BY <1>3, NothingCarried
    <2> QED BY <1>1, <1>3, <2>1, CopiesAre, TimesNone
  <1> QED BY <1>3, <1>4 DEF g

\* Another number of clients.
LEMMA ServingIs ==
    ASSUME NEW h \in Ctl, NEW n \in Int
    PROVE  LET g == Serving(h, n)
           IN  /\ g \in Ctl /\ g.st = h.st /\ g.cli_count = n
               /\ \A id \in Ids : Copies(g, id) = Copies(h, id)
  <1> DEFINE g == Serving(h, n)
  <1>1. /\ g.cli_count = n /\ g.writeq = h.writeq /\ g.inq = h.inq /\ g.conn = h.conn
        /\ g.st = h.st /\ g \in Ctl
    BY DEF Serving, Ctl
  <1> HIDE DEF g
  <1>2. \A id \in Ids : Copies(g, id) = Copies(h, id) BY <1>1 DEF Copies
  <1> QED BY <1>1, <1>2 DEF g

\* One command more to send.
LEMMA WritingIs ==
    ASSUME NEW h \in Ctl, NEW m \in Cmd
    PROVE  LET g == Writing(h, Append(h.writeq, m))
           IN  /\ g \in Ctl /\ g.st = h.st /\ g.cli_count = h.cli_count
               /\ \A id \in Ids :
                    Copies(g, id) = IF m = Take(id) THEN Copies(h, id) + 1 ELSE Copies(h, id)
  <1> DEFINE q == Append(h.writeq, m)
             g == Writing(h, q)
  <1>1. h.writeq \in Seq(Cmd) BY DEF Ctl
  <1>2. q \in Seq(Cmd) BY <1>1
  <1>3. \A id \in Ids : Times(q, id) = IF m = Take(id) THEN Times(h.writeq, id) + 1
                                       ELSE Times(h.writeq, id)
    BY <1>1, TimesAppend
  <1> HIDE DEF q
  <1>4. /\ g.cli_count = h.cli_count /\ g.writeq = q /\ g.inq = h.inq /\ g.conn = h.conn
        /\ g.st = h.st /\ g \in Ctl
    BY <1>2 DEF Writing, Ctl
  <1> HIDE DEF g
  <1>5. ASSUME NEW id \in Ids
        PROVE  Copies(g, id) = IF m = Take(id) THEN Copies(h, id) + 1 ELSE Copies(h, id)
    <2>1. Carried(g, id) = Carried(h, id) BY <1>4 DEF Carried
    <2>2. Copies(g, id) = (Times(q, id) + Times(h.inq, id)) + Carried(h, id)
      BY <1>4, <2>1, CopiesAre
    <2>3. /\ Copies(h, id) = (Times(h.writeq, id) + Times(h.inq, id)) + Carried(h, id)
          /\ Times(h.writeq, id) \in Nat /\ Times(h.inq, id) \in Nat /\ Carried(h, id) \in {0, 1}
      BY CopiesAre
    <2>4. Times(q, id) = IF m = Take(id) THEN Times(h.writeq, id) + 1 ELSE Times(h.writeq, id)
      BY <1>3
    <2> QED BY <2>2, <2>3, <2>4
  <1> QED BY <1>4, <1>5 DEF g, q

-----------------------------------------------------------------------------
(* All helpers.                                                             *)

LEMMA CtlsFinite ==
    /\ IsFiniteSet(Ctls) /\ Cardinality(Ctls) = NCtls
    /\ \A S : S \subseteq Ctls => IsFiniteSet(S) /\ Cardinality(S) \in Nat /\ Cardinality(S) <= NCtls
  <1>1. IsFiniteSet(Ctls) /\ Cardinality(Ctls) = NCtls BY ConstAssumption, FS_Interval DEF Ctls
  <1> HIDE DEF Ctls
  <1> QED BY <1>1, FS_Subset, FS_CardinalityType

LEMMA ClientsFinite ==
    /\ IsFiniteSet(Clients)
    /\ \A S : S \subseteq Clients => IsFiniteSet(S) /\ Cardinality(S) \in Nat
  <1>1. IsFiniteSet(Clients) BY ConstAssumption, FS_Interval DEF Clients
  <1> HIDE DEF Clients
  <1> QED BY <1>1, FS_Subset, FS_CardinalityType

\* Neither is freed or started.
AsUsed(h, g) == h.st = g.st \/ (h.st \in {"live", "dead"} /\ g.st \in {"live", "dead"})

\* No helper of f has more of a connection than it had in e.
Fewer(e, f) ==
    \A id \in Ids, k \in Ctls : /\ Copies(f.ctl[k], id) \in Nat /\ Copies(e.ctl[k], id) \in Nat
                                /\ Copies(f.ctl[k], id) <= Copies(e.ctl[k], id)

\* Where nothing is added, one holder is left one.
LEMMA FewerOK ==
    ASSUME NEW cs, NEW e, NEW f, Single(e), Placed(cs, e), Fewer(e, f)
    PROVE  Single(f) /\ Placed(cs, f)
  <1>7. Single(f)
    <2>1. ASSUME NEW id \in Ids, NEW k \in Ctls
          PROVE  /\ Copies(f.ctl[k], id) \in Nat /\ Copies(f.ctl[k], id) <= 1
                 /\ \A h \in Ctls : h # k => Copies(f.ctl[k], id) = 0 \/ Copies(f.ctl[h], id) = 0
      <3>1. Copies(e.ctl[k], id) <= 1 BY DEF Single
      <3>2. ASSUME NEW h \in Ctls, h # k PROVE Copies(f.ctl[k], id) = 0 \/ Copies(f.ctl[h], id) = 0
        <4>1. Copies(e.ctl[k], id) = 0 \/ Copies(e.ctl[h], id) = 0 BY <3>2 DEF Single
        <4> QED BY <4>1 DEF Fewer
      <3> QED BY <3>1, <3>2 DEF Fewer
    <2> QED BY <2>1 DEF Single
  <1>8. Placed(cs, f)
    <2>1. ASSUME NEW c \in Clients, NEW what \in {"A", "C", "Z"}, NEW k \in Ctls,
                 Copies(f.ctl[k], <<c, what>>) > 0
          PROVE  Fits(cs[c], what, k)
      <3>1. <<c, what>> \in Ids BY DEF Ids
      <3>2. Copies(e.ctl[k], <<c, what>>) > 0 BY <2>1, <3>1 DEF Fewer
      <3> QED BY <3>2 DEF Placed
    <2> QED BY <2>1 DEF Placed
  <1> QED BY <1>7, <1>8

\* Helpers with less in them, of which as many live as count says.
LEMMA LighterOK ==
    ASSUME NEW cs, NEW e, NEW f, HelpersOK(cs, e),
           f.ctl \in [Ctls -> Ctl], f.list = e.list, f.count = Cardinality(LiveOnes(f)),
           \A k \in Ctls : Lighter(e.ctl[k], f.ctl[k]),
           \A k \in Ctls : AsUsed(e.ctl[k], f.ctl[k])
    PROVE  HelpersOK(cs, f)
  <1>1. InUse(f) = InUse(e) /\ Known(f) = Known(e) BY DEF InUse, Known, AsUsed
  <1>2. Begun(f) = Begun(e) BY <1>1 DEF Begun, Known
  <1>3. TypesOK(f)
    <2>1. f.count \in Int
      <3>1. LiveOnes(f) \subseteq Ctls BY DEF LiveOnes
      <3> QED BY <3>1, CtlsFinite
    <2> QED BY <2>1 DEF HelpersOK, TypesOK
  <1>4. Counted(cs, f) BY <1>1 DEF HelpersOK, Counted, Lighter
  <1>5. Listed(f) BY <1>1, <1>2 DEF HelpersOK, Listed
  <1>6. Fewer(e, f) BY CopiesAre DEF HelpersOK, Single, Lighter, Fewer
  <1>7. Single(f) /\ Placed(cs, f) BY <1>6, FewerOK DEF HelpersOK
  <1> QED BY <1>3, <1>4, <1>5, <1>7 DEF HelpersOK

\* One helper with less in it.
LEMMA OnlyOK ==
    ASSUME NEW cs, NEW e, HelpersOK(cs, e), NEW k \in Ctls, NEW g, Lighter(e.ctl[k], g),
           g.st = e.ctl[k].st
    PROVE  LET f == Only(e, k, g)
           IN  HelpersOK(cs, f) /\ f.cl = e.cl /\ f.lis = e.lis
  <1> DEFINE f == Only(e, k, g)
             cts == [e.ctl EXCEPT ![k] = g]
  <1>1. f.cl = e.cl /\ f.lis = e.lis /\ f.ctl = cts /\ f.list = e.list /\ f.count = e.count
    BY DaemonsIs DEF Only
  <1>2. e.ctl \in [Ctls -> Ctl] BY DEF HelpersOK, TypesOK
  <1>3. g \in Ctl BY DEF Lighter
  <1>4. cts \in [Ctls -> Ctl] /\ \A x \in Ctls : cts[x] = IF x = k THEN g ELSE e.ctl[x]
    BY <1>2, <1>3
  <1> HIDE DEF f, cts
  <1>5. \A x \in Ctls : Lighter(e.ctl[x], f.ctl[x]) /\ e.ctl[x].st = f.ctl[x].st
    BY <1>1, <1>2, <1>4, LighterSelf
  <1>6. LiveOnes(f) = LiveOnes(e) BY <1>5 DEF LiveOnes
  <1>7. f.count = Cardinality(LiveOnes(f)) BY <1>1, <1>6 DEF HelpersOK, Counted
  <1>8. \A x \in Ctls : AsUsed(e.ctl[x], f.ctl[x])
    BY <1>5 DEF AsUsed
  <1>9. HelpersOK(cs, f) BY <1>1, <1>4, <1>5, <1>7, <1>8, LighterOK
  <1> QED BY <1>1, <1>9 DEF f

\* Any number of live helpers are killed.
LEMMA KillOK ==
    ASSUME NEW cs, NEW e, HelpersOK(cs, e), NEW K, K \subseteq LiveOnes(e), NEW f,
           f.ctl = [k \in Ctls |-> IF k \in K THEN Killed(e.ctl[k]) ELSE e.ctl[k]],
           f.list = e.list, f.count = e.count - Cardinality(K)
    PROVE  HelpersOK(cs, f)
  <1>1. e.ctl \in [Ctls -> Ctl] /\ e.count = Cardinality(LiveOnes(e))
    BY DEF HelpersOK, TypesOK, Counted
  <1>2. \A k \in Ctls : /\ Lighter(e.ctl[k], Killed(e.ctl[k])) /\ Killed(e.ctl[k]).st = "dead"
                        /\ Lighter(e.ctl[k], e.ctl[k])
    BY <1>1, KilledIs, LighterSelf
  <1>3. \A k \in Ctls : f.ctl[k] = IF k \in K THEN Killed(e.ctl[k]) ELSE e.ctl[k] OBVIOUS
  <1>4. \A k \in Ctls : Lighter(e.ctl[k], f.ctl[k]) BY <1>2, <1>3
  <1>5. \A k \in Ctls : f.ctl[k] \in Ctl BY <1>4 DEF Lighter
  <1>6. f.ctl \in [Ctls -> Ctl] BY <1>5
  <1>7. LiveOnes(f) = LiveOnes(e) \ K BY <1>2, <1>3 DEF LiveOnes
  <1>8. f.count = Cardinality(LiveOnes(f))
    <2> DEFINE L == LiveOnes(e)
               M == LiveOnes(f)
    <2>1. L = M \cup K /\ M \cap K = {} BY <1>7
    <2>2. L \subseteq Ctls /\ M \subseteq Ctls BY DEF LiveOnes
    <2> HIDE DEF L, M
    <2>3. IsFiniteSet(M) /\ IsFiniteSet(K) /\ Cardinality(M) \in Nat /\ Cardinality(K) \in Nat
      BY <2>1, <2>2, CtlsFinite
    <2>4. Cardinality(M \cup K) = Cardinality(M) + Cardinality(K) BY <2>1, <2>3, DisjointSize
    <2>5. Cardinality(L) = Cardinality(M) + Cardinality(K) BY <2>1, <2>4
    <2>6. f.count = Cardinality(L) - Cardinality(K) BY <1>1 DEF L
    <2> QED BY <2>3, <2>5, <2>6 DEF M
  <1>9. \A k \in Ctls : AsUsed(e.ctl[k], f.ctl[k]) BY <1>2, <1>3 DEF AsUsed, LiveOnes
  <1> QED BY <1>4, <1>6, <1>8, <1>9, LighterOK

\* ssl_killall().
LEMMA KillallOK ==
    ASSUME NEW cs, NEW e, HelpersOK(cs, e)
    PROVE  LET f == ssl_killall(e) IN HelpersOK(cs, f) /\ f.cl = e.cl /\ f.lis = e.lis
  <1> DEFINE f == ssl_killall(e)
  <1>1. /\ f.cl = e.cl /\ f.lis = e.lis /\ f.list = e.list
        /\ f.ctl = [k \in Ctls |-> IF k \in LiveOnes(e) THEN Killed(e.ctl[k]) ELSE e.ctl[k]]
        /\ f.count = e.count - Cardinality(LiveOnes(e))
    BY DaemonsIs DEF ssl_killall
  <1> HIDE DEF f
  <1>2. HelpersOK(cs, f) BY <1>1, KillOK
  <1> QED BY <1>1, <1>2 DEF f

\* m more helpers.
LEMMA AllocateOK ==
    ASSUME NEW cs, NEW e, HelpersOK(cs, e), NEW m \in Nat, m <= NCtls - Begun(e)
    PROVE  LET f == allocate_ssl_daemon(e, m) IN HelpersOK(cs, f) /\ f.cl = e.cl /\ f.lis = e.lis
  <1> DEFINE n == Begun(e)
             f == allocate_ssl_daemon(e, m)
             New == (n + 1)..(n + m)
             new == [i \in 1..m |-> ((n + m) + 1) - i]
  <1>1. /\ f.cl = e.cl /\ f.lis = e.lis /\ f.list = new \o e.list
        /\ f.ctl = [k \in Ctls |-> IF k \in New THEN Started(e.ok) ELSE e.ctl[k]]
        /\ f.count = e.count + m
    <2> DEFINE cts == [k \in Ctls |-> IF k \in New THEN Started(e.ok) ELSE e.ctl[k]]
               list == new \o e.list
               count == e.count + m
    <2>1. f = Daemons(e, cts, list, count) BY DEF allocate_ssl_daemon
    <2> HIDE DEF cts, list, count, f
    <2>2. f.cl = e.cl /\ f.lis = e.lis /\ f.list = list /\ f.ctl = cts /\ f.count = count
      BY <2>1, DaemonsIs
    <2> QED BY <2>2 DEF cts, list, count
  <1>2. n \in Nat
    <2>1. Known(e) \subseteq Ctls /\ n = Cardinality(Known(e)) BY DEF Known, Begun
    <2> QED BY <2>1, CtlsFinite
  <1>3. New \subseteq Ctls /\ New \cap (1..n) = {} /\ (1..n) \cup New = 1..(n + m)
    BY <1>2, ConstAssumption DEF Ctls
  <1>4. Known(e) = 1..n /\ e.ctl \in [Ctls -> Ctl] /\ e.list \in Seq(Ctls) /\ e.count \in Int
    BY DEF HelpersOK, Listed, TypesOK
  <1>5. \A k \in New : e.ctl[k].st = "unused" BY <1>3, <1>4 DEF Known
  <1>6. new \in Seq(Ctls) /\ Distinct(new) /\ ToSet(new) = New
    <2>1. Len(new) = m /\ DOMAIN new = 1..m OBVIOUS
    <2>2. \A i \in 1..m : new[i] = ((n + m) + 1) - i /\ ((n + m) + 1) - i \in New BY <1>2
    <2>3. \A k \in New : ((n + m) + 1) - k \in 1..m /\ ((n + m) + 1) - (((n + m) + 1) - k) = k
      BY <1>2
    <2>4. \A i \in 1..m : ((n + m) + 1) - i \in Ctls BY <1>3, <2>2
    <2>8. new \in [1..m -> Ctls] BY <2>4
    <2> HIDE DEF new, New
    <2>5. new \in Seq(Ctls) BY <2>8, SeqDef
    <2>6. \A i, j \in 1..m : new[i] = new[j] => i = j BY <1>2, <2>2
    <2>7. ToSet(new) = New BY <2>1, <2>2, <2>3 DEF ToSet
    <2> QED BY <2>1, <2>5, <2>6, <2>7 DEF Distinct
  <1> DEFINE st == Started(e.ok)
  <1>7. st \in Ctl /\ st.st = "live" /\ st.cli_count = 0 /\ \A id \in Ids : Copies(st, id) = 0
    BY StartedIs
  <1>8. IsFiniteSet(New) /\ Cardinality(New) = m
    <2> DEFINE a == n + 1
               b == n + m
    <2>1. a \in Int /\ b \in Int BY <1>2
    <2>2. (IF a > b THEN 0 ELSE b-a+1) = m BY <1>2
    <2>3. New = a..b OBVIOUS
    <2> HIDE DEF a, b, New
    <2>4. IsFiniteSet(a..b) /\ Cardinality(a..b) = IF a > b THEN 0 ELSE b-a+1 BY <2>1, FS_Interval
    <2> QED BY <2>2, <2>3, <2>4
  <1> HIDE DEF n, New, new, f, st
  <1>9. \A k \in Ctls : f.ctl[k] = IF k \in New THEN st ELSE e.ctl[k] BY <1>1 DEF st
  <1>10. InUse(f) = InUse(e) \cup New /\ LiveOnes(f) = LiveOnes(e) \cup New
    BY <1>3, <1>7, <1>9 DEF InUse, LiveOnes
  <1>11. InUse(e) \cap New = {} /\ LiveOnes(e) \cap New = {} BY <1>5 DEF InUse, LiveOnes
  <1>12. TypesOK(f)
    <2>1. f.ctl \in [Ctls -> Ctl] BY <1>1, <1>4, <1>7 DEF st
    <2>2. f.list \in Seq(Ctls) BY <1>1, <1>4, <1>6, Concatenated
    <2> QED BY <1>1, <1>4, <2>1, <2>2 DEF TypesOK
  <1>13. Counted(cs, f)
    <2>1. ASSUME NEW k \in Ctls
          PROVE  f.ctl[k].cli_count = Cardinality(Secures(cs, k)) + Cardinality(Zips_at(cs, k))
      <3>1. CASE k \notin New BY <1>9, <3>1 DEF HelpersOK, Counted
      <3>2. CASE k \in New
        <4>1. k \notin InUse(e) /\ k # NULL BY <1>11, <3>2, ConstAssumption
        <4>2. Secures(cs, k) = {} /\ Zips_at(cs, k) = {}
          BY <4>1 DEF HelpersOK, Counted, Secures, Zips_at
        <4>3. Cardinality(Secures(cs, k)) = 0 /\ Cardinality(Zips_at(cs, k)) = 0 BY <4>2, FS_EmptySet
        <4> QED BY <1>7, <1>9, <3>2, <4>3
      <3> QED BY <3>1, <3>2
    <2>2. f.count = Cardinality(LiveOnes(f))
      <3>1. LiveOnes(e) \subseteq Ctls BY DEF LiveOnes
      <3>2. IsFiniteSet(LiveOnes(e)) BY <3>1, CtlsFinite
      <3> DEFINE L == LiveOnes(e)
      <3>3. e.count = Cardinality(L) BY DEF HelpersOK, Counted
      <3>4. Cardinality(L \cup New) = Cardinality(L) + Cardinality(New)
        BY <1>8, <1>11, <3>2, DisjointSize
      <3> QED BY <1>1, <1>8, <1>10, <3>3, <3>4
    <2>3. \A c \in Clients : /\ cs[c].ssl # NULL => cs[c].ssl \in InUse(f)
                             /\ (cs[c].link = "zip" /\ cs[c].z # NULL) => cs[c].z \in InUse(f)
      BY <1>10 DEF HelpersOK, Counted
    <2> QED BY <2>1, <2>2, <2>3 DEF Counted
  <1>14. Listed(f)
    <2>1. Distinct(e.list) /\ ToSet(e.list) = InUse(e) BY DEF HelpersOK, Listed
    <2>2. Distinct(f.list) /\ ToSet(f.list) = InUse(f)
      BY <1>1, <1>4, <1>6, <1>10, <1>11, <2>1, Concatenated
    <2>3. Known(f) = Known(e) \cup New BY <1>3, <1>7, <1>9 DEF Known
    <2>4. Known(f) = 1..(n + m) BY <1>3, <1>4, <2>3
    <2>5. Begun(f) = Cardinality(Known(f)) BY DEF Begun, Known
    <2>6. Cardinality(1..(n + m)) = n + m
      <3>1. n + m \in Nat BY <1>2
      <3> QED BY <3>1, FS_Interval
    <2> QED BY <2>2, <2>4, <2>5, <2>6 DEF Listed
  <1>15. Single(f) BY <1>7, <1>9 DEF HelpersOK, Single
  <1>16. Placed(cs, f)
    <2>1. \A c \in Clients, what \in {"A", "C", "Z"} : <<c, what>> \in Ids BY DEF Ids
    <2>2. ASSUME NEW c \in Clients, NEW what \in {"A", "C", "Z"}, NEW k \in Ctls,
                 Copies(f.ctl[k], <<c, what>>) > 0
          PROVE  Fits(cs[c], what, k)
      <3> DEFINE id == <<c, what>>
      <3>1. id \in Ids /\ Copies(f.ctl[k], id) > 0 BY <2>1, <2>2
      <3> HIDE DEF id
      <3>2. k \notin New BY <1>7, <1>9, <3>1
      <3>3. f.ctl[k] = e.ctl[k] BY <1>9, <3>2
      <3> QED BY <2>2, <3>3 DEF HelpersOK, Placed
    <2> QED BY <2>2 DEF Placed
  <1>17. HelpersOK(cs, f) BY <1>12, <1>13, <1>14, <1>15, <1>16 DEF HelpersOK
  <1> QED BY <1>1, <1>17 DEF f

Kept(cs, e, f) == HelpersOK(cs, f) /\ f.cl = e.cl /\ f.lis = e.lis

\* start_ssldaemon(): put off, or with some helpers started.
LEMMA StartOK ==
    ASSUME NEW cs, NEW e, HelpersOK(cs, e), NEW n \in Nat, NEW f \in start_ssldaemon(e, n)
    PROVE  Kept(cs, e, f)
  <1> DEFINE left == NCtls - Begun(e)
             more == IF e.spin > MaxSpin THEN e.spin ELSE e.spin + 1
             g == Timers(e, more, e.wait, e.ev)
             late == Timers(e, e.spin, TRUE, TRUE)
             b == IF n < left THEN n ELSE left
  <1>1. \/ f = e
        \/ \E m \in 0..b : f = allocate_ssl_daemon(g, m)
        \/ f = late
    <2> DEFINE A == {allocate_ssl_daemon(x, m) : x \in {g}, m \in 0..b}
               B == IF e.spin > MaxSpin THEN {late} ELSE {}
    <2>1. start_ssldaemon(e, n) = IF e.wait THEN {e} ELSE A \cup B BY DEF start_ssldaemon
    <2>2. f = e \/ f \in A \/ f \in B
      <3> HIDE DEF A, B
      <3> QED BY <2>1
    <2>3. f \in B => f = late OBVIOUS
    <2>4. f \in A => \E m \in 0..b : f = allocate_ssl_daemon(g, m)
      <3> HIDE DEF b, g
      <3> QED OBVIOUS
    <2> HIDE DEF A, B, b, g, late
    <2> QED BY <2>2, <2>3, <2>4
  <1>2. CASE f = e BY <1>2 DEF Kept
  <1>3. Same(e, g) BY TimersIs
  <1>4. CASE \E m \in 0..b : f = allocate_ssl_daemon(g, m)
    <2>1. HelpersOK(cs, g)
      <3> HIDE DEF g
      <3> QED BY <1>3, SameOK DEF Same
    <2>2. PICK m \in 0..b : f = allocate_ssl_daemon(g, m) BY <1>4
    <2>3. m \in Nat /\ m <= NCtls - Begun(g)
      <3>1. Begun(g) = Begun(e)
        <4> HIDE DEF g
        <4> QED BY <1>3 DEF Same, Begun
      <3>2. Begun(e) \in Nat
        <4>1. Known(e) \subseteq Ctls /\ Begun(e) = Cardinality(Known(e)) BY DEF Known, Begun
        <4> QED BY <4>1, CtlsFinite
      <3> HIDE DEF g
      <3> QED BY <3>1, <3>2, ConstAssumption
    <2> HIDE DEF g
    <2>4. HelpersOK(cs, f) /\ f.cl = g.cl /\ f.lis = g.lis BY <2>1, <2>2, <2>3, AllocateOK
    <2> QED BY <1>3, <2>4 DEF Kept, Same
  <1>5. CASE f = late
    <2> DEFINE tt == TRUE
    <2>2. f = Timers(e, e.spin, tt, tt) BY <1>5
    <2> HIDE DEF tt
    <2>1. Same(e, f) BY <2>2, TimersIs
    <2> QED BY <2>1, SameOK DEF Kept, Same
  <1> HIDE DEF b, g, late
  <1> QED BY <1>1, <1>2, <1>4, <1>5

\* ssl_dead(): the helper is counted off once, and another may be started.
LEMMA DeadOK ==
    ASSUME NEW cs, NEW e, HelpersOK(cs, e), NEW k \in Ctls, NEW f \in ssl_dead(e, k)
    PROVE  Kept(cs, e, f)
  <1>1. CASE e.ctl[k].st # "live"
    <2>1. f = e BY <1>1 DEF ssl_dead
    <2> QED BY <2>1 DEF Kept
  <1>2. CASE e.ctl[k].st = "live"
    <2> DEFINE cts == [e.ctl EXCEPT ![k] = Killed(e.ctl[k])]
               g == Daemons(e, cts, e.list, e.count - 1)
    <2>1. f \in start_ssldaemon(g, 1) BY <1>2 DEF ssl_dead
    <2>2. g.cl = e.cl /\ g.lis = e.lis /\ g.ctl = cts /\ g.list = e.list /\ g.count = e.count - 1
      BY DaemonsIs
    <2> HIDE DEF g
    <2>3. e.ctl \in [Ctls -> Ctl] BY DEF HelpersOK, TypesOK
    <2>4. g.ctl = [x \in Ctls |-> IF x \in {k} THEN Killed(e.ctl[x]) ELSE e.ctl[x]] BY <2>2, <2>3
    <2>5. {k} \subseteq LiveOnes(e) BY <1>2 DEF LiveOnes
    <2>6. Cardinality({k}) = 1 BY FS_Singleton
    <2> DEFINE K == {k}
    <2> HIDE DEF K
    <2>7. /\ K \subseteq LiveOnes(e) /\ g.count = e.count - Cardinality(K)
          /\ g.ctl = [x \in Ctls |-> IF x \in K THEN Killed(e.ctl[x]) ELSE e.ctl[x]]
      BY <2>2, <2>4, <2>5, <2>6 DEF K
    <2>8. HelpersOK(cs, g) BY <2>2, <2>7, KillOK
    <2>9. Kept(cs, g, f) BY <2>1, <2>8, StartOK
    <2> QED BY <2>2, <2>9 DEF Kept
  <1> QED BY <1>1, <1>2

\* ssl_write_ctl(): commands move to the helper, or it is found dead.
LEMMA WriteOK ==
    ASSUME NEW cs, NEW e, HelpersOK(cs, e), NEW k \in Ctls, NEW f \in ssl_write_ctl(e, k)
    PROVE  Kept(cs, e, f)
  <1> DEFINE h == e.ctl[k]
  <1>1. \/ f = e
        \/ f \in ssl_dead(e, k)
        \/ \E S \in SUBSET DOMAIN h.writeq : f = Only(e, k, Sent(h, S))
    BY DEF ssl_write_ctl
  <1>2. CASE f = e BY <1>2 DEF Kept
  <1>3. CASE f \in ssl_dead(e, k) BY <1>3, DeadOK
  <1>4. CASE \E S \in SUBSET DOMAIN h.writeq : f = Only(e, k, Sent(h, S))
    <2>1. PICK S \in SUBSET DOMAIN h.writeq : f = Only(e, k, Sent(h, S)) BY <1>4
    <2>2. h \in Ctl BY DEF HelpersOK, TypesOK
    <2> DEFINE g == Sent(h, S)
    <2>3. Lighter(h, g) /\ g.st = h.st
      <3> HIDE DEF h
      <3> QED BY <2>2, SentIs
    <2>4. f = Only(e, k, g) BY <2>1
    <2> HIDE DEF g
    <2> QED BY <2>3, <2>4, OnlyOK DEF Kept
  <1> QED BY <1>1, <1>2, <1>3, <1>4

\* A command may be queued that asks for a connection nobody has.
MayAsk(cs, e, k, m) ==
    \A id \in Ids : m = Take(id) =>
       /\ \A h \in Ctls : Copies(e.ctl[h], id) = 0
       /\ Fits(cs[id[1]], id[2], k)

\* A command for what nobody has makes this helper its one holder.
LEMMA QueueOK ==
    ASSUME NEW cs, NEW e, HelpersOK(cs, e), NEW k \in Ctls, NEW m \in Cmd, MayAsk(cs, e, k, m),
           NEW f \in ssl_cmd_write_queue(e, k, m)
    PROVE  Kept(cs, e, f)
  <1>1. CASE e.ctl[k].st # "live"
    <2>1. f = e BY <1>1 DEF ssl_cmd_write_queue
    <2> QED BY <2>1 DEF Kept
  <1>2. CASE e.ctl[k].st = "live"
    <2> DEFINE h == e.ctl[k]
               w == Writing(h, Append(h.writeq, m))
               g == Only(e, k, w)
    <2>1. f \in ssl_write_ctl(g, k) BY <1>2 DEF ssl_cmd_write_queue
    <2>2. /\ g.cl = e.cl /\ g.lis = e.lis /\ g.ctl = [e.ctl EXCEPT ![k] = w]
          /\ g.list = e.list /\ g.count = e.count
      BY DaemonsIs DEF Only
    <2>3. e.ctl \in [Ctls -> Ctl] /\ h \in Ctl BY DEF HelpersOK, TypesOK
    <2>4. /\ w \in Ctl /\ w.st = h.st /\ w.cli_count = h.cli_count
          /\ \A id \in Ids : Copies(w, id) = IF m = Take(id) THEN Copies(h, id) + 1 ELSE Copies(h, id)
      <3> HIDE DEF h
      <3> QED BY <2>3, WritingIs
    <2> HIDE DEF g, w
    <2>5. g.ctl \in [Ctls -> Ctl] /\ \A x \in Ctls : g.ctl[x] = IF x = k THEN w ELSE e.ctl[x]
      BY <2>2, <2>3, <2>4
    <2>6. InUse(g) = InUse(e) /\ LiveOnes(g) = LiveOnes(e) /\ Known(g) = Known(e)
      BY <2>4, <2>5 DEF InUse, LiveOnes, Known
    <2>7. TypesOK(g) BY <2>2, <2>5 DEF HelpersOK, TypesOK
    <2>8. Counted(cs, g)
      <3>1. \A x \in Ctls : g.ctl[x].cli_count = e.ctl[x].cli_count BY <2>4, <2>5
      <3> QED BY <2>2, <2>6, <3>1 DEF HelpersOK, Counted
    <2>9. Listed(g)
      <3>1. Begun(g) = Begun(e) BY <2>6 DEF Begun, Known
      <3> QED BY <2>2, <2>6, <3>1 DEF HelpersOK, Listed
    <2>10. \A x \in Ctls, id \in Ids :
             Copies(g.ctl[x], id) = IF x = k /\ m = Take(id) THEN 1 ELSE Copies(e.ctl[x], id)
      <3>1. ASSUME NEW x \in Ctls, NEW id \in Ids
            PROVE  Copies(g.ctl[x], id) = IF x = k /\ m = Take(id) THEN 1 ELSE Copies(e.ctl[x], id)
        <4>1. m = Take(id) => Copies(h, id) = 0 BY DEF MayAsk
        <4> QED BY <2>4, <2>5, <4>1
      <3> QED BY <3>1
    <2>11. Single(g)
      <3>1. ASSUME NEW id \in Ids, NEW x \in Ctls
            PROVE  /\ Copies(g.ctl[x], id) \in Nat /\ Copies(g.ctl[x], id) <= 1
                   /\ \A y \in Ctls : y # x => Copies(g.ctl[x], id) = 0 \/ Copies(g.ctl[y], id) = 0
        <4>1. /\ Copies(e.ctl[x], id) \in Nat /\ Copies(e.ctl[x], id) <= 1
              /\ \A y \in Ctls : y # x => Copies(e.ctl[x], id) = 0 \/ Copies(e.ctl[y], id) = 0
          BY DEF HelpersOK, Single
        <4>2. m = Take(id) => \A y \in Ctls : Copies(e.ctl[y], id) = 0 BY DEF MayAsk
        <4> QED BY <2>10, <4>1, <4>2
      <3> QED BY <3>1 DEF Single
    <2>12. Placed(cs, g)
      <3>1. ASSUME NEW c \in Clients, NEW what \in {"A", "C", "Z"}, NEW x \in Ctls,
                   Copies(g.ctl[x], <<c, what>>) > 0
            PROVE  Fits(cs[c], what, x)
        <4> DEFINE id == <<c, what>>
        <4>1. id \in Ids /\ id[1] = c /\ id[2] = what BY DEF Ids
        <4> HIDE DEF id
        <4>2. CASE x = k /\ m = Take(id)
          BY <4>1, <4>2 DEF MayAsk
        <4>3. CASE ~(x = k /\ m = Take(id))
          <5>1. Copies(e.ctl[x], id) > 0 BY <2>10, <3>1, <4>1, <4>3 DEF id
          <5> QED BY <5>1 DEF HelpersOK, Placed, id
        <4> QED BY <4>2, <4>3
      <3> QED BY <3>1 DEF Placed
    <2>13. HelpersOK(cs, g) BY <2>7, <2>8, <2>9, <2>11, <2>12 DEF HelpersOK
    <2>14. Kept(cs, g, f) BY <2>1, <2>13, WriteOK
    <2> QED BY <2>2, <2>14 DEF Kept
  <1> QED BY <1>1, <1>2

LEMMA KeptTwice ==
    ASSUME NEW cs, NEW e, NEW f, NEW g, Kept(cs, e, f), Kept(cs, f, g)
    PROVE  Kept(cs, e, g)
  BY DEF Kept

\* New keys may be asked for at any time.
LEMMA KeysOK ==
    ASSUME NEW cs, NEW e, HelpersOK(cs, e), NEW k \in Ctls, NEW f \in ssl_cmd_write_queue(e, k, Keys)
    PROVE  Kept(cs, e, f)
  <1>1. Keys \in Cmd /\ MayAsk(cs, e, k, Keys) BY TakeIs DEF MayAsk
  <1> DEFINE m == Keys
  <1>2. m \in Cmd /\ MayAsk(cs, e, k, m) /\ f \in ssl_cmd_write_queue(e, k, m) BY <1>1
  <1> HIDE DEF m
  <1> QED BY <1>2, QueueOK

\* A command that takes no connection.
LEMMA ToldOK ==
    ASSUME NEW cs, NEW e, HelpersOK(cs, e), NEW k \in Ctls, NEW cmd, NEW f \in Told(e, k, cmd)
    PROVE  Kept(cs, e, f)
  <1>1. f \in ssl_cmd_write_queue(e, k, Keys) \/ f \in ssl_dead(e, k) \/ f \in ssl_write_ctl(e, k)
    BY DEF Told
  <1> QED BY <1>1, KeysOK, DeadOK, WriteOK

\* The outcomes of a command to helper k, from any of the states in F.
ToldAll(F, k, cmd) == UNION {Told(f, k, cmd) : f \in F}

\* a[i] are the outcomes of a command to the first i of ks, up to m.
Tells(a, e, ks, cmd, m) ==
    a = [i \in 0..m |-> IF i = 0 THEN {e} ELSE ToldAll(a[i - 1], ks[i], cmd)]

\* The recursion of EachTold has a solution.
LEMMA TellsExists ==
    ASSUME NEW e, NEW ks, NEW cmd, NEW n \in Nat
    PROVE  \E a : Tells(a, e, ks, cmd, n)
  <1> DEFINE S == {m \in 0..n : \E a : Tells(a, e, ks, cmd, m)}
  <1>1. 0 \in S
    <2>1. Tells([i \in 0..0 |-> {e}], e, ks, cmd, 0) BY DEF Tells
    <2>2. 0 \in 0..n OBVIOUS
    <2> QED BY <2>1, <2>2
  <1>2. ASSUME NEW m \in 0..(n - 1), m \in S PROVE m + 1 \in S
    <2>1. PICK a : Tells(a, e, ks, cmd, m) BY <1>2
    <2> DEFINE b == [i \in 0..(m + 1) |-> IF i <= m THEN a[i] ELSE ToldAll(a[m], ks[m + 1], cmd)]
    <2>2. m \in Nat OBVIOUS
    <2>3. \A i \in 0..m : b[i] = a[i] BY <2>2
    <2>4. b[m + 1] = ToldAll(a[m], ks[m + 1], cmd) BY <2>2
    <2>5. \A i \in 0..m : a[i] = IF i = 0 THEN {e} ELSE ToldAll(a[i - 1], ks[i], cmd)
      BY <2>1 DEF Tells
    <2>6. b = [i \in 0..(m + 1) |-> b[i]] OBVIOUS
    <2> HIDE DEF b
    <2>7. ASSUME NEW i \in 0..(m + 1)
          PROVE  b[i] = IF i = 0 THEN {e} ELSE ToldAll(b[i - 1], ks[i], cmd)
      <3>1. CASE i \in 0..m
        <4>1. i # 0 => i - 1 \in 0..m BY <2>2
        <4> QED BY <2>3, <2>5, <3>1, <4>1
      <3>2. CASE i = m + 1
        <4>1. i # 0 /\ i - 1 = m /\ m \in 0..m BY <2>2, <3>2
        <4> QED BY <2>3, <2>4, <3>2, <4>1
      <3> QED BY <2>2, <3>1, <3>2
    <2>8. Tells(b, e, ks, cmd, m + 1) BY <2>6, <2>7 DEF Tells
    <2>9. m + 1 \in 0..n OBVIOUS
    <2> QED BY <2>8, <2>9
  <1>3. 0..n \subseteq S
    <2> HIDE DEF S
    <2> QED BY <1>1, <1>2, UpTo
  <1>4. n \in S BY <1>3
  <1> QED BY <1>4

\* Helpers are told in turn, while some are found dead and others started.
LEMMA EachToldOK ==
    ASSUME NEW cs, NEW e, HelpersOK(cs, e), NEW ks \in Seq(Ctls), NEW cmd, NEW f \in EachTold(e, ks, cmd)
    PROVE  Kept(cs, e, f)
  <1> DEFINE n == Len(ks)
             after == CHOOSE a : a = [i \in 0..Len(ks) |->
                        IF i = 0 THEN {e} ELSE UNION {Told(g, ks[i], cmd) : g \in a[i - 1]}]
  <1>1. n \in Nat /\ \A i \in 1..n : ks[i] \in Ctls OBVIOUS
  <1>2. \E a : a = [i \in 0..Len(ks) |->
                 IF i = 0 THEN {e} ELSE UNION {Told(g, ks[i], cmd) : g \in a[i - 1]}]
    <2>1. Len(ks) \in Nat OBVIOUS
    <2>2. PICK a : Tells(a, e, ks, cmd, Len(ks)) BY <2>1, TellsExists
    <2> QED BY <2>2, Zenon DEF Tells, ToldAll
  <1>3. after = [i \in 0..Len(ks) |->
                   IF i = 0 THEN {e} ELSE UNION {Told(g, ks[i], cmd) : g \in after[i - 1]}]
    BY <1>2, Zenon
  <1>4. EachTold(e, ks, cmd) = after[Len(ks)] BY Zenon DEF EachTold
  <1> HIDE DEF after
  <1>5. Tells(after, e, ks, cmd, n) BY <1>3, Zenon DEF Tells, ToldAll
  <1> HIDE DEF n
  <1>6. \A i \in 0..n : after[i] = IF i = 0 THEN {e} ELSE ToldAll(after[i - 1], ks[i], cmd)
    BY <1>5 DEF Tells
  <1> DEFINE S == {i \in 0..n : \A g \in after[i] : Kept(cs, e, g)}
  <1>7. 0 \in S
    <2>1. after[0] = {e} /\ 0 \in 0..n BY <1>1, <1>6
    <2>2. Kept(cs, e, e) BY DEF Kept
    <2> QED BY <2>1, <2>2
  <1>8. ASSUME NEW i \in 0..(n - 1), i \in S PROVE i + 1 \in S
    <2>1. i + 1 \in 1..n /\ i + 1 \in 0..n /\ (i + 1) - 1 = i /\ i + 1 # 0 BY <1>1
    <2>2. after[i + 1] = ToldAll(after[i], ks[i + 1], cmd) BY <1>6, <2>1
    <2>3. ASSUME NEW g \in after[i + 1] PROVE Kept(cs, e, g)
      <3> DEFINE k == ks[i + 1]
      <3>1. k \in Ctls BY <1>1, <2>1
      <3> HIDE DEF k
      <3>2. PICK h \in after[i] : g \in Told(h, k, cmd) BY <2>2 DEF ToldAll, k
      <3>3. Kept(cs, e, h) BY <1>8
      <3>4. Kept(cs, h, g) BY <3>1, <3>2, <3>3, ToldOK DEF Kept
      <3> QED BY <3>3, <3>4, KeptTwice
    <2> QED BY <2>1, <2>3
  <1>9. 0..n \subseteq S
    <2> HIDE DEF S
    <2> QED BY <1>1, <1>7, <1>8, UpTo
  <1>10. \A g \in after[n] : Kept(cs, e, g) BY <1>1, <1>9
  <1> QED BY <1>4, <1>10 DEF n

\* Missing helpers are started.
LEMMA TopUpOK ==
    ASSUME NEW cs, NEW e, HelpersOK(cs, e), NEW f \in top_up(e)
    PROVE  Kept(cs, e, f)
  <1>1. CASE SsldCount > e.count
    <2>1. SsldCount - e.count \in Nat BY <1>1, ConstAssumption DEF HelpersOK, TypesOK
    <2>2. f \in start_ssldaemon(e, SsldCount - e.count) BY <1>1 DEF top_up
    <2> QED BY <2>1, <2>2, StartOK
  <1>2. CASE ~(SsldCount > e.count)
    <2>1. f = e BY <1>2 DEF top_up
    <2> QED BY <2>1 DEF Kept
  <1> QED BY <1>1, <1>2

\* load_conf_settings().
LEMMA LoadOK ==
    ASSUME NEW cs, NEW e, HelpersOK(cs, e), NEW good, NEW f \in load_conf_settings(e, good)
    PROVE  Kept(cs, e, f)
  <1> DEFINE s == Secured(e, good)
             G == IF good THEN send_new_ssl_certs(s) ELSE {s}
  <1>1. Same(e, s) BY SecuredIs
  <1>2. PICK g \in G : f \in top_up(g) BY DEF load_conf_settings
  <1>3. g = s \/ g \in EachTold(s, s.list, "K") BY DEF send_new_ssl_certs
  <1> HIDE DEF s
  <1>4. Kept(cs, e, s) BY <1>1, SameOK DEF Same, Kept
  <1>5. HelpersOK(cs, s) /\ s.list \in Seq(Ctls) BY <1>4 DEF Kept, HelpersOK, TypesOK
  <1>6. Kept(cs, s, g)
    <2>1. CASE g = s BY <1>5, <2>1 DEF Kept
    <2>2. CASE g \in EachTold(s, s.list, "K") BY <1>5, <2>2, EachToldOK
    <2> QED BY <1>3, <2>1, <2>2
  <1>7. Kept(cs, g, f) BY <1>2, <1>6, TopUpOK DEF Kept
  <1> QED BY <1>4, <1>6, <1>7, KeptTwice

\* A set of numbers has a least one.
LEMMA Least ==
    ASSUME NEW S \in SUBSET Nat, S # {}
    PROVE  \E m \in S : \A j \in S : m <= j
  <1>1. PICK x \in S : \A y \in S : ~(<<y, x>> \in OpToRel(<, Nat))
    BY NatLessThanWellFounded, WFMin
  <1>2. \A y \in S : ~(y < x) BY <1>1 DEF OpToRel
  <1> QED BY <1>2

\* No counter is below 0.
LEMMA CountNat ==
    ASSUME NEW cs, NEW e, HelpersOK(cs, e), NEW k \in Ctls
    PROVE  e.ctl[k].cli_count \in Nat
  <1>1. Secures(cs, k) \subseteq Clients /\ Zips_at(cs, k) \subseteq Clients BY DEF Secures, Zips_at
  <1>2. Cardinality(Secures(cs, k)) \in Nat /\ Cardinality(Zips_at(cs, k)) \in Nat
    BY <1>1, ClientsFinite
  <1> QED BY <1>2 DEF HelpersOK, Counted

\* The helper that is chosen is alive.
LEMMA WhichIs ==
    ASSUME NEW cs, NEW e, HelpersOK(cs, e), which_ssld(e) # NULL
    PROVE  which_ssld(e) \in LiveOnes(e)
  <1> DEFINE alive == {i \in DOMAIN e.list : e.ctl[e.list[i]].st = "live"}
             n(i) == e.ctl[e.list[i]].cli_count
             least == {i \in alive : \A j \in alive : n(i) <= n(j)}
             first == CHOOSE i \in least : \A j \in least : i <= j
  <1>1. e.list \in Seq(Ctls) BY DEF HelpersOK, TypesOK
  <1>2. which_ssld(e) = IF alive = {} THEN NULL ELSE e.list[first] BY DEF which_ssld
  <1>3. alive # {} BY <1>2
  <1>4. \A i \in alive : i \in Nat /\ e.list[i] \in Ctls /\ n(i) \in Nat
    <2>1. \A i \in alive : i \in 1..Len(e.list) /\ e.list[i] \in Ctls BY <1>1
    <2> QED BY <2>1, CountNat
  <1>5. least # {}
    <2> DEFINE N == {n(i) : i \in alive}
    <2>1. N \in SUBSET Nat /\ N # {}
      <3> HIDE DEF n
      <3> QED BY <1>3, <1>4
    <2>2. PICK m \in N : \A j \in N : m <= j
      <3> HIDE DEF N
      <3> QED BY <2>1, Least
    <2> HIDE DEF n
    <2>3. PICK i \in alive : m = n(i) OBVIOUS
    <2>4. \A j \in alive : n(i) <= n(j) BY <2>2, <2>3
    <2> QED BY <2>4
  <1>6. first \in least
    <2>1. least \in SUBSET Nat BY <1>4
    <2> HIDE DEF least
    <2>2. \E i \in least : \A j \in least : i <= j BY <1>5, <2>1, Least
    <2> QED BY <2>2
  <1>7. first \in alive BY <1>6
  <1> HIDE DEF first
  <1>8. e.list[first] \in Ctls /\ e.ctl[e.list[first]].st = "live" BY <1>4, <1>7
  <1> QED BY <1>2, <1>3, <1>8 DEF LiveOnes

\* Dead helpers that nobody uses are freed.
LEMMA FreeOK ==
    ASSUME NEW cs, NEW e, HelpersOK(cs, e), NEW ks, ks \subseteq Spare(e)
    PROVE  Kept(cs, e, free_ssl_daemon(e, ks))
  <1> DEFINE f == free_ssl_daemon(e, ks)
             cts == [k \in Ctls |-> IF k \in ks THEN Freed(e.ctl[k]) ELSE e.ctl[k]]
             list == Without(e.list, ks)
  <1>1. f.cl = e.cl /\ f.lis = e.lis /\ f.ctl = cts /\ f.list = list /\ f.count = e.count
    <2>1. f = Daemons(e, cts, list, e.count) BY DEF free_ssl_daemon
    <2> HIDE DEF f, cts, list
    <2> QED BY <2>1, DaemonsIs
  <1>2. /\ e.ctl \in [Ctls -> Ctl] /\ e.list \in Seq(Ctls) /\ e.count \in Int
        /\ Distinct(e.list) /\ ToSet(e.list) = InUse(e)
    BY DEF HelpersOK, TypesOK, Listed
  <1>3. list \in Seq(Ctls) /\ ToSet(list) = InUse(e) \ ks BY <1>2, WithoutElements
  <1>4. Distinct(list) BY <1>2, WithoutDistinct
  <1>5. \A k \in ks : k \in Ctls /\ e.ctl[k].st = "dead" /\ e.ctl[k].cli_count = 0 BY DEF Spare
  <1>6. \A k \in Ctls : /\ Lighter(e.ctl[k], Freed(e.ctl[k])) /\ Freed(e.ctl[k]).st = "freed"
                        /\ Lighter(e.ctl[k], e.ctl[k])
    BY <1>2, FreedIs, LighterSelf
  <1>7. \A k \in Ctls : f.ctl[k] = IF k \in ks THEN Freed(e.ctl[k]) ELSE e.ctl[k] BY <1>1
  <1> HIDE DEF f, cts, list
  <1>8. \A k \in Ctls : Lighter(e.ctl[k], f.ctl[k]) BY <1>6, <1>7
  <1>9. \A k \in Ctls : f.ctl[k].st = IF k \in ks THEN "freed" ELSE e.ctl[k].st BY <1>6, <1>7
  <1>10. InUse(f) = InUse(e) \ ks /\ LiveOnes(f) = LiveOnes(e) /\ Known(f) = Known(e)
    BY <1>5, <1>9 DEF InUse, LiveOnes, Known
  <1>11. TypesOK(f)
    <2>1. \A k \in Ctls : f.ctl[k] \in Ctl BY <1>8 DEF Lighter
    <2>2. f.ctl \in [Ctls -> Ctl] BY <1>1, <2>1 DEF cts
    <2> QED BY <1>1, <1>2, <1>3, <2>2 DEF TypesOK
  <1>12. Counted(cs, f)
    <2>1. \A k \in Ctls : f.ctl[k].cli_count = e.ctl[k].cli_count BY <1>8 DEF Lighter
    <2>2. ASSUME NEW c \in Clients PROVE cs[c].ssl \notin ks /\ (cs[c].link = "zip" => cs[c].z \notin ks)
      <3>1. ASSUME NEW k \in ks PROVE Secures(cs, k) = {} /\ Zips_at(cs, k) = {}
        <4>1. Secures(cs, k) \subseteq Clients /\ Zips_at(cs, k) \subseteq Clients
          BY DEF Secures, Zips_at
        <4>2. Cardinality(Secures(cs, k)) + Cardinality(Zips_at(cs, k)) = 0
          BY <1>5 DEF HelpersOK, Counted
        <4> DEFINE A == Secures(cs, k)
                   B == Zips_at(cs, k)
        <4> HIDE DEF A, B
        <4>3. /\ IsFiniteSet(A) /\ IsFiniteSet(B)
              /\ Cardinality(A) \in Nat /\ Cardinality(B) \in Nat
              /\ Cardinality(A) + Cardinality(B) = 0
          BY <4>1, <4>2, ClientsFinite DEF A, B
        <4>4. Cardinality(A) = 0 /\ Cardinality(B) = 0 BY <4>3
        <4>5. A = {} /\ B = {} BY <4>3, <4>4, FS_EmptySet
        <4> QED BY <4>5 DEF A, B
      <3> QED BY <3>1 DEF Secures, Zips_at
    <2> QED BY <1>1, <1>10, <2>1, <2>2 DEF HelpersOK, Counted
  <1>13. Listed(f)
    <2>1. Begun(f) = Begun(e) BY <1>10 DEF Begun, Known
    <2> QED BY <1>1, <1>3, <1>4, <1>10, <2>1 DEF HelpersOK, Listed
  <1>14. Fewer(e, f) BY <1>2, <1>8, CopiesAre DEF Lighter, Fewer
  <1>15. Single(f) /\ Placed(cs, f) BY <1>14, FewerOK DEF HelpersOK
  <1>16. HelpersOK(cs, f) BY <1>11, <1>12, <1>13, <1>15 DEF HelpersOK
  <1> QED BY <1>1, <1>16 DEF Kept, f
-----------------------------------------------------------------------------
(* Clients change.                                                          *)

\* A client y counts where x did, and what helpers have of x they may have of y.
Alike(x, y) ==
    /\ y.ssl = x.ssl
    /\ \A k \in Ctls : (y.link = "zip" /\ y.z = k) <=> (x.link = "zip" /\ x.z = k)
    /\ \A what \in {"A", "C", "Z"}, k \in Ctls : Fits(x, what, k) => Fits(y, what, k)

\* Clients that count as before leave the helpers right.
LEMMA AlikeOK ==
    ASSUME NEW cs \in [Clients -> Client], NEW ds \in [Clients -> Client], NEW e,
           HelpersOK(cs, e), \A c \in Clients : Alike(cs[c], ds[c])
    PROVE  HelpersOK(ds, e)
  <1>1. \A k \in Ctls : Secures(ds, k) = Secures(cs, k) /\ Zips_at(ds, k) = Zips_at(cs, k)
    BY DEF Secures, Zips_at, Alike
  <1>2. ASSUME NEW c \in Clients
        PROVE  /\ ds[c].ssl # NULL => ds[c].ssl \in InUse(e)
               /\ (ds[c].link = "zip" /\ ds[c].z # NULL) => ds[c].z \in InUse(e)
    <2>1. ds[c] \in Client /\ Alike(cs[c], ds[c]) OBVIOUS
    <2>2. ds[c].z \in Ctls \cup {NULL} BY <2>1 DEF Client
    <2>3. /\ cs[c].ssl # NULL => cs[c].ssl \in InUse(e)
          /\ (cs[c].link = "zip" /\ cs[c].z # NULL) => cs[c].z \in InUse(e)
      BY DEF HelpersOK, Counted
    <2> QED BY <2>1, <2>2, <2>3, ConstAssumption DEF Alike
  <1>3. Counted(ds, e) BY <1>1, <1>2 DEF HelpersOK, Counted
  <1>4. Placed(ds, e)
    <2>1. ASSUME NEW c \in Clients, NEW what \in {"A", "C", "Z"}, NEW k \in Ctls,
                 Copies(e.ctl[k], <<c, what>>) > 0
          PROVE  Fits(ds[c], what, k)
      <3>1. Fits(cs[c], what, k) BY <2>1 DEF HelpersOK, Placed
      <3>2. Alike(cs[c], ds[c]) OBVIOUS
      <3> QED BY <3>1, <3>2 DEF Alike
    <2> QED BY <2>1 DEF Placed
  <1> QED BY <1>3, <1>4 DEF HelpersOK

\* Client c becomes one that is counted at helper k, for SSL or compression.
Joins(x, y, what, k) ==
    /\ x.st \notin {"unused", "freed"} /\ y.st \notin {"unused", "freed"}
    /\ what = "Z" => x.link = "plain" /\ y.ssl = x.ssl /\ y.link = "zip" /\ y.z = k
    /\ what # "Z" => x.ssl = NULL /\ y.ssl = k /\ y.link = x.link /\ y.z = x.z

Kinds == {"A", "C", "Z"}

\* The counter of helper k and the client that is counted change together.
LEMMA JoinsOK ==
    ASSUME NEW cs \in [Clients -> Client], NEW ds \in [Clients -> Client], NEW e, NEW f,
           HelpersOK(cs, e), NEW k \in InUse(e), NEW c \in Clients, NEW what \in Kinds,
           Joins(cs[c], ds[c], what, k), \A d \in Clients : d # c => ds[d] = cs[d],
           f = Only(e, k, Serving(e.ctl[k], e.ctl[k].cli_count + 1))
    PROVE  HelpersOK(ds, f) /\ MayAsk(ds, f, k, Take(<<c, what>>)) /\ f.cl = e.cl /\ f.lis = e.lis
  <1> DEFINE h == e.ctl[k]
             n == h.cli_count + 1
             g == Serving(h, n)
             id == <<c, what>>
  <1>1. k \in Ctls /\ e.ctl \in [Ctls -> Ctl] /\ h \in Ctl /\ n \in Int /\ n = h.cli_count + 1
    BY DEF InUse, HelpersOK, TypesOK, Ctl
  <1>2. f = Only(e, k, g) OBVIOUS
  <1> HIDE DEF h, n
  <1>3. g \in Ctl /\ g.st = h.st /\ g.cli_count = n /\ \A x \in Ids : Copies(g, x) = Copies(h, x)
    BY <1>1, ServingIs
  <1> HIDE DEF g
  <1>4. /\ f.cl = e.cl /\ f.lis = e.lis /\ f.list = e.list /\ f.count = e.count
        /\ f.ctl = [e.ctl EXCEPT ![k] = g]
    BY <1>2, DaemonsIs DEF Only
  <1>5. f.ctl \in [Ctls -> Ctl] /\ \A x \in Ctls : f.ctl[x] = IF x = k THEN g ELSE e.ctl[x]
    BY <1>1, <1>3, <1>4
  <1>6. InUse(f) = InUse(e) /\ LiveOnes(f) = LiveOnes(e) /\ Known(f) = Known(e)
    BY <1>3, <1>5 DEF InUse, LiveOnes, Known, h
  <1>7. \A x \in Ctls, i \in Ids : Copies(f.ctl[x], i) = Copies(e.ctl[x], i)
    BY <1>3, <1>5 DEF h
  <1>8. TypesOK(f) BY <1>4, <1>5 DEF HelpersOK, TypesOK
  <1>9. Listed(f)
    <2>1. Begun(f) = Begun(e) BY <1>6 DEF Begun, Known
    <2> QED BY <1>4, <1>6, <2>1 DEF HelpersOK, Listed
  <1>10. Single(f) BY <1>7 DEF HelpersOK, Single
  <1>11. \A w \in Kinds : <<c, w>> \in Ids BY DEF Ids, Kinds
  \* Nobody has what is about to be asked.
  <1>12. ASSUME NEW w \in Kinds, w = what \/ (w # "Z" /\ what # "Z"), NEW x \in Ctls
         PROVE  Copies(e.ctl[x], <<c, w>>) = 0
    <2>1. ~Fits(cs[c], w, x) BY <1>12, ConstAssumption DEF Joins, Fits
    <2>2. ~(Copies(e.ctl[x], <<c, w>>) > 0) BY <2>1 DEF HelpersOK, Placed, Kinds
    <2>3. Copies(e.ctl[x], <<c, w>>) \in Nat BY <1>11 DEF HelpersOK, Single
    <2> QED BY <2>2, <2>3
  <1>13. Placed(ds, f)
    <2>1. ASSUME NEW d \in Clients, NEW w \in Kinds, NEW x \in Ctls,
                 Copies(f.ctl[x], <<d, w>>) > 0
          PROVE  Fits(ds[d], w, x)
      <3>1. <<d, w>> \in Ids BY DEF Ids, Kinds
      <3>2. Copies(e.ctl[x], <<d, w>>) > 0 BY <1>7, <2>1, <3>1
      <3>3. Fits(cs[d], w, x) BY <3>2 DEF HelpersOK, Placed, Kinds
      <3>4. CASE d # c BY <3>3, <3>4
      <3>5. CASE d = c
        <4>1. ~(w = what \/ (w # "Z" /\ what # "Z")) BY <1>12, <3>2, <3>5
        <4> QED BY <3>3, <3>5, <4>1 DEF Fits, Joins
      <3> QED BY <3>4, <3>5
    <2> QED BY <2>1 DEF Placed, Kinds
  <1>14. MayAsk(ds, f, k, Take(id))
    <2>1. Fits(ds[c], what, k) BY DEF Joins, Fits
    <2>2. \A x \in Ctls : Copies(f.ctl[x], id) = 0 BY <1>7, <1>11, <1>12
    <2>3. id \in Ids /\ id[1] = c /\ id[2] = what BY <1>11
    <2> HIDE DEF id
    <2> QED BY <2>1, <2>2, <2>3, TakeIs DEF MayAsk
  <1>15. ASSUME NEW x \in Ctls
         PROVE  f.ctl[x].cli_count = Cardinality(Secures(ds, x)) + Cardinality(Zips_at(ds, x))
    <2> DEFINE A == Secures(cs, x)
               B == Zips_at(cs, x)
               C == Secures(ds, x)
               D == Zips_at(ds, x)
    <2>1. A \subseteq Clients /\ B \subseteq Clients BY DEF Secures, Zips_at
    <2>2. e.ctl[x].cli_count = Cardinality(A) + Cardinality(B) BY DEF HelpersOK, Counted
    <2>3. x # k => C = A /\ D = B BY <1>1, ConstAssumption DEF Secures, Zips_at, Joins
    <2>4. x = k /\ what = "Z" => C = A /\ D = B \cup {c} /\ c \notin B
      BY <1>1, ConstAssumption DEF Secures, Zips_at, Joins
    <2>5. x = k /\ what # "Z" => C = A \cup {c} /\ D = B /\ c \notin A
      BY <1>1, ConstAssumption DEF Secures, Zips_at, Joins
    <2>6. f.ctl[x].cli_count = IF x = k THEN e.ctl[x].cli_count + 1 ELSE e.ctl[x].cli_count
      BY <1>1, <1>3, <1>5 DEF h
    <2> HIDE DEF A, B, C, D
    <2>7. IsFiniteSet(A) /\ IsFiniteSet(B) /\ Cardinality(A) \in Nat /\ Cardinality(B) \in Nat
      BY <2>1, ClientsFinite
    <2>8. c \notin A => Cardinality(A \cup {c}) = Cardinality(A) + 1 BY <2>7, FS_AddElement
    <2>9. c \notin B => Cardinality(B \cup {c}) = Cardinality(B) + 1 BY <2>7, FS_AddElement
    <2>10. f.ctl[x].cli_count = Cardinality(C) + Cardinality(D)
      <3>1. CASE x # k BY <2>2, <2>3, <2>6, <3>1
      <3>2. CASE x = k /\ what = "Z"
        <4>1. Cardinality(C) = Cardinality(A) /\ Cardinality(D) = Cardinality(B) + 1
          BY <2>4, <2>9, <3>2
        <4> QED BY <2>2, <2>6, <2>7, <3>2, <4>1
      <3>3. CASE x = k /\ what # "Z"
        <4>1. Cardinality(C) = Cardinality(A) + 1 /\ Cardinality(D) = Cardinality(B)
          BY <2>5, <2>8, <3>3
        <4> QED BY <2>2, <2>6, <2>7, <3>3, <4>1
      <3> QED BY <3>1, <3>2, <3>3
    <2> QED BY <2>10 DEF C, D
  <1>16. ASSUME NEW d \in Clients
         PROVE  /\ ds[d].ssl # NULL => ds[d].ssl \in InUse(f)
                /\ (ds[d].link = "zip" /\ ds[d].z # NULL) => ds[d].z \in InUse(f)
    <2>1. /\ cs[d].ssl # NULL => cs[d].ssl \in InUse(e)
          /\ (cs[d].link = "zip" /\ cs[d].z # NULL) => cs[d].z \in InUse(e)
      BY DEF HelpersOK, Counted
    <2>2. CASE d # c BY <1>6, <2>1, <2>2
    <2>3. CASE d = c BY <1>6, <2>1, <2>3 DEF Joins
    <2> QED BY <2>2, <2>3
  <1>17. f.count = Cardinality(LiveOnes(f)) BY <1>4, <1>6 DEF HelpersOK, Counted
  <1>18. Counted(ds, f) BY <1>15, <1>16, <1>17 DEF Counted
  <1>19. HelpersOK(ds, f) BY <1>8, <1>9, <1>10, <1>13, <1>18 DEF HelpersOK
  <1> QED BY <1>4, <1>14, <1>19 DEF id

\* A helper is asked to take what nobody has.
LEMMA SsldOK ==
    ASSUME NEW cs \in [Clients -> Client], NEW ds \in [Clients -> Client], NEW e,
           HelpersOK(cs, e), NEW k \in InUse(e), NEW c \in Clients, NEW what \in Kinds,
           Joins(cs[c], ds[c], what, k), \A d \in Clients : d # c => ds[d] = cs[d],
           NEW f \in start_ssld(e, k, <<c, what>>)
    PROVE  Kept(ds, e, f)
  <1> DEFINE g == Only(e, k, Serving(e.ctl[k], e.ctl[k].cli_count + 1))
             m == Take(<<c, what>>)
  <1>1. f \in ssl_cmd_write_queue(g, k, m) BY DEF start_ssld
  <1>2. m \in Cmd /\ k \in Ctls BY TakeIs DEF Ids, InUse, Kinds
  <1>3. HelpersOK(ds, g) /\ MayAsk(ds, g, k, m) /\ g.cl = e.cl /\ g.lis = e.lis
    <2>1. g = Only(e, k, Serving(e.ctl[k], e.ctl[k].cli_count + 1)) OBVIOUS
    <2> HIDE DEF g
    <2> QED BY <2>1, JoinsOK
  <1> HIDE DEF g, m
  <1>4. Kept(ds, g, f) BY <1>1, <1>2, <1>3, QueueOK
  <1> QED BY <1>3, <1>4 DEF Kept

States == {"unused", "unknown", "connecting", "handshake", "client", "server", "dead", "freed"}

\* A client in another state.
LEMMA BeingIs ==
    ASSUME NEW x \in Client, NEW st \in States
    PROVE  LET y == Being(x, st)
           IN  /\ y \in Client /\ y.st = st /\ y.ssl = x.ssl /\ y.link = x.link /\ y.z = x.z
               /\ y.listener = x.listener
  BY DEF Being, Client, States

LEMMA NewClientIs ==
    /\ NewClient \in Client /\ NewClient.st = "unused" /\ NewClient.ssl = NULL
    /\ NewClient.link = "plain" /\ NewClient.z = NULL /\ NewClient.listener = NULL
  BY DEF NewClient, Client

\* A client may take the place of another.
Becomes(x, y) == y \in Client /\ ClientOK(y) /\ Alike(x, y) /\ y.listener = x.listener

LEMMA SelfOK == ASSUME NEW x \in Client, ClientOK(x) PROVE Becomes(x, x)
  BY DEF Becomes, Alike

\* A client exits, and goes on being counted until it is freed.
LEMMA ExitedOK == ASSUME NEW x \in Client, ClientOK(x) PROVE Becomes(x, Exited(x))
  <1>1. CASE x.st \in Open
    <2> DEFINE st == "dead"
               y == Being(x, st)
    <2>1. st \in States BY DEF States
    <2> HIDE DEF st
    <2>2. /\ y \in Client /\ y.st = st /\ y.ssl = x.ssl /\ y.link = x.link /\ y.z = x.z
          /\ y.listener = x.listener
      BY <2>1, BeingIs
    <2>3. Exited(x) = y BY <1>1 DEF Exited, st
    <2> HIDE DEF y
    <2>4. ClientOK(y) BY <2>2 DEF ClientOK, st
    <2>5. Alike(x, y) BY <1>1, <2>2 DEF Alike, Fits, Open, Unregistered, st
    <2> QED BY <2>2, <2>3, <2>4, <2>5 DEF Becomes
  <1>2. CASE x.st \notin Open
    <2>1. Exited(x) = x BY <1>2 DEF Exited
    <2> QED BY <2>1, SelfOK
  <1> QED BY <1>1, <1>2

\* make_client().
LEMMA MadeOK ==
    ASSUME NEW x \in Client, ClientOK(x), x.st = "unused", NEW st \in {"unknown", "connecting"}
    PROVE  /\ Becomes(x, Being(NewClient, st)) /\ Being(NewClient, st).st = st
           /\ Being(NewClient, st).ssl = NULL /\ Being(NewClient, st).link = "plain"
           /\ Being(NewClient, st).z = NULL /\ Being(NewClient, st).listener = NULL
  <1> DEFINE y == Being(NewClient, st)
  <1>1. st \in States BY DEF States
  <1>2. /\ y \in Client /\ y.st = st /\ y.ssl = NULL /\ y.link = "plain" /\ y.z = NULL
        /\ y.listener = NULL
    BY <1>1, NewClientIs, BeingIs
  <1> HIDE DEF y
  <1>3. x.ssl = NULL /\ x.link = "plain" /\ x.z = NULL /\ x.listener = NULL BY DEF ClientOK
  <1>4. ClientOK(y) BY <1>2 DEF ClientOK
  <1>5. Alike(x, y) BY <1>2, <1>3 DEF Alike, Fits
  <1> QED BY <1>2, <1>3, <1>4, <1>5 DEF Becomes, y

\* A client that was never connected is freed.
LEMMA UnmadeOK ==
    ASSUME NEW x \in Client, x.ssl = NULL, x.link = "plain", x.listener = NULL
    PROVE  Becomes(x, Being(NewClient, "freed"))
  <1> DEFINE st == "freed"
             y == Being(NewClient, st)
  <1>1. st \in States BY DEF States
  <1> HIDE DEF st
  <1>2. /\ y \in Client /\ y.st = st /\ y.ssl = NULL /\ y.link = "plain" /\ y.z = NULL
        /\ y.listener = NULL
    BY <1>1, NewClientIs, BeingIs
  <1> HIDE DEF y
  <1>4. ClientOK(y) BY <1>2 DEF ClientOK, st
  <1>5. Alike(x, y) BY <1>2 DEF Alike, Fits, st
  <1> QED BY <1>2, <1>4, <1>5 DEF Becomes, y, st

\* A connection registers.
LEMMA RegisteredOK ==
    ASSUME NEW x \in Client, ClientOK(x), x.st \in {"unknown", "handshake"}, NEW st \in {"client", "server"}
    PROVE  Becomes(x, Being(x, st))
  <1> DEFINE y == Being(x, st)
  <1>1. st \in States BY DEF States
  <1>2. /\ y \in Client /\ y.st = st /\ y.ssl = x.ssl /\ y.link = x.link /\ y.z = x.z
        /\ y.listener = x.listener
    BY <1>1, BeingIs
  <1> HIDE DEF y
  <1>4. ClientOK(y) BY <1>2 DEF ClientOK
  <1>5. Alike(x, y) BY <1>2 DEF Alike, Fits
  <1> QED BY <1>2, <1>4, <1>5 DEF Becomes, y

\* Clients change, and nothing is counted anew.
LEMMA LocalsOK ==
    ASSUME NEW e, NEW f, AllOK(e), f.lis = e.lis, f.ctl = e.ctl, f.list = e.list, f.count = e.count,
           f.cl = [c \in Clients |-> f.cl[c]], \A c \in Clients : Becomes(e.cl[c], f.cl[c])
    PROVE  AllOK(f)
  <1>1. e.cl \in [Clients -> Client] /\ f.cl \in [Clients -> Client] BY DEF AllOK, ClientsOK, Becomes
  <1>2. ClientsOK(f.cl) BY <1>1 DEF ClientsOK, Becomes
  <1>3. HelpersOK(f.cl, e) BY <1>1, AlikeOK DEF AllOK, Becomes
  <1>4. HelpersOK(f.cl, f) BY <1>3, SameOK
  <1>5. \A l \in Ports : Came(f.cl, l) = Came(e.cl, l) BY DEF Came, Becomes
  <1>6. ListenersOK(f.cl, f.lis) BY <1>5 DEF AllOK, ListenersOK, ListenerOK
  <1> QED BY <1>2, <1>4, <1>6 DEF AllOK

\* One client changes.
LEMMA OneOK ==
    ASSUME NEW e, NEW c \in Clients, NEW y, NEW unk, AllOK(e), Becomes(e.cl[c], y)
    PROVE  AllOK(Locals(e, [e.cl EXCEPT ![c] = y], unk, e.lis))
  <1> DEFINE cs == [e.cl EXCEPT ![c] = y]
             f == Locals(e, cs, unk, e.lis)
  <1>1. e.cl \in [Clients -> Client] /\ \A d \in Clients : ClientOK(e.cl[d])
    BY DEF AllOK, ClientsOK
  <1>2. cs = [d \in Clients |-> cs[d]] /\ \A d \in Clients : cs[d] = IF d = c THEN y ELSE e.cl[d]
    BY <1>1
  <1>3. \A d \in Clients : Becomes(e.cl[d], cs[d]) BY <1>1, <1>2, SelfOK
  <1> HIDE DEF cs
  <1>4. f.cl = cs /\ f.lis = e.lis /\ f.ctl = e.ctl /\ f.list = e.list /\ f.count = e.count
    BY LocalsIs
  <1> HIDE DEF f
  <1>5. AllOK(f) BY <1>2, <1>3, <1>4, LocalsOK
  <1> QED BY <1>5 DEF f, cs

\* Any number of clients exit.
LEMMA ExitOK ==
    ASSUME NEW e, NEW gone, AllOK(e)
    PROVE  AllOK(exit_clients(e, gone))
  <1> DEFINE cs == [c \in Clients |-> IF c \in gone THEN Exited(e.cl[c]) ELSE e.cl[c]]
             unk == {c \in e.unk : c \in gone => e.cl[c].st \notin Open}
             f == Locals(e, cs, unk, e.lis)
  <1>1. \A d \in Clients : ClientOK(e.cl[d]) /\ e.cl[d] \in Client
    BY DEF AllOK, ClientsOK
  <1>2. cs = [d \in Clients |-> cs[d]] /\ \A d \in Clients : cs[d] = IF d \in gone THEN Exited(e.cl[d]) ELSE e.cl[d]
    OBVIOUS
  <1>3. \A d \in Clients : Becomes(e.cl[d], cs[d]) BY <1>1, <1>2, SelfOK, ExitedOK
  <1>4. exit_clients(e, gone) = f BY DEF exit_clients
  <1> HIDE DEF cs, unk
  <1>5. f.cl = cs /\ f.lis = e.lis /\ f.ctl = e.ctl /\ f.list = e.list /\ f.count = e.count
    BY LocalsIs
  <1> HIDE DEF f
  <1>6. AllOK(f) BY <1>2, <1>3, <1>5, LocalsOK
  <1> QED BY <1>4, <1>6

\* Only helpers change, and as they may.
LEMMA KeptOK == ASSUME NEW e, NEW f, AllOK(e), Kept(e.cl, e, f) PROVE AllOK(f)
  BY DEF AllOK, Kept

LEMMA SameAllOK == ASSUME NEW e, NEW f, AllOK(e), Same(e, f) PROVE AllOK(f)
  BY SameOK DEF AllOK, Same

\* Client c with helper k and listener l.
Newcomer(k, l) == [st |-> "unknown", ssl |-> k, link |-> "plain", z |-> NULL, listener |-> l]

LEMMA NewcomerIs ==
    ASSUME NEW k \in Ctls \cup {NULL}, NEW l \in Ports
    PROVE  LET y == Newcomer(k, l)
           IN  /\ y \in Client /\ ClientOK(y) /\ y.st = "unknown" /\ y.ssl = k /\ y.link = "plain"
               /\ y.z = NULL /\ y.listener = l
  BY DEF Newcomer, Client, ClientOK

LEMMA ReferredIs ==
    ASSUME NEW x \in Listener, NEW n \in Int
    PROVE  Referred(x, n) \in Listener /\ Referred(x, n).st = x.st /\ Referred(x, n).ref_count = n
  BY DEF Referred, Listener

\* The listener counts one client more.
LEMMA AcceptedOK ==
    ASSUME NEW e, NEW f, NEW c \in Clients, NEW k \in Ctls \cup {NULL}, NEW l \in Ports, AllOK(e),
           e.cl[c].listener = NULL, e.lis[l].st = "open",
           Kept([e.cl EXCEPT ![c] = Newcomer(k, l)], e, f)
    PROVE  AllOK(Accepted(f, c, k, l))
  <1> DEFINE y == Newcomer(k, l)
             cs == [e.cl EXCEPT ![c] = y]
             x == e.lis[l]
             n == x.ref_count + 1
             r == Referred(x, n)
             ls == [e.lis EXCEPT ![l] = r]
             g == Accepted(f, c, k, l)
  <1>1. f.cl = e.cl /\ f.lis = e.lis /\ HelpersOK(cs, f) BY DEF Kept
  <1>2. g = Locals(f, cs, f.unk, ls) BY <1>1 DEF Accepted, Newcomer
  <1>3. y \in Client /\ ClientOK(y) /\ y.listener = l BY NewcomerIs
  <1>4. e.cl \in [Clients -> Client] /\ \A d \in Clients : ClientOK(e.cl[d]) BY DEF AllOK, ClientsOK
  <1> HIDE DEF y
  <1>5. cs \in [Clients -> Client] /\ \A d \in Clients : cs[d] = IF d = c THEN y ELSE e.cl[d]
    BY <1>3, <1>4
  <1>6. ClientsOK(cs) BY <1>3, <1>4, <1>5 DEF ClientsOK
  <1>7. e.lis \in [Ports -> Listener] /\ \A p \in Ports : ListenerOK(e.cl, e.lis, p)
    BY DEF AllOK, ListenersOK
  <1>8. x \in Listener /\ n \in Int /\ n = x.ref_count + 1 /\ x.st = "open" BY <1>7 DEF Listener
  <1> HIDE DEF n, x
  <1>9. r \in Listener /\ r.st = "open" /\ r.ref_count = n BY <1>8, ReferredIs
  <1> HIDE DEF r
  <1>10. ls \in [Ports -> Listener] /\ \A p \in Ports : ls[p] = IF p = l THEN r ELSE e.lis[p]
    BY <1>7, <1>9
  <1> HIDE DEF cs, ls, g
  <1>11. ASSUME NEW p \in Ports PROVE ListenerOK(cs, ls, p)
    <2>1. CASE p # l
      <3>1. Came(cs, p) = Came(e.cl, p) BY <1>3, <1>5, <2>1, ConstAssumption DEF Came
      <3>2. ListenerOK(e.cl, e.lis, p) BY <1>7
      <3> QED BY <1>10, <2>1, <3>1, <3>2 DEF ListenerOK
    <2>2. CASE p = l
      <3>1. Came(cs, l) = Came(e.cl, l) \cup {c} /\ c \notin Came(e.cl, l) /\ Came(e.cl, l) \subseteq Clients
        BY <1>3, <1>5, ConstAssumption DEF Came
      <3> DEFINE A == Came(e.cl, l)
      <3> HIDE DEF A
      <3>2. IsFiniteSet(A) /\ Cardinality(A) \in Nat BY <3>1, ClientsFinite DEF A
      <3>3. Cardinality(A \cup {c}) = Cardinality(A) + 1 BY <3>1, <3>2, FS_AddElement DEF A
      <3>4. x.ref_count = Cardinality(A) BY <1>7 DEF ListenerOK, x, A
      <3>5. n = Cardinality(Came(cs, l)) /\ n # 0 BY <1>8, <3>1, <3>2, <3>3, <3>4 DEF A
      <3> QED BY <1>9, <1>10, <2>2, <3>5 DEF ListenerOK
    <2> QED BY <2>1, <2>2
  <1>12. ListenersOK(cs, ls) BY <1>10, <1>11 DEF ListenersOK
  <1>13. /\ g.cl = cs /\ g.lis = ls /\ g.ctl = f.ctl /\ g.list = f.list /\ g.count = f.count
    BY <1>2, LocalsIs
  <1>14. HelpersOK(cs, g)
    <2>1. HelpersOK(cs, f) BY <1>1 DEF cs
    <2> QED BY <1>13, <2>1, SameOK
  <1>15. AllOK(g) BY <1>6, <1>12, <1>13, <1>14 DEF AllOK
  <1> QED BY <1>15 DEF g

\* A connection with the help of helper k.
LEMMA AcceptOK ==
    ASSUME NEW e, NEW c \in Clients, NEW l \in Ports, AllOK(e), e.cl[c].st = "unknown",
           e.cl[c].ssl = NULL, e.cl[c].link = "plain", e.cl[c].z = NULL, e.cl[c].listener = NULL,
           e.lis[l].st = "open"
    PROVE  /\ AllOK(Accepted(e, c, NULL, l))
           /\ \A k \in InUse(e) : \A f \in start_ssld(e, k, <<c, "A">>) : AllOK(Accepted(f, c, k, l))
  <1>1. e.cl \in [Clients -> Client] /\ HelpersOK(e.cl, e) BY DEF AllOK, ClientsOK
  <1>2. ASSUME NEW k \in Ctls \cup {NULL}
        PROVE  LET ds == [e.cl EXCEPT ![c] = Newcomer(k, l)]
               IN  /\ ds \in [Clients -> Client] /\ ds[c] = Newcomer(k, l)
                   /\ \A d \in Clients : d # c => ds[d] = e.cl[d]
    <2>1. Newcomer(k, l) \in Client BY NewcomerIs
    <2> QED BY <1>1, <2>1
  <1>3. AllOK(Accepted(e, c, NULL, l))
    <2> DEFINE k == NULL
               y == Newcomer(k, l)
               ds == [e.cl EXCEPT ![c] = y]
    <2>1. k \in Ctls \cup {NULL} /\ k = NULL OBVIOUS
    <2> HIDE DEF k
    <2>2. /\ ds \in [Clients -> Client] /\ ds[c] = y
          /\ \A d \in Clients : d # c => ds[d] = e.cl[d]
      BY <1>2, <2>1
    <2>3. y.st = "unknown" /\ y.ssl = k /\ y.link = "plain" /\ y.z = NULL BY <2>1, NewcomerIs
    <2> HIDE DEF y, ds
    <2>4. Alike(e.cl[c], y) BY <2>1, <2>3 DEF Alike, Fits
    <2>5. \A d \in Clients : Alike(e.cl[d], ds[d]) BY <2>2, <2>4 DEF Alike
    <2>6. HelpersOK(ds, e) BY <1>1, <2>2, <2>5, AlikeOK
    <2>7. Kept(ds, e, e) BY <2>6 DEF Kept
    <2>8. AllOK(Accepted(e, c, k, l)) BY <2>1, <2>7, AcceptedOK DEF ds, y
    <2> QED BY <2>1, <2>8
  <1>4. ASSUME NEW k \in InUse(e), NEW f \in start_ssld(e, k, <<c, "A">>)
        PROVE  AllOK(Accepted(f, c, k, l))
    <2> DEFINE y == Newcomer(k, l)
               ds == [e.cl EXCEPT ![c] = y]
               what == "A"
    <2>1. k \in Ctls \cup {NULL} BY DEF InUse
    <2>2. /\ ds \in [Clients -> Client] /\ ds[c] = y
          /\ \A d \in Clients : d # c => ds[d] = e.cl[d]
      BY <1>2, <2>1
    <2>3. y.st = "unknown" /\ y.ssl = k /\ y.link = "plain" /\ y.z = NULL BY <2>1, NewcomerIs
    <2> HIDE DEF y, ds
    <2>4. Joins(e.cl[c], ds[c], what, k) BY <2>2, <2>3 DEF Joins
    <2>5. what \in Kinds /\ f \in start_ssld(e, k, <<c, what>>) BY DEF Kinds
    <2> HIDE DEF what
    <2>6. Kept(ds, e, f) BY <1>1, <2>2, <2>4, <2>5, SsldOK
    <2> QED BY <2>1, <2>6, AcceptedOK DEF ds, y
  <1> QED BY <1>3, <1>4

\* The next client is one that was not used.
LEMMA NextIs ==
    ASSUME Unused # {}
    PROVE  Next_connid \in Clients /\ cl[Next_connid].st = "unused"
  <1>1. Unused \in SUBSET Nat BY DEF Unused, Clients
  <1>2. \E c \in Unused : \A d \in Unused : c <= d BY <1>1, Least
  <1>3. Next_connid \in Unused BY <1>2 DEF Next_connid
  <1> QED BY <1>3 DEF Unused

\* A new client has nothing yet.
LEMMA MakeOK ==
    ASSUME NEW e, NEW c \in Clients, NEW st \in {"unknown", "connecting"}, AllOK(e),
           e.cl[c].st = "unused"
    PROVE  LET f == make_client(e, c, st)
           IN  /\ AllOK(f) /\ f.cl[c].st = st /\ f.cl[c].ssl = NULL /\ f.cl[c].link = "plain"
               /\ f.cl[c].z = NULL /\ f.cl[c].listener = NULL /\ f.lis = e.lis /\ f.ctl = e.ctl
  <1> DEFINE y == Being(NewClient, st)
             cs == [e.cl EXCEPT ![c] = y]
             unk == e.unk \cup {c}
             f == make_client(e, c, st)
  <1>1. e.cl \in [Clients -> Client] /\ ClientOK(e.cl[c]) BY DEF AllOK, ClientsOK
  <1>2. /\ Becomes(e.cl[c], y) /\ y.st = st /\ y.ssl = NULL /\ y.link = "plain" /\ y.z = NULL
        /\ y.listener = NULL
    BY <1>1, MadeOK
  <1> HIDE DEF y
  <1>3. f = Locals(e, cs, unk, e.lis) BY DEF make_client, y
  <1>4. cs[c] = y BY <1>1
  <1> HIDE DEF f, unk
  <1>5. AllOK(f) BY <1>2, <1>3, OneOK
  <1> HIDE DEF cs
  <1>6. f.cl = cs /\ f.lis = e.lis /\ f.ctl = e.ctl BY <1>3, LocalsIs
  <1> QED BY <1>2, <1>4, <1>5, <1>6 DEF f

\* A client that connected is given to helper k.
LEMMA GreetOK ==
    ASSUME NEW e, NEW c \in Clients, NEW k \in InUse(e), AllOK(e), e.cl[c].st = "connecting",
           NEW f \in start_ssld(e, k, <<c, "C">>)
    PROVE  AllOK(Changed(f, c, Greeting(f.cl[c], k)))
  <1> DEFINE x == e.cl[c]
             y == Greeting(x, k)
             ds == [e.cl EXCEPT ![c] = y]
             what == "C"
             g == Changed(f, c, Greeting(f.cl[c], k))
  <1>1. /\ e.cl \in [Clients -> Client] /\ HelpersOK(e.cl, e) /\ \A d \in Clients : ClientOK(e.cl[d])
        /\ ListenersOK(e.cl, e.lis)
    BY DEF AllOK, ClientsOK
  <1>2. x \in Client /\ x.st = "connecting" /\ x.ssl = NULL /\ x.link = "plain" /\ x.z = NULL
    BY <1>1 DEF ClientOK
  <1>3. k \in Ctls BY DEF InUse
  <1> HIDE DEF x
  <1>4. /\ y \in Client /\ y.st = "handshake" /\ y.ssl = k /\ y.link = x.link /\ y.z = x.z
        /\ y.listener = x.listener
    BY <1>2, <1>3 DEF Greeting, Client
  <1>5. ClientOK(y) BY <1>2, <1>4 DEF ClientOK
  <1> HIDE DEF y
  <1>6. /\ ds \in [Clients -> Client] /\ ds[c] = y
        /\ \A d \in Clients : d # c => ds[d] = e.cl[d]
    BY <1>1, <1>4
  <1> HIDE DEF ds
  <1>7. Joins(e.cl[c], ds[c], what, k) BY <1>2, <1>4, <1>6 DEF Joins, x
  <1>8. what \in Kinds /\ f \in start_ssld(e, k, <<c, what>>) BY DEF Kinds
  <1> HIDE DEF what
  <1>9. Kept(ds, e, f) BY <1>1, <1>6, <1>7, <1>8, SsldOK
  <1>10. f.cl = e.cl /\ f.lis = e.lis /\ HelpersOK(ds, f) BY <1>9 DEF Kept
  <1>11. g = Locals(f, ds, f.unk, f.lis) BY <1>10 DEF Changed, ds, y, x
  <1>12. /\ g.cl = ds /\ g.lis = e.lis /\ g.ctl = f.ctl /\ g.list = f.list /\ g.count = f.count
    <2> HIDE DEF g
    <2> QED BY <1>10, <1>11, LocalsIs
  <1> HIDE DEF g
  <1>13. HelpersOK(ds, g) BY <1>10, <1>12, SameOK
  <1>14. ClientsOK(ds) BY <1>1, <1>5, <1>6 DEF ClientsOK
  <1>15. \A l \in Ports : Came(ds, l) = Came(e.cl, l) BY <1>4, <1>6 DEF Came, x
  <1>16. ListenersOK(ds, e.lis) BY <1>1, <1>15 DEF ListenersOK, ListenerOK
  <1>17. AllOK(g) BY <1>12, <1>13, <1>14, <1>16 DEF AllOK
  <1> QED BY <1>17 DEF g

\* A server is established, with a session or without.
LEMMA EstablishedOK ==
    ASSUME NEW e, NEW c \in Clients, AllOK(e), e.cl[c].st \in {"unknown", "handshake"}, NEW st \in {"client", "server"}
    PROVE  AllOK(Registered(e, c, st))
  <1> DEFINE y == Being(e.cl[c], st)
             unk == e.unk \ {c}
  <1>1. e.cl[c] \in Client /\ ClientOK(e.cl[c]) BY DEF AllOK, ClientsOK
  <1>2. Becomes(e.cl[c], y) BY <1>1, RegisteredOK
  <1>3. Registered(e, c, st) = Locals(e, [e.cl EXCEPT ![c] = y], unk, e.lis) BY DEF Registered
  <1> HIDE DEF y, unk
  <1> QED BY <1>2, <1>3, OneOK

\* The client while its session is started: it registers in the same step.
Almost(x, k) == Being(Zipped(x, k), "server")

\* The client with its session, before and after it registers.
LEMMA AlmostIs ==
    ASSUME NEW x \in Client, NEW k \in Ctls \cup {NULL}, ClientOK(x), x.st \in {"unknown", "handshake"}
    PROVE  LET z == Zipped(x, k)
               y == Almost(x, k)
           IN  /\ z \in Client /\ z.st = x.st /\ z.ssl = x.ssl /\ z.link = "zip" /\ z.z = k
               /\ y \in Client /\ ClientOK(y) /\ y.st = "server" /\ y.ssl = x.ssl /\ y.link = "zip"
               /\ y.z = k /\ y.listener = x.listener
  <1> DEFINE z == Zipped(x, k)
             st == "server"
             y == Being(z, st)
  <1>1. /\ z \in Client /\ z.st = x.st /\ z.ssl = x.ssl /\ z.link = "zip" /\ z.z = k
        /\ z.listener = x.listener
    BY DEF Zipped, Client
  <1>2. st \in States BY DEF States
  <1> HIDE DEF z, st
  <1>3. /\ y \in Client /\ y.st = st /\ y.ssl = z.ssl /\ y.link = z.link /\ y.z = z.z
        /\ y.listener = z.listener
    BY <1>1, <1>2, BeingIs
  <1> HIDE DEF y
  <1>4. ClientOK(y) BY <1>1, <1>3 DEF ClientOK, st
  <1> QED BY <1>1, <1>3, <1>4 DEF Almost, y, z, st

\* start_zlib_session(), with a helper or without.
LEMMA ZlibOK ==
    ASSUME NEW e, NEW c \in Clients, AllOK(e), e.cl[c].st \in {"unknown", "handshake"},
           NEW g \in start_zlib_session(e, c)
    PROVE  AllOK(Registered(g, c, "server"))
  <1> DEFINE k == which_ssld(e)
             x == e.cl[c]
             z == Zipped(x, k)
             cs == [e.cl EXCEPT ![c] = z]
             f == Locals(e, cs, e.unk, e.lis)
             y == Almost(x, k)
             ds == [e.cl EXCEPT ![c] = y]
             r == Registered(g, c, "server")
  <1>1. /\ e.cl \in [Clients -> Client] /\ HelpersOK(e.cl, e) /\ \A d \in Clients : ClientOK(e.cl[d])
        /\ ListenersOK(e.cl, e.lis)
    BY DEF AllOK, ClientsOK
  <1>2. k # NULL => k \in InUse(e) /\ k \in Ctls
    BY <1>1, WhichIs DEF LiveOnes, InUse
  <1>3. IF k = NULL THEN g = f ELSE g \in start_ssld(f, k, <<c, "Z">>)
    BY DEF start_zlib_session, Changed
  <1>4. x \in Client /\ ClientOK(x) /\ x.st \in {"unknown", "handshake"} /\ x.link = "plain"
    BY <1>1 DEF ClientOK
  <1> HIDE DEF k, x
  <1>5. k \in Ctls \cup {NULL} BY <1>2
  <1>6. /\ z \in Client /\ z.st = x.st /\ z.ssl = x.ssl /\ z.link = "zip" /\ z.z = k
        /\ y \in Client /\ ClientOK(y) /\ y.st = "server" /\ y.ssl = x.ssl /\ y.link = "zip"
        /\ y.z = k /\ y.listener = x.listener
    BY <1>4, <1>5, AlmostIs
  <1>7. y = Being(z, "server") BY DEF Almost
  <1> HIDE DEF y, z
  <1>8. /\ ds \in [Clients -> Client] /\ ds[c] = y
        /\ \A d \in Clients : d # c => ds[d] = e.cl[d]
    BY <1>1, <1>6
  <1>9. cs \in [Clients -> Client] /\ cs[c] = z /\ ds = [cs EXCEPT ![c] = y] BY <1>1, <1>6
  <1> HIDE DEF cs, ds
  <1>10. f.cl = cs /\ f.lis = e.lis /\ f.ctl = e.ctl /\ f.list = e.list /\ f.count = e.count
    BY LocalsIs
  <1> HIDE DEF f
  <1>11. HelpersOK(e.cl, f) BY <1>1, <1>10, SameOK
  <1>12. Kept(ds, f, g)
    <2>1. CASE k = NULL
      <3>1. Alike(x, y) BY <1>4, <1>6, <2>1, ConstAssumption DEF Alike, Fits
      <3>2. \A d \in Clients : Alike(e.cl[d], ds[d]) BY <1>8, <3>1 DEF Alike, x
      <3>3. HelpersOK(ds, f) BY <1>1, <1>8, <1>11, <3>2, AlikeOK
      <3> QED BY <1>3, <2>1, <3>3 DEF Kept
    <2>2. CASE k # NULL
      <3> DEFINE what == "Z"
      <3>1. Joins(e.cl[c], ds[c], what, k) BY <1>4, <1>6, <1>8 DEF Joins, x
      <3>2. k \in InUse(f) BY <1>2, <1>10, <2>2 DEF InUse
      <3>3. what \in Kinds /\ g \in start_ssld(f, k, <<c, what>>) BY <1>3, <2>2 DEF Kinds
      <3> HIDE DEF what
      <3> QED BY <1>1, <1>8, <1>11, <3>1, <3>2, <3>3, SsldOK
    <2> QED BY <2>1, <2>2
  <1>13. g.cl = cs /\ g.lis = e.lis /\ HelpersOK(ds, g) BY <1>10, <1>12 DEF Kept
  <1>14. r = Locals(g, ds, g.unk \ {c}, g.lis) BY <1>7, <1>9, <1>13 DEF Registered
  <1>15. r.cl = ds /\ r.lis = e.lis /\ r.ctl = g.ctl /\ r.list = g.list /\ r.count = g.count
    <2> HIDE DEF r
    <2> QED BY <1>13, <1>14, LocalsIs
  <1> HIDE DEF r
  <1>16. HelpersOK(ds, r) BY <1>13, <1>15, SameOK
  <1>17. ClientsOK(ds) BY <1>1, <1>6, <1>8 DEF ClientsOK
  <1>18. \A l \in Ports : Came(ds, l) = Came(e.cl, l) BY <1>6, <1>8 DEF Came, x
  <1>19. ListenersOK(ds, e.lis) BY <1>1, <1>18 DEF ListenersOK, ListenerOK
  <1>20. AllOK(r) BY <1>15, <1>16, <1>17, <1>19 DEF AllOK
  <1> QED BY <1>20 DEF r

\* The replies of a helper.
LEMMA RecvOK ==
    ASSUME NEW e, NEW q, AllOK(e)
    PROVE  AllOK(ssl_process_cmd_recv(e, q))
  <1> DEFINE bad == {i \in DOMAIN q : q[i].cmd = "I"}
             read == {i \in DOMAIN q : \A j \in bad : i < j}
             gone == {q[i].id[1] : i \in read}
             f == exit_clients(e, gone)
             no == FALSE
             s == Secured(f, no)
  <1>1. ssl_process_cmd_recv(e, q) = IF bad = {} THEN f ELSE ssl_killall(s)
    BY DEF ssl_process_cmd_recv
  <1> HIDE DEF bad, read, gone, no
  <1>2. AllOK(f) BY ExitOK
  <1> HIDE DEF f
  <1>3. Same(f, s) BY SecuredIs
  <1> HIDE DEF s
  <1>4. AllOK(s) BY <1>2, <1>3, SameAllOK
  <1>5. Kept(s.cl, s, ssl_killall(s)) BY <1>4, KillallOK DEF AllOK, Kept
  <1>6. AllOK(ssl_killall(s)) BY <1>4, <1>5, KeptOK
  <1> QED BY <1>1, <1>2, <1>6

\* The listen{} blocks of a new configuration.
LEMMA ListenOK ==
    ASSUME NEW e, NEW S, AllOK(e)
    PROVE  AllOK(listeners(e, S))
  <1> DEFINE ls == [l \in Ports |-> IF l \in S THEN [st |-> "open", ref_count |-> e.lis[l].ref_count]
                                    ELSE close_listener(e.lis[l])]
             f == Locals(e, e.cl, e.unk, ls)
  <1>1. listeners(e, S) = f BY DEF listeners
  <1>2. e.lis \in [Ports -> Listener] /\ \A l \in Ports : ListenerOK(e.cl, e.lis, l)
    BY DEF AllOK, ListenersOK
  <1>3. ASSUME NEW l \in Ports
        PROVE  /\ ls[l] \in Listener /\ ls[l].ref_count = e.lis[l].ref_count
               /\ ls[l].st = "none" => ls[l].ref_count = 0
               /\ ls[l].st = "closed" => ls[l].ref_count # 0
    <2> DEFINE x == e.lis[l]
    <2>1. x \in Listener BY <1>2
    <2>2. ls[l] = IF l \in S THEN [st |-> "open", ref_count |-> x.ref_count] ELSE close_listener(x)
      OBVIOUS
    <2> HIDE DEF x, ls
    <2>3. CASE l \in S
      <3>1. ls[l] = [st |-> "open", ref_count |-> x.ref_count] BY <2>2, <2>3
      <3>2. ls[l] \in Listener /\ ls[l].st = "open" /\ ls[l].ref_count = x.ref_count
        BY <2>1, <3>1 DEF Listener
      <3> QED BY <3>2 DEF x
    <2>4. CASE l \notin S /\ x.ref_count = 0
      <3>1. ls[l] = NoListener BY <2>2, <2>4 DEF close_listener
      <3>2. ls[l] \in Listener /\ ls[l].st = "none" /\ ls[l].ref_count = 0
        BY <3>1 DEF NoListener, Listener
      <3> QED BY <2>4, <3>2 DEF x
    <2>5. CASE l \notin S /\ x.ref_count # 0
      <3>1. ls[l] = [x EXCEPT !.st = "closed"] BY <2>2, <2>5 DEF close_listener
      <3>2. ls[l] \in Listener /\ ls[l].st = "closed" /\ ls[l].ref_count = x.ref_count
        BY <2>1, <3>1 DEF Listener
      <3> QED BY <2>5, <3>2 DEF x
    <2> QED BY <2>3, <2>4, <2>5
  <1>4. ls \in [Ports -> Listener] BY <1>3
  <1>5. ListenersOK(e.cl, ls) BY <1>2, <1>3, <1>4 DEF ListenersOK, ListenerOK
  <1> HIDE DEF ls
  <1>6. f.cl = e.cl /\ f.lis = ls /\ f.ctl = e.ctl /\ f.list = e.list /\ f.count = e.count
    BY LocalsIs
  <1> HIDE DEF f
  <1>7. HelpersOK(e.cl, f) BY <1>6, SameOK DEF AllOK
  <1> QED BY <1>1, <1>5, <1>6, <1>7 DEF AllOK

-----------------------------------------------------------------------------
(* Clients that exited are freed.                                           *)

\* What remains of those that a set of clients leaves.
Splits(A, B, C) == A = B \cup C /\ B \cap C = {} /\ A \subseteq Clients

LEMMA Remaining ==
    ASSUME NEW A, NEW B, NEW C, Splits(A, B, C)
    PROVE  /\ Cardinality(A) \in Nat /\ Cardinality(B) \in Nat /\ Cardinality(C) \in Nat
           /\ Cardinality(A) = Cardinality(B) + Cardinality(C)
  <1>1. IsFiniteSet(B) /\ IsFiniteSet(C) BY ClientsFinite DEF Splits
  <1>2. Cardinality(B \cup C) = Cardinality(B) + Cardinality(C) BY <1>1, DisjointSize DEF Splits
  <1>3. Cardinality(A) \in Nat /\ Cardinality(B) \in Nat /\ Cardinality(C) \in Nat
    BY ClientsFinite DEF Splits
  <1> QED BY <1>2, <1>3 DEF Splits

\* n of the m + n clients of a listener leave it.
LEMMA LeftIs ==
    ASSUME NEW x \in Listener, NEW n \in Nat, NEW m \in Nat, x.ref_count = m + n,
           x.st = "none" => x.ref_count = 0, x.st = "closed" => x.ref_count # 0
    PROVE  LET y == Left(x, n)
           IN  /\ y \in Listener /\ y.ref_count = m
               /\ y.st = "none" => y.ref_count = 0
               /\ y.st = "closed" => y.ref_count # 0
  <1>1. CASE n > 0 /\ x.ref_count = n /\ x.st # "open"
    <2>1. Left(x, n) = NoListener /\ m = 0 BY <1>1 DEF Left
    <2> QED BY <2>1 DEF NoListener, Listener
  <1>2. CASE ~(n > 0 /\ x.ref_count = n /\ x.st # "open")
    <2> DEFINE y == Referred(x, m)
    <2>1. Left(x, n) = y
      <3>1. Left(x, n) = Referred(x, x.ref_count - n) /\ x.ref_count - n = m BY <1>2 DEF Left
      <3> QED BY <3>1
    <2>2. y \in Listener /\ y.st = x.st /\ y.ref_count = m BY ReferredIs
    <2>3. y.st \in {"none", "open", "closed"} BY <2>2 DEF Listener
    <2> HIDE DEF y
    <2>4. y.st = "none" => m = 0 BY <2>2
    <2>5. y.st = "closed" => m # 0 BY <1>2, <2>2
    <2> QED BY <2>1, <2>2, <2>4, <2>5
  <1> QED BY <1>1, <1>2

\* Freed clients give back what they were counted for.
LEMMA FreeClientsOK ==
    ASSUME NEW e, NEW gone \in SUBSET Clients, AllOK(e)
    PROVE  AllOK(free_clients(e, gone))
  <1> DEFINE st == "freed"
             y == Being(NewClient, st)
             cs == e.cl
             ds == [c \in Clients |-> IF c \in gone THEN y ELSE e.cl[c]]
             n(k) == e.ctl[k].cli_count - decremented(e, gone, k)
             cts == [k \in Ctls |-> Serving(e.ctl[k], n(k))]
             came(l) == {c \in gone : e.cl[c].listener = l}
             ls == [l \in Ports |-> Left(e.lis[l], Cardinality(came(l)))]
             f == free_clients(e, gone)
  <1>1. f = Server(ds, e.unk, cts, e.list, e.count, e.spin, e.wait, e.ev, e.ok, ls)
    BY DEF free_clients
  <1>2. /\ f.cl = ds /\ f.lis = ls /\ f.ctl = cts /\ f.list = e.list /\ f.count = e.count
    <2> HIDE DEF f, ds, cts, ls
    <2> QED BY <1>1, ServerIs
  <1>3. /\ cs \in [Clients -> Client] /\ HelpersOK(cs, e) /\ \A d \in Clients : ClientOK(cs[d])
        /\ ListenersOK(cs, e.lis) /\ e.ctl \in [Ctls -> Ctl]
    BY DEF AllOK, ClientsOK, HelpersOK, TypesOK
  <1>4. /\ y \in Client /\ y.st = "freed" /\ y.ssl = NULL /\ y.link = "plain" /\ y.z = NULL
        /\ y.listener = NULL
    <2>1. st \in States BY DEF States
    <2> HIDE DEF st
    <2>2. /\ y \in Client /\ y.st = st /\ y.ssl = NULL /\ y.link = "plain" /\ y.z = NULL
          /\ y.listener = NULL
      BY <2>1, NewClientIs, BeingIs
    <2> QED BY <2>2 DEF st
  <1> HIDE DEF y
  <1>5. ClientOK(y) BY <1>4 DEF ClientOK
  <1>6. ds \in [Clients -> Client] /\ \A c \in Clients : ds[c] = IF c \in gone THEN y ELSE cs[c]
    BY <1>3, <1>4
  <1> HIDE DEF f, ds, cs
  <1>7. ClientsOK(ds) BY <1>3, <1>5, <1>6 DEF ClientsOK
  <1>8. ASSUME NEW k \in Ctls
        PROVE  n(k) \in Int /\ n(k) = Cardinality(Secures(ds, k)) + Cardinality(Zips_at(ds, k))
    <2> DEFINE A == Secures(cs, k)
               B == Secures(ds, k)
               C == {c \in gone : e.cl[c].ssl = k}
               D == Zips_at(cs, k)
               E == Zips_at(ds, k)
               F == {c \in gone : e.cl[c].link = "zip" /\ e.cl[c].z = k}
    <2>1. e.ctl[k].cli_count = Cardinality(A) + Cardinality(D) BY <1>3 DEF HelpersOK, Counted
    <2>2. decremented(e, gone, k) = Cardinality(C) + Cardinality(F) BY DEF decremented
    <2>3. Splits(A, B, C)
      BY <1>4, <1>6, ConstAssumption DEF Splits, Secures, cs
    <2>4. Splits(D, E, F)
      BY <1>4, <1>6, ConstAssumption DEF Splits, Zips_at, cs
    <2> HIDE DEF A, B, C, D, E, F
    <2>5. /\ Cardinality(A) \in Nat /\ Cardinality(B) \in Nat /\ Cardinality(C) \in Nat
          /\ Cardinality(A) = Cardinality(B) + Cardinality(C)
      BY <2>3, Remaining
    <2>6. /\ Cardinality(D) \in Nat /\ Cardinality(E) \in Nat /\ Cardinality(F) \in Nat
          /\ Cardinality(D) = Cardinality(E) + Cardinality(F)
      BY <2>4, Remaining
    <2>7. n(k) \in Int /\ n(k) = Cardinality(B) + Cardinality(E) BY <2>1, <2>2, <2>5, <2>6
    <2> QED BY <2>7 DEF B, E
  <1>9. ASSUME NEW k \in Ctls
        PROVE  /\ f.ctl[k] \in Ctl /\ f.ctl[k].st = e.ctl[k].st
               /\ f.ctl[k].cli_count = Cardinality(Secures(ds, k)) + Cardinality(Zips_at(ds, k))
               /\ \A id \in Ids : Copies(f.ctl[k], id) = Copies(e.ctl[k], id)
    <2> DEFINE h == e.ctl[k]
               m == n(k)
    <2>1. h \in Ctl /\ m \in Int BY <1>3, <1>8
    <2>2. f.ctl[k] = Serving(h, m) BY <1>2
    <2>3. m = Cardinality(Secures(ds, k)) + Cardinality(Zips_at(ds, k)) BY <1>8
    <2> HIDE DEF h, m
    <2>4. /\ Serving(h, m) \in Ctl /\ Serving(h, m).st = h.st /\ Serving(h, m).cli_count = m
          /\ \A id \in Ids : Copies(Serving(h, m), id) = Copies(h, id)
      BY <2>1, ServingIs
    <2> QED BY <2>2, <2>3, <2>4 DEF h
  <1>10. f.ctl \in [Ctls -> Ctl] BY <1>2, <1>9
  <1>11. InUse(f) = InUse(e) /\ LiveOnes(f) = LiveOnes(e) /\ Known(f) = Known(e)
    BY <1>9 DEF InUse, LiveOnes, Known
  <1>12. TypesOK(f) BY <1>2, <1>3, <1>10 DEF HelpersOK, TypesOK
  <1>13. Counted(ds, f)
    <2>1. ASSUME NEW d \in Clients
          PROVE  /\ ds[d].ssl # NULL => ds[d].ssl \in InUse(f)
                 /\ (ds[d].link = "zip" /\ ds[d].z # NULL) => ds[d].z \in InUse(f)
      <3>1. CASE d \in gone BY <1>4, <1>6, <3>1
      <3>2. CASE d \notin gone BY <1>3, <1>6, <1>11, <3>2 DEF HelpersOK, Counted
      <3> QED BY <3>1, <3>2
    <2>2. f.count = Cardinality(LiveOnes(f)) BY <1>2, <1>3, <1>11 DEF HelpersOK, Counted
    <2> QED BY <1>9, <2>1, <2>2 DEF Counted
  <1>14. Listed(f)
    <2>1. Begun(f) = Begun(e) BY <1>11 DEF Begun, Known
    <2> QED BY <1>2, <1>3, <1>11, <2>1 DEF HelpersOK, Listed
  <1>15. Single(f) BY <1>3, <1>9 DEF HelpersOK, Single
  <1>16. Placed(ds, f)
    <2>1. ASSUME NEW c \in Clients, NEW what \in {"A", "C", "Z"}, NEW k \in Ctls,
                 Copies(f.ctl[k], <<c, what>>) > 0
          PROVE  Fits(ds[c], what, k)
      <3>1. <<c, what>> \in Ids BY DEF Ids
      <3>2. Copies(e.ctl[k], <<c, what>>) > 0 BY <1>9, <2>1, <3>1
      <3>3. Fits(cs[c], what, k) BY <1>3, <3>2 DEF HelpersOK, Placed
      <3>4. CASE c \in gone BY <1>4, <1>6, <3>4 DEF Fits
      <3>5. CASE c \notin gone BY <1>6, <3>3, <3>5
      <3> QED BY <3>4, <3>5
    <2> QED BY <2>1 DEF Placed
  <1>17. ASSUME NEW l \in Ports
         PROVE  /\ ls[l] \in Listener /\ ls[l].ref_count = Cardinality(Came(ds, l))
                /\ ls[l].st = "none" => ls[l].ref_count = 0
                /\ ls[l].st = "closed" => ls[l].ref_count # 0
    <2> DEFINE A == Came(cs, l)
               B == Came(ds, l)
               C == came(l)
               x == e.lis[l]
               b == Cardinality(B)
               d == Cardinality(C)
    <2>1. Splits(A, B, C)
      BY <1>4, <1>6, ConstAssumption DEF Splits, Came, cs
    <2>2. /\ x \in Listener /\ x.ref_count = Cardinality(A)
          /\ x.st = "none" => x.ref_count = 0
          /\ x.st = "closed" => x.ref_count # 0
      BY <1>3 DEF ListenersOK, ListenerOK
    <2>3. ls[l] = Left(x, d) OBVIOUS
    <2> HIDE DEF A, B, C, x
    <2>4. b \in Nat /\ d \in Nat /\ Cardinality(A) = b + d BY <2>1, Remaining
    <2> HIDE DEF b, d, ls
    <2>5. LET v == Left(x, d)
          IN  /\ v \in Listener /\ v.ref_count = b
              /\ v.st = "none" => v.ref_count = 0
              /\ v.st = "closed" => v.ref_count # 0
      BY <2>2, <2>4, LeftIs
    <2> QED BY <2>3, <2>5 DEF b, B
  <1>18. ls \in [Ports -> Listener] BY <1>17
  <1> HIDE DEF ls
  <1>19. ListenersOK(ds, ls) BY <1>17, <1>18 DEF ListenersOK, ListenerOK
  <1>20. HelpersOK(ds, f) BY <1>12, <1>13, <1>14, <1>15, <1>16 DEF HelpersOK
  <1>21. AllOK(f) BY <1>2, <1>7, <1>19, <1>20 DEF AllOK
  <1> QED BY <1>21 DEF f

-----------------------------------------------------------------------------
(* The steps.                                                               *)

Sound == AllOK(Here)

LEMMA HereIs ==
    /\ Here.cl = cl /\ Here.unk = unknown_list /\ Here.ctl = ctl /\ Here.list = ssl_daemons
    /\ Here.count = ssld_count /\ Here.spin = spin /\ Here.lis = lis
  BY ServerIs DEF Here

LEMMA AnywhereOK ==
    ASSUME NEW e, NEW f, AllOK(e), f.cl = e.cl, f.lis = e.lis, f.ctl = e.ctl, f.list = e.list,
           f.count = e.count
    PROVE  AllOK(f)
  BY SameOK DEF AllOK

LEMMA PrimeIs ==
    /\ Here'.cl = cl' /\ Here'.ctl = ctl' /\ Here'.list = ssl_daemons'
    /\ Here'.count = ssld_count' /\ Here'.lis = lis'
  BY ServerIs DEF Here

\* A handler ends.
LEMMA CommitOK == ASSUME NEW e, AllOK(e), Commit(e) PROVE Sound'
  <1>1. /\ Here'.cl = e.cl /\ Here'.lis = e.lis /\ Here'.ctl = e.ctl /\ Here'.list = e.list
        /\ Here'.count = e.count
    BY PrimeIs DEF Commit
  <1>2. AllOK(Here') BY <1>1, AnywhereOK
  <1> QED BY <1>2 DEF Sound

LEMMA DoOK == ASSUME NEW S, \A e \in S : AllOK(e), Do(S) PROVE Sound'
  BY CommitOK DEF Do

\* Each action keeps the invariant.
LEMMA StepAccept == ASSUME Sound, NEW l \in Ports, accept_callback(l) PROVE Sound'
  <1> DEFINE c == Next_connid
             st == "unknown"
             e == make_client(Here, c, st)
             k == which_ssld(e)
  <1>1. c \in Clients /\ Here.cl[c].st = "unused" /\ Here.lis[l].st = "open"
    BY NextIs, HereIs DEF accept_callback
  <1>2. \/ Do({free_client(e, c)})
        \/ k # NULL /\ Do({Accepted(f, c, k, l) : f \in start_ssld(e, k, <<c, "A">>)})
        \/ Do({Accepted(e, c, NULL, l)})
    BY DEF accept_callback
  <1>3. AllOK(Here) BY DEF Sound
  <1> HIDE DEF c
  <1>4. /\ AllOK(e) /\ e.cl[c].st = "unknown" /\ e.cl[c].ssl = NULL /\ e.cl[c].link = "plain"
        /\ e.cl[c].z = NULL /\ e.cl[c].listener = NULL /\ e.lis = Here.lis
    BY <1>1, <1>3, MakeOK
  <1> HIDE DEF e
  <1>5. CASE Do({free_client(e, c)})
    <2> DEFINE y == Being(NewClient, "freed")
    <2>1. e.cl[c] \in Client BY <1>1, <1>4 DEF AllOK, ClientsOK
    <2>2. Becomes(e.cl[c], y) BY <1>4, <2>1, UnmadeOK
    <2>3. free_client(e, c) = Locals(e, [e.cl EXCEPT ![c] = y], e.unk, e.lis)
      BY DEF free_client, Changed
    <2> HIDE DEF y
    <2>4. AllOK(free_client(e, c)) BY <1>1, <1>4, <2>2, <2>3, OneOK
    <2> QED BY <1>5, <2>4, DoOK
  <1>6. AllOK(Accepted(e, c, NULL, l))
        /\ \A h \in InUse(e) : \A f \in start_ssld(e, h, <<c, "A">>) : AllOK(Accepted(f, c, h, l))
    BY <1>1, <1>4, AcceptOK
  <1>7. CASE k # NULL /\ Do({Accepted(f, c, k, l) : f \in start_ssld(e, k, <<c, "A">>)})
    <2>1. k \in InUse(e) BY <1>4, <1>7, WhichIs DEF AllOK, LiveOnes, InUse
    <2> DEFINE S == {Accepted(f, c, k, l) : f \in start_ssld(e, k, <<c, "A">>)}
    <2>2. Do(S) BY <1>7
    <2>3. \A f \in S : AllOK(f) BY <1>6, <2>1
    <2> HIDE DEF S
    <2> QED BY <2>2, <2>3, DoOK
  <1>8. CASE Do({Accepted(e, c, NULL, l)}) BY <1>6, <1>8, DoOK
  <1> QED BY <1>2, <1>5, <1>7, <1>8

LEMMA StepConnect == ASSUME Sound, serv_connect PROVE Sound'
  <1> DEFINE c == Next_connid
             e == make_client(Here, c, "connecting")
  <1>1. c \in Clients /\ Here.cl[c].st = "unused" BY NextIs, HereIs DEF serv_connect
  <1>2. Do({e}) BY DEF serv_connect
  <1> HIDE DEF c
  <1>3. AllOK(e) BY <1>1, MakeOK DEF Sound
  <1> HIDE DEF e
  <1> QED BY <1>2, <1>3, DoOK

LEMMA StepConnected == ASSUME Sound, NEW c \in Clients, serv_connect_ssl_callback(c) PROVE Sound'
  <1> DEFINE k == which_ssld(Here)
             S == {Changed(f, c, Greeting(f.cl[c], k)) : f \in start_ssld(Here, k, <<c, "C">>)}
             T == S \cup {exit_client(f, c) : f \in S}
  <1>1. Here.cl[c].st = "connecting" BY HereIs DEF serv_connect_ssl_callback
  <1>2. IF k = NULL THEN Do({exit_client(Here, c)}) ELSE Do(T) BY DEF serv_connect_ssl_callback
  <1>3. AllOK(Here) BY DEF Sound
  <1>4. CASE k = NULL
    <2>1. AllOK(exit_client(Here, c)) BY <1>3, ExitOK DEF exit_client
    <2> QED BY <1>2, <1>4, <2>1, DoOK
  <1>5. CASE k # NULL
    <2>1. k \in InUse(Here) BY <1>3, <1>5, WhichIs DEF AllOK, LiveOnes, InUse
    <2> HIDE DEF k
    <2>2. \A f \in S : AllOK(f) BY <1>1, <1>3, <2>1, GreetOK
    <2> HIDE DEF S
    <2>3. \A f \in T : AllOK(f) BY <2>2, ExitOK DEF exit_client
    <2> HIDE DEF T
    <2> QED BY <1>2, <1>5, <2>3, DoOK
  <1> QED BY <1>4, <1>5

LEMMA StepRegister == ASSUME Sound, NEW c \in Clients, register(c) PROVE Sound'
  <1>1. Here.cl[c].st = "unknown" /\ Do({Registered(Here, c, "client")}) BY HereIs DEF register
  <1>2. AllOK(Registered(Here, c, "client")) BY <1>1, EstablishedOK DEF Sound
  <1> QED BY <1>1, <1>2, DoOK

LEMMA StepServer == ASSUME Sound, NEW c \in Clients, NEW zip \in BOOLEAN, server_estab(c, zip) PROVE Sound'
  <1> DEFINE F == IF zip THEN start_zlib_session(Here, c) ELSE {Here}
             S == {Registered(f, c, "server") : f \in F}
  <1>1. Here.cl[c].st \in {"unknown", "handshake"} /\ Do(S) BY HereIs DEF server_estab
  <1>2. ASSUME NEW f \in F PROVE AllOK(Registered(f, c, "server"))
    <2>1. CASE zip
      <3>1. f \in start_zlib_session(Here, c) BY <2>1
      <3> QED BY <1>1, <3>1, ZlibOK DEF Sound
    <2>2. CASE ~zip
      <3>1. f = Here BY <2>2
      <3> QED BY <1>1, <3>1, EstablishedOK DEF Sound
    <2> QED BY <2>1, <2>2
  <1>3. \A e \in S : AllOK(e)
    <2> HIDE DEF F
    <2> QED BY <1>2
  <1> HIDE DEF S
  <1> QED BY <1>1, <1>3, DoOK

LEMMA StepExit == ASSUME Sound, NEW c \in Clients, Exit(c) PROVE Sound'
  <1>1. AllOK(exit_client(Here, c)) BY ExitOK DEF Sound, exit_client
  <1> QED BY <1>1, DoOK DEF Exit

LEMMA StepFree == ASSUME Sound, free_exited_clients PROVE Sound'
  <1> DEFINE gone == {c \in Clients : cl[c].st = "dead"}
             e == free_clients(Here, gone)
             ks == {k \in Spare(e) : decremented(Here, gone, k) > 0}
             f == free_ssl_daemon(e, ks)
  <1>1. Do({f}) BY DEF free_exited_clients
  <1>2. gone \in SUBSET Clients OBVIOUS
  <1>3. ks \subseteq Spare(e) OBVIOUS
  <1> HIDE DEF gone, ks
  <1>4. AllOK(e) BY <1>2, FreeClientsOK DEF Sound
  <1> HIDE DEF e
  <1>5. Kept(e.cl, e, f) BY <1>3, <1>4, FreeOK DEF AllOK
  <1> HIDE DEF f
  <1>6. AllOK(f) BY <1>4, <1>5, KeptOK
  <1> QED BY <1>1, <1>6, DoOK

\* Each outcome changes helpers only.
LEMMA DoKept == ASSUME Sound, NEW S, Do(S), \A f \in S : Kept(Here.cl, Here, f) PROVE Sound'
  <1>1. \A f \in S : AllOK(f) BY KeptOK DEF Sound
  <1> QED BY <1>1, DoOK

LEMMA StepRead == ASSUME Sound, NEW k \in Ctls, ssl_read_ctl(k) PROVE Sound'
  <1> DEFINE h == Here.ctl[k]
             g == Heard(h)
             q == ctl[k].outq
             e == Only(Here, k, g)
             f == ssl_process_cmd_recv(e, q)
  <1>1. Do({f}) BY HereIs DEF ssl_read_ctl
  <1>2. HelpersOK(Here.cl, Here) /\ h \in Ctl BY DEF Sound, AllOK, HelpersOK, TypesOK
  <1>3. Lighter(h, g) /\ g.st = h.st
    <2> HIDE DEF h
    <2> QED BY <1>2, HeardIs
  <1> HIDE DEF g, q
  <1>4. HelpersOK(Here.cl, e) /\ e.cl = Here.cl /\ e.lis = Here.lis BY <1>2, <1>3, OnlyOK
  <1> HIDE DEF e
  <1>5. AllOK(e) BY <1>4, KeptOK DEF Sound, Kept
  <1>6. AllOK(f) BY <1>5, RecvOK
  <1> HIDE DEF f
  <1> QED BY <1>1, <1>6, DoOK

LEMMA StepPipe == ASSUME Sound, NEW k \in Ctls, ssl_do_pipe(k) PROVE Sound'
  <1>1. \A f \in ssl_dead(Here, k) : Kept(Here.cl, Here, f) BY DeadOK DEF Sound, AllOK
  <1> QED BY <1>1, DoKept DEF ssl_do_pipe

LEMMA StepFlush == ASSUME Sound, NEW k \in Ctls, flush(k) PROVE Sound'
  <1>1. \A f \in ssl_write_ctl(Here, k) : Kept(Here.cl, Here, f) BY WriteOK DEF Sound, AllOK
  <1> QED BY <1>1, DoKept DEF flush

LEMMA StepZipstats == ASSUME Sound, collect_zipstats PROVE Sound'
  <1> DEFINE asked == {cl[c].z : c \in {d \in Clients : cl[d].st = "server" /\ cl[d].link = "zip"}}
             all == [k \in Ctls |-> k]
             rest == Ctls \ asked
             ks == Without(all, rest)
             S == EachTold(Here, ks, "S")
  <1>1. Do(S) BY DEF collect_zipstats
  <1>2. all \in Seq(Ctls)
    <2>1. NCtls \in Nat /\ all \in [1..NCtls -> Ctls] BY ConstAssumption DEF Ctls
    <2> HIDE DEF all
    <2> QED BY <2>1, SeqDef
  <1> HIDE DEF all, rest
  <1>3. ks \in Seq(Ctls) BY <1>2, WithoutElements
  <1> HIDE DEF ks
  <1>4. \A f \in S : Kept(Here.cl, Here, f) BY <1>3, EachToldOK DEF Sound, AllOK
  <1> HIDE DEF S
  <1> QED BY <1>1, <1>4, DoKept

LEMMA StepCleanup == ASSUME Sound, cleanup_dead_ssl PROVE Sound'
  <1> DEFINE ks == Spare(Here)
             f == free_ssl_daemon(Here, ks)
  <1>1. Do({f}) /\ ks \subseteq Spare(Here) BY DEF cleanup_dead_ssl
  <1> HIDE DEF ks
  <1>2. Kept(Here.cl, Here, f) BY <1>1, FreeOK DEF Sound, AllOK
  <1> HIDE DEF f
  <1> QED BY <1>1, <1>2, DoKept

LEMMA StepRestart == ASSUME Sound, restart_ssld_event PROVE Sound'
  <1> DEFINE no == FALSE
             g == Timers(Here, 0, no, restart_ev)
  <1>1. Do(top_up(g)) BY DEF restart_ssld_event
  <1> HIDE DEF no
  <1>2. Same(Here, g) BY TimersIs
  <1> HIDE DEF g
  <1>3. AllOK(g) BY <1>2, SameAllOK DEF Sound
  <1>4. \A f \in top_up(g) : AllOK(f)
    <2>1. \A f \in top_up(g) : Kept(g.cl, g, f) BY <1>3, TopUpOK DEF AllOK
    <2> QED BY <1>3, <2>1, KeptOK
  <1> QED BY <1>1, <1>4, DoOK

LEMMA LoadAllOK == ASSUME NEW e, NEW S, NEW good, AllOK(e)
                   PROVE  \A f \in load_conf_settings(listeners(e, S), good) : AllOK(f)
  <1> DEFINE g == listeners(e, S)
  <1>1. AllOK(g) BY ListenOK
  <1> HIDE DEF g
  <1>2. \A f \in load_conf_settings(g, good) : Kept(g.cl, g, f) BY <1>1, LoadOK DEF AllOK
  <1>3. \A f \in load_conf_settings(g, good) : AllOK(f) BY <1>1, <1>2, KeptOK
  <1> QED BY <1>3 DEF g

LEMMA StepRehash == ASSUME Sound, NEW S, NEW good, rehash(S, good) PROVE Sound'
  <1>1. \A f \in load_conf_settings(listeners(Here, S), good) : AllOK(f)
    BY LoadAllOK DEF Sound
  <1> QED BY <1>1, DoOK DEF rehash

\* A process moves: it has less than before.
LEMMA HelperOK ==
    ASSUME Sound, NEW k \in Ctls, NEW g, Lighter(ctl[k], g), g.st = ctl[k].st, Helper(k, g)
    PROVE  Sound'
  <1> DEFINE e == Only(Here, k, g)
             cts == [ctl EXCEPT ![k] = g]
  <1>1. /\ ctl' = cts /\ cl' = cl /\ lis' = lis /\ ssl_daemons' = ssl_daemons
        /\ ssld_count' = ssld_count
    BY DEF Helper
  <1>2. e.cl = cl /\ e.lis = lis /\ e.ctl = cts /\ e.list = ssl_daemons /\ e.count = ssld_count
    BY HereIs, DaemonsIs DEF Only
  <1>3. Lighter(Here.ctl[k], g) /\ g.st = Here.ctl[k].st BY HereIs
  <1>4. Kept(Here.cl, Here, e) BY <1>3, OnlyOK DEF Sound, AllOK, Kept
  <1> HIDE DEF e, cts
  <1>5. AllOK(e) BY <1>4, KeptOK DEF Sound
  <1>6. /\ Here'.cl = e.cl /\ Here'.lis = e.lis /\ Here'.ctl = e.ctl /\ Here'.list = e.list
        /\ Here'.count = e.count
    BY <1>1, <1>2, PrimeIs
  <1>7. AllOK(Here') BY <1>5, <1>6, AnywhereOK
  <1> QED BY <1>7 DEF Sound

LEMMA CtlIs == ASSUME Sound, NEW k \in Ctls PROVE ctl[k] \in Ctl
  BY HereIs DEF Sound, AllOK, HelpersOK, TypesOK

LEMMA StepCommand == ASSUME Sound, NEW k \in Ctls, mod_process_cmd_recv(k) PROVE Sound'
  <1> DEFINE h == ctl[k]
             m == Head(h.inq)
             r == Reading(h)
  <1>1. h \in Ctl BY CtlIs
  <1>2. h.inq # <<>> /\ \E x \in IF m.cmd = "K" THEN ssl_new_keys(r) ELSE {take(r, m.id)} : Helper(k, x)
    BY DEF mod_process_cmd_recv
  <1>3. PICK x \in IF m.cmd = "K" THEN ssl_new_keys(r) ELSE {take(r, m.id)} : Helper(k, x) BY <1>2
  <1>4. \A id \in Ids : Copies(h, id) <= 1
    BY HereIs DEF Sound, AllOK, HelpersOK, Single
  <1> HIDE DEF h
  <1>5. Lighter(h, r) /\ r.st = h.st /\ m \in Cmd BY <1>1, <1>2, ReadingIs
  <1>6. Lighter(h, x) /\ x.st = h.st
    <2>1. CASE m.cmd = "K"
      <3>1. x = r \/ x = Saying(r, BadKeys) BY <1>3, <2>1 DEF ssl_new_keys
      <3> HIDE DEF r
      <3>2. CASE x = r BY <1>5, <3>2
      <3>3. CASE x = Saying(r, BadKeys)
        <4>1. r \in Ctl BY <1>5 DEF Lighter
        <4>2. Lighter(r, x) /\ x.st = r.st BY <3>3, <4>1, DeadIs, SayingIs
        <4> QED BY <1>1, <1>5, <4>2, LighterTwice
      <3> QED BY <3>1, <3>2, <3>3
    <2>2. CASE m.cmd # "K"
      <3> DEFINE id == m.id
      <3>1. id \in Ids /\ Head(h.inq) = Take(id) BY <1>5, <2>2, TakeIs
      <3>2. x = take(Reading(h), id) BY <1>3, <2>2
      <3> HIDE DEF id
      <3> QED BY <1>1, <1>2, <1>4, <3>1, <3>2, TakenIs
    <2> QED BY <2>1, <2>2
  <1> QED BY <1>3, <1>6, HelperOK DEF h

LEMMA StepHandshake ==
    ASSUME Sound, NEW k \in Ctls, NEW id \in Ids, NEW ok \in BOOLEAN, ssl_process_cb(k, id, ok)
    PROVE  Sound'
  <1> DEFINE h == ctl[k]
             w == id[2] = "C"
             s == "open"
             g == IF ok THEN Carrying(h, id, s) ELSE close_conn(h, id, w)
  <1>1. h \in Ctl BY CtlIs
  <1>2. h.conn[id] # "none" /\ Helper(k, g) BY DEF ssl_process_cb
  <1>3. w \in BOOLEAN /\ s \in Stages BY DEF Stages
  <1> HIDE DEF w, s
  <1>4. Lighter(h, g) /\ g.st = h.st
    <2> HIDE DEF h
    <2>1. CASE ok
      <3>1. g = Carrying(h, id, s) BY <2>1
      <3> QED BY <1>1, <1>2, <1>3, <3>1, CarryingIs
    <2>2. CASE ~ok
      <3>1. g = close_conn(h, id, w) BY <2>2
      <3> QED BY <1>1, <1>2, <1>3, <3>1, CloseIs
    <2> QED BY <2>1, <2>2
  <1> HIDE DEF g
  <1> QED BY <1>2, <1>4, HelperOK

LEMMA StepClosed ==
    ASSUME Sound, NEW k \in Ctls, NEW id \in Ids, NEW w \in BOOLEAN, ctl[k].conn[id] # "none",
           Helper(k, close_conn(ctl[k], id, w))
    PROVE  Sound'
  <1> DEFINE h == ctl[k]
             g == close_conn(h, id, w)
  <1>1. h \in Ctl /\ h.conn[id] # "none" BY CtlIs
  <1>2. Helper(k, g) OBVIOUS
  <1>3. Lighter(h, g) /\ g.st = h.st
    <2> HIDE DEF h
    <2> QED BY <1>1, CloseIs
  <1> HIDE DEF g
  <1> QED BY <1>2, <1>3, HelperOK

LEMMA StepCrash == ASSUME Sound, NEW k \in Ctls, crash(k) PROVE Sound'
  <1> DEFINE h == ctl[k]
             g == Gone(h)
  <1>1. h \in Ctl BY CtlIs
  <1>2. Helper(k, g) BY DEF crash
  <1>3. Lighter(h, g) /\ g.st = h.st
    <2> HIDE DEF h
    <2> QED BY <1>1, GoneIs
  <1> HIDE DEF g
  <1> QED BY <1>2, <1>3, HelperOK

LEMMA StepNothing ==
    ASSUME Sound, cl' = cl, ctl' = ctl, lis' = lis, ssl_daemons' = ssl_daemons,
           ssld_count' = ssld_count
    PROVE  Sound'
  <1>1. /\ Here'.cl = Here.cl /\ Here'.lis = Here.lis /\ Here'.ctl = Here.ctl
        /\ Here'.list = Here.list /\ Here'.count = Here.count
    BY HereIs, PrimeIs
  <1>2. AllOK(Here') BY <1>1, AnywhereOK DEF Sound
  <1> QED BY <1>2 DEF Sound

\* Every step keeps the invariant.
LEMMA SoundStep == ASSUME Sound, [Next]_vars PROVE Sound'
  <1>1. CASE UNCHANGED vars BY <1>1, StepNothing DEF vars
  <1>2. CASE ServerNext
    <2>1. CASE \E l \in Ports : accept_callback(l) BY <2>1, StepAccept
    <2>2. CASE serv_connect BY <2>2, StepConnect
    <2>3. CASE \E c \in Clients : serv_connect_ssl_callback(c) BY <2>3, StepConnected
    <2>4. CASE \E c \in Clients : register(c) BY <2>4, StepRegister
    <2>5. CASE \E c \in Clients : \E zip \in BOOLEAN : server_estab(c, zip) BY <2>5, StepServer
    <2>6. CASE \E c \in Clients : Exit(c) BY <2>6, StepExit
    <2>7. CASE check_unknowns_list BY <2>7, StepNothing DEF check_unknowns_list
    <2>8. CASE free_exited_clients BY <2>8, StepFree
    <2>9. CASE \E k \in Ctls : ssl_read_ctl(k) BY <2>9, StepRead
    <2>10. CASE \E k \in Ctls : ssl_do_pipe(k) BY <2>10, StepPipe
    <2>11. CASE \E k \in Ctls : flush(k) BY <2>11, StepFlush
    <2>12. CASE collect_zipstats BY <2>12, StepZipstats
    <2>13. CASE cleanup_dead_ssl BY <2>13, StepCleanup
    <2>14. CASE restart_ssld_event BY <2>14, StepRestart
    <2>15. CASE \E S \in SUBSET Ports, good \in BOOLEAN : rehash(S, good) BY <2>15, StepRehash
    <2> QED BY <1>2, <2>1, <2>2, <2>3, <2>4, <2>5, <2>6, <2>7, <2>8, <2>9, <2>10, <2>11, <2>12,
               <2>13, <2>14, <2>15, Zenon
            DEF ServerNext
  <1>3. CASE HelperNext
    <2>1. CASE \E k \in Ctls : mod_process_cmd_recv(k) BY <2>1, StepCommand
    <2>2. CASE \E k \in Ctls : \E id \in Ids : \E ok \in BOOLEAN : ssl_process_cb(k, id, ok)
      BY <2>2, StepHandshake
    <2>3. CASE \E k \in Ctls : \E id \in Ids : conn_mod_closed(k, id)
      <3>1. PICK k \in Ctls, id \in Ids : conn_mod_closed(k, id) BY <2>3
      <3> DEFINE w == TRUE
      <3>2. w \in BOOLEAN /\ ctl[k].conn[id] # "none" /\ Helper(k, close_conn(ctl[k], id, w))
        BY <3>1 DEF conn_mod_closed
      <3> HIDE DEF w
      <3> QED BY <3>2, StepClosed
    <2>4. CASE \E k \in Ctls : \E id \in Ids : conn_plain_closed(k, id)
      <3>1. PICK k \in Ctls, id \in Ids : conn_plain_closed(k, id) BY <2>4
      <3> DEFINE w == FALSE
      <3>2. w \in BOOLEAN /\ ctl[k].conn[id] # "none" /\ Helper(k, close_conn(ctl[k], id, w))
        BY <3>1 DEF conn_plain_closed
      <3> HIDE DEF w
      <3> QED BY <3>2, StepClosed
    <2>5. CASE \E k \in Ctls : crash(k) BY <2>5, StepCrash
    <2> QED BY <1>3, <2>1, <2>2, <2>3, <2>4, <2>5, Zenon DEF HelperNext
  <1> QED BY <1>1, <1>2, <1>3 DEF Next

-----------------------------------------------------------------------------
(* The initial state, and what the invariant says.                          *)

LEMMA NewCtlIs ==
    /\ NewCtl \in Ctl /\ NewCtl.st = "unused" /\ NewCtl.cli_count = 0
    /\ \A id \in Ids : Copies(NewCtl, id) = 0
  <1> DEFINE g == NewCtl
  <1>1. /\ g \in Ctl /\ g.st = "unused" /\ g.cli_count = 0
        /\ g.writeq = <<>> /\ g.inq = <<>> /\ g.conn = NoConns
    BY NothingCarried DEF NewCtl, Ctl
  <1> HIDE DEF g
  <1>2. ASSUME NEW id \in Ids PROVE Copies(g, id) = 0
    <2>1. Carried(g, id) = 0 BY <1>1, NothingCarried
    <2> QED BY <1>1, <2>1, CopiesAre, TimesNone
  <1> QED BY <1>1, <1>2 DEF g

\* Before the configuration is read there is nothing.
LEMMA BlankOK == AllOK(Blank)
  <1> DEFINE e == Blank
             cs == [c \in Clients |-> NewClient]
             cts == [k \in Ctls |-> NewCtl]
             list == <<>>
             no == FALSE
             ls == [l \in Ports |-> NoListener]
             none == {}
  <1>1. e = Server(cs, none, cts, list, 0, 0, no, no, no, ls) BY DEF Blank
  <1>2. e.cl = cs /\ e.ctl = cts /\ e.list = list /\ e.count = 0 /\ e.lis = ls
    <2> HIDE DEF e, cs, cts, list, no, ls, none
    <2> QED BY <1>1, ServerIs
  <1>3. cs \in [Clients -> Client] /\ \A c \in Clients : cs[c] = NewClient BY NewClientIs
  <1>4. ClientsOK(cs) BY <1>3, NewClientIs DEF ClientsOK, ClientOK
  <1>5. cts \in [Ctls -> Ctl] /\ \A k \in Ctls : cts[k] = NewCtl BY NewCtlIs
  <1> HIDE DEF e, cs, cts
  <1>6. InUse(e) = {} /\ LiveOnes(e) = {} /\ Known(e) = {}
    BY <1>2, <1>5, NewCtlIs DEF InUse, LiveOnes, Known
  <1>7. Cardinality({}) = 0 BY FS_EmptySet
  <1>8. TypesOK(e) BY <1>2, <1>5 DEF TypesOK
  <1>9. \A k \in Ctls : Secures(cs, k) = {} /\ Zips_at(cs, k) = {}
    BY <1>3, NewClientIs, ConstAssumption DEF Secures, Zips_at
  <1>10. \A k \in Ctls : Cardinality(Secures(cs, k)) = 0 /\ Cardinality(Zips_at(cs, k)) = 0
    BY <1>7, <1>9
  <1>11. Counted(cs, e)
    <2>1. \A k \in Ctls : e.ctl[k].cli_count = 0 BY <1>2, <1>5, NewCtlIs
    <2>2. \A k \in Ctls :
            e.ctl[k].cli_count = Cardinality(Secures(cs, k)) + Cardinality(Zips_at(cs, k))
      BY <1>10, <2>1
    <2>3. \A c \in Clients : cs[c].ssl = NULL /\ cs[c].z = NULL BY <1>3, NewClientIs
    <2>4. e.count = Cardinality(LiveOnes(e)) BY <1>2, <1>6, <1>7
    <2> QED BY <2>2, <2>3, <2>4 DEF Counted
  <1>12. Listed(e)
    <2>1. Begun(e) = 0 BY <1>6, <1>7 DEF Begun, Known
    <2>2. 1..0 = {} OBVIOUS
    <2>3. Distinct(list) /\ ToSet(list) = {} BY DEF Distinct, ToSet
    <2> QED BY <1>2, <1>6, <2>1, <2>2, <2>3 DEF Listed
  <1>13. \A id \in Ids, k \in Ctls : Copies(e.ctl[k], id) = 0 BY <1>2, <1>5, NewCtlIs
  <1>14. Single(e) BY <1>13 DEF Single
  <1>15. Placed(cs, e)
    <2>1. ASSUME NEW c \in Clients, NEW what \in {"A", "C", "Z"}, NEW k \in Ctls,
                 Copies(e.ctl[k], <<c, what>>) > 0
          PROVE  FALSE
      <3>1. <<c, what>> \in Ids BY DEF Ids
      <3>2. Copies(e.ctl[k], <<c, what>>) = 0 BY <1>13, <3>1
      <3> QED BY <2>1, <3>2
    <2> QED BY <2>1 DEF Placed
  <1>16. ListenersOK(cs, ls)
    <2>1. NoListener \in Listener /\ NoListener.st = "none" /\ NoListener.ref_count = 0
      BY DEF NoListener, Listener
    <2>2. \A l \in Ports : Came(cs, l) = {} BY <1>3, NewClientIs, ConstAssumption DEF Came
    <2>3. \A l \in Ports : Cardinality(Came(cs, l)) = 0 BY <1>7, <2>2
    <2>4. ls \in [Ports -> Listener] /\ \A l \in Ports : ls[l] = NoListener BY <2>1
    <2> HIDE DEF ls
    <2> QED BY <2>1, <2>3, <2>4 DEF ListenersOK, ListenerOK
  <1>17. HelpersOK(cs, e) BY <1>8, <1>11, <1>12, <1>14, <1>15 DEF HelpersOK
  <1>18. AllOK(e) BY <1>2, <1>4, <1>16, <1>17 DEF AllOK
  <1> QED BY <1>18 DEF e

\* The first configuration is read.
LEMMA SoundInit == ASSUME Init PROVE Sound
  <1> DEFINE ok == TRUE
  <1>1. PICK e \in load_conf_settings(listeners(Blank, Ports), ok) :
          cl = e.cl /\ ctl = e.ctl /\ ssl_daemons = e.list /\ ssld_count = e.count /\ lis = e.lis
    BY DEF Init
  <1> HIDE DEF ok
  <1>2. AllOK(e) BY <1>1, BlankOK, LoadAllOK
  <1>3. AllOK(Here) BY <1>1, <1>2, HereIs, AnywhereOK
  <1> QED BY <1>3 DEF Sound

\* The invariant of the variables themselves.
LEMMA SoundSays ==
    ASSUME Sound
    PROVE  /\ cl \in [Clients -> Client] /\ \A c \in Clients : ClientOK(cl[c])
           /\ \A k \in Ctls :
                ctl[k].cli_count = Cardinality(Secures(cl, k)) + Cardinality(Zips_at(cl, k))
           /\ \A c \in Clients : /\ cl[c].ssl # NULL => cl[c].ssl \in InUse(Here)
                                 /\ cl[c].z # NULL => cl[c].z \in InUse(Here)
           /\ ssld_count = Cardinality(LiveOnes(Here))
           /\ InUse(Here) = {k \in Ctls : ctl[k].st \in {"live", "dead"}}
           /\ LiveOnes(Here) = {k \in Ctls : ctl[k].st = "live"}
           /\ ssl_daemons \in Seq(Ctls) /\ Distinct(ssl_daemons)
           /\ ToSet(ssl_daemons) = InUse(Here)
           /\ \A l \in Ports : ListenerOK(cl, lis, l) /\ lis[l] \in Listener
  <1>1. /\ ClientsOK(cl) /\ ListenersOK(cl, lis) /\ HelpersOK(cl, Here)
    BY HereIs DEF Sound, AllOK
  <1>2. InUse(Here) = {k \in Ctls : ctl[k].st \in {"live", "dead"}}
    BY HereIs DEF InUse
  <1>3. LiveOnes(Here) = {k \in Ctls : ctl[k].st = "live"} BY HereIs DEF LiveOnes
  <1>4. \A k \in Ctls :
          ctl[k].cli_count = Cardinality(Secures(cl, k)) + Cardinality(Zips_at(cl, k))
    BY <1>1, HereIs DEF HelpersOK, Counted
  <1>5. ASSUME NEW c \in Clients
        PROVE  /\ cl[c].ssl # NULL => cl[c].ssl \in InUse(Here)
               /\ cl[c].z # NULL => cl[c].z \in InUse(Here)
    <2>1. ClientOK(cl[c]) /\ cl[c] \in Client BY <1>1 DEF ClientsOK
    <2>2. cl[c].link = "zip" \/ cl[c].z = NULL BY <2>1 DEF ClientOK, Client
    <2> QED BY <1>1, <2>2 DEF HelpersOK, Counted
  <1>6. ssld_count = Cardinality(LiveOnes(Here)) BY <1>1, HereIs DEF HelpersOK, Counted
  <1>7. ssl_daemons \in Seq(Ctls) /\ Distinct(ssl_daemons) /\ ToSet(ssl_daemons) = InUse(Here)
    BY <1>1, HereIs DEF HelpersOK, TypesOK, Listed
  <1>8. \A l \in Ports : ListenerOK(cl, lis, l) /\ lis[l] \in Listener BY <1>1 DEF ListenersOK
  <1> QED BY <1>1, <1>2, <1>3, <1>4, <1>5, <1>6, <1>7, <1>8 DEF ClientsOK

\* Who is counted exists.
LEMMA Exist ==
    ASSUME Sound, NEW c \in Clients, cl[c].ssl # NULL \/ cl[c].link = "zip" \/ cl[c].listener # NULL
    PROVE  c \in Existing
  <1>1. cl[c] \in Client /\ ClientOK(cl[c]) BY SoundSays
  <1>2. cl[c].st \in {"unused", "unknown", "connecting", "handshake", "client", "server", "dead",
                      "freed"}
    BY <1>1 DEF Client
  <1>3. cl[c].st \notin {"unused", "freed"} BY <1>1 DEF ClientOK
  <1> QED BY <1>2, <1>3 DEF Existing, Open, Unregistered

\* The invariant implies the properties.
LEMMA SoundCounts == ASSUME Sound PROVE CountsRight
  <1>1. ASSUME NEW k \in Ctls
        PROVE  ctl[k].cli_count = Cardinality({c \in Existing : cl[c].ssl = k})
                 + Cardinality({c \in Existing : cl[c].link = "zip" /\ cl[c].z = k})
    <2>1. k # NULL BY ConstAssumption
    <2>2. Existing \subseteq Clients BY DEF Existing
    <2>3. Secures(cl, k) = {c \in Existing : cl[c].ssl = k} BY <2>1, <2>2, Exist DEF Secures
    <2>4. Zips_at(cl, k) = {c \in Existing : cl[c].link = "zip" /\ cl[c].z = k}
      BY <2>1, <2>2, Exist DEF Zips_at
    <2>5. ctl[k].cli_count = Cardinality(Secures(cl, k)) + Cardinality(Zips_at(cl, k)) BY SoundSays
    <2> QED BY <2>3, <2>4, <2>5
  <1>2. ssld_count = Cardinality({k \in Ctls : ctl[k].st = "live"}) BY SoundSays
  <1> QED BY <1>1, <1>2 DEF CountsRight

LEMMA SoundHeld == ASSUME Sound PROVE NothingFreedInUse
  <1>1. CtlHeld
    <2>1. ASSUME NEW c \in Existing, NEW k \in {cl[c].ssl, cl[c].z} \ {NULL}
          PROVE  ctl[k].st \in {"live", "dead"}
      <3>1. c \in Clients BY DEF Existing
      <3>2. k \in InUse(Here) BY <3>1, SoundSays
      <3> QED BY <3>2, HereIs DEF InUse
    <2>2. IsInjective(ssl_daemons)
      <3>1. DOMAIN ssl_daemons = 1..Len(ssl_daemons) /\ Distinct(ssl_daemons) BY SoundSays
      <3> QED BY <3>1 DEF Distinct, IsInjective
    <2>3. ToSet(ssl_daemons) = {k \in Ctls : ctl[k].st \in {"live", "dead"}} BY SoundSays
    <2> QED BY <2>1, <2>2, <2>3 DEF CtlHeld
  <1>2. ASSUME NEW l \in Ports
        PROVE  LET users == {c \in Existing : cl[c].listener = l}
               IN  /\ lis[l].ref_count = Cardinality(users)
                   /\ (lis[l].st # "none") <=> (users # {} \/ lis[l].st = "open")
    <2> DEFINE users == {c \in Existing : cl[c].listener = l}
    <2>1. l # NULL /\ Existing \subseteq Clients BY ConstAssumption DEF Existing
    <2>2. Came(cl, l) = users BY <2>1, Exist DEF Came
    <2>3. users \subseteq Clients BY <2>1
    <2>4. ListenerOK(cl, lis, l) /\ lis[l] \in Listener BY SoundSays
    <2> HIDE DEF users
    <2>5. lis[l].ref_count = Cardinality(users) BY <2>2, <2>4 DEF ListenerOK
    <2>6. (users = {}) <=> (Cardinality(users) = 0) BY <2>3, ClientsFinite, FS_EmptySet
    <2>7. lis[l].st \in {"none", "open", "closed"} BY <2>4 DEF Listener
    <2>8. (lis[l].st # "none") <=> (users # {} \/ lis[l].st = "open")
      BY <2>4, <2>5, <2>6, <2>7 DEF ListenerOK
    <2> QED BY <2>5, <2>8 DEF users
  <1>3. ListenerHeld BY <1>2 DEF ListenerHeld
  <1> QED BY <1>1, <1>3 DEF NothingFreedInUse

LEMMA SoundHolder == ASSUME Sound PROVE OneHolder
  <1>1. /\ Single(Here) /\ Placed(cl, Here) /\ Here.ctl = ctl
    BY HereIs DEF Sound, AllOK, HelpersOK
  <1>2. ASSUME NEW id \in Ids
        PROVE  LET c == id[1]
                   holders == {k \in Ctls : Copies(ctl[k], id) > 0}
               IN /\ Cardinality(holders) <= 1
                  /\ \A k \in holders :
                        /\ Copies(ctl[k], id) = 1
                        /\ c \in Existing => k = IF id[2] = "Z" THEN cl[c].z ELSE cl[c].ssl
    <2> DEFINE c == id[1]
               what == id[2]
               holders == {k \in Ctls : Copies(ctl[k], id) > 0}
    <2>1. c \in Clients /\ what \in {"A", "C", "Z"} /\ id = <<c, what>> BY DEF Ids
    <2>2. \A k \in Ctls : /\ Copies(ctl[k], id) \in Nat /\ Copies(ctl[k], id) <= 1
                          /\ \A h \in Ctls : h # k => Copies(ctl[k], id) = 0 \/ Copies(ctl[h], id) = 0
      BY <1>1 DEF Single
    <2>3. Cardinality(holders) <= 1
      <3>1. CASE holders = {} BY <3>1, FS_EmptySet
      <3>2. CASE holders # {}
        <4>1. PICK k \in holders : TRUE BY <3>2
        <4>2. holders = {k} BY <2>2, <4>1
        <4> HIDE DEF holders
        <4>3. Cardinality(holders) = 1 BY <4>2, FS_Singleton
        <4> QED BY <4>3
      <3> QED BY <3>1, <3>2
    <2>4. ASSUME NEW k \in holders
          PROVE  /\ Copies(ctl[k], id) = 1
                 /\ c \in Existing => k = IF what = "Z" THEN cl[c].z ELSE cl[c].ssl
      <3>1. k \in Ctls /\ Copies(ctl[k], id) > 0 OBVIOUS
      <3>2. Copies(ctl[k], id) = 1 BY <2>2, <3>1
      <3>3. Copies(Here.ctl[k], <<c, what>>) > 0 BY <1>1, <2>1, <3>1
      <3> HIDE DEF c, what
      <3>4. Fits(cl[c], what, k) BY <1>1, <2>1, <3>1, <3>3 DEF Placed
      <3>5. c \in Existing => cl[c].st # "freed" BY DEF Existing, Open, Unregistered
      <3> QED BY <3>2, <3>4, <3>5 DEF Fits
    <2> QED BY <2>3, <2>4
  <1> QED BY <1>2 DEF OneHolder

\* The invariant of clients, listeners and helpers (sslproc.c, listener.c) holds
\* whatever dies, exits, is freed or is read again, and in whatever order.
THEOREM SoundAlways == Spec => []Sound
  <1>1. Init => Sound BY SoundInit
  <1>2. Sound /\ [Next]_vars => Sound' BY SoundStep
  <1> QED BY <1>1, <1>2, PTL DEF Spec

\* A helper's cli_count is the number of clients that will give it back, and
\* ssld_count that of the helpers not dead (ssld_decrement_clicount(),
\* get_ssld_count()), for any numbers of clients, helpers and listeners.
THEOREM CountsRightAlways == Spec => []CountsRight
  <1>1. Sound => CountsRight BY SoundCounts
  <1> QED BY <1>1, SoundAlways, PTL

\* No client points to a helper or a listener that was freed, and none of them
\* outlives its last client once it is dead or closed (free_ssl_daemon(),
\* free_listener()).
THEOREM NothingFreedInUseAlways == Spec => []NothingFreedInUse
  <1>1. Sound => NothingFreedInUse BY SoundHeld
  <1> QED BY <1>1, SoundAlways, PTL

\* A descriptor given to a helper is in one place: a command not sent, one under
\* way or a connection, at the helper the client is counted at (start_ssld_accept(),
\* start_ssld_connect(), start_zlib_session()).
THEOREM OneHolderAlways == Spec => []OneHolder
  <1>1. Sound => OneHolder BY SoundHolder
  <1> QED BY <1>1, SoundAlways, PTL

=============================================================================
